----------------------------- MODULE KeysProofs -----------------------------
(***************************************************************************)
(* Proofs about a subject's keys on one node.                              *)
(*                                                                         *)
(* RevocationSync, for every set of subjects, requests and reading tasks   *)
(* and every window: the denylist's stamp never claims more than the set   *)
(* holds, no read undoes a local revoke, and a peer's is in the set one    *)
(* window after the store last gave trouble.                               *)
(*                                                                         *)
(* SelfKeys, for any number of epochs, mints, admin operations, failing    *)
(* store calls and restarts: what was revoked or replaced stays dead, and  *)
(* at rest the cache is what the store holds.                              *)
(***************************************************************************)
EXTENDS RevocationSync, SelfKeys, TLAPS


\* What a reading task knows: it was asked for in the past, once its listing is
\* in hand the listing has everything stored before that time, and once that is
\* merged the set has.
ReaderKnows(t) ==
    /\ reader[t].pc # "idle" => reader[t].now <= clock
    /\ reader[t].pc = "merge" => \A s \in Subs : stored[s] < reader[t].now => s \in reader[t].subs
    /\ reader[t].pc = "stamp" => \A s \in Subs : stored[s] < reader[t].now => s \in denied

\* No time that anyone carries is in the future.
TimesPast ==
    /\ syncedAt <= clock
    /\ \A c \in Callers : caller[c].pc # "idle" => caller[c].now <= clock

\* The inductive invariant.
SyncInv ==
    /\ TypeOK
    /\ TimesPast
    /\ \A t \in Slots : ReaderKnows(t)
    /\ SyncedMeansSeen
    /\ LocalRevokeSticks

-----------------------------------------------------------------------------
\* The shape of a request's and of a task's record, from its step.
LEMMA CallerRecord ==
    ASSUME TypeOK, NEW c \in Callers, caller[c].pc # "idle"
    PROVE  caller[c] \in CallerStates
BY DEF TypeOK, Idle

\* The same of a task's.
LEMMA ReaderRecord ==
    ASSUME TypeOK, NEW t \in Slots, reader[t].pc # "idle"
    PROVE  reader[t] \in ReaderStates
BY DEF TypeOK, Idle

\* A function updated at a point of its domain with a value of its range.
LEMMA Update ==
    ASSUME NEW S, NEW T, NEW f \in [S -> T], NEW x \in S, NEW v \in T
    PROVE  [f EXCEPT ![x] = v] \in [S -> T]
OBVIOUS

\* Type correctness is preserved by every step of refresh_if_stale,
\* refresh_blocking, revoke and the clock.
LEMMA TypeStep ==
    ASSUME TypeOK, [Next]_vars
    PROVE  TypeOK'
<1> USE SyncAssumption DEF Never, Times, CallerStates, ReaderStates
<1>1. CASE Tick
  <2>1. clock' \in Times /\ calm' \in 0..Never
    BY <1>1 DEF Tick, TypeOK
  <2>2. served' \in BOOLEAN /\ failed' \in BOOLEAN
    BY <1>1 DEF Tick
  <2> QED
    BY <1>1, <2>1, <2>2, Zenon DEF Tick, TypeOK
<1>2. ASSUME NEW c \in Callers, Arrive(c) PROVE TypeOK'
  BY <1>2 DEF TypeOK, Arrive, Idle
<1>3. ASSUME NEW c \in Callers, LoadSynced(c) PROVE TypeOK'
  <2>1. caller[c] \in CallerStates
    BY <1>3, CallerRecord DEF LoadSynced
  <2>2. caller' \in [Callers -> {Idle} \cup CallerStates]
    <3> DEFINE moved == [caller[c] EXCEPT !.pc = "attempted", !.seen = attemptedAt]
    <3>1. moved \in CallerStates
      BY <2>1, <1>3 DEF TypeOK
    <3>2. caller' = [caller EXCEPT ![c] = Idle] \/ caller' = [caller EXCEPT ![c] = moved]
      BY <1>3, <2>1 DEF LoadSynced, Leave, TypeOK
    <3>3. caller \in [Callers -> {Idle} \cup CallerStates]
      BY DEF TypeOK
    <3> HIDE DEF moved
    <3> QED
      BY <3>1, <3>2, <3>3, Update
  <2>4. served' \in BOOLEAN
    BY <1>3 DEF LoadSynced, TypeOK, Leave
  <2> QED
    BY <1>3, <2>4, <2>2 DEF LoadSynced, TypeOK
<1>4. ASSUME NEW c \in Callers, ClaimWindow(c) PROVE TypeOK'
  <2>1. caller[c] \in CallerStates
    BY <1>4, CallerRecord DEF ClaimWindow
  <2>2. caller' \in [Callers -> {Idle} \cup CallerStates]
    <3> DEFINE moved == [caller[c] EXCEPT !.pc = "claim"]
    <3>1. moved \in CallerStates
      BY <2>1, <1>4 DEF TypeOK
    <3>2. caller' = [caller EXCEPT ![c] = Idle] \/ caller' = [caller EXCEPT ![c] = moved]
      BY <1>4, <2>1 DEF ClaimWindow, Leave, TypeOK
    <3>3. caller \in [Callers -> {Idle} \cup CallerStates]
      BY DEF TypeOK
    <3> HIDE DEF moved
    <3> QED
      BY <3>1, <3>2, <3>3, Update
  <2>4. served' \in BOOLEAN
    BY <1>4 DEF ClaimWindow, TypeOK, Leave
  <2>3. attemptedAt' \in Times
    BY <1>4, <2>1 DEF ClaimWindow, TypeOK
  <2> QED
    BY <1>4, <2>4, <2>2, <2>3 DEF ClaimWindow, TypeOK
<1>5. ASSUME NEW c \in Callers, ClaimRead(c) PROVE TypeOK'
  <2>1. caller[c] \in CallerStates
    BY <1>5, CallerRecord DEF ClaimRead
  <2>2. caller' \in [Callers -> {Idle} \cup CallerStates] /\ served' \in BOOLEAN
    BY <1>5, <2>1 DEF ClaimRead, TypeOK, Leave
  <2>3. reader' \in [Slots -> {Idle} \cup ReaderStates] /\ inflight' \in BOOLEAN
    <3> DEFINE asked == [pc |-> "list", now |-> caller[c].now, subs |-> {}]
    <3>1. asked \in ReaderStates
      BY <2>1
    <3>2. \/ reader' = reader /\ inflight' = inflight
          \/ inflight' = TRUE /\ \E t \in Slots : reader' = [reader EXCEPT ![t] = asked]
      BY <1>5 DEF ClaimRead
    <3>3. reader \in [Slots -> {Idle} \cup ReaderStates] /\ inflight \in BOOLEAN
      BY DEF TypeOK
    <3> HIDE DEF asked
    <3>4. reader' \in [Slots -> {Idle} \cup ReaderStates]
      <4>1. CASE reader' = reader
        BY <4>1, <3>3
      <4>2. ASSUME NEW t \in Slots, reader' = [reader EXCEPT ![t] = asked]
            PROVE  reader' \in [Slots -> {Idle} \cup ReaderStates]
        BY <4>2, <3>1, <3>3, Update
      <4> QED
        BY <3>2, <4>1, <4>2
    <3> QED
      BY <3>2, <3>3, <3>4
  <2> QED
    BY <1>5, <2>2, <2>3 DEF ClaimRead, TypeOK
<1>6. ASSUME NEW t \in Slots, Listed(t) PROVE TypeOK'
  <2>1. reader[t] \in ReaderStates /\ InStore \in SUBSET Subs
    BY <1>6, ReaderRecord DEF Listed, InStore
  <2>2. [reader[t] EXCEPT !.pc = "merge", !.subs = InStore] \in {Idle} \cup ReaderStates
    BY <2>1 DEF ReaderStates
  <2>3. reader' = [reader EXCEPT ![t] = [reader[t] EXCEPT !.pc = "merge", !.subs = InStore]]
    BY <1>6 DEF Listed
  <2>4. reader \in [Slots -> {Idle} \cup ReaderStates]
    BY DEF TypeOK
  <2>5. reader' \in [Slots -> {Idle} \cup ReaderStates]
    BY <2>2, <2>3, <2>4
  <2> QED
    BY <1>6, <2>5 DEF TypeOK, Listed
<1>7. ASSUME NEW t \in Slots, ListFailed(t) PROVE TypeOK'
  BY <1>7, ReaderRecord DEF TypeOK, ListFailed, Idle
<1>8. ASSUME NEW t \in Slots, Merge(t) PROVE TypeOK'
  BY <1>8, ReaderRecord DEF TypeOK, Merge
<1>9. ASSUME NEW t \in Slots, Stamp(t) PROVE TypeOK'
  BY <1>9, ReaderRecord DEF TypeOK, Stamp, Idle
<1>10. ASSUME NEW s \in Subs, PeerRevoke(s) PROVE TypeOK'
  BY <1>10 DEF TypeOK, PeerRevoke
<1>11. ASSUME NEW s \in Subs, RevokeWrite(s) PROVE TypeOK'
  BY <1>11 DEF TypeOK, RevokeWrite
<1>12. ASSUME NEW s \in Subs, Insert(s) PROVE TypeOK'
  BY <1>12 DEF TypeOK, Insert
<1>13. CASE UNCHANGED vars
  BY <1>13 DEF TypeOK, vars
<1> QED
  BY <1>1, <1>2, <1>3, <1>4, <1>5, <1>6, <1>7, <1>8, <1>9, <1>10, <1>11, <1>12, <1>13 DEF Next

-----------------------------------------------------------------------------
\* Every time is taken from the clock, which does not go back.
LEMMA TimesStep ==
    ASSUME SyncInv, [Next]_vars
    PROVE  TimesPast'
<1> USE SyncAssumption DEF Never, Times, CallerStates, ReaderStates, Idle, SyncInv, TypeOK,
        TimesPast, ReaderKnows
<1>1. CASE Tick
  BY <1>1 DEF Tick
<1>2. ASSUME NEW c \in Callers, Arrive(c) PROVE TimesPast'
  BY <1>2 DEF Arrive
<1>3. ASSUME NEW c \in Callers, LoadSynced(c) PROVE TimesPast'
  BY <1>3 DEF LoadSynced, Leave
<1>4. ASSUME NEW c \in Callers, ClaimWindow(c) PROVE TimesPast'
  BY <1>4 DEF ClaimWindow, Leave
<1>5. ASSUME NEW c \in Callers, ClaimRead(c) PROVE TimesPast'
  BY <1>5 DEF ClaimRead, Leave
<1>6. ASSUME NEW t \in Slots, Listed(t) PROVE TimesPast'
  BY <1>6 DEF Listed
<1>7. ASSUME NEW t \in Slots, ListFailed(t) PROVE TimesPast'
  BY <1>7 DEF ListFailed
<1>8. ASSUME NEW t \in Slots, Merge(t) PROVE TimesPast'
  BY <1>8 DEF Merge
<1>9. ASSUME NEW t \in Slots, Stamp(t) PROVE TimesPast'
  BY <1>9 DEF Stamp
<1>10. ASSUME NEW s \in Subs, PeerRevoke(s) PROVE TimesPast'
  BY <1>10 DEF PeerRevoke
<1>11. ASSUME NEW s \in Subs, RevokeWrite(s) PROVE TimesPast'
  BY <1>11 DEF RevokeWrite
<1>12. ASSUME NEW s \in Subs, Insert(s) PROVE TimesPast'
  BY <1>12 DEF Insert
<1>13. CASE UNCHANGED vars
  BY <1>13 DEF vars
<1> QED
  BY <1>1, <1>2, <1>3, <1>4, <1>5, <1>6, <1>7, <1>8, <1>9, <1>10, <1>11, <1>12, <1>13 DEF Next

\* Only Stamp moves the stamp, and it moves it to what its task has merged.
LEMMA SeenStep ==
    ASSUME SyncInv, [Next]_vars
    PROVE  SyncedMeansSeen'
<1> USE SyncAssumption DEF Never, Times, CallerStates, ReaderStates, Idle, SyncInv, TypeOK,
        TimesPast, ReaderKnows, SyncedMeansSeen
<1>1. CASE Tick
  BY <1>1 DEF Tick
<1>2. ASSUME NEW c \in Callers, Arrive(c) PROVE SyncedMeansSeen'
  BY <1>2 DEF Arrive
<1>3. ASSUME NEW c \in Callers, LoadSynced(c) PROVE SyncedMeansSeen'
  BY <1>3 DEF LoadSynced, Leave
<1>4. ASSUME NEW c \in Callers, ClaimWindow(c) PROVE SyncedMeansSeen'
  BY <1>4 DEF ClaimWindow, Leave
<1>5. ASSUME NEW c \in Callers, ClaimRead(c) PROVE SyncedMeansSeen'
  BY <1>5 DEF ClaimRead, Leave
<1>6. ASSUME NEW t \in Slots, Listed(t) PROVE SyncedMeansSeen'
  BY <1>6 DEF Listed
<1>7. ASSUME NEW t \in Slots, ListFailed(t) PROVE SyncedMeansSeen'
  BY <1>7 DEF ListFailed
<1>8. ASSUME NEW t \in Slots, Merge(t) PROVE SyncedMeansSeen'
  BY <1>8 DEF Merge
<1>9. ASSUME NEW t \in Slots, Stamp(t) PROVE SyncedMeansSeen'
  BY <1>9 DEF Stamp
<1>10. ASSUME NEW s \in Subs, PeerRevoke(s) PROVE SyncedMeansSeen'
  BY <1>10 DEF PeerRevoke
<1>11. ASSUME NEW s \in Subs, RevokeWrite(s) PROVE SyncedMeansSeen'
  BY <1>11 DEF RevokeWrite
<1>12. ASSUME NEW s \in Subs, Insert(s) PROVE SyncedMeansSeen'
  BY <1>12 DEF Insert
<1>13. CASE UNCHANGED vars
  BY <1>13 DEF vars
<1> QED
  BY <1>1, <1>2, <1>3, <1>4, <1>5, <1>6, <1>7, <1>8, <1>9, <1>10, <1>11, <1>12, <1>13 DEF Next

\* Nothing is ever taken out of the set.
LEMMA SticksStep ==
    ASSUME SyncInv, [Next]_vars
    PROVE  LocalRevokeSticks'
<1> USE SyncAssumption DEF Never, Times, CallerStates, ReaderStates, Idle, SyncInv, TypeOK,
        TimesPast, LocalRevokeSticks
<1>1. CASE Tick
  BY <1>1 DEF Tick
<1>2. ASSUME NEW c \in Callers, Arrive(c) PROVE LocalRevokeSticks'
  BY <1>2 DEF Arrive
<1>3. ASSUME NEW c \in Callers, LoadSynced(c) PROVE LocalRevokeSticks'
  BY <1>3 DEF LoadSynced, Leave
<1>4. ASSUME NEW c \in Callers, ClaimWindow(c) PROVE LocalRevokeSticks'
  BY <1>4 DEF ClaimWindow, Leave
<1>5. ASSUME NEW c \in Callers, ClaimRead(c) PROVE LocalRevokeSticks'
  BY <1>5 DEF ClaimRead, Leave
<1>6. ASSUME NEW t \in Slots, Listed(t) PROVE LocalRevokeSticks'
  BY <1>6 DEF Listed
<1>7. ASSUME NEW t \in Slots, ListFailed(t) PROVE LocalRevokeSticks'
  BY <1>7 DEF ListFailed
<1>8. ASSUME NEW t \in Slots, Merge(t) PROVE LocalRevokeSticks'
  BY <1>8 DEF Merge
<1>9. ASSUME NEW t \in Slots, Stamp(t) PROVE LocalRevokeSticks'
  BY <1>9 DEF Stamp
<1>10. ASSUME NEW s \in Subs, PeerRevoke(s) PROVE LocalRevokeSticks'
  BY <1>10 DEF PeerRevoke
<1>11. ASSUME NEW s \in Subs, RevokeWrite(s) PROVE LocalRevokeSticks'
  BY <1>11 DEF RevokeWrite
<1>12. ASSUME NEW s \in Subs, Insert(s) PROVE LocalRevokeSticks'
  BY <1>12 DEF Insert
<1>13. CASE UNCHANGED vars
  BY <1>13 DEF vars
<1> QED
  BY <1>1, <1>2, <1>3, <1>4, <1>5, <1>6, <1>7, <1>8, <1>9, <1>10, <1>11, <1>12, <1>13 DEF Next

\* What a task knows stays true: a subject stored later is stored at the clock,
\* which is not before the time the task carries.
LEMMA KnowsStep ==
    ASSUME SyncInv, [Next]_vars, NEW t \in Slots
    PROVE  ReaderKnows(t)'
<1> USE SyncAssumption DEF Never, Times, CallerStates, ReaderStates, Idle, SyncInv, TypeOK,
        TimesPast, ReaderKnows
<1>1. CASE Tick
  BY <1>1 DEF Tick
<1>2. ASSUME NEW c \in Callers, Arrive(c) PROVE ReaderKnows(t)'
  BY <1>2 DEF Arrive
<1>3. ASSUME NEW c \in Callers, LoadSynced(c) PROVE ReaderKnows(t)'
  BY <1>3 DEF LoadSynced, Leave
<1>4. ASSUME NEW c \in Callers, ClaimWindow(c) PROVE ReaderKnows(t)'
  BY <1>4 DEF ClaimWindow, Leave
<1>5. ASSUME NEW c \in Callers, ClaimRead(c) PROVE ReaderKnows(t)'
  BY <1>5 DEF ClaimRead, Leave
<1>6. ASSUME NEW k \in Slots, Listed(k) PROVE ReaderKnows(t)'
  BY <1>6 DEF Listed, InStore
<1>7. ASSUME NEW k \in Slots, ListFailed(k) PROVE ReaderKnows(t)'
  BY <1>7 DEF ListFailed
<1>8. ASSUME NEW k \in Slots, Merge(k) PROVE ReaderKnows(t)'
  BY <1>8 DEF Merge
<1>9. ASSUME NEW k \in Slots, Stamp(k) PROVE ReaderKnows(t)'
  BY <1>9 DEF Stamp
<1>10. ASSUME NEW s \in Subs, PeerRevoke(s) PROVE ReaderKnows(t)'
  BY <1>10 DEF PeerRevoke
<1>11. ASSUME NEW s \in Subs, RevokeWrite(s) PROVE ReaderKnows(t)'
  BY <1>11 DEF RevokeWrite
<1>12. ASSUME NEW s \in Subs, Insert(s) PROVE ReaderKnows(t)'
  BY <1>12 DEF Insert
<1>13. CASE UNCHANGED vars
  BY <1>13 DEF vars
<1> QED
  BY <1>1, <1>2, <1>3, <1>4, <1>5, <1>6, <1>7, <1>8, <1>9, <1>10, <1>11, <1>12, <1>13 DEF Next

-----------------------------------------------------------------------------
\* SyncInv is inductive.
LEMMA SyncInvariant == Spec => []SyncInv
<1>1. Init => SyncInv
  <2> SUFFICES ASSUME Init PROVE SyncInv
    OBVIOUS
  <2> USE SyncAssumption DEF Init
  <2>1. inflight \in BOOLEAN /\ served \in BOOLEAN /\ failed \in BOOLEAN
    OBVIOUS
  <2>2. caller \in [Callers -> {Idle} \cup CallerStates]
        /\ reader \in [Slots -> {Idle} \cup ReaderStates]
    OBVIOUS
  <2>3. TypeOK
    BY <2>1, <2>2 DEF TypeOK, Never, Times
  <2>4. TimesPast /\ \A t \in Slots : ReaderKnows(t)
    BY DEF TimesPast, ReaderKnows, Idle
  <2>5. SyncedMeansSeen /\ LocalRevokeSticks
    BY DEF SyncedMeansSeen, LocalRevokeSticks, Never
  <2> QED
    BY <2>3, <2>4, <2>5 DEF SyncInv
<1>2. ASSUME SyncInv, [Next]_vars PROVE SyncInv'
  <2>1. TypeOK'
    BY <1>2, TypeStep DEF SyncInv
  <2>2. \A t \in Slots : ReaderKnows(t)'
    BY <1>2, KnowsStep
  <2> QED
    BY <1>2, <2>1, <2>2, TimesStep, SeenStep, SticksStep DEF SyncInv
<1> QED
  BY <1>1, <1>2, PTL DEF Spec

\* Every variable of the denylist and of its re-sync keeps its type.
THEOREM TypeCorrect == Spec => []TypeOK
BY SyncInvariant, PTL DEF SyncInv

\* The stamp that refresh_if_stale trusts is the truth: whatever the store had
\* before syncedAt is in the set, for any number of requests and outstanding
\* reads, failed, late or overtaken.
THEOREM StampIsTruth == Spec => []SyncedMeansSeen
BY SyncInvariant, PTL DEF SyncInv

\* A revoke that has returned is enforced from then on: refresh_blocking joins
\* what it read to the set and never replaces it.
THEOREM RevokeSticks == Spec => []LocalRevokeSticks
BY SyncInvariant, PTL DEF SyncInv

-----------------------------------------------------------------------------
(***************************************************************************)
(* A peer's revocation becomes visible.                                    *)
(***************************************************************************)
\* The current second follows a good one: nothing was under way as it began.
Settled == calm < clock

\* So whoever is inside has come in this second, for a second that is settled.
InSecond ==
    Settled => /\ \A c \in Callers : caller[c].pc # "idle" => caller[c].now = clock
               /\ \A t \in Slots : reader[t].pc # "idle" => reader[t].now = clock

\* A caller that has seen an older attempt has lost the window to one of this
\* second, and the one that holds the window made the attempt.
Attempting ==
    /\ attemptedAt <= clock
    /\ Settled => \A c \in Callers :
         /\ caller[c].pc = "attempted" => caller[c].seen = attemptedAt \/ attemptedAt = clock
         /\ caller[c].pc = "claim" => attemptedAt = clock

\* The bound on outstanding reads is held by a read.
Outstanding == inflight => \E t \in Slots : reader[t].pc = "list"

\* An attempt made since the calm began has moved the stamp, has failed, or is
\* still under way in its second.
Answered ==
    calm < attemptedAt =>
        \/ attemptedAt <= syncedAt
        \/ /\ attemptedAt = clock
           /\ \/ failed
              \/ \E c \in Callers : caller[c].pc = "claim"
              \/ \E t \in Slots : reader[t].pc # "idle"

\* A request is let through a recent stamp or a recent attempt only.
Served == Settled /\ served => clock < syncedAt + Ttl \/ clock < attemptedAt + Ttl

\* One window into the calm the stamp is never older than a window.
StampRecent == calm + Ttl < clock => clock <= syncedAt + Ttl

SettledInv ==
    InSecond /\ Attempting /\ Outstanding /\ Answered /\ Served /\ StampRecent

-----------------------------------------------------------------------------
\* The requests and the reads are functions.
LEMMA Kept ==
    ASSUME SyncInv
    PROVE  /\ caller \in [Callers -> {Idle} \cup CallerStates]
           /\ reader \in [Slots -> {Idle} \cup ReaderStates]
BY DEF SyncInv, TypeOK

\* The clock: a good second leaves nothing behind, a bad one ends the calm.
LEMMA TickSettled ==
    ASSUME SyncInv, SettledInv, Tick
    PROVE  SettledInv'
<1> USE SyncAssumption
<1>1. /\ clock' = clock + 1 /\ clock \in Nat /\ Ttl \in Nat \ {0} /\ syncedAt \in Nat
      /\ attemptedAt \in Nat /\ calm \in Nat /\ ~served' /\ ~failed'
      /\ UNCHANGED <<syncedAt, attemptedAt, inflight, caller, reader>>
      /\ attemptedAt <= clock
  BY DEF Tick, SyncInv, TypeOK, Times, Never, SettledInv, Attempting
<1>2. CASE GoodSecond
  <2>1. /\ calm' = calm /\ served /\ ~failed
        /\ \A c \in Callers : caller[c].pc = "idle"
        /\ \A t \in Slots : reader[t].pc = "idle"
    BY <1>2 DEF Tick, GoodSecond, Idle
  <2>2. InSecond' /\ Outstanding'
    BY <1>1, <2>1 DEF InSecond, Outstanding, SettledInv
  <2>3. Attempting' /\ Served'
    BY <1>1, <2>1 DEF Attempting, Served
  <2>4. calm < attemptedAt => attemptedAt <= syncedAt
    BY <2>1 DEF SettledInv, Answered
  <2>5. Answered'
    BY <1>1, <2>1, <2>4 DEF Answered
  <2>6. StampRecent'
    <3>1. calm + Ttl <= clock => clock < syncedAt + Ttl
      BY <1>1, <2>1, <2>4 DEF SettledInv, Served, Settled
    <3> QED
      BY <1>1, <2>1, <3>1 DEF StampRecent
  <2> QED
    BY <2>2, <2>3, <2>5, <2>6 DEF SettledInv
<1>3. CASE ~GoodSecond
  <2>1. calm' = clock + 1
    BY <1>3 DEF Tick
  <2>2. ~Settled' /\ StampRecent' /\ Answered'
    BY <1>1, <2>1 DEF Settled, StampRecent, Answered
  <2>3. Outstanding'
    BY <1>1 DEF Outstanding, SettledInv
  <2> QED
    BY <1>1, <2>2, <2>3 DEF SettledInv, InSecond, Attempting, Served
<1> QED
  BY <1>2, <1>3

\* A request comes in.
LEMMA ArriveSettled ==
    ASSUME SyncInv, SettledInv, NEW c \in Callers, Arrive(c)
    PROVE  SettledInv'
<1>1. /\ caller'[c] = [pc |-> "synced", now |-> clock, seen |-> 0] /\ caller[c].pc = "idle"
      /\ \A d \in Callers : d # c => caller'[d] = caller[d]
  BY Kept DEF Arrive, Idle
<1>2. UNCHANGED <<clock, syncedAt, attemptedAt, inflight, reader, calm, served, failed>>
  BY DEF Arrive
<1>3. InSecond' /\ Attempting'
  BY <1>1, <1>2 DEF SettledInv, InSecond, Attempting, Settled
<1>4. Answered'
  BY <1>1, <1>2 DEF SettledInv, Answered
<1> QED
  BY <1>2, <1>3, <1>4 DEF SettledInv, Outstanding, Served, StampRecent, Settled

\* A request reads the two stamps.
LEMMA LoadSettled ==
    ASSUME SyncInv, SettledInv, NEW c \in Callers, LoadSynced(c)
    PROVE  SettledInv'
<1>1. /\ caller[c] \in CallerStates /\ caller[c].pc = "synced"
  BY CallerRecord DEF LoadSynced, SyncInv
<1>2. UNCHANGED <<clock, syncedAt, attemptedAt, inflight, reader, calm, failed>>
  BY DEF LoadSynced
<1>3. /\ caller'[c].pc # "idle" => caller'[c].now = caller[c].now
      /\ caller'[c].pc = "attempted" => caller'[c].seen = attemptedAt
      /\ caller'[c].pc \in {"attempted", "idle"}
      /\ \A d \in Callers : d # c => caller'[d] = caller[d]
  <2> DEFINE moved == [caller[c] EXCEPT !.pc = "attempted", !.seen = attemptedAt]
  <2>1. caller' = [caller EXCEPT ![c] = Idle] \/ caller' = [caller EXCEPT ![c] = moved]
    BY Kept DEF LoadSynced, Leave
  <2>2. moved.pc = "attempted" /\ moved.seen = attemptedAt /\ moved.now = caller[c].now
    BY <1>1 DEF CallerStates
  <2> HIDE DEF moved
  <2>3. CASE caller' = [caller EXCEPT ![c] = Idle]
    BY <2>3, Kept DEF Idle
  <2>4. CASE caller' = [caller EXCEPT ![c] = moved]
    BY <2>2, <2>4, Kept
  <2> QED
    BY <2>1, <2>3, <2>4
<1>4. InSecond' /\ Attempting'
  BY <1>1, <1>2, <1>3 DEF SettledInv, InSecond, Attempting, Settled
<1>5. Answered'
  BY <1>1, <1>2, <1>3 DEF SettledInv, Answered
<1>6. Served'
  <2>1. CASE UNCHANGED served
    BY <1>2, <2>1 DEF SettledInv, Served, Settled
  <2>2. CASE Fresh(caller[c].now, syncedAt)
    BY <1>1, <1>2, <2>2 DEF Fresh, Served, SettledInv, InSecond, Settled
  <2> QED
    BY <2>1, <2>2 DEF LoadSynced
<1> QED
  BY <1>2, <1>4, <1>5, <1>6 DEF SettledInv, Outstanding, StampRecent

\* A request makes the attempt of its second, or is let through by a recent one.
LEMMA WindowSettled ==
    ASSUME SyncInv, SettledInv, NEW c \in Callers, ClaimWindow(c)
    PROVE  SettledInv'
<1> USE SyncAssumption
<1>1. /\ caller[c] \in CallerStates /\ caller[c].pc = "attempted" /\ caller[c].now <= clock
      /\ caller[c].now \in Nat /\ caller[c].seen \in Nat
      /\ Ttl \in Nat \ {0} /\ attemptedAt \in Nat /\ clock \in Nat /\ calm \in Nat /\ syncedAt \in Nat
  BY CallerRecord DEF ClaimWindow, SyncInv, TypeOK, CallerStates, Times, Never, TimesPast
<1>2. UNCHANGED <<clock, syncedAt, inflight, reader, calm, failed>>
  BY DEF ClaimWindow
<1>3. Settled => caller[c].now = clock
  BY <1>1 DEF SettledInv, InSecond
<1>4. CASE /\ Fresh(caller[c].now, caller[c].seen) \/ attemptedAt # caller[c].seen
           /\ Leave(c) /\ UNCHANGED attemptedAt
  <2>1. caller'[c].pc = "idle" /\ \A d \in Callers : d # c => caller'[d] = caller[d]
    BY <1>4, Kept DEF Leave, Idle
  <2>2. InSecond' /\ Attempting'
    BY <1>2, <1>4, <2>1 DEF SettledInv, InSecond, Attempting, Settled
  <2>3. Answered'
    BY <1>1, <1>2, <1>4, <2>1 DEF SettledInv, Answered
  <2>4. Settled => clock < attemptedAt + Ttl
    <3>1. Settled => caller[c].seen = attemptedAt \/ attemptedAt = clock
      BY <1>1 DEF SettledInv, Attempting
    <3> QED
      BY <1>1, <1>3, <1>4, <3>1 DEF Fresh
  <2> QED
    BY <1>2, <1>4, <2>2, <2>3, <2>4 DEF SettledInv, Outstanding, StampRecent, Served, Settled
<1>5. CASE /\ ~Fresh(caller[c].now, caller[c].seen) /\ attemptedAt = caller[c].seen
           /\ attemptedAt' = caller[c].now
           /\ caller' = [caller EXCEPT ![c].pc = "claim"] /\ UNCHANGED served
  <2>1. /\ caller'[c].pc = "claim" /\ caller'[c].now = caller[c].now
        /\ \A d \in Callers : d # c => caller'[d] = caller[d]
    <3>1. caller' = [caller EXCEPT ![c] = [caller[c] EXCEPT !.pc = "claim"]]
      BY <1>5
    <3> QED
      BY <1>1, <3>1, Kept DEF CallerStates
  <2>2. attemptedAt < attemptedAt' /\ attemptedAt' \in Nat
    BY <1>1, <1>5 DEF Fresh
  <2>3. InSecond' /\ Attempting'
    BY <1>1, <1>2, <1>3, <1>5, <2>1 DEF SettledInv, InSecond, Attempting, Settled
  <2>4. Answered'
    BY <1>1, <1>2, <1>3, <1>5, <2>1 DEF Answered, Settled
  <2>5. Served'
    BY <1>1, <1>2, <1>5, <2>2 DEF SettledInv, Served, Settled
  <2> QED
    BY <1>2, <2>3, <2>4, <2>5 DEF SettledInv, Outstanding, StampRecent
<1> QED
  BY <1>4, <1>5 DEF ClaimWindow

\* It starts the read of its attempt, or one is outstanding already.
LEMMA ReadSettled ==
    ASSUME SyncInv, SettledInv, NEW c \in Callers, ClaimRead(c)
    PROVE  SettledInv'
<1> USE SyncAssumption
<1>1. /\ caller[c] \in CallerStates /\ caller[c].pc = "claim"
      /\ Ttl \in Nat \ {0} /\ attemptedAt \in Nat /\ clock \in Nat
  BY CallerRecord DEF ClaimRead, SyncInv, TypeOK, Times
<1>2. UNCHANGED <<clock, syncedAt, attemptedAt, calm, failed>>
  BY DEF ClaimRead
<1>3. caller'[c].pc = "idle" /\ \A d \in Callers : d # c => caller'[d] = caller[d]
  BY Kept DEF ClaimRead, Leave, Idle
<1>4. Settled => caller[c].now = clock /\ attemptedAt = clock
  BY <1>1 DEF SettledInv, InSecond, Attempting
<1>5. \/ inflight /\ UNCHANGED <<inflight, reader>>
      \/ \E t \in Slots :
           /\ reader'[t].pc = "list" /\ reader'[t].now = caller[c].now
           /\ \A u \in Slots : u # t => reader'[u] = reader[u]
  BY Kept DEF ClaimRead
<1>6. \E t \in Slots : reader'[t].pc = "list"
  BY <1>5 DEF SettledInv, Outstanding
<1>7. InSecond'
  BY <1>2, <1>3, <1>4, <1>5 DEF SettledInv, InSecond, Settled
<1>8. Attempting' /\ Outstanding'
  BY <1>2, <1>3, <1>6 DEF SettledInv, Attempting, Outstanding, Settled
<1>9. Answered'
  <2>1. \E t \in Slots : reader'[t].pc # "idle"
    BY <1>6
  <2> QED
    BY <1>2, <2>1 DEF SettledInv, Answered
<1>10. Served'
  BY <1>1, <1>2, <1>4 DEF Served, Settled
<1> QED
  BY <1>2, <1>7, <1>8, <1>9, <1>10 DEF SettledInv, StampRecent

\* A read returns, or fails, which releases the bound;
LEMMA ListSettled ==
    ASSUME SyncInv, SettledInv, NEW t \in Slots, Listed(t) \/ ListFailed(t) \/ Merge(t)
    PROVE  SettledInv'
<1>1. reader[t] \in ReaderStates /\ reader[t].pc \in {"list", "merge"}
  BY ReaderRecord DEF Listed, ListFailed, Merge, SyncInv
<1>2. UNCHANGED <<clock, syncedAt, attemptedAt, caller, calm, served>>
  BY DEF Listed, ListFailed, Merge
<1> DEFINE G == /\ \A u \in Slots : u # t => reader'[u] = reader[u]
                /\ \/ reader'[t].pc # "idle" /\ reader'[t].now = reader[t].now
                   \/ reader'[t].pc = "idle" /\ failed'
           H == (failed => failed') /\ (inflight' => inflight /\ reader[t].pc = "merge")
<1>3. ASSUME Listed(t) PROVE G
  <2> DEFINE moved == [reader[t] EXCEPT !.pc = "merge", !.subs = InStore]
  <2>1. reader' = [reader EXCEPT ![t] = moved]
    BY <1>3, Kept DEF Listed
  <2>2. moved.pc = "merge" /\ moved.now = reader[t].now
    BY <1>1 DEF ReaderStates
  <2> HIDE DEF moved
  <2> QED
    BY <2>1, <2>2, Kept
<1>4. ASSUME Merge(t) PROVE G
  <2> DEFINE moved == [reader[t] EXCEPT !.pc = "stamp"]
  <2>1. reader' = [reader EXCEPT ![t] = moved]
    BY <1>4, Kept DEF Merge
  <2>2. moved.pc = "stamp" /\ moved.now = reader[t].now
    BY <1>1 DEF ReaderStates
  <2> HIDE DEF moved
  <2> QED
    BY <2>1, <2>2, Kept
<1>a. ASSUME ListFailed(t) PROVE G
  BY <1>a, Kept DEF ListFailed, Idle
<1>b. G /\ H
  <2>1. H
    BY DEF Listed, Merge, ListFailed
  <2> QED
    BY <2>1, <1>3, <1>4, <1>a
<1>5. InSecond'
  BY <1>1, <1>2, <1>b DEF SettledInv, InSecond, Settled
<1>6. Attempting' /\ Served' /\ StampRecent'
  BY <1>2 DEF SettledInv, Attempting, Served, StampRecent, Settled
<1>7. Outstanding'
  BY <1>1, <1>b DEF SettledInv, Outstanding
<1>8. Answered'
  BY <1>1, <1>2, <1>b DEF SettledInv, Answered
<1> QED
  BY <1>5, <1>6, <1>7, <1>8 DEF SettledInv

\* and what was read in this second moves the stamp to it.
LEMMA StampSettled ==
    ASSUME SyncInv, SettledInv, NEW t \in Slots, Stamp(t)
    PROVE  SettledInv'
<1> USE SyncAssumption
<1>1. /\ reader[t] \in ReaderStates /\ reader[t].pc = "stamp" /\ reader[t].now \in Nat
      /\ Ttl \in Nat \ {0} /\ attemptedAt \in Nat /\ clock \in Nat /\ calm \in Nat /\ syncedAt \in Nat
  BY ReaderRecord DEF Stamp, SyncInv, TypeOK, Times, Never, ReaderStates
<1>2. UNCHANGED <<clock, attemptedAt, inflight, caller, calm, served, failed>>
  BY DEF Stamp
<1>3. reader'[t].pc = "idle" /\ \A u \in Slots : u # t => reader'[u] = reader[u]
  BY Kept DEF Stamp, Idle
<1>4. syncedAt <= syncedAt' /\ reader[t].now <= syncedAt' /\ syncedAt' \in Nat
  BY <1>1 DEF Stamp
<1>5. InSecond' /\ Attempting'
  BY <1>2, <1>3 DEF SettledInv, InSecond, Attempting, Settled
<1>6. Outstanding'
  BY <1>1, <1>2, <1>3 DEF SettledInv, Outstanding
<1>7. Answered'
  <2>1. CASE attemptedAt = clock /\ calm < attemptedAt
    <3>1. reader[t].now = clock
      BY <1>1, <2>1 DEF SettledInv, InSecond, Settled
    <3> QED
      BY <1>2, <1>4, <2>1, <3>1 DEF Answered
  <2>2. CASE attemptedAt <= syncedAt \/ ~(calm < attemptedAt)
    BY <1>1, <1>2, <1>4, <2>2 DEF Answered
  <2> QED
    BY <2>1, <2>2 DEF SettledInv, Answered
<1>8. Served'
  <2> SUFFICES ASSUME Settled', served'
               PROVE  clock' < syncedAt' + Ttl \/ clock' < attemptedAt' + Ttl
    BY DEF Served
  <2>1. Settled /\ served
    BY <1>2 DEF Settled
  <2>2. clock < syncedAt + Ttl \/ clock < attemptedAt + Ttl
    BY <2>1 DEF SettledInv, Served
  <2>3. clock' = clock /\ attemptedAt' = attemptedAt
    BY <1>2
  <2>4. clock < syncedAt + Ttl => clock < syncedAt' + Ttl
    <3>1. /\ clock \in Int /\ syncedAt \in Int /\ syncedAt' \in Int /\ Ttl \in Int
          /\ syncedAt <= syncedAt'
      BY <1>1, <1>4
    <3>2. \A a, b, c, d \in Int : a < b + d /\ b <= c => a < c + d
      OBVIOUS
    <3> QED
      BY <3>1, <3>2
  <2> QED
    BY <2>2, <2>3, <2>4
<1>9. StampRecent'
  <2>1. calm + Ttl < clock => clock <= syncedAt + Ttl
    BY DEF SettledInv, StampRecent
  <2>2. calm' = calm /\ clock' = clock
    BY <1>2
  <2>3. clock <= syncedAt + Ttl => clock <= syncedAt' + Ttl
    <3>1. /\ clock \in Int /\ syncedAt \in Int /\ syncedAt' \in Int /\ Ttl \in Int
          /\ syncedAt <= syncedAt'
      BY <1>1, <1>4
    <3>2. \A a, b, c, d \in Int : a <= b + d /\ b <= c => a <= c + d
      OBVIOUS
    <3> QED
      BY <3>1, <3>2
  <2> QED
    BY <2>1, <2>2, <2>3 DEF StampRecent
<1> QED
  BY <1>5, <1>6, <1>7, <1>8, <1>9 DEF SettledInv

\* No step ends it otherwise: a revocation is none of the re-sync's business.
LEMMA StepSettled == SyncInv /\ SettledInv /\ [Next]_vars => SettledInv'
<1> SUFFICES ASSUME SyncInv, SettledInv, [Next]_vars PROVE SettledInv'
  OBVIOUS
<1>1. CASE UNCHANGED <<clock, syncedAt, attemptedAt, inflight, caller, reader, calm, served, failed>>
  BY <1>1 DEF SettledInv, InSecond, Attempting, Outstanding, Answered, Served, StampRecent, Settled
<1>2. (\E s \in Subs : PeerRevoke(s) \/ RevokeWrite(s) \/ Insert(s)) \/ UNCHANGED vars
        => UNCHANGED <<clock, syncedAt, attemptedAt, inflight, caller, reader, calm, served, failed>>
  BY DEF PeerRevoke, RevokeWrite, Insert, vars
<1> QED
  BY <1>1, <1>2, TickSettled, ArriveSettled, LoadSettled, WindowSettled, ReadSettled, ListSettled,
     StampSettled DEF Next

\* Nothing is under way at first.
LEMMA SettledInvariant == Spec => []SettledInv
<1>1. Init => SettledInv
  <2> SUFFICES ASSUME Init PROVE SettledInv
    OBVIOUS
  <2>1. ~Settled /\ ~inflight /\ calm = 0 /\ attemptedAt = 0 /\ clock = 0
    BY DEF Init, Settled
  <2>2. StampRecent
    BY <2>1, SyncAssumption DEF StampRecent
  <2> QED
    BY <2>1, <2>2 DEF SettledInv, InSecond, Attempting, Outstanding, Answered, Served
<1> QED
  BY <1>1, StepSettled, SyncInvariant, PTL DEF Spec

\* One window into a calm, every revocation a window old is in the set: no
\* declined, failed or overtaken read leaves the re-sync wedged.
THEOREM RevokeBecomesVisible == Spec => []PeerRevokeVisible
<1>1. SyncInv /\ SettledInv => PeerRevokeVisible
  <2> SUFFICES ASSUME SyncInv, SettledInv, NEW s \in Subs,
                      stored[s] # Never, stored[s] + Ttl < clock, calm + Ttl < clock
               PROVE  s \in denied
    BY DEF PeerRevokeVisible
  <2>1. /\ stored[s] \in Nat /\ syncedAt \in Nat /\ clock \in Nat /\ Ttl \in Nat
    BY SyncAssumption DEF SyncInv, TypeOK, Times, Never
  <2>2. stored[s] < syncedAt
    BY <2>1 DEF SettledInv, StampRecent
  <2> QED
    BY <2>2 DEF SyncInv, SyncedMeansSeen
<1> QED
  BY <1>1, SyncInvariant, SettledInvariant, PTL

-----------------------------------------------------------------------------
(***************************************************************************)
(* The keys of a subject                                                   *)
(***************************************************************************)
(* An operation under way names its rows, a revocation draws its new       *)
(* generation last, and no more of them are drawn than operations begun.   *)
Named ==
    /\ pc["user"] \notin {"idle", "probe"} => user.id \in Epochs
    /\ pc["user"] \in {"tombstone", "load2", "evict2", "swap2"} => user.old \in Epochs
    /\ pc["admin"] # "idle" => admin.id \in Epochs
    /\ pc["admin"] \in {"lock", "deny", "read"} => admin.gen = None /\ fresh < ops
    /\ pc["admin"] = "bump" => admin.gen # None
    /\ ops \in 0..MaxAdmin /\ fresh <= ops

-----------------------------------------------------------------------------
(* Goto moves one actor. *)
LEMMA GotoAt ==
    ASSUME KTypeOK, NEW a \in Actors, NEW l \in Labels, Goto(a, l)
    PROVE  /\ pc' \in [Actors -> Labels]
           /\ pc'[a] = l /\ \A b \in Actors : b # a => pc'[b] = pc[b]
BY DEF Goto, KTypeOK

(* A step of the subject's own operations leaves the admin's alone. *)
LEMMA UserMoves ==
    ASSUME KTypeOK, UserStep
    PROVE  /\ pc' \in [Actors -> Labels] /\ pc'["admin"] = pc["admin"]
           /\ UNCHANGED <<admin, fresh, ops, barred, deny, revokedIds>>
<1> USE DEF Actors, Labels, store, node, hist, bounds
<1>1. UNCHANGED <<admin, fresh, ops, barred, deny, revokedIds>>
  BY DEF UserStep, IssueAgain, IssueUpdate, IssueNew, RefreshSelf, StartMint, Probe, UserPut,
     UserLoad, UserSwap, UserTombstone, UserLoad2, UserEvict2, UserSwap2, UserRollback,
     UserEvict3, UserLoad3, UserSwap3, Failing
<1>2. (\E l \in Labels : Goto("user", l)) \/ UNCHANGED pc
  BY DEF UserStep, IssueAgain, IssueUpdate, IssueNew, RefreshSelf, Probe, UserPut,
     UserLoad, UserSwap, UserTombstone, UserLoad2, UserEvict2, UserSwap2, UserRollback,
     UserEvict3, UserLoad3, UserSwap3, HandOut
<1>3. CASE UNCHANGED pc
  BY <1>1, <1>3 DEF KTypeOK
<1>4. ASSUME NEW l \in Labels, Goto("user", l)
      PROVE  pc' \in [Actors -> Labels] /\ pc'["admin"] = pc["admin"]
  BY <1>4, GotoAt
<1> QED
  BY <1>1, <1>2, <1>3, <1>4

(* An admin's step leaves the subject's alone. *)
LEMMA AdminMoves ==
    ASSUME KTypeOK, AdminStep
    PROVE  /\ pc' \in [Actors -> Labels] /\ pc'["user"] = pc["user"]
           /\ UNCHANGED <<user, replaced>>
<1> USE DEF Actors, Labels, store, node, hist, bounds
<1>1. UNCHANGED <<user, replaced>>
  BY DEF AdminStep, AdmRotate, AdmRevoke, AdmDelete, AdmUpdate, StartAdmin, AdmPut, AdmLoad,
     AdmSwap, AdmLock, AdmDeny, AdmRead, AdmBump, AdmPatch, AdmTombstone, AdmEvict, RevokeFails,
     Failing
<1>2. \E l \in Labels : Goto("admin", l)
  BY DEF AdminStep, AdmRotate, AdmRevoke, AdmDelete, AdmUpdate, StartAdmin, AdmPut, AdmLoad,
     AdmSwap, AdmLock, AdmDeny, AdmRead, AdmBump, AdmPatch, AdmTombstone, AdmEvict, RevokeFails,
     AdminDone
<1>3. ASSUME NEW l \in Labels, Goto("admin", l)
      PROVE  pc' \in [Actors -> Labels] /\ pc'["user"] = pc["user"]
  BY <1>3, GotoAt
<1> QED
  BY <1>1, <1>2, <1>3

(* What the subject's operation names stays well formed. *)
LEMMA StepUserNamed ==
    ASSUME KTypeOK, Named, UserStep
    PROVE  /\ user' \in [op : {"none", "update", "issue", "refresh"}, old : Epochs \cup {None},
                         id : 0..(MaxEpoch + 1) \cup {None}, gen : Gens]
           /\ pc'["user"] \notin {"idle", "probe"} => user'.id \in Epochs
           /\ pc'["user"] \in {"tombstone", "load2", "evict2", "swap2"} => user'.old \in Epochs
<1> DEFINE M == [op : {"none", "update", "issue", "refresh"}, old : Epochs \cup {None},
                 id : 0..(MaxEpoch + 1) \cup {None}, gen : Gens]
           G == /\ user' \in M
                /\ pc'["user"] \notin {"idle", "probe"} => user'.id \in Epochs
                /\ pc'["user"] \in {"tombstone", "load2", "evict2", "swap2"} => user'.old \in Epochs
<1>a. user \in M /\ \A e \in Epochs : cache[e].gen \in Gens
  BY DEF KTypeOK, Rows
<1>b. /\ "user" \in Actors /\ Epochs \subseteq 0..(MaxEpoch + 1) /\ Epochs \subseteq Gens
      /\ None \in Gens /\ 0 \in 0..(MaxEpoch + 1) /\ MaxEpoch \in Nat
      /\ \A e \in Epochs : e + 1 \in 0..(MaxEpoch + 1)
  BY KeyBounds DEF Actors, Epochs, Gens
\* The operation is over.
<1>1. ASSUME user' = NoMint, Goto("user", "idle") PROVE G
  BY <1>1, <1>b, GotoAt DEF NoMint, Labels
\* It goes on with the same rows.
<1>2. ASSUME user' = user, pc["user"] \notin {"idle", "probe"},
             NEW l \in Labels, Goto("user", l),
             l \in {"tombstone", "load2", "evict2", "swap2"} => user.old \in Epochs
      PROVE  G
  BY <1>2, <1>a, <1>b, GotoAt DEF Named
<1>3. ASSUME NEW e \in Epochs, IssueAgain(e) PROVE G
  BY <1>3, <1>a DEF IssueAgain, StartMint, Named
<1>4. ASSUME NEW e \in Epochs, IssueUpdate(e) PROVE G
  BY <1>4, <1>a, <1>b, GotoAt DEF IssueUpdate, Mint, Labels
<1>5. ASSUME IssueNew PROVE G
  BY <1>5, <1>a, <1>b, GotoAt DEF IssueNew, Mint, Labels
<1>6. ASSUME RefreshSelf PROVE G
  <2>1. pc'["user"] = "probe"
    BY <1>6, <1>b, GotoAt DEF RefreshSelf, Labels
  <2>2. CASE Current = {}
    BY <1>6, <1>b, <2>1, <2>2 DEF RefreshSelf, Mint
  <2>3. CASE Current # {}
    <3>1. PICK e \in Current :
             Mint("refresh", e, (IF cache[e].gen \in Epochs THEN cache[e].gen ELSE 0) + 1, None)
      BY <1>6, <2>3 DEF RefreshSelf
    <3> DEFINE n == (IF cache[e].gen \in Epochs THEN cache[e].gen ELSE 0) + 1
    <3>2. e \in Epochs
      BY DEF Current
    <3>3. n \in 0..(MaxEpoch + 1)
      <4>1. CASE cache[e].gen \in Epochs
        BY <1>b, <4>1
      <4>2. CASE cache[e].gen \notin Epochs
        BY <1>b, <4>2
      <4> QED
        BY <4>1, <4>2
    <3> HIDE DEF n
    <3> QED
      BY <1>b, <2>1, <3>1, <3>2, <3>3 DEF Mint, n
  <2> QED
    BY <2>2, <2>3
<1>7. ASSUME Probe PROVE G
  <2>1. CASE \E e \in FirstFree(user.id) : Mint(user.op, user.old, e, e) /\ Goto("user", "put")
    <3>1. PICK e \in FirstFree(user.id) : Mint(user.op, user.old, e, e) /\ Goto("user", "put")
      BY <2>1
    <3>2. e \in Epochs
      BY DEF FirstFree
    <3>3. user' \in M /\ user'.id = e
      BY <1>a, <1>b, <3>1, <3>2 DEF Mint
    <3>4. pc'["user"] = "put"
      BY <1>b, <3>1, GotoAt DEF Labels
    <3> QED
      BY <3>2, <3>3, <3>4
  <2> QED
    BY <1>1, <1>7, <2>1 DEF Probe
<1>8. ASSUME UserPut \/ UserLoad \/ UserRollback \/ UserEvict3 \/ UserLoad3 PROVE G
  BY <1>1, <1>2, <1>8 DEF UserPut, UserLoad, UserRollback, UserEvict3, UserLoad3, Labels
<1>9. ASSUME UserSwap PROVE G
  <2>1. Replaces => user.old \in Epochs
    BY <1>a DEF Replaces
  <2> QED
    BY <1>1, <1>2, <1>9, <2>1 DEF UserSwap, HandOut, Labels
<1>10. ASSUME UserTombstone \/ UserLoad2 PROVE G
  BY <1>2, <1>10 DEF UserTombstone, UserLoad2, Named, Labels
<1>11. ASSUME UserEvict2 \/ UserSwap2 \/ UserSwap3 PROVE G
  BY <1>1, <1>11 DEF UserEvict2, UserSwap2, UserSwap3, HandOut
<1> QED
  BY <1>3, <1>4, <1>5, <1>6, <1>7, <1>8, <1>9, <1>10, <1>11 DEF UserStep

(* So does what the admin's names. *)
LEMMA StepAdminNamed ==
    ASSUME KTypeOK, Named, AdminStep
    PROVE  /\ admin' \in [op : {"none", "update", "rotate", "revoke", "delete"},
                          id : Epochs \cup {None}, gen : Gens, on : BOOLEAN]
           /\ pc'["admin"] # "idle" => admin'.id \in Epochs
           /\ pc'["admin"] \in {"lock", "deny", "read"} => admin'.gen = None /\ fresh' < ops'
           /\ pc'["admin"] = "bump" => admin'.gen # None
           /\ fresh' \in 0..MaxAdmin /\ ops' \in 0..MaxAdmin /\ fresh' <= ops'
<1> DEFINE M == [op : {"none", "update", "rotate", "revoke", "delete"},
                 id : Epochs \cup {None}, gen : Gens, on : BOOLEAN]
           C == /\ pc'["admin"] # "idle" => admin'.id \in Epochs
                /\ pc'["admin"] \in {"lock", "deny", "read"} => admin'.gen = None /\ fresh' < ops'
                /\ pc'["admin"] = "bump" => admin'.gen # None
           F == fresh' \in 0..MaxAdmin /\ ops' \in 0..MaxAdmin /\ fresh' <= ops'
           G == admin' \in M /\ C /\ F
<1>a. /\ admin \in M /\ fresh \in 0..MaxAdmin /\ ops \in 0..MaxAdmin /\ fresh <= ops
      /\ \A e \in Epochs : row[e].gen \in Gens /\ row[e].on \in BOOLEAN
  BY DEF KTypeOK, Rows, Named
<1>b. "admin" \in Actors /\ None \in Gens /\ MaxAdmin \in Nat
  BY KeyBounds DEF Actors, Gens
<1>c. fresh < MaxAdmin => NextGen \in Gens /\ NextGen # None
  BY <1>a, KeyBounds DEF NextGen, Gens, None, Epochs
<1>1. ASSUME AdminDone, UNCHANGED <<fresh, ops>> PROVE G
  <2>1. pc'["admin"] = "idle"
    BY <1>1, <1>b, GotoAt DEF AdminDone, Labels
  <2>2. admin' \in M
    BY <1>1, <1>b DEF AdminDone, NoOp
  <2> QED
    BY <1>1, <1>a, <2>1, <2>2
<1>2. ASSUME admin' = admin, UNCHANGED <<fresh, ops>>, pc["admin"] # "idle",
             NEW l \in Labels, Goto("admin", l),
             l \in {"lock", "deny", "read"} => pc["admin"] \in {"lock", "deny", "read"},
             l # "bump"
      PROVE  G
  <2>1. pc'["admin"] = l
    BY <1>2, <1>b, GotoAt
  <2> QED
    BY <1>2, <1>a, <2>1 DEF Named
<1>3. ASSUME NEW e \in Epochs, AdmRotate(e) PROVE G
  <2>1. pc'["admin"] = "put"
    BY <1>3, <1>b, GotoAt DEF AdmRotate, StartAdmin, Labels
  <2>2. F /\ fresh < MaxAdmin
    BY <1>3, <1>a, <1>b DEF AdmRotate, StartAdmin
  <2>3. admin' \in M /\ admin'.id = e
    BY <1>3, <1>a, <1>c, <2>2 DEF AdmRotate, StartAdmin
  <2> QED
    BY <2>1, <2>2, <2>3
<1>4. ASSUME NEW e \in Epochs, NEW on \in BOOLEAN, AdmUpdate(e, on) PROVE G
  <2>1. pc'["admin"] = "put"
    BY <1>4, <1>b, GotoAt DEF AdmUpdate, StartAdmin, Labels
  <2>2. F
    BY <1>4, <1>a, <1>b DEF AdmUpdate, StartAdmin
  <2>3. admin' \in M /\ admin'.id = e
    BY <1>4, <1>a DEF AdmUpdate, StartAdmin
  <2> QED
    BY <2>1, <2>2, <2>3
<1>5. ASSUME NEW e \in Epochs, AdmRevoke(e) \/ AdmDelete(e) PROVE G
  <2>1. pc'["admin"] = "lock"
    BY <1>5, <1>b, GotoAt DEF AdmRevoke, AdmDelete, StartAdmin, Labels
  <2>2. F /\ fresh' < ops'
    BY <1>5, <1>a, <1>b DEF AdmRevoke, AdmDelete, StartAdmin
  <2>3. admin' \in M /\ admin'.id = e /\ admin'.gen = None
    <3>1. \E op \in {"revoke", "delete"} :
             admin' = [op |-> op, id |-> e, gen |-> None, on |-> FALSE]
      BY <1>5 DEF AdmRevoke, AdmDelete, StartAdmin
    <3> QED
      BY <1>b, <3>1
  <2> QED
    BY <2>1, <2>2, <2>3
<1>6. ASSUME AdmPut \/ AdmLoad \/ AdmSwap \/ AdmTombstone \/ AdmEvict \/ AdmPatch PROVE G
  <2>1. UNCHANGED <<fresh, ops>>
    BY <1>6 DEF AdmPut, AdmLoad, AdmSwap, AdmTombstone, AdmEvict, AdmPatch, Failing, bounds
  <2>2. \/ AdminDone
        \/ /\ admin' = admin /\ pc["admin"] # "idle"
           /\ \E l \in {"load", "swap", "evict", "tombstone"} : Goto("admin", l)
    BY <1>6 DEF AdmPut, AdmLoad, AdmSwap, AdmTombstone, AdmEvict, AdmPatch
  <2> QED
    BY <1>1, <1>2, <2>1, <2>2 DEF Labels
<1>7. ASSUME AdmLock \/ AdmDeny \/ AdmBump PROVE G
  <2>1. UNCHANGED <<fresh, ops>>
    BY <1>7 DEF AdmLock, AdmDeny, AdmBump, RevokeFails, Failing, bounds
  <2>2. \/ AdminDone
        \/ /\ admin' = admin /\ pc["admin"] # "idle"
           /\ \E l \in {"deny", "read", "patch"} :
                /\ Goto("admin", l)
                /\ l # "patch" => pc["admin"] \in {"lock", "deny"}
    BY <1>7 DEF AdmLock, AdmDeny, AdmBump, RevokeFails
  <2> QED
    BY <1>1, <1>2, <2>1, <2>2 DEF Labels
<1>8. ASSUME AdmRead PROVE G
  <2>1. UNCHANGED ops /\ pc["admin"] = "read"
    BY <1>8 DEF AdmRead, RevokeFails, Failing, bounds
  <2>2. CASE AdminDone /\ UNCHANGED fresh
    BY <1>1, <2>1, <2>2
  <2>3. CASE Goto("admin", "patch") /\ UNCHANGED <<admin, fresh>>
    BY <1>2, <2>1, <2>3 DEF Labels
  <2>4. CASE admin' = [admin EXCEPT !.gen = NextGen] /\ fresh' = fresh + 1 /\ Goto("admin", "bump")
    <3>1. pc'["admin"] = "bump"
      BY <1>b, <2>4, GotoAt DEF Labels
    <3>2. fresh < ops /\ admin.id \in Epochs
      BY <2>1 DEF Named
    <3>3. F /\ fresh < MaxAdmin
      BY <1>a, <1>b, <2>1, <2>4, <3>2
    <3>4. admin' \in M /\ admin'.id = admin.id /\ admin'.gen # None
      BY <1>a, <1>c, <2>4, <3>3
    <3> QED
      BY <3>1, <3>2, <3>3, <3>4
  <2> QED
    BY <1>8, <2>2, <2>3, <2>4 DEF AdmRead, RevokeFails
<1> QED
  BY <1>3, <1>4, <1>5, <1>6, <1>7, <1>8 DEF AdminStep

(* The rows the operations write, and the state a load returns. *)
LEMMA RowsTyped ==
    ASSUME KTypeOK
    PROVE  /\ NoRow \in Rows /\ ~NoRow.on
           /\ \A g \in Gens, on \in BOOLEAN :
                Live(g, on) \in Rows /\ Live(g, on).on = on /\ Live(g, on).st = "live"
           /\ \A r \in Rows : Tombstone(r) \in Rows /\ Tombstone(r).st = "dead" /\ ~Tombstone(r).on
           /\ Load \in [Epochs -> Rows]
           /\ \A e \in Epochs : row[e].st # "live" => ~Load[e].on
<1>1. NoRow \in Rows /\ ~NoRow.on
  BY DEF NoRow, Rows, Gens
<1>2. ASSUME NEW g \in Gens, NEW on \in BOOLEAN
      PROVE  Live(g, on) \in Rows /\ Live(g, on).on = on /\ Live(g, on).st = "live"
  BY DEF Live, Rows
<1>3. ASSUME NEW r \in Rows
      PROVE  Tombstone(r) \in Rows /\ Tombstone(r).st = "dead" /\ ~Tombstone(r).on
  BY DEF Tombstone, Rows
<1>4. row \in [Epochs -> Rows]
  BY DEF KTypeOK
<1>5. Load \in [Epochs -> Rows] /\ \A e \in Epochs : row[e].st # "live" => ~Load[e].on
  BY <1>1, <1>4 DEF Load
<1> QED
  BY <1>1, <1>2, <1>3, <1>5

(* What a step does to the rows: one is written unless it is a tombstone,  *)
(* or tombstoned.                                                          *)
RowStep ==
    \/ UNCHANGED row
    \/ \E e \in Epochs, g \in Gens, on \in BOOLEAN :
         Free(e) /\ row' = [row EXCEPT ![e] = Live(g, on)]
    \/ \E e \in Epochs : row' = [row EXCEPT ![e] = Tombstone(@)]

(* Between a load and its swap. *)
Swaps == {"swap", "swap2", "swap3"}

(* To the cache: an actor puts its load in, one row is evicted or          *)
(* disabled, or the process starts anew.                                   *)
CacheStep ==
    \/ UNCHANGED cache
    \/ \E a \in Actors : pc[a] \in Swaps /\ cache' = snap[a]
    \/ \E e \in Epochs : cache' = [cache EXCEPT ![e] = NoRow]
    \/ \E e \in Epochs, g \in Gens : cache' = [cache EXCEPT ![e] = Live(g, FALSE)]
    \/ cache' = Load

(* To what was loaded: an actor loads the rows of now. *)
SnapStep ==
    \/ UNCHANGED snap
    \/ \E a \in Actors : snap' = [snap EXCEPT ![a] = Load]
    \/ snap' = [a \in Actors |-> Load]

(* refresh_lock is held by whoever is between a load and its swap, and by  *)
(* a revocation to its end.                                                *)
Locking ==
    /\ lock = "user" <=> pc["user"] \in Swaps
    /\ lock = "admin" <=> pc["admin"] \in Swaps \cup {"deny", "read", "bump", "patch"}

(* No step does anything else to the rows, the cache and the loads. *)
LEMMA StepShapes ==
    ASSUME KTypeOK, Named, Locking, [KNext]_kvars
    PROVE  RowStep /\ CacheStep /\ SnapStep
<1>a. user.gen \in Gens /\ admin.gen \in Gens /\ admin.on \in BOOLEAN
  BY DEF KTypeOK
<1>b. "user" \in Actors /\ "admin" \in Actors
  BY DEF Actors
<1> DEFINE G == RowStep /\ CacheStep /\ SnapStep
<1> USE DEF store, node
<1>1. ASSUME UNCHANGED <<row, cache, snap>> PROVE G
  BY <1>1 DEF RowStep, CacheStep, SnapStep
<1>2. ASSUME UserPut \/ UserTombstone \/ UserRollback PROVE G
  <2>1. UNCHANGED <<cache, snap>>
    BY <1>2 DEF UserPut, UserTombstone, UserRollback
  <2>2. user.id \in Epochs /\ (UserTombstone => user.old \in Epochs)
    BY <1>2 DEF Named, UserPut, UserTombstone, UserRollback
  <2>3. RowStep
    BY <1>a, <1>2, <2>2 DEF UserPut, UserTombstone, UserRollback, RowStep
  <2> QED
    BY <2>1, <2>3 DEF CacheStep, SnapStep
<1>3. ASSUME AdmPut \/ AdmBump \/ AdmTombstone PROVE G
  <2>1. UNCHANGED <<cache, snap>>
    BY <1>3 DEF AdmPut, AdmBump, AdmTombstone
  <2>2. admin.id \in Epochs
    BY <1>3 DEF Named, AdmPut, AdmBump, AdmTombstone
  <2>3. RowStep
    BY <1>a, <1>3, <2>2 DEF AdmPut, AdmBump, AdmTombstone, RowStep
  <2> QED
    BY <2>1, <2>3 DEF CacheStep, SnapStep
<1>4. ASSUME UserLoad \/ UserLoad2 \/ UserLoad3 \/ AdmLoad PROVE G
  <2>1. UNCHANGED <<row, cache>>
    BY <1>4 DEF UserLoad, UserLoad2, UserLoad3, AdmLoad
  <2>2. SnapStep
    BY <1>4, <1>b DEF UserLoad, UserLoad2, UserLoad3, AdmLoad, StartLoad, SnapStep
  <2> QED
    BY <2>1, <2>2 DEF RowStep, CacheStep
<1>5. ASSUME UserSwap \/ UserSwap2 \/ UserSwap3 \/ AdmSwap PROVE G
  <2>1. UNCHANGED <<row, snap>>
    BY <1>5 DEF UserSwap, UserSwap2, UserSwap3, AdmSwap
  <2>2. CacheStep
    BY <1>5, <1>b DEF UserSwap, UserSwap2, UserSwap3, AdmSwap, Swap, Swaps, CacheStep
  <2> QED
    BY <2>1, <2>2 DEF RowStep, SnapStep
<1>6. ASSUME UserEvict2 \/ UserEvict3 \/ AdmEvict \/ AdmPatch PROVE G
  <2>1. UNCHANGED <<row, snap>>
    BY <1>6 DEF UserEvict2, UserEvict3, AdmEvict, AdmPatch
  <2>2. CacheStep
    BY <1>6, <1>a DEF UserEvict2, UserEvict3, AdmEvict, AdmPatch, Evict, Named, CacheStep
  <2> QED
    BY <2>1, <2>2 DEF RowStep, SnapStep
<1>7. ASSUME Restart PROVE G
  BY <1>7 DEF Restart, RowStep, CacheStep, SnapStep
<1>8. \/ UNCHANGED <<row, cache, snap>>
      \/ UserPut \/ UserTombstone \/ UserRollback \/ AdmPut \/ AdmBump \/ AdmTombstone
      \/ UserLoad \/ UserLoad2 \/ UserLoad3 \/ AdmLoad
      \/ UserSwap \/ UserSwap2 \/ UserSwap3 \/ AdmSwap
      \/ UserEvict2 \/ UserEvict3 \/ AdmEvict \/ AdmPatch \/ Restart
  BY DEF KNext, UserStep, AdminStep, IssueAgain, IssueUpdate, IssueNew, RefreshSelf, StartMint,
     Probe, AdmRotate, AdmUpdate, AdmRevoke, AdmDelete, StartAdmin, AdmLock, AdmDeny, AdmRead,
     SyncDenylist, kvars
<1> QED
  BY <1>1, <1>2, <1>3, <1>4, <1>5, <1>6, <1>7, <1>8

(* The lock changes hands between the labels it belongs to. *)
LEMMA StepLocking ==
    ASSUME KTypeOK, Locking, [KNext]_kvars
    PROVE  Locking' /\ lock' \in Actors \cup {"none"}
<1> USE DEF Locking, Swaps, Actors, Labels, store, node
<1>a. lock \in Actors \cup {"none"}
  BY DEF KTypeOK
<1> DEFINE G == Locking' /\ lock' \in Actors \cup {"none"}
<1>1. ASSUME NEW l \in Labels, Goto("user", l), UNCHANGED lock,
             l \in Swaps <=> pc["user"] \in Swaps
      PROVE  G
  BY <1>1, <1>a, GotoAt
<1>2. ASSUME NEW l \in Labels, Goto("admin", l), UNCHANGED lock,
             l \in Swaps \cup {"deny", "read", "bump", "patch"}
               <=> pc["admin"] \in Swaps \cup {"deny", "read", "bump", "patch"}
      PROVE  G
  BY <1>2, <1>a, GotoAt
<1>3. ASSUME NEW l \in Swaps, Goto("user", l), lock = "none", lock' = "user"
      PROVE  G
  BY <1>3, GotoAt
<1>4. ASSUME NEW l \in {"swap", "deny"}, Goto("admin", l), lock = "none", lock' = "admin"
      PROVE  G
  BY <1>4, GotoAt
<1>5. ASSUME NEW l \in Labels \ Swaps, Goto("user", l),
             pc["user"] \in Swaps, lock' = "none"
      PROVE  G
  BY <1>5, GotoAt
<1>6. ASSUME NEW l \in Labels \ (Swaps \cup {"deny", "read", "bump", "patch"}), Goto("admin", l),
             pc["admin"] \in Swaps \cup {"deny", "read", "bump", "patch"}, lock' = "none"
      PROVE  G
  BY <1>6, GotoAt
<1>7. ASSUME UNCHANGED <<pc, lock>> PROVE G
  BY <1>7, <1>a
<1>8. CASE UserStep
  <2>1. CASE \E e \in Epochs : IssueAgain(e) \/ IssueUpdate(e)
    BY <1>1, <1>7, <2>1 DEF IssueAgain, IssueUpdate, StartMint
  <2>2. CASE IssueNew \/ RefreshSelf \/ Probe
    BY <1>1, <2>2 DEF IssueNew, RefreshSelf, StartMint, Probe
  <2>3. CASE UserPut \/ UserTombstone \/ UserRollback \/ UserEvict2 \/ UserEvict3
    BY <1>1, <2>3 DEF UserPut, UserTombstone, UserRollback, UserEvict2, UserEvict3
  <2>4. CASE UserLoad \/ UserLoad2 \/ UserLoad3
    BY <1>1, <1>3, <2>4 DEF UserLoad, UserLoad2, UserLoad3, StartLoad
  <2>5. CASE UserSwap \/ UserSwap2 \/ UserSwap3
    BY <1>5, <2>5 DEF UserSwap, UserSwap2, UserSwap3, Swap, HandOut
  <2> QED
    BY <1>8, <2>1, <2>2, <2>3, <2>4, <2>5 DEF UserStep
<1>9. CASE AdminStep
  <2>1. CASE \E e \in Epochs : AdmRotate(e) \/ AdmRevoke(e) \/ AdmDelete(e)
                                 \/ \E on \in BOOLEAN : AdmUpdate(e, on)
    BY <1>2, <2>1 DEF AdmRotate, AdmRevoke, AdmDelete, AdmUpdate, StartAdmin
  <2>2. CASE AdmPut \/ AdmTombstone \/ AdmEvict
    BY <1>2, <2>2 DEF AdmPut, AdmTombstone, AdmEvict, AdminDone
  <2>3. CASE AdmLoad \/ AdmLock
    BY <1>2, <1>4, <2>3 DEF AdmLoad, AdmLock, StartLoad, AdminDone
  <2>4. CASE AdmSwap \/ AdmPatch
    BY <1>6, <2>4 DEF AdmSwap, AdmPatch, Swap, AdminDone
  <2>5. CASE AdmDeny \/ AdmRead \/ AdmBump
    BY <1>2, <1>6, <2>5 DEF AdmDeny, AdmRead, AdmBump, RevokeFails, AdminDone
  <2> QED
    BY <1>9, <2>1, <2>2, <2>3, <2>4, <2>5 DEF AdminStep
<1>10. CASE SyncDenylist \/ UNCHANGED kvars
  BY <1>7, <1>10 DEF SyncDenylist, kvars
<1>11. CASE Restart
  BY <1>11 DEF Restart
<1> QED
  BY <1>8, <1>9, <1>10, <1>11 DEF KNext

(* The types are kept, *)
LEMMA StepKeyTypes ==
    ASSUME KTypeOK, Named, Locking, [KNext]_kvars
    PROVE  KTypeOK' /\ Named'
<1>a. /\ row \in [Epochs -> Rows] /\ cache \in [Epochs -> Rows]
      /\ snap \in [Actors -> [Epochs -> Rows]]
      /\ \A e \in Epochs : row[e].st # "live" => ~row[e].on
  BY DEF KTypeOK
<1>b. RowStep /\ CacheStep /\ SnapStep
  BY StepShapes
<1>1. row' \in [Epochs -> Rows] /\ \A e \in Epochs : row'[e].st # "live" => ~row'[e].on
  <2>1. CASE UNCHANGED row
    BY <1>a, <2>1
  <2>2. ASSUME NEW e \in Epochs, NEW g \in Gens, NEW on \in BOOLEAN,
               row' = [row EXCEPT ![e] = Live(g, on)]
        PROVE  row' \in [Epochs -> Rows] /\ \A d \in Epochs : row'[d].st # "live" => ~row'[d].on
    BY <1>a, <2>2, RowsTyped
  <2>3. ASSUME NEW e \in Epochs, row' = [row EXCEPT ![e] = Tombstone(@)]
        PROVE  row' \in [Epochs -> Rows] /\ \A d \in Epochs : row'[d].st # "live" => ~row'[d].on
    BY <1>a, <2>3, RowsTyped
  <2> QED
    BY <1>b, <2>1, <2>2, <2>3 DEF RowStep
<1>2. cache' \in [Epochs -> Rows]
  BY <1>a, <1>b, RowsTyped DEF CacheStep
<1>3. snap' \in [Actors -> [Epochs -> Rows]]
  BY <1>a, <1>b, RowsTyped DEF SnapStep
<1>4. lock' \in Actors \cup {"none"}
  BY StepLocking
\* What else an operation writes.
<1>5. /\ barred' \subseteq Epochs /\ deny' \subseteq Epochs /\ revokedIds' \subseteq Epochs
  <2>1. barred \subseteq Epochs /\ deny \subseteq Epochs /\ revokedIds \subseteq Epochs
    BY DEF KTypeOK
  <2>2. CASE UserStep
    BY <2>1, <2>2, UserMoves
  <2>3. CASE AdminStep
    <3>1. CASE AdmDeny \/ AdmPatch
      BY <2>1, <3>1 DEF AdmDeny, AdmPatch, RevokeFails, Failing, Named, store, hist
    <3>2. CASE UNCHANGED <<barred, deny, revokedIds>>
      BY <2>1, <3>2
    <3> QED
      BY <2>3, <3>1, <3>2 DEF AdminStep, AdmRotate, AdmRevoke, AdmDelete, AdmUpdate, StartAdmin,
         AdmPut, AdmLoad, AdmSwap, AdmLock, AdmRead, AdmBump, AdmTombstone, AdmEvict, RevokeFails,
         Failing, store, node, hist
  <2>4. CASE SyncDenylist \/ Restart \/ UNCHANGED kvars
    BY <2>1, <2>4 DEF SyncDenylist, Restart, kvars, store, hist
  <2> QED
    BY <2>2, <2>3, <2>4 DEF KNext
<1>6. tokens' \subseteq [id : Epochs, gen : Gens] /\ replaced' \subseteq Epochs
  <2>1. /\ tokens \subseteq [id : Epochs, gen : Gens] /\ replaced \subseteq Epochs
        /\ \A e \in Epochs : cache[e].gen \in Gens
        /\ user.gen \in Gens /\ admin.gen \in Gens
    BY DEF KTypeOK, Rows
  <2>2. ASSUME NEW e \in Epochs, IssueAgain(e)
        PROVE  tokens' \subseteq [id : Epochs, gen : Gens] /\ replaced' \subseteq Epochs
    BY <2>1, <2>2 DEF IssueAgain, StartMint, hist
  <2>3. CASE UserSwap \/ UserSwap2
    BY <2>1, <2>3 DEF UserSwap, UserSwap2, HandOut, Named, hist
  <2>4. CASE AdmSwap
    BY <2>1, <2>4 DEF AdmSwap, Named, hist
  <2>5. CASE UNCHANGED <<tokens, replaced>>
    BY <2>1, <2>5
  <2> QED
    BY <2>2, <2>3, <2>4, <2>5
       DEF KNext, UserStep, AdminStep, IssueUpdate, IssueNew, RefreshSelf, StartMint, Probe,
           UserPut, UserLoad, UserTombstone, UserLoad2, UserEvict2, UserRollback, UserEvict3,
           UserLoad3, UserSwap3, AdmRotate, AdmRevoke, AdmDelete, AdmUpdate, StartAdmin,
           AdmPut, AdmLoad, AdmLock, AdmDeny, AdmRead, AdmBump, AdmPatch, AdmTombstone, AdmEvict,
           RevokeFails, Failing, SyncDenylist, Restart, kvars, hist
<1>7. slips' \subseteq {"fail", "restart", "unfreeze"}
  <2>1. slips \subseteq {"fail", "restart", "unfreeze"}
    BY DEF KTypeOK
  <2>2. slips' = slips \/ \E x \in {"fail", "restart", "unfreeze"} : slips' = slips \cup {x}
    BY DEF KNext, UserStep, AdminStep, IssueAgain, IssueUpdate, IssueNew, RefreshSelf, StartMint,
           Probe, UserPut, UserLoad, UserSwap, UserTombstone, UserLoad2, UserEvict2, UserSwap2,
           UserRollback, UserEvict3, UserLoad3, UserSwap3, AdmRotate, AdmRevoke, AdmDelete,
           AdmUpdate, StartAdmin, AdmPut, AdmLoad, AdmSwap, AdmLock, AdmDeny, AdmRead, AdmBump,
           AdmPatch, AdmTombstone, AdmEvict, RevokeFails, Failing, SyncDenylist, Restart, kvars, hist
  <2> QED
    BY <2>1, <2>2
\* The operations under way.
<1>8. CASE UserStep
  BY <1>1, <1>2, <1>3, <1>4, <1>5, <1>6, <1>7, <1>8, UserMoves, StepUserNamed DEF KTypeOK, Named
<1>9. CASE AdminStep
  BY <1>1, <1>2, <1>3, <1>4, <1>5, <1>6, <1>7, <1>9, AdminMoves, StepAdminNamed DEF KTypeOK, Named
<1>10. CASE SyncDenylist \/ UNCHANGED kvars
  <2>1. UNCHANGED <<pc, user, admin, fresh, ops>>
    BY <1>10 DEF SyncDenylist, kvars, bounds
  <2> QED
    BY <1>1, <1>2, <1>3, <1>4, <1>5, <1>6, <1>7, <2>1 DEF KTypeOK, Named
<1>11. CASE Restart
  <2>1. /\ pc' = [a \in Actors |-> "idle"] /\ user' = NoMint /\ admin' = NoOp
        /\ UNCHANGED <<fresh, ops>>
    BY <1>11 DEF Restart
  <2>2. pc' \in [Actors -> Labels] /\ pc'["user"] = "idle" /\ pc'["admin"] = "idle"
    BY <2>1 DEF Actors, Labels
  <2>3. /\ user' \in [op : {"none", "update", "issue", "refresh"}, old : Epochs \cup {None},
                      id : 0..(MaxEpoch + 1) \cup {None}, gen : Gens]
        /\ admin' \in [op : {"none", "update", "rotate", "revoke", "delete"},
                       id : Epochs \cup {None}, gen : Gens, on : BOOLEAN]
    BY <2>1 DEF NoMint, NoOp, Gens
  <2> QED
    BY <1>1, <1>2, <1>3, <1>4, <1>5, <1>6, <1>7, <2>1, <2>2, <2>3 DEF KTypeOK, Named
<1> QED
  BY <1>8, <1>9, <1>10, <1>11 DEF KNext

-----------------------------------------------------------------------------
(* A revocation under way has written the durable denylist before anything *)
(* else, and one that is over is on both lists.                            *)
Denying ==
    /\ revokedIds \subseteq barred \cap deny
    /\ pc["admin"] \in {"read", "bump", "patch"} => admin.id \in barred

(* Every step keeps that: only add_denylist and the patch of a revocation  *)
(* write the two lists, and no step takes an id out of the durable one.    *)
LEMMA StepDenying ==
    ASSUME KTypeOK, Named, Denying, [KNext]_kvars
    PROVE  Denying'
<1> USE DEF Denying, Actors, Labels
<1>1. CASE UserStep
  BY <1>1, UserMoves
<1>2. ASSUME NEW l \in Labels \ {"read", "bump", "patch"}, Goto("admin", l),
             UNCHANGED <<barred, deny, revokedIds>>
      PROVE  Denying'
  BY <1>2, GotoAt
<1>3. CASE AdmDeny
  <2>1. CASE barred' = barred \cup {admin.id} /\ UNCHANGED <<admin, deny, revokedIds>>
    BY <2>1
  <2> QED
    BY <1>2, <1>3, <2>1 DEF AdmDeny, RevokeFails, AdminDone, Failing, hist
<1>4. CASE AdmRead
  <2>1. pc["admin"] = "read" /\ UNCHANGED <<barred, deny, revokedIds>>
    BY <1>4 DEF AdmRead, RevokeFails, Failing, store, hist
  <2>2. CASE AdminDone
    BY <1>2, <2>1, <2>2 DEF AdminDone
  <2>3. CASE admin'.id = admin.id
    BY <2>1, <2>3
  <2>4. AdminDone \/ UNCHANGED admin \/ admin' = [admin EXCEPT !.gen = NextGen]
    BY <1>4 DEF AdmRead, RevokeFails
  <2> QED
    BY <2>2, <2>3, <2>4 DEF KTypeOK
<1>5. CASE AdmBump
  <2>1. pc["admin"] = "bump" /\ UNCHANGED <<barred, deny, revokedIds>>
    BY <1>5 DEF AdmBump, RevokeFails, Failing, hist
  <2>2. AdminDone \/ UNCHANGED admin
    BY <1>5 DEF AdmBump, RevokeFails
  <2> QED
    BY <1>2, <2>1, <2>2 DEF AdminDone
<1>6. CASE AdmPatch
  <2>1. /\ pc["admin"] = "patch" /\ UNCHANGED barred
        /\ deny' = deny \cup {admin.id} /\ revokedIds' = revokedIds \cup {admin.id}
    BY <1>6 DEF AdmPatch, store
  <2>2. pc'["admin"] \in {"tombstone", "idle"}
    BY <1>6, GotoAt DEF AdmPatch, AdminDone
  <2> QED
    BY <2>1, <2>2
<1>7. CASE \/ \E e \in Epochs : AdmRotate(e) \/ AdmRevoke(e) \/ AdmDelete(e)
                                 \/ \E on \in BOOLEAN : AdmUpdate(e, on)
           \/ AdmPut \/ AdmLoad \/ AdmSwap \/ AdmLock \/ AdmTombstone \/ AdmEvict
  BY <1>2, <1>7 DEF AdmRotate, AdmRevoke, AdmDelete, AdmUpdate, StartAdmin, AdmPut, AdmLoad,
     AdmSwap, AdmLock, AdmTombstone, AdmEvict, AdminDone, Failing, store, node, hist
<1>8. CASE SyncDenylist \/ UNCHANGED kvars
  BY <1>8 DEF SyncDenylist, kvars, store, hist
<1>9. CASE Restart
  BY <1>9 DEF Restart, store
<1> QED
  BY <1>1, <1>3, <1>4, <1>5, <1>6, <1>7, <1>8, <1>9 DEF KNext, AdminStep

(* Who is about to swap has loaded, now or before. *)
LEMMA SwapsLoaded ==
    ASSUME KTypeOK, [KNext]_kvars, NEW a \in Actors, pc'[a] \in Swaps
    PROVE  snap'[a] = Load \/ (pc[a] \in Swaps /\ snap'[a] = snap[a])
<1> USE DEF Actors, Labels, Swaps
<1>a. snap \in [Actors -> [Epochs -> Rows]]
  BY DEF KTypeOK
<1>1. ASSUME NEW b \in Actors, StartLoad(b), NEW l \in Labels, Goto(b, l)
      PROVE  snap'[a] = Load \/ (pc[a] \in Swaps /\ snap'[a] = snap[a])
  BY <1>1, <1>a, GotoAt DEF StartLoad
<1>2. ASSUME UNCHANGED snap, NEW b \in Actors, NEW l \in Labels \ Swaps, Goto(b, l)
      PROVE  snap'[a] = Load \/ (pc[a] \in Swaps /\ snap'[a] = snap[a])
  BY <1>2, GotoAt
<1>3. ASSUME UNCHANGED <<snap, pc>>
      PROVE  snap'[a] = Load \/ (pc[a] \in Swaps /\ snap'[a] = snap[a])
  BY <1>3
<1>4. CASE UserStep
  BY <1>1, <1>2, <1>3, <1>4
     DEF UserStep, IssueAgain, IssueUpdate, IssueNew, RefreshSelf, StartMint, Probe, UserPut,
         UserLoad, UserSwap, UserTombstone, UserLoad2, UserEvict2, UserSwap2, UserRollback,
         UserEvict3, UserLoad3, UserSwap3, HandOut, node
<1>5. CASE AdminStep
  BY <1>1, <1>2, <1>5
     DEF AdminStep, AdmRotate, AdmRevoke, AdmDelete, AdmUpdate, StartAdmin, AdmPut, AdmLoad,
         AdmSwap, AdmLock, AdmDeny, AdmRead, AdmBump, AdmPatch, AdmTombstone, AdmEvict,
         RevokeFails, AdminDone, node
<1>6. CASE SyncDenylist \/ UNCHANGED kvars
  BY <1>3, <1>6 DEF SyncDenylist, kvars
<1>7. CASE Restart
  BY <1>7 DEF Restart
<1> QED
  BY <1>4, <1>5, <1>6, <1>7 DEF KNext

(* A tombstone is final. *)
LEMMA TombstoneFinal ==
    ASSUME KTypeOK, RowStep, NEW e \in Epochs, row[e].st = "dead"
    PROVE  row'[e].st = "dead"
<1>a. row \in [Epochs -> Rows]
  BY DEF KTypeOK
<1>1. CASE UNCHANGED row
  BY <1>1
<1>2. ASSUME NEW d \in Epochs, NEW g \in Gens, NEW on \in BOOLEAN,
             Free(d), row' = [row EXCEPT ![d] = Live(g, on)]
      PROVE  row'[e].st = "dead"
  BY <1>a, <1>2 DEF Free
<1>3. ASSUME NEW d \in Epochs, row' = [row EXCEPT ![d] = Tombstone(@)]
      PROVE  row'[e].st = "dead"
  BY <1>a, <1>3, RowsTyped
<1> QED
  BY <1>1, <1>2, <1>3 DEF RowStep

(* An id that was replaced is a tombstone in the store, is disabled in the *)
(* cache and in every load that is about to be swapped in; the id being    *)
(* replaced is, from its tombstone on.                                     *)
Superseding ==
    /\ \A e \in replaced : /\ row[e].st = "dead" /\ ~cache[e].on
                           /\ \A a \in Actors : pc[a] \in Swaps => ~snap[a][e].on
    /\ pc["user"] \in {"load2", "swap2", "evict2"} => row[user.old].st = "dead"
    /\ pc["user"] = "swap2" => ~snap["user"][user.old].on

(* No interleaving of loads, swaps, patches and evictions brings it back. *)
LEMMA StepSuperseding ==
    ASSUME KTypeOK, Named, Locking, Superseding, [KNext]_kvars
    PROVE  Superseding'
<1>0. "user" \in Actors /\ "admin" \in Actors /\ Actors = {"user", "admin"}
  BY DEF Actors
<1>a. /\ row \in [Epochs -> Rows] /\ cache \in [Epochs -> Rows] /\ replaced \subseteq Epochs
      /\ snap \in [Actors -> [Epochs -> Rows]]
  BY DEF KTypeOK
<1>b. RowStep /\ CacheStep /\ SnapStep
  BY StepShapes
\* The ids replaced before.
<1>1. ASSUME NEW e \in replaced
      PROVE  /\ row'[e].st = "dead" /\ ~cache'[e].on
             /\ \A a \in Actors : pc'[a] \in Swaps => ~snap'[a][e].on
  <2>1. /\ e \in Epochs /\ row[e].st = "dead" /\ ~cache[e].on /\ ~Load[e].on
        /\ \A a \in Actors : pc[a] \in Swaps => ~snap[a][e].on
    BY <1>a, RowsTyped DEF Superseding
  <2>2. row'[e].st = "dead"
    BY <1>b, <2>1, TombstoneFinal
  <2>3. ~cache'[e].on
    BY <1>a, <1>b, <2>1, RowsTyped DEF CacheStep
  <2>4. \A a \in Actors : pc'[a] \in Swaps => ~snap'[a][e].on
    BY <2>1, SwapsLoaded
  <2> QED
    BY <2>2, <2>3, <2>4
\* The id being replaced.
<1>2. pc'["user"] \in {"load2", "swap2", "evict2"} => row'[user'.old].st = "dead"
  <2> SUFFICES ASSUME pc'["user"] \in {"load2", "swap2", "evict2"}
               PROVE  row'[user'.old].st = "dead"
    OBVIOUS
  <2>1. CASE pc["user"] \in {"load2", "swap2", "evict2"} /\ user' = user
    BY <1>b, <2>1, TombstoneFinal DEF Superseding, Named
  <2>2. CASE UserTombstone
    <3>1. row' = [row EXCEPT ![user.old] = Tombstone(@)] \/ pc'["user"] = "rollback"
      BY <1>0, <2>2, GotoAt DEF UserTombstone, Labels
    <3>2. user' = user /\ user.old \in Epochs
      BY <2>2 DEF UserTombstone, Named
    <3> QED
      BY <1>a, <3>1, <3>2, RowsTyped
  <2>3. CASE UserLoad2
    BY <2>1, <2>3 DEF UserLoad2
  <2>4. CASE UserStep /\ ~UserTombstone /\ ~UserLoad2
    <3>1. pc'["user"] \notin {"load2", "swap2", "evict2"} \/ (UNCHANGED <<pc, user>>)
      BY <1>0, <2>4, GotoAt
         DEF UserStep, IssueAgain, IssueUpdate, IssueNew, RefreshSelf, Probe, UserPut,
             UserLoad, UserSwap, UserEvict2, UserSwap2, UserRollback,
             UserEvict3, UserLoad3, UserSwap3, HandOut, Labels
    <3> QED
      BY <2>1, <3>1
  <2>5. CASE AdminStep
    BY <2>1, <2>5, AdminMoves
  <2>6. CASE SyncDenylist \/ UNCHANGED kvars
    BY <2>1, <2>6 DEF SyncDenylist, kvars
  <2>7. CASE Restart
    BY <1>0, <2>7 DEF Restart
  <2> QED
    BY <2>2, <2>3, <2>4, <2>5, <2>6, <2>7 DEF KNext
<1>3. pc'["user"] = "swap2" => ~snap'["user"][user'.old].on
  <2> SUFFICES ASSUME pc'["user"] = "swap2" PROVE ~snap'["user"][user'.old].on
    OBVIOUS
  <2>1. CASE UNCHANGED <<user, snap>> /\ pc["user"] = "swap2"
    BY <2>1 DEF Superseding
  <2>2. CASE UserLoad2
    <3>1. user' = user /\ row[user.old].st = "dead" /\ user.old \in Epochs
      BY <2>2 DEF UserLoad2, Superseding, Named
    <3>2. StartLoad("user")
      BY <1>0, <2>2, GotoAt DEF UserLoad2, Labels
    <3> QED
      BY <1>0, <1>a, <3>1, <3>2, RowsTyped DEF StartLoad
  <2>3. CASE UserStep /\ ~UserLoad2
    <3>1. pc'["user"] # "swap2" \/ (UNCHANGED <<pc, user, snap>>)
      BY <1>0, <2>3, GotoAt
         DEF UserStep, IssueAgain, IssueUpdate, IssueNew, RefreshSelf, StartMint, Probe, UserPut,
             UserLoad, UserSwap, UserTombstone, UserEvict2, UserSwap2, UserRollback,
             UserEvict3, UserLoad3, UserSwap3, HandOut, Labels, node
    <3> QED
      BY <2>1, <3>1
  <2>4. CASE AdminStep
    <3>1. user' = user /\ pc["user"] = "swap2"
      BY <2>4, AdminMoves
    <3>2. ~snap["user"][user.old].on /\ row[user.old].st = "dead" /\ user.old \in Epochs
      BY <3>1 DEF Superseding, Named
    <3>3. snap'["user"] = Load \/ snap'["user"] = snap["user"]
      BY <1>0, SwapsLoaded DEF Swaps
    <3> QED
      BY <3>1, <3>2, <3>3, RowsTyped
  <2>5. CASE SyncDenylist \/ UNCHANGED kvars
    BY <2>1, <2>5 DEF SyncDenylist, kvars
  <2>6. CASE Restart
    BY <1>0, <2>6 DEF Restart
  <2> QED
    BY <2>2, <2>3, <2>4, <2>5, <2>6 DEF KNext
\* The id that is replaced by this step.
<1>4. CASE UserSwap2
  <2>1. /\ replaced' = replaced \cup {user.old} /\ row' = row /\ cache' = snap["user"]
        /\ pc["user"] = "swap2" /\ pc'["user"] = "idle" /\ pc'["admin"] = pc["admin"]
    BY <1>0, <1>4, GotoAt DEF UserSwap2, HandOut, Swap, store, Labels
  <2>2. pc'["admin"] \notin Swaps
    BY <2>1 DEF Locking, Swaps
  <2>3. row'[user.old].st = "dead" /\ ~cache'[user.old].on
    BY <2>1 DEF Superseding
  <2>4. \A a \in Actors : pc'[a] \notin Swaps
    BY <1>0, <2>1, <2>2 DEF Swaps
  <2>5. \A e \in replaced' : /\ row'[e].st = "dead" /\ ~cache'[e].on
                             /\ \A a \in Actors : pc'[a] \in Swaps => ~snap'[a][e].on
    BY <1>1, <2>1, <2>3, <2>4
  <2> QED
    BY <1>2, <1>3, <2>5 DEF Superseding
<1>5. CASE ~UserSwap2
  <2>1. replaced' = replaced
    BY <1>5 DEF KNext, UserStep, AdminStep, IssueAgain, IssueUpdate, IssueNew, RefreshSelf,
       StartMint, Probe, UserPut, UserLoad, UserSwap, UserTombstone, UserLoad2, UserEvict2,
       UserRollback, UserEvict3, UserLoad3, UserSwap3, AdmRotate, AdmRevoke, AdmDelete,
       AdmUpdate, StartAdmin, AdmPut, AdmLoad, AdmSwap, AdmLock, AdmDeny, AdmRead, AdmBump,
       AdmPatch, AdmTombstone, AdmEvict, RevokeFails, Failing, SyncDenylist, Restart, kvars, hist
  <2> QED
    BY <1>1, <1>2, <1>3, <2>1 DEF Superseding
<1> QED
  BY <1>4, <1>5

-----------------------------------------------------------------------------
(* The steps that only a failing store call leads to. *)
Slipped ==
    /\ pc["user"] \in {"evict2", "rollback", "evict3", "load3", "swap3"} => "fail" \in slips
    /\ pc["admin"] = "evict" /\ admin.op # "delete" => "fail" \in slips
    /\ pc["admin"] = "tombstone" => admin.op = "delete"

(* A row is written and the refresh of it has not begun. *)
Dirty == pc["user"] \in {"load", "load2"} \/ pc["admin"] \in {"load", "evict"}

(* The cache as the holder of refresh_lock will leave it. *)
View ==
    IF pc["user"] \in Swaps THEN snap["user"]
    ELSE IF pc["admin"] \in Swaps THEN snap["admin"]
    ELSE IF pc["admin"] = "patch" /\ admin.gen # None
         THEN [cache EXCEPT ![admin.id] = Live(admin.gen, FALSE)]
    ELSE cache

(* That is what the store holds, unless a refresh is still to come. *)
Agreement == "fail" \notin slips /\ ~Dirty => View = Load

(* A slip is remembered, and a failing call is one. *)
LEMMA StepSlipped ==
    ASSUME KTypeOK, Slipped, [KNext]_kvars
    PROVE  Slipped' /\ slips \subseteq slips'
<1> USE DEF Slipped, Actors, Labels
<1>1. slips \subseteq slips'
  BY DEF KNext, UserStep, AdminStep, IssueAgain, IssueUpdate, IssueNew, RefreshSelf, StartMint,
         Probe, UserPut, UserLoad, UserSwap, UserTombstone, UserLoad2, UserEvict2, UserSwap2,
         UserRollback, UserEvict3, UserLoad3, UserSwap3, AdmRotate, AdmRevoke, AdmDelete,
         AdmUpdate, StartAdmin, AdmPut, AdmLoad, AdmSwap, AdmLock, AdmDeny, AdmRead, AdmBump,
         AdmPatch, AdmTombstone, AdmEvict, RevokeFails, Failing, SyncDenylist, Restart, kvars, hist
<1> DEFINE Off == {"evict2", "rollback", "evict3", "load3", "swap3"}
\* The subject's operations.
<1>2. ASSUME NEW l \in Labels, Goto("user", l), UNCHANGED admin,
             l \in Off => "fail" \in slips'
      PROVE  Slipped'
  BY <1>1, <1>2, GotoAt
<1>3. CASE UserStep
  <2>1. UNCHANGED admin
    BY <1>3, UserMoves
  <2>2. UNCHANGED pc \/ \E l \in Labels : Goto("user", l) /\ (l \in Off => "fail" \in slips')
    BY <1>1, <1>3 DEF UserStep, IssueAgain, IssueUpdate, IssueNew, RefreshSelf, Probe,
       UserPut, UserLoad, UserSwap, UserTombstone, UserLoad2, UserEvict2, UserSwap2,
       UserRollback, UserEvict3, UserLoad3, UserSwap3, HandOut, Failing
  <2> QED
    BY <1>1, <1>2, <2>1, <2>2
\* The admin's.
<1>5. CASE AdminStep
  <2>a. "admin" \in Actors
    OBVIOUS
  <2> HIDE DEF Labels
  <2>1. CASE AdmLoad
    <3>1. \/ \E l \in Labels \ {"tombstone", "evict"} : Goto("admin", l)
          \/ Goto("admin", "evict") /\ "fail" \in slips'
      BY <2>1 DEF AdmLoad, AdminDone, Failing, Labels
    <3>2. pc'["admin"] # "tombstone" /\ (pc'["admin"] = "evict" => "fail" \in slips')
      BY <2>a, <3>1, GotoAt DEF Labels
    <3> QED
      BY <1>1, <1>5, <3>2, AdminMoves
  <2>2. CASE AdmPatch \/ AdmTombstone
    <3>1. \/ /\ admin'.op = "delete"
             /\ \E l \in {"tombstone", "evict"} : Goto("admin", l)
          \/ Goto("admin", "idle")
      BY <2>2 DEF AdmPatch, AdmTombstone, AdminDone
    <3>2. pc'["admin"] \in {"tombstone", "evict"} => admin'.op = "delete"
      BY <2>a, <3>1, GotoAt DEF Labels
    <3> QED
      BY <1>1, <1>5, <3>2, AdminMoves
  <2>3. CASE ~AdmLoad /\ ~AdmPatch /\ ~AdmTombstone
    <3>1. \E l \in Labels \ {"tombstone", "evict"} : Goto("admin", l)
      BY <1>5, <2>3 DEF AdminStep, AdmRotate, AdmRevoke, AdmDelete, AdmUpdate, StartAdmin, AdmPut,
         AdmSwap, AdmLock, AdmDeny, AdmRead, AdmBump, AdmEvict, RevokeFails, AdminDone, Labels
    <3>2. pc'["admin"] \notin {"tombstone", "evict"}
      BY <2>a, <3>1, GotoAt
    <3> QED
      BY <1>1, <1>5, <3>2, AdminMoves
  <2> QED
    BY <2>1, <2>2, <2>3
<1>7. CASE SyncDenylist \/ UNCHANGED kvars
  BY <1>1, <1>7 DEF SyncDenylist, kvars
<1>8. CASE Restart
  BY <1>8 DEF Restart
<1> QED
  BY <1>1, <1>3, <1>5, <1>7, <1>8 DEF KNext

(* No interleaving of writes, loads, swaps, patches and evictions leaves   *)
(* an older row behind.                                                    *)
LEMMA StepAgreement ==
    ASSUME KTypeOK, Named, Locking, Slipped, Agreement, [KNext]_kvars
    PROVE  Agreement'
<1> SUFFICES ASSUME "fail" \notin slips', ~Dirty'
             PROVE  View' = Load'
  BY DEF Agreement
<1>0. "user" \in Actors /\ "admin" \in Actors
  BY DEF Actors
<1>a. "fail" \notin slips /\ ~Failing
  BY StepSlipped DEF Failing
<1>b. cache \in [Epochs -> Rows] /\ row \in [Epochs -> Rows] /\ snap \in [Actors -> [Epochs -> Rows]]
  BY DEF KTypeOK
<1>c. pc["user"] \notin {"evict2", "rollback", "evict3", "load3", "swap3"}
  BY <1>a DEF Slipped
<1> USE DEF store, node, Swaps
\* The subject's operation touches neither the rows nor the cache,
<1>1. ASSUME UNCHANGED <<row, cache, snap, admin>>, pc'["admin"] = pc["admin"],
             pc["user"] \notin Swaps \cup {"load", "load2"}, pc'["user"] \notin Swaps
      PROVE  View' = Load'
  <2>1. ~Dirty
    BY <1>1 DEF Dirty
  <2>2. View' = View /\ Load' = Load
    BY <1>1 DEF View, Load
  <2> QED
    BY <1>a, <2>1, <2>2 DEF Agreement
\* an actor has loaded,
<1>2. ASSUME NEW a \in Actors, StartLoad(a), UNCHANGED row,
             pc'[a] \in Swaps, \A b \in Actors : b # a => pc'[b] = pc[b]
      PROVE  View' = Load'
  <2>1. snap'[a] = Load /\ Load' = Load
    BY <1>b, <1>2 DEF StartLoad, Load
  <2>2. a = "admin" => pc'["user"] \notin Swaps
    BY <1>0, <1>2 DEF StartLoad, Locking
  <2> QED
    BY <1>2, <2>1, <2>2 DEF View, Actors
\* or puts its load in.
<1>3. ASSUME NEW a \in Actors, pc[a] \in Swaps, cache' = snap[a], UNCHANGED row,
             pc'[a] \in {"tombstone", "idle"}, \A b \in Actors : b # a => pc'[b] = pc[b]
      PROVE  View' = Load'
  <2>1. a = "admin" => pc["user"] \notin Swaps
    BY <1>0, <1>3 DEF Locking
  <2>2. a = "user" => pc["admin"] \notin Swaps \cup {"patch"}
    BY <1>0, <1>3 DEF Locking
  <2>3. ~Dirty
    BY <1>0, <1>3 DEF Dirty, Actors
  <2>4. View = snap[a] /\ View' = cache'
    BY <1>0, <1>3, <2>1, <2>2 DEF View, Actors
  <2>5. Load' = Load
    BY <1>3 DEF Load
  <2> QED
    BY <1>a, <1>3, <2>3, <2>4, <2>5 DEF Agreement
<1>4. CASE UserStep
  <2>a. pc'["admin"] = pc["admin"] /\ UNCHANGED admin
    BY <1>4, UserMoves
  <2>1. CASE (\E e \in Epochs : IssueAgain(e) \/ IssueUpdate(e)) \/ IssueNew \/ RefreshSelf \/ Probe
    <3>1. UNCHANGED <<row, cache, snap>> /\ pc["user"] \in {"idle", "probe"}
      BY <2>1 DEF IssueAgain, IssueUpdate, IssueNew, RefreshSelf, StartMint, Probe
    <3>2. UNCHANGED pc \/ \E l \in {"idle", "probe", "put"} : Goto("user", l)
      BY <2>1 DEF IssueAgain, IssueUpdate, IssueNew, RefreshSelf, Probe
    <3>3. pc'["user"] \in {"idle", "probe", "put"}
      BY <1>0, <3>1, <3>2, GotoAt DEF Labels
    <3> QED
      BY <1>1, <2>a, <3>1, <3>3
  <2>2. CASE UserPut \/ UserTombstone
    <3>1. CASE Goto("user", "load") \/ Goto("user", "load2")
      BY <1>0, <3>1, GotoAt DEF Labels, Dirty
    <3>2. CASE UserPut /\ Goto("user", "idle") /\ UNCHANGED row
      <4>1. pc["user"] = "put" /\ pc'["user"] = "idle" /\ UNCHANGED <<cache, snap>>
        BY <1>0, <3>2, GotoAt DEF Labels, UserPut
      <4> QED
        BY <1>1, <2>a, <3>2, <4>1
    <3> QED
      BY <1>a, <2>2, <3>1, <3>2 DEF UserPut, UserTombstone
  <2>3. CASE UserLoad \/ UserLoad2
    <3>1. StartLoad("user") /\ UNCHANGED row /\ (Goto("user", "swap") \/ Goto("user", "swap2"))
      BY <1>a, <2>3 DEF UserLoad, UserLoad2
    <3>2. pc'["user"] \in Swaps
      BY <1>0, <3>1, GotoAt DEF Labels
    <3> QED
      BY <1>0, <1>2, <2>a, <3>1, <3>2 DEF Actors
  <2>4. CASE UserSwap \/ UserSwap2
    <3>1. /\ cache' = snap["user"] /\ UNCHANGED row /\ pc["user"] \in Swaps
          /\ (Goto("user", "tombstone") \/ Goto("user", "idle"))
      BY <2>4 DEF UserSwap, UserSwap2, Swap, HandOut
    <3>2. pc'["user"] \in {"tombstone", "idle"}
      BY <1>0, <3>1, GotoAt DEF Labels
    <3> QED
      BY <1>0, <1>3, <2>a, <3>1, <3>2 DEF Actors
  <2> QED
    BY <1>4, <1>c, <2>1, <2>2, <2>3, <2>4
       DEF UserStep, UserEvict2, UserRollback, UserEvict3, UserLoad3, UserSwap3
\* The admin's touches neither,
<1>5. ASSUME UNCHANGED <<row, cache, snap>>, pc'["user"] = pc["user"],
             pc["admin"] \notin Swaps \cup {"patch", "load", "evict"},
             pc'["admin"] \notin Swaps,
             pc'["admin"] = "patch" => admin'.gen = None
      PROVE  View' = Load'
  <2>1. ~Dirty
    BY <1>5 DEF Dirty
  <2>2. View' = View /\ Load' = Load
    BY <1>5 DEF View, Load
  <2> QED
    BY <1>a, <2>1, <2>2 DEF Agreement
<1>6. CASE AdminStep
  <2>a. pc'["user"] = pc["user"] /\ UNCHANGED user
    BY <1>6, AdminMoves
  <2>1. CASE \E e \in Epochs : AdmRotate(e) \/ AdmRevoke(e) \/ AdmDelete(e)
                                 \/ \E on \in BOOLEAN : AdmUpdate(e, on)
    <3>1. /\ UNCHANGED <<row, cache, snap>> /\ pc["admin"] = "idle"
          /\ Goto("admin", "put") \/ Goto("admin", "lock")
      BY <2>1 DEF AdmRotate, AdmRevoke, AdmDelete, AdmUpdate, StartAdmin
    <3>2. pc'["admin"] \in {"put", "lock"}
      BY <1>0, <3>1, GotoAt DEF Labels
    <3> QED
      BY <1>5, <2>a, <3>1, <3>2
  <2>2. CASE AdmPut \/ AdmTombstone
    <3>1. CASE Goto("admin", "load") \/ Goto("admin", "evict")
      BY <1>0, <3>1, GotoAt DEF Labels, Dirty
    <3>2. CASE AdmPut /\ AdminDone /\ UNCHANGED row
      <4>1. pc["admin"] = "put" /\ pc'["admin"] = "idle" /\ UNCHANGED <<cache, snap>>
        BY <1>0, <3>2, GotoAt DEF Labels, AdmPut, AdminDone
      <4> QED
        BY <1>5, <2>a, <3>2, <4>1
    <3> QED
      BY <1>a, <2>2, <3>1, <3>2 DEF AdmPut, AdmTombstone
  <2>3. CASE AdmLoad
    <3>1. StartLoad("admin") /\ UNCHANGED row /\ Goto("admin", "swap")
      BY <1>a, <2>3 DEF AdmLoad
    <3>2. pc'["admin"] \in Swaps
      BY <1>0, <3>1, GotoAt DEF Labels
    <3> QED
      BY <1>0, <1>2, <2>a, <3>1, <3>2 DEF Actors
  <2>4. CASE AdmSwap
    <3>1. cache' = snap["admin"] /\ UNCHANGED row /\ pc["admin"] \in Swaps /\ Goto("admin", "idle")
      BY <2>4 DEF AdmSwap, Swap, AdminDone
    <3>2. pc'["admin"] \in {"tombstone", "idle"}
      BY <1>0, <3>1, GotoAt DEF Labels
    <3> QED
      BY <1>0, <1>3, <2>a, <3>1, <3>2 DEF Actors
  <2>5. CASE AdmLock \/ AdmDeny
    <3>1. /\ UNCHANGED <<row, cache, snap>> /\ pc["admin"] \in {"lock", "deny"}
          /\ Goto("admin", "deny") \/ Goto("admin", "read")
      BY <1>a, <2>5 DEF AdmLock, AdmDeny, RevokeFails
    <3>2. pc'["admin"] \in {"deny", "read"}
      BY <1>0, <3>1, GotoAt DEF Labels
    <3> QED
      BY <1>5, <2>a, <3>1, <3>2
  <2>6. CASE AdmRead
    <3>1. /\ UNCHANGED <<row, cache, snap>> /\ pc["admin"] = "read"
          /\ Goto("admin", "bump") \/ (Goto("admin", "patch") /\ UNCHANGED admin)
      BY <1>a, <2>6 DEF AdmRead, RevokeFails
    <3>2. pc'["admin"] = "bump" \/ (pc'["admin"] = "patch" /\ admin' = admin)
      BY <1>0, <3>1, GotoAt DEF Labels
    <3>3. admin.gen = None
      BY <3>1 DEF Named
    <3> QED
      BY <1>5, <2>a, <3>1, <3>2, <3>3
  \* writes the disabled row it is about to patch in,
  <2>7. CASE AdmBump
    <3>1. UNCHANGED <<cache, snap>> /\ pc["admin"] = "bump"
      BY <2>7 DEF AdmBump
    <3>2. CASE AdminDone /\ UNCHANGED row
      <4>1. pc'["admin"] = "idle"
        BY <1>0, <3>2, GotoAt DEF AdminDone, Labels
      <4> QED
        BY <1>5, <2>a, <3>1, <3>2, <4>1
    <3>3. CASE /\ row' = [row EXCEPT ![admin.id] = Live(admin.gen, FALSE)]
               /\ Goto("admin", "patch") /\ UNCHANGED admin
      <4>1. pc'["admin"] = "patch"
        BY <1>0, <3>3, GotoAt DEF Labels
      <4>2. pc["user"] \notin Swaps
        BY <3>1 DEF Locking
      <4>3. ~Dirty
        BY <2>a, <3>1, <4>1 DEF Dirty
      <4>4. View = cache
        BY <3>1, <4>2 DEF View
      <4>5. admin.id \in Epochs /\ admin.gen # None
        BY <3>1 DEF Named
      <4>6. View' = [cache EXCEPT ![admin.id] = Live(admin.gen, FALSE)]
        BY <2>a, <3>1, <3>3, <4>1, <4>2, <4>5 DEF View
      <4>7. cache = Load
        BY <1>a, <4>3, <4>4 DEF Agreement
      <4>8. Load' = [Load EXCEPT ![admin.id] = Live(admin.gen, FALSE)]
        <5>1. Load' = [e \in Epochs |-> IF row'[e].st = "live" THEN row'[e] ELSE NoRow]
          BY DEF Load
        <5>2. row'[admin.id] = Live(admin.gen, FALSE) /\ Live(admin.gen, FALSE).st = "live"
          BY <1>b, <3>3, <4>5 DEF Live
        <5>3. \A e \in Epochs : e # admin.id => row'[e] = row[e]
          BY <1>b, <3>3
        <5>4. Load = [e \in Epochs |-> IF row[e].st = "live" THEN row[e] ELSE NoRow]
          BY DEF Load
        <5> HIDE DEF Load
        <5> QED
          BY <4>5, <5>1, <5>2, <5>3, <5>4
      <4> QED
        BY <4>6, <4>7, <4>8
    <3> QED
      BY <1>a, <2>7, <3>2, <3>3 DEF AdmBump, RevokeFails
  \* patches it in,
  <2>8. CASE AdmPatch
    <3>1. /\ pc["admin"] = "patch" /\ UNCHANGED row
          /\ cache' = IF admin.gen = None THEN cache
                      ELSE [cache EXCEPT ![admin.id] = Live(admin.gen, FALSE)]
          /\ Goto("admin", "tombstone") \/ Goto("admin", "idle")
      BY <2>8 DEF AdmPatch, AdminDone
    <3>2. pc'["admin"] \in {"tombstone", "idle"}
      BY <1>0, <3>1, GotoAt DEF Labels
    <3>3. pc["user"] \notin Swaps
      BY <3>1 DEF Locking
    <3>4. ~Dirty
      BY <2>a, <3>1 DEF Dirty
    <3>5. View = cache' /\ View' = cache'
      BY <2>a, <3>1, <3>2, <3>3 DEF View
    <3>6. Load' = Load
      BY <3>1 DEF Load
    <3> QED
      BY <1>a, <3>4, <3>5, <3>6 DEF Agreement
  \* or evicts a row it has deleted.
  <2>9. CASE AdmEvict
    <3>1. pc["admin"] = "evict" /\ admin.op = "delete"
      BY <1>a, <2>9 DEF AdmEvict, Slipped
    <3> QED
      BY <1>0, <2>9, <3>1, GotoAt DEF AdmEvict, Labels, Dirty
  <2> QED
    BY <1>6, <2>1, <2>2, <2>3, <2>4, <2>5, <2>6, <2>7, <2>8, <2>9 DEF AdminStep
<1>7. CASE SyncDenylist \/ UNCHANGED kvars
  <2>1. UNCHANGED <<row, cache, snap, pc, admin>>
    BY <1>7 DEF SyncDenylist, kvars
  <2>2. View' = View /\ Load' = Load /\ ~Dirty
    BY <2>1 DEF View, Load, Dirty
  <2> QED
    BY <1>a, <2>2 DEF Agreement
<1>8. CASE Restart
  <2>1. cache' = Load /\ pc'["user"] = "idle" /\ pc'["admin"] = "idle" /\ UNCHANGED row
    BY <1>0, <1>8 DEF Restart
  <2>2. Load' = Load
    BY <2>1 DEF Load
  <2> QED
    BY <2>1, <2>2 DEF View
<1> QED
  BY <1>4, <1>6, <1>7, <1>8 DEF KNext

-----------------------------------------------------------------------------
(* The inductive invariant of the keys. *)
KInv == KTypeOK /\ Named /\ Locking /\ Denying /\ Superseding /\ Slipped /\ Agreement

(* It holds before the first operation, *)
LEMMA InitKeys == KInit => KInv
<1> SUFFICES ASSUME KInit PROVE KInv
  OBVIOUS
<1>0. "user" \in Actors /\ "admin" \in Actors
  BY DEF Actors
<1>1. /\ row = [e \in Epochs |-> NoRow] /\ cache = row /\ snap = [a \in Actors |-> row]
      /\ pc = [a \in Actors |-> "idle"] /\ user = NoMint /\ admin = NoOp
      /\ barred = {} /\ deny = {} /\ lock = "none" /\ tokens = {} /\ fresh = 0 /\ ops = 0
      /\ revokedIds = {} /\ replaced = {} /\ slips = {}
  BY DEF KInit
<1>2. pc["user"] = "idle" /\ pc["admin"] = "idle" /\ pc \in [Actors -> Labels]
  BY <1>0, <1>1 DEF Labels
<1>3. NoRow \in Rows /\ ~NoRow.on /\ NoRow.st # "live"
  BY DEF NoRow, Rows, Gens
<1>4. row \in [Epochs -> Rows] /\ snap \in [Actors -> [Epochs -> Rows]]
  BY <1>1, <1>3
<1>5. /\ user \in [op : {"none", "update", "issue", "refresh"}, old : Epochs \cup {None},
                   id : 0..(MaxEpoch + 1) \cup {None}, gen : Gens]
      /\ admin \in [op : {"none", "update", "rotate", "revoke", "delete"},
                    id : Epochs \cup {None}, gen : Gens, on : BOOLEAN]
  BY <1>1 DEF NoMint, NoOp, Gens
<1>6. KTypeOK /\ Named
  BY <1>1, <1>2, <1>3, <1>4, <1>5, KeyBounds DEF KTypeOK, Named
<1>7. Locking /\ Denying /\ Superseding /\ Slipped
  BY <1>1, <1>2 DEF Locking, Denying, Superseding, Slipped, Swaps
<1>8. Agreement
  BY <1>1, <1>2, <1>3 DEF Agreement, View, Load, Swaps
<1> QED
  BY <1>6, <1>7, <1>8 DEF KInv

(* every step keeps it, *)
LEMMA StepKeys == KInv /\ [KNext]_kvars => KInv'
BY StepKeyTypes, StepLocking, StepDenying, StepSuperseding, StepSlipped, StepAgreement DEF KInv

(* so it holds throughout. *)
LEMMA KeysInvariant == KSpec => []KInv
BY InitKeys, StepKeys, PTL DEF KSpec

(* Every variable of the keys keeps its type. *)
THEOREM KeysTypeCorrect == KSpec => []KTypeOK
<1>1. KInv => KTypeOK
  BY DEF KInv
<1> QED
  BY <1>1, KeysInvariant, PTL

(* Once revoke() has returned Ok, no token of that id authenticates. *)
THEOREM RevocationFinal == KSpec => []RevokedStaysDead
<1>1. KInv => RevokedStaysDead
  BY DEF KInv, Denying, RevokedStaysDead, Verifies
<1> QED
  BY <1>1, KeysInvariant, PTL

(* Once refresh_self has returned, no token of the id it replaced does. *)
THEOREM ReplacementFinal == KSpec => []SupersededStaysDead
<1>1. KInv => SupersededStaysDead
  BY DEF KInv, Superseding, SupersededStaysDead, Verifies
<1> QED
  BY <1>1, KeysInvariant, PTL

(* At rest, and without a failed call, the cache is what the store holds. *)
THEOREM CacheCorrect == KSpec => []CacheAgrees
<1>1. KInv => CacheAgrees
  <2> SUFFICES ASSUME KInv, "fail" \notin slips, \A a \in Actors : pc[a] = "idle"
               PROVE  cache = Load
    BY DEF CacheAgrees
  <2>1. pc["user"] = "idle" /\ pc["admin"] = "idle"
    BY DEF Actors
  <2>2. ~Dirty /\ View = cache
    BY <2>1 DEF Dirty, View, Swaps
  <2> QED
    BY <2>2 DEF KInv, Agreement
<1> QED
  BY <1>1, KeysInvariant, PTL
=============================================================================
