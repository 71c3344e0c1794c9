------------------------- MODULE ControlPlaneProofs -------------------------
(***************************************************************************)
(* Proofs about the control plane: the authentication chains with their    *)
(* cache and its flush (AuthChain), for any requests, credentials, chains, *)
(* permits and lifetimes; and the transactions of the configuration        *)
(* (ConfigPlane), for any clients, number of transactions, edits of the    *)
(* file, failures and crashes, and any size of the version ring.           *)
(*                                                                         *)
(* AuthInv says of every chain under way which generation its answers are  *)
(* of, and of the cache that it holds nothing given before a flush.        *)
(* PlaneInv says what a transaction that holds the lock is about to write, *)
(* or has written and not installed yet: all else follows from that, since *)
(* a crash may come between the two.                                       *)
(***************************************************************************)
EXTENDS ConfigPlane, AuthChain, WellFoundedInduction, TLAPS

-----------------------------------------------------------------------------
(* Rows. *)

(* f counts the rows of q up to n that are in S. *)
Keeps(f, n, q, S) ==
    f = [i \in 0 .. n |->
            IF i = 0 THEN <<>>
            ELSE IF q[i] \in S THEN Append(f[i - 1], q[i]) ELSE f[i - 1]]

(* Nothing of a property of the naturals fails first. *)
LEMMA LeastOf ==
    ASSUME NEW B \in SUBSET Nat, B # {}
    PROVE  \E m \in B : \A k \in Nat : k < m => k \notin B
<1>1. PICK m \in B : \A k \in B : ~(<<k, m>> \in OpToRel(<, Nat))
  BY WFMin, NatLessThanWellFounded
<1>. QED  BY <1>1 DEF OpToRel

LEMMA KeepsExists ==
    ASSUME NEW q, NEW S
    PROVE  \A n \in Nat : \E f : Keeps(f, n, q, S)
<1>. DEFINE Bad == {n \in Nat : ~ \E f : Keeps(f, n, q, S)}
<1>. SUFFICES ASSUME Bad # {} PROVE FALSE
  OBVIOUS
<1>1. PICK m \in Bad : \A k \in Nat : k < m => k \notin Bad
  BY LeastOf
<1>2. m \in Nat /\ \A k \in Nat : k < m => \E f : Keeps(f, k, q, S)
  BY <1>1
<1>3. CASE m = 0
  <2>. DEFINE g == [i \in 0 .. 0 |-> <<>>]
  <2>1. g = [i \in 0 .. 0 |->
                IF i = 0 THEN <<>>
                ELSE IF q[i] \in S THEN Append(g[i - 1], q[i]) ELSE g[i - 1]]
    OBVIOUS
  <2>2. Keeps(g, 0, q, S)
    BY <2>1 DEF Keeps
  <2>. QED  BY <1>1, <1>3, <2>2
<1>4. CASE m # 0
  <2>1. m - 1 \in Nat /\ m - 1 < m
    BY <1>2, <1>4
  <2>2. PICK f : Keeps(f, m - 1, q, S)
    BY <1>2, <2>1
  <2>. DEFINE g == [i \in 0 .. m |->
                      IF i = 0 THEN <<>>
                      ELSE IF q[i] \in S THEN Append(f[i - 1], q[i]) ELSE f[i - 1]]
  <2>3. \A i \in 0 .. m - 1 : f[i] =
           IF i = 0 THEN <<>>
           ELSE IF q[i] \in S THEN Append(f[i - 1], q[i]) ELSE f[i - 1]
    BY <2>1, <2>2 DEF Keeps
  <2>4. \A i \in 0 .. m - 1 : g[i] = f[i]
    BY <1>2, <2>1, <2>3
  <2>5. \A i \in 0 .. m : i # 0 => i - 1 \in 0 .. m - 1
    BY <1>2
  <2>6. g = [i \in 0 .. m |->
               IF i = 0 THEN <<>>
               ELSE IF q[i] \in S THEN Append(g[i - 1], q[i]) ELSE g[i - 1]]
    BY <2>4, <2>5
  <2>. HIDE DEF g
  <2>7. Keeps(g, m, q, S)
    BY <2>6 DEF Keeps
  <2>. QED  BY <1>1, <2>7
<1>. QED  BY <1>3, <1>4

(* What is kept are rows that were there, all of them in S. *)
LEMMA KeptRows ==
    ASSUME NEW X, NEW q \in Seq(X), NEW S
    PROVE  Kept(q, S) \in Seq(X \cap S) /\ Len(Kept(q, S)) <= Len(q)
<1>. DEFINE n == Len(q)
            F == CHOOSE f : f = [i \in 0 .. n |->
                   IF i = 0 THEN <<>>
                   ELSE IF q[i] \in S THEN Append(f[i - 1], q[i]) ELSE f[i - 1]]
            Bad == {i \in Nat : i <= n /\ ~(F[i] \in Seq(X \cap S) /\ Len(F[i]) <= i)}
<1>1. n \in Nat /\ \A i \in 1 .. n : q[i] \in X
  OBVIOUS
<1>2. \E f : f = [i \in 0 .. n |->
                   IF i = 0 THEN <<>>
                   ELSE IF q[i] \in S THEN Append(f[i - 1], q[i]) ELSE f[i - 1]]
  <2>1. PICK f : Keeps(f, n, q, S)
    BY <1>1, KeepsExists
  <2>. QED  BY <2>1 DEF Keeps
<1>3. F = [i \in 0 .. n |->
             IF i = 0 THEN <<>>
             ELSE IF q[i] \in S THEN Append(F[i - 1], q[i]) ELSE F[i - 1]]
  BY <1>2
<1>4. Kept(q, S) = F[n]
  BY DEF Kept
<1>. HIDE DEF F, n
<1>5. F[0] = <<>> /\ \A i \in 1 .. n : F[i] = IF q[i] \in S THEN Append(F[i - 1], q[i]) ELSE F[i - 1]
  <2>1. 0 \in 0 .. n /\ \A i \in 1 .. n : i \in 0 .. n /\ i # 0
    BY <1>1
  <2>2. \A i \in 0 .. n : F[i] =
           IF i = 0 THEN <<>>
           ELSE IF q[i] \in S THEN Append(F[i - 1], q[i]) ELSE F[i - 1]
    BY <1>3
  <2>. QED  BY <2>1, <2>2
<1>6. ASSUME Bad # {} PROVE FALSE
  <2>0. Bad \in SUBSET Nat /\ Bad # {}
    BY <1>6
  <2>. HIDE DEF Bad
  <2>1. PICK m \in Bad : \A k \in Nat : k < m => k \notin Bad
    BY <2>0, LeastOf
  <2>. USE DEF Bad
  <2>2. m \in Nat /\ m <= n /\ ~(F[m] \in Seq(X \cap S) /\ Len(F[m]) <= m)
    OBVIOUS
  <2>3. CASE m = 0
    <3>1. F[m] = <<>> /\ <<>> \in Seq(X \cap S) /\ Len(<<>>) = 0
      BY <1>5, <2>3
    <3>. QED  BY <2>2, <2>3, <3>1
  <2>4. CASE m # 0
    <3>1. m \in 1 .. n /\ m - 1 \in Nat /\ m - 1 < m /\ m - 1 <= n
      BY <1>1, <2>2, <2>4
    <3>2. m - 1 \notin Bad
      BY <2>1, <3>1
    <3>. DEFINE p == F[m - 1]
    <3>3. p \in Seq(X \cap S) /\ Len(p) <= m - 1
      BY <3>1, <3>2
    <3>4. F[m] = IF q[m] \in S THEN Append(p, q[m]) ELSE p
      BY <1>5, <3>1
    <3>5. q[m] \in X
      BY <1>1, <3>1
    <3>. HIDE DEF Bad, p
    <3>6. CASE q[m] \in S
      <4>1. Append(p, q[m]) \in Seq(X \cap S) /\ Len(Append(p, q[m])) = Len(p) + 1
        BY <3>3, <3>5, <3>6
      <4>. QED  BY <2>2, <3>3, <3>4, <3>6, <4>1
    <3>7. CASE q[m] \notin S
      BY <2>2, <3>3, <3>4, <3>7
    <3>. QED  BY <3>6, <3>7
  <2>. QED  BY <2>2, <2>3, <2>4
<1>7. n \in Nat /\ n <= n /\ n \notin Bad
  BY <1>1, <1>6
<1>8. F[n] \in Seq(X \cap S) /\ Len(F[n]) <= n
  BY <1>7
<1>. QED  BY <1>4, <1>8 DEF n

-----------------------------------------------------------------------------
(* The authentication chains. *)

(* A chain stays on its request's credentials and modules, its generation   *)
(* is of the past, and what it holds to be stored was given after the last  *)
(* flush of the module it stands at, unless a flush has begun since.        *)
TaskFits(r, t) ==
    /\ t \in Tasks
    /\ t.cred \in CredsOf(r) /\ t.at \in 1 .. Len(Chain(r)) /\ t.gen <= flushGen
    /\ t.pc = "commit" => r \in DataReqs /\ t.ans \in Identifies
    /\ t.pc = "put" => r \in AdminReqs
    /\ t.ans \in Identifies /\ t.gen = flushGen => t.ans.gen >= flushedAt[Chain(r)[t.at]]

CacheOK == cache \in Seq(Entries) /\ FlushRevokes

AuthInv ==
    /\ clock \in 0 .. MaxClock /\ flushGen \in 0 .. MaxFlushes
    /\ flushedAt \in [Modules -> 0 .. MaxFlushes]
    /\ \A m \in Modules : flushedAt[m] <= flushGen
    /\ permits \in [{"data", "admin"} -> Nat]
    /\ fut \in [Reqs -> {"idle", "permit", "await"}]
    /\ task = [r \in Reqs |-> task[r]]
    /\ CacheOK
    /\ \A r \in Reqs : task[r] = NoTask \/ TaskFits(r, task[r])

LEMMA AuthTypesHold == AuthInv => AuthTypeOK
<1>. SUFFICES ASSUME AuthInv PROVE AuthTypeOK
  OBVIOUS
<1>1. Range(cache) \subseteq Entries
  BY DEF AuthInv, CacheOK, Range
<1>2. \A r \in Reqs : task[r] = NoTask \/ task[r] \in Tasks
  BY DEF AuthInv, TaskFits
<1>. QED  BY <1>1, <1>2 DEF AuthInv, AuthTypeOK

LEMMA AnswerKinds ==
    /\ PassAnswer \in Answers /\ RejectAnswer \in Answers /\ Identifies \subseteq Answers
    /\ PassAnswer \notin Identifies /\ RejectAnswer \notin Identifies /\ PassAnswer # RejectAnswer
    /\ \A a \in Answers : a # RejectAnswer => a.ttl \in Nat
    /\ \A a \in Answers : a.outcome # "reject" <=> a # RejectAnswer
    /\ \A a \in Identifies : a.gen \in 0 .. MaxFlushes
<1>1. /\ PassAnswer.outcome = "pass" /\ RejectAnswer.outcome = "reject"
      /\ \A a \in Identifies : a.outcome = "identify"
  BY DEF PassAnswer, RejectAnswer, Identifies
<1>2. PassAnswer.ttl \in Nat /\ \A a \in Identifies : a.ttl \in Nat
  BY ChainAssumption DEF PassAnswer, Identifies
<1>3. \A a \in Identifies : a.gen \in 0 .. MaxFlushes
  BY DEF Identifies
<1>. QED  BY <1>1, <1>2, <1>3 DEF Answers

(* The rows of what is left when a sequence is filtered.                   *)
LEMMA KeptRange ==
    ASSUME NEW X, NEW q \in Seq(X), NEW S
    PROVE  /\ Kept(q, S) \in Seq(X)
           /\ Range(Kept(q, S)) \subseteq Range(q) \cap S
<1>1. q \in Seq(Range(q))
  BY DEF Range
<1>2. Kept(q, S) \in Seq(Range(q) \cap S)
  BY <1>1, KeptRows
<1>3. Kept(q, S) \in Seq(X \cap S)
  BY KeptRows
<1>4. Range(Kept(q, S)) \subseteq Range(q) \cap S
  BY <1>2 DEF Range
<1>5. Kept(q, S) \in Seq(X)
  BY <1>3
<1>. QED  BY <1>4, <1>5

LEMMA TailRange ==
    ASSUME NEW X, NEW q \in Seq(X), q # <<>>
    PROVE  Tail(q) \in Seq(X) /\ Range(Tail(q)) \subseteq Range(q)
<1>1. Tail(q) \in Seq(X) /\ Len(Tail(q)) = Len(q) - 1
  OBVIOUS
<1>2. \A i \in 1 .. Len(Tail(q)) : Tail(q)[i] = q[i + 1] /\ i + 1 \in 1 .. Len(q)
  BY <1>1
<1>. QED  BY <1>1, <1>2 DEF Range

LEMMA AppendRange ==
    ASSUME NEW X, NEW q \in Seq(X), NEW x \in X
    PROVE  Append(q, x) \in Seq(X) /\ Range(Append(q, x)) = Range(q) \cup {x}
<1>1. /\ Append(q, x) \in Seq(X) /\ Len(Append(q, x)) = Len(q) + 1
      /\ \A i \in 1 .. Len(q) : Append(q, x)[i] = q[i]
      /\ Append(q, x)[Len(q) + 1] = x
  OBVIOUS
<1>2. Len(q) \in Nat /\ DOMAIN q = 1 .. Len(q) /\ DOMAIN Append(q, x) = 1 .. Len(q) + 1
  BY <1>1
<1>3. Range(Append(q, x)) \subseteq Range(q) \cup {x}
  BY <1>1, <1>2 DEF Range
<1>4. Range(q) \cup {x} \subseteq Range(Append(q, x))
  BY <1>1, <1>2 DEF Range
<1>. QED  BY <1>1, <1>3, <1>4

LEMMA TrimmedRows ==
    ASSUME NEW c \in Seq(Entries), NEW now
    PROVE  Trimmed(c, now) \in Seq(Entries) /\ Range(Trimmed(c, now)) \subseteq Range(c)
<1>. DEFINE young == Kept(c, {e \in Range(c) : e.expires > now})
<1>1. young \in Seq(Entries) /\ Range(young) \subseteq Range(c)
  BY KeptRange
<1>2. CASE Len(c) < MaxEntries
  BY <1>2 DEF Trimmed
<1>3. CASE ~(Len(c) < MaxEntries) /\ Len(young) < MaxEntries
  BY <1>1, <1>3 DEF Trimmed
<1>4. CASE ~(Len(c) < MaxEntries) /\ ~(Len(young) < MaxEntries)
  <2>1. Trimmed(c, now) = Tail(young)
    BY <1>4 DEF Trimmed
  <2>. HIDE DEF young
  <2>2. young # <<>>
    BY <1>4, ChainAssumption
  <2>3. Tail(young) \in Seq(Entries) /\ Range(Tail(young)) \subseteq Range(young)
    BY <1>1, <2>2, TailRange
  <2>. QED  BY <1>1, <2>1, <2>3
<1>. QED  BY <1>2, <1>3, <1>4

(* What put leaves: rows that were there and at most its own, and its own   *)
(* only when no flush has begun since the chain started.                    *)
LEMMA PutRows ==
    ASSUME NEW c \in Seq(Entries), c = cache, NEW key \in CacheKeys, NEW ans \in Answers,
           NEW now \in Nat, NEW gen,
           ans \in Identifies /\ gen = flushGen => ans.gen >= flushedAt[key[1]],
           FlushRevokes
    PROVE  /\ Put(key, ans, now, gen) \in Seq(Entries)
           /\ \A e \in Range(Put(key, ans, now, gen)) :
                 /\ e.ans \in Identifies => e.ans.gen >= flushedAt[e.key[1]]
                 /\ e \in Range(c) \/ e.key = key
<1>. DEFINE p == Put(key, ans, now, gen)
            k == Kept(Trimmed(cache, now), {e \in Range(cache) : e.key # key})
            n == [key |-> key, ans |-> ans, expires |-> now + ans.ttl]
<1>1. \A e \in Range(c) : e.ans \in Identifies => e.ans.gen >= flushedAt[e.key[1]]
  BY DEF FlushRevokes
<1>2. CASE ans.outcome = "reject" \/ flushGen # gen
  <2>1. p = c
    BY <1>2 DEF Put
  <2>. QED  BY <1>1, <2>1
<1>3. CASE ~(ans.outcome = "reject" \/ flushGen # gen)
  <2>1. p = Append(k, n)
    BY <1>3 DEF Put
  <2>2. Trimmed(c, now) \in Seq(Entries) /\ Range(Trimmed(c, now)) \subseteq Range(c)
    BY TrimmedRows
  <2>3. k \in Seq(Entries) /\ Range(k) \subseteq Range(c)
    BY <2>2, KeptRange
  <2>4. ans # RejectAnswer /\ now + ans.ttl \in Nat
    BY <1>3, AnswerKinds
  <2>5. n \in Entries
    BY <2>4 DEF Entries
  <2>6. n.key = key /\ n.ans = ans
    OBVIOUS
  <2>. HIDE DEF n, k, p
  <2>7. p \in Seq(Entries) /\ Range(p) = Range(k) \cup {n}
    BY <2>1, <2>3, <2>5, AppendRange
  <2>8. n.ans \in Identifies => n.ans.gen >= flushedAt[n.key[1]]
    BY <1>3, <2>6
  <2>9. \A e \in Range(p) : /\ e.ans \in Identifies => e.ans.gen >= flushedAt[e.key[1]]
                            /\ e \in Range(c) \/ e.key = key
    BY <1>1, <2>3, <2>6, <2>7, <2>8
  <2>. QED  BY <2>7, <2>9 DEF p
<1>. QED  BY <1>2, <1>3

LEMMA TaskShape ==
    ASSUME NEW t \in Tasks
    PROVE  /\ t # NoTask /\ t.now \in Nat /\ t.ans \in Answers
           /\ \A p \in {"lookup", "call", "put", "commit"}, a \in Answers :
                /\ [t EXCEPT !.pc = p] \in Tasks
                /\ [t EXCEPT !.pc = p, !.ans = a] \in Tasks
<1>1. t.pc \in {"lookup", "call", "put", "commit"}
  BY DEF Tasks
<1>2. t # NoTask
  BY <1>1 DEF NoTask
<1>3. t.now \in Nat /\ t.ans \in Answers
  BY ChainAssumption DEF Tasks
<1>4. \A p \in {"lookup", "call", "put", "commit"}, a \in Answers :
         /\ [t EXCEPT !.pc = p] \in Tasks
         /\ [t EXCEPT !.pc = p, !.ans = a] \in Tasks
  BY DEF Tasks
<1>. QED  BY <1>2, <1>3, <1>4

LEMMA ChainsAre ==
    ASSUME NEW r \in Reqs
    PROVE  /\ Len(Chain(r)) \in Nat /\ Len(Chain(r)) >= 1
           /\ Len(Chain(r)) <= Len(DataChain) + Len(AdminChain)
           /\ \A i \in 1 .. Len(Chain(r)) : Chain(r)[i] \in Modules
           /\ CredsOf(r) \subseteq DataCreds \cup AdminCreds
           /\ Plane(r) \in {"data", "admin"}
<1>1. /\ Len(DataChain) \in Nat /\ Len(AdminChain) \in Nat
      /\ Len(DataChain) # 0 /\ Len(AdminChain) # 0
      /\ \A i \in 1 .. Len(DataChain) : DataChain[i] \in Range(DataChain)
      /\ \A i \in 1 .. Len(AdminChain) : AdminChain[i] \in Range(AdminChain)
  BY ChainAssumption
<1>. QED  BY <1>1 DEF Chain, Modules, CredsOf, Plane

(* A step that is one request's.                                           *)
LEMMA OneTask ==
    ASSUME AuthInv, NEW r \in Reqs, NEW t,
           t = NoTask \/ TaskFits(r, t),
           task' = [task EXCEPT ![r] = t],
           UNCHANGED <<clock, flushGen, flushedAt>>,
           permits' \in [{"data", "admin"} -> Nat],
           fut' \in [Reqs -> {"idle", "permit", "await"}],
           CacheOK'
    PROVE  AuthInv'
<1>1. task = [q \in Reqs |-> task[q]] /\ \A q \in Reqs : task[q] = NoTask \/ TaskFits(q, task[q])
  BY DEF AuthInv
<1>2. /\ task' = [q \in Reqs |-> task'[q]]
      /\ \A q \in Reqs : task'[q] = IF q = r THEN t ELSE task[q]
  BY <1>1
<1>. QED  BY <1>1, <1>2 DEF AuthInv, TaskFits

LEMMA DecideStep ==
    ASSUME AuthInv, NEW r \in Reqs, TaskFits(r, task[r]), NEW ans \in Answers,
           ans \in Identifies /\ task[r].gen = flushGen
               => ans.gen >= flushedAt[Chain(r)[task[r].at]],
           Decide(r, ans),
           UNCHANGED <<clock, flushGen, flushedAt>>, CacheOK'
    PROVE  AuthInv'
<1>. DEFINE t == task[r]
<1>0. /\ task = [q \in Reqs |-> task[q]]
      /\ permits \in [{"data", "admin"} -> Nat]
      /\ fut \in [Reqs -> {"idle", "permit", "await"}]
  BY DEF AuthInv
<1>1. /\ t \in Tasks /\ t.cred \in CredsOf(r) /\ t.at \in 1 .. Len(Chain(r)) /\ t.gen <= flushGen
  BY DEF TaskFits
<1>2. CASE /\ ans \in Identifies /\ r \in DataReqs
           /\ task' = [task EXCEPT ![r].pc = "commit", ![r].ans = ans]
           /\ UNCHANGED <<permits, fut>>
  <2>. DEFINE u == [t EXCEPT !.pc = "commit", !.ans = ans]
  <2>1. task' = [task EXCEPT ![r] = u]
    BY <1>0, <1>2
  <2>2. u \in Tasks
    BY <1>1, TaskShape
  <2>3. u.cred = t.cred /\ u.at = t.at /\ u.gen = t.gen /\ u.pc = "commit" /\ u.ans = ans
    BY <1>1 DEF Tasks
  <2>. HIDE DEF u, t
  <2>4. TaskFits(r, u)
    BY <1>1, <1>2, <2>2, <2>3 DEF TaskFits, t
  <2>. QED  BY <1>0, <1>2, <2>1, <2>4, OneTask
<1>3. CASE /\ ans = PassAnswer /\ t.at < Len(Chain(r))
           /\ task' = [task EXCEPT ![r].pc = "lookup", ![r].at = @ + 1, ![r].ans = NoAnswer,
                                   ![r].pending = IF r \in DataReqs /\ task[r].pc = "call"
                                                  THEN @ \cup {KeyOf(r)[1]} ELSE @]
           /\ UNCHANGED <<permits, fut>>
  <2>. DEFINE m == Chain(r)[t.at]
              p == IF r \in DataReqs /\ t.pc = "call" THEN t.pending \cup {m} ELSE t.pending
              u == [t EXCEPT !.pc = "lookup", !.at = t.at + 1, !.ans = NoAnswer, !.pending = p]
  <2>0. KeyOf(r)[1] = m
    BY DEF KeyOf
  <2>1. task' = [task EXCEPT ![r] = u]
    BY <1>0, <1>3, <2>0
  <2>2. m \in Modules /\ t.at + 1 \in 1 .. Len(Chain(r)) /\ t.at + 1 \in 1 .. Len(DataChain) + Len(AdminChain)
    <3>1. t.at \in Nat /\ Len(Chain(r)) \in Nat /\ Len(Chain(r)) <= Len(DataChain) + Len(AdminChain)
      BY <1>1, ChainsAre
    <3>2. Len(DataChain) + Len(AdminChain) \in Nat
      BY ChainAssumption
    <3>3. m \in Modules
      BY <1>1, ChainsAre
    <3>4. t.at + 1 \in Nat /\ t.at + 1 >= 1 /\ t.at + 1 <= Len(Chain(r))
      BY <1>3, <3>1
    <3>. HIDE DEF t, m
    <3>. QED  BY <3>1, <3>2, <3>3, <3>4
  <2>3. p \subseteq Modules
    BY <1>1, <2>2 DEF Tasks
  <2>4. NoAnswer \in Answers /\ NoAnswer \notin Identifies
    BY AnswerKinds DEF NoAnswer
  <2>. HIDE DEF p, m
  <2>5. u \in Tasks
    BY <1>1, <2>2, <2>3, <2>4 DEF Tasks
  <2>6. u.cred = t.cred /\ u.at = t.at + 1 /\ u.gen = t.gen /\ u.pc = "lookup" /\ u.ans = NoAnswer
    BY <1>1 DEF Tasks
  <2>. HIDE DEF u, t
  <2>7. TaskFits(r, u)
    BY <1>1, <2>2, <2>4, <2>5, <2>6 DEF TaskFits
  <2>. QED  BY <1>0, <1>3, <2>1, <2>7, OneTask
<1>4. CASE Return(r)
  <2>1. permits' \in [{"data", "admin"} -> Nat]
    BY <1>0, <1>4, ChainsAre DEF Return
  <2>2. fut' \in [Reqs -> {"idle", "permit", "await"}]
    BY <1>0, <1>4 DEF Return
  <2>3. task' = [task EXCEPT ![r] = NoTask]
    BY <1>4 DEF Return
  <2>. QED  BY <2>1, <2>2, <2>3, OneTask
<1>. QED  BY <1>2, <1>3, <1>4 DEF Decide

(* The rows that a step may add to the cache.                              *)
Admits ==
    \A e \in Range(cache') \ Range(cache) :
        \E r \in Reqs : /\ task[r] # NoTask /\ task[r].cred = e.key[2]
                        /\ r \in DataReqs => task[r].ans \in Identifies

LEMMA KeyOfTask ==
    ASSUME NEW r \in Reqs, TaskFits(r, task[r])
    PROVE  /\ KeyOf(r) \in CacheKeys
           /\ KeyOf(r) = <<Chain(r)[task[r].at], task[r].cred>>
           /\ KeyOf(r)[1] = Chain(r)[task[r].at] /\ KeyOf(r)[2] = task[r].cred
           /\ task[r].cred \in CredsOf(r)
BY ChainsAre DEF TaskFits, KeyOf, CacheKeys

LEMMA ChainAtWork ==
    ASSUME AuthInv, NEW r \in Reqs, task[r] # NoTask
    PROVE  TaskFits(r, task[r])
BY DEF AuthInv

LEMMA LookupStep ==
    ASSUME AuthInv, NEW r \in Reqs, Lookup(r)
    PROVE  AuthInv' /\ Admits
<1>0. TaskFits(r, task[r]) /\ UNCHANGED <<clock, flushGen, flushedAt>>
  BY ChainAtWork DEF Lookup, NoTask
<1>1. cache \in Seq(Entries) /\ FlushRevokes
  BY DEF AuthInv, CacheOK
<1>2. cache' = Kept(cache, {e \in Range(cache) : e.key # KeyOf(r) \/ e.expires > task[r].now})
  BY DEF Lookup, AfterGet
<1>3. cache' \in Seq(Entries) /\ Range(cache') \subseteq Range(cache)
  BY <1>1, <1>2, KeptRange
<1>4. CacheOK'
  BY <1>0, <1>1, <1>3 DEF CacheOK, FlushRevokes
<1>5. Admits
  BY <1>3 DEF Admits
<1>6. CASE Hit(r) = {} /\ task' = [task EXCEPT ![r].pc = "call"] /\ UNCHANGED <<permits, fut>>
  <2>. DEFINE t == task[r]
              u == [t EXCEPT !.pc = "call"]
  <2>0. /\ task = [q \in Reqs |-> task[q]]
        /\ permits \in [{"data", "admin"} -> Nat]
        /\ fut \in [Reqs -> {"idle", "permit", "await"}]
    BY DEF AuthInv
  <2>1. task' = [task EXCEPT ![r] = u]
    BY <1>6, <2>0
  <2>2. t \in Tasks
    BY <1>0 DEF TaskFits
  <2>3. u \in Tasks
    BY <2>2, TaskShape
  <2>4. u.cred = t.cred /\ u.at = t.at /\ u.gen = t.gen /\ u.pc = "call" /\ u.ans = t.ans
    BY <2>2 DEF Tasks
  <2>. HIDE DEF u
  <2>5. TaskFits(r, u)
    BY <1>0, <2>3, <2>4 DEF TaskFits
  <2>. QED  BY <1>0, <1>4, <1>5, <1>6, <2>0, <2>1, <2>5, OneTask
<1>7. ASSUME NEW e \in Hit(r), Decide(r, e.ans) PROVE AuthInv'
  <2>1. e \in Range(cache) /\ e.key = KeyOf(r)
    BY DEF Hit, EntryOf
  <2>2. e \in Entries
    BY <1>1, <2>1 DEF Range
  <2>3. e.ans \in Answers
    BY <2>2 DEF Entries
  <2>4. e.ans \in Identifies => e.ans.gen >= flushedAt[Chain(r)[task[r].at]]
    BY <1>0, <1>1, <2>1, KeyOfTask DEF FlushRevokes
  <2>. HIDE DEF Hit
  <2>. QED  BY <1>0, <1>4, <1>7, <2>3, <2>4, DecideStep
<1>. QED  BY <1>5, <1>6, <1>7 DEF Lookup

LEMMA AnswerStep ==
    ASSUME AuthInv, NEW r \in Reqs, Answer(r)
    PROVE  AuthInv' /\ Admits
<1>0. TaskFits(r, task[r]) /\ UNCHANGED <<clock, cache, flushGen, flushedAt>>
  BY ChainAtWork DEF Answer, NoTask
<1>1. CacheOK'
  BY <1>0 DEF AuthInv, CacheOK, FlushRevokes
<1>2. Admits
  BY <1>0 DEF Admits
<1>3. PICK ans \in NewAnswers :
         \/ r \in DataReqs /\ Decide(r, ans)
         \/ /\ r \in AdminReqs
            /\ task' = [task EXCEPT ![r].pc = "put", ![r].ans = ans]
            /\ UNCHANGED <<permits, fut>>
  BY DEF Answer
<1>4. ans \in Answers /\ (ans \in Identifies => ans.gen = flushGen)
  BY AnswerKinds DEF NewAnswers
<1>5. /\ flushedAt[Chain(r)[task[r].at]] <= flushGen
      /\ flushedAt[Chain(r)[task[r].at]] \in Nat /\ flushGen \in Nat
  <2>1. Chain(r)[task[r].at] \in Modules
    BY <1>0, ChainsAre DEF TaskFits
  <2>. QED  BY <2>1 DEF AuthInv
<1>6. ans \in Identifies => ans.gen >= flushedAt[Chain(r)[task[r].at]]
  BY <1>4, <1>5
<1>7. CASE Decide(r, ans)
  BY <1>0, <1>1, <1>2, <1>4, <1>6, <1>7, DecideStep
<1>8. CASE /\ r \in AdminReqs
           /\ task' = [task EXCEPT ![r].pc = "put", ![r].ans = ans]
           /\ UNCHANGED <<permits, fut>>
  <2>. DEFINE t == task[r]
              u == [t EXCEPT !.pc = "put", !.ans = ans]
  <2>0. /\ task = [q \in Reqs |-> task[q]]
        /\ permits \in [{"data", "admin"} -> Nat]
        /\ fut \in [Reqs -> {"idle", "permit", "await"}]
    BY DEF AuthInv
  <2>1. task' = [task EXCEPT ![r] = u]
    BY <1>8, <2>0
  <2>2. t \in Tasks
    BY <1>0 DEF TaskFits
  <2>3. u \in Tasks
    BY <1>4, <2>2, TaskShape
  <2>4. u.cred = t.cred /\ u.at = t.at /\ u.gen = t.gen /\ u.pc = "put" /\ u.ans = ans
    BY <2>2 DEF Tasks
  <2>. HIDE DEF u
  <2>5. TaskFits(r, u)
    BY <1>0, <1>6, <1>8, <2>3, <2>4 DEF TaskFits
  <2>. QED  BY <1>0, <1>1, <1>2, <1>8, <2>0, <2>1, <2>5, OneTask
<1>. QED  BY <1>3, <1>7, <1>8

LEMMA AdminPutStep ==
    ASSUME AuthInv, NEW r \in Reqs, AdminPut(r)
    PROVE  AuthInv' /\ Admits
<1>. DEFINE t == task[r]
<1>0. TaskFits(r, t) /\ UNCHANGED <<clock, flushGen, flushedAt>> /\ t.pc = "put"
  BY ChainAtWork DEF AdminPut, NoTask
<1>1. cache \in Seq(Entries) /\ FlushRevokes
  BY DEF AuthInv, CacheOK
<1>2. r \in AdminReqs /\ r \notin DataReqs /\ t # NoTask
  <2>1. r \in AdminReqs /\ r \notin DataReqs
    BY <1>0, ChainAssumption DEF TaskFits
  <2>2. t # NoTask
    BY <1>0 DEF NoTask
  <2>. QED  BY <2>1, <2>2
<1>3. t.ans \in Answers /\ t.now \in Nat
  BY <1>0, TaskShape DEF TaskFits
<1>4. KeyOf(r) \in CacheKeys /\ KeyOf(r)[1] = Chain(r)[t.at] /\ KeyOf(r)[2] = t.cred
  BY <1>0, KeyOfTask
<1>5. t.ans \in Identifies /\ t.gen = flushGen => t.ans.gen >= flushedAt[Chain(r)[t.at]]
  BY <1>0 DEF TaskFits
<1>6. cache' = Put(KeyOf(r), t.ans, t.now, t.gen) /\ Decide(r, t.ans)
  BY DEF AdminPut
<1>7. /\ cache' \in Seq(Entries)
      /\ \A e \in Range(cache') :
            /\ e.ans \in Identifies => e.ans.gen >= flushedAt[e.key[1]]
            /\ e \in Range(cache) \/ e.key = KeyOf(r)
  BY <1>1, <1>3, <1>4, <1>5, <1>6, PutRows
<1>8. CacheOK'
  BY <1>0, <1>7 DEF CacheOK, FlushRevokes
<1>9. Admits
  BY <1>2, <1>4, <1>7 DEF Admits
<1>. HIDE DEF t
<1>10. AuthInv'
  BY <1>0, <1>3, <1>5, <1>6, <1>8, DecideStep DEF t
<1>. QED  BY <1>9, <1>10

LEMMA CommitStep ==
    ASSUME AuthInv, NEW r \in Reqs, Commit(r)
    PROVE  AuthInv' /\ Admits
<1>. DEFINE t == task[r]
<1>0. TaskFits(r, t) /\ UNCHANGED <<clock, flushGen, flushedAt>> /\ t.pc = "commit" /\ t # NoTask
  BY ChainAtWork DEF Commit, NoTask
<1>1. cache \in Seq(Entries) /\ FlushRevokes
  BY DEF AuthInv, CacheOK
<1>2. r \in DataReqs /\ t.ans \in Identifies /\ t \in Tasks /\ t.cred \in CredsOf(r)
  BY <1>0 DEF TaskFits
<1>3. t.ans \in Answers /\ t.now \in Nat
  BY <1>2, TaskShape
<1>4. KeyOf(r) \in CacheKeys /\ KeyOf(r)[1] = Chain(r)[t.at] /\ KeyOf(r)[2] = t.cred
  BY <1>0, KeyOfTask
<1>5. t.ans \in Identifies /\ t.gen = flushGen => t.ans.gen >= flushedAt[Chain(r)[t.at]]
  BY <1>0 DEF TaskFits
<1>6. /\ task = [q \in Reqs |-> task[q]]
      /\ permits \in [{"data", "admin"} -> Nat]
      /\ fut \in [Reqs -> {"idle", "permit", "await"}]
  BY DEF AuthInv
<1>7. CASE \E m \in t.pending :
            /\ cache' = Put(<<m, t.cred>>, PassAnswer, t.now, t.gen)
            /\ task' = [task EXCEPT ![r].pending = @ \ {m}]
            /\ UNCHANGED <<permits, fut>>
  <2>1. PICK m \in t.pending :
            /\ cache' = Put(<<m, t.cred>>, PassAnswer, t.now, t.gen)
            /\ task' = [task EXCEPT ![r].pending = @ \ {m}]
            /\ UNCHANGED <<permits, fut>>
    BY <1>7
  <2>. DEFINE k == <<m, t.cred>>
              u == [t EXCEPT !.pending = t.pending \ {m}]
  <2>2. k \in CacheKeys /\ k[2] = t.cred
    BY <1>2, ChainsAre DEF CacheKeys, Tasks
  <2>. HIDE DEF k
  <2>3. PassAnswer \in Answers /\ PassAnswer \notin Identifies
    BY AnswerKinds
  <2>4. /\ cache' \in Seq(Entries)
        /\ \A e \in Range(cache') :
              /\ e.ans \in Identifies => e.ans.gen >= flushedAt[e.key[1]]
              /\ e \in Range(cache) \/ e.key = k
    BY <1>1, <1>3, <2>1, <2>2, <2>3, PutRows DEF k
  <2>5. CacheOK'
    BY <1>0, <2>4 DEF CacheOK, FlushRevokes
  <2>6. Admits
    BY <1>0, <1>2, <2>2, <2>4 DEF Admits
  <2>7. task' = [task EXCEPT ![r] = u]
    BY <1>6, <2>1
  <2>8. u \in Tasks /\ u.cred = t.cred /\ u.at = t.at /\ u.gen = t.gen /\ u.pc = t.pc /\ u.ans = t.ans
    BY <1>2 DEF Tasks
  <2>. HIDE DEF u
  <2>9. TaskFits(r, u)
    BY <1>0, <2>8 DEF TaskFits
  <2>. QED  BY <1>0, <1>6, <2>1, <2>5, <2>6, <2>7, <2>9, OneTask
<1>8. CASE cache' = Put(KeyOf(r), t.ans, t.now, t.gen) /\ Return(r)
  <2>1. /\ cache' \in Seq(Entries)
        /\ \A e \in Range(cache') :
              /\ e.ans \in Identifies => e.ans.gen >= flushedAt[e.key[1]]
              /\ e \in Range(cache) \/ e.key = KeyOf(r)
    BY <1>1, <1>3, <1>4, <1>5, <1>8, PutRows
  <2>2. CacheOK'
    BY <1>0, <2>1 DEF CacheOK, FlushRevokes
  <2>3. Admits
    BY <1>0, <1>2, <1>4, <2>1 DEF Admits
  <2>4. permits' \in [{"data", "admin"} -> Nat]
    BY <1>6, <1>8, ChainsAre DEF Return
  <2>5. fut' \in [Reqs -> {"idle", "permit", "await"}] /\ task' = [task EXCEPT ![r] = NoTask]
    BY <1>6, <1>8 DEF Return
  <2>. QED  BY <1>0, <2>2, <2>3, <2>4, <2>5, OneTask
<1>. QED  BY <1>7, <1>8 DEF Commit

LEMMA PanicStep ==
    ASSUME AuthInv, NEW r \in Reqs, Panic(r)
    PROVE  AuthInv' /\ Admits
<1>1. UNCHANGED <<clock, cache, flushGen, flushedAt>> /\ Return(r)
  BY DEF Panic
<1>2. CacheOK' /\ Admits
  BY <1>1 DEF AuthInv, CacheOK, FlushRevokes, Admits
<1>3. permits' \in [{"data", "admin"} -> Nat]
  BY <1>1, ChainsAre DEF Return, AuthInv
<1>4. fut' \in [Reqs -> {"idle", "permit", "await"}] /\ task' = [task EXCEPT ![r] = NoTask]
  BY <1>1 DEF Return, AuthInv
<1>. QED  BY <1>1, <1>2, <1>3, <1>4, OneTask

LEMMA SpawnStep ==
    ASSUME AuthInv, NEW r \in Reqs, Spawn(r)
    PROVE  AuthInv' /\ Admits
<1>1. UNCHANGED <<clock, cache, flushGen, flushedAt>>
  BY DEF Spawn
<1>2. CacheOK' /\ Admits
  BY <1>1 DEF AuthInv, CacheOK, FlushRevokes, Admits
<1>3. permits' \in [{"data", "admin"} -> Nat]
  <2>1. permits[Plane(r)] \in Nat /\ permits[Plane(r)] > 0
    BY ChainsAre DEF Spawn, AuthInv
  <2>2. permits[Plane(r)] - 1 \in Nat
    BY <2>1
  <2>. QED  BY <2>2 DEF Spawn, AuthInv
<1>4. fut' \in [Reqs -> {"idle", "permit", "await"}]
  BY DEF Spawn, AuthInv
<1>5. PICK c \in CredsOf(r) :
         task' = [task EXCEPT ![r] =
            [pc |-> "lookup", cred |-> c, now |-> clock, gen |-> flushGen, at |-> 1,
             ans |-> NoAnswer, pending |-> {}]]
  BY DEF Spawn
<1>. DEFINE u == [pc |-> "lookup", cred |-> c, now |-> clock, gen |-> flushGen, at |-> 1,
                  ans |-> NoAnswer, pending |-> {}]
<1>6. NoAnswer \in Answers /\ NoAnswer \notin Identifies
  BY AnswerKinds DEF NoAnswer
<1>7. c \in DataCreds \cup AdminCreds /\ 1 \in 1 .. Len(Chain(r)) /\ 1 \in 1 .. Len(DataChain) + Len(AdminChain)
  <2>1. Len(DataChain) + Len(AdminChain) \in Nat
    BY ChainAssumption
  <2>. QED  BY <2>1, ChainsAre
<1>8. clock \in 0 .. MaxClock /\ flushGen \in 0 .. MaxFlushes /\ flushGen <= flushGen
  BY ChainAssumption DEF AuthInv
<1>9. u \in Tasks
  BY <1>6, <1>7, <1>8 DEF Tasks
<1>10. TaskFits(r, u)
  BY <1>6, <1>7, <1>8, <1>9 DEF TaskFits
<1>. HIDE DEF u
<1>. QED  BY <1>1, <1>2, <1>3, <1>4, <1>5, <1>10, OneTask DEF u

(* Steps of a future alone.                                                *)
LEMMA FutureStep ==
    ASSUME AuthInv, NEW r \in Reqs,
           Arrive(r) \/ PermitTimeout(r) \/ AwaitTimeout(r) \/ Disconnect(r)
    PROVE  AuthInv' /\ Admits
<1>1. UNCHANGED <<clock, cache, flushGen, flushedAt, permits, task>>
  BY DEF Arrive, PermitTimeout, AwaitTimeout, Disconnect
<1>2. fut' \in [Reqs -> {"idle", "permit", "await"}]
  BY DEF Arrive, PermitTimeout, AwaitTimeout, Disconnect, AuthInv
<1>. QED  BY <1>1, <1>2 DEF AuthInv, CacheOK, FlushRevokes, TaskFits, Admits

LEMMA TickStep ==
    ASSUME AuthInv, Tick
    PROVE  AuthInv' /\ Admits
<1>1. UNCHANGED <<cache, flushGen, flushedAt, permits, fut, task>>
  BY DEF Tick
<1>2. clock' \in 0 .. MaxClock
  BY ChainAssumption DEF Tick, AuthInv
<1>. QED  BY <1>1, <1>2 DEF AuthInv, CacheOK, FlushRevokes, TaskFits, Admits

LEMMA FlushStep ==
    ASSUME AuthInv, NEW ms, Flush(ms)
    PROVE  AuthInv' /\ Admits
<1>1. UNCHANGED <<clock, permits, fut, task>> /\ flushGen' = flushGen + 1 /\ flushGen < MaxFlushes
  BY DEF Flush
<1>2. flushGen \in Nat /\ MaxFlushes \in Nat /\ flushGen' \in 0 .. MaxFlushes
  BY <1>1, ChainAssumption DEF AuthInv
<1>3. /\ flushedAt' = [m \in Modules |-> IF m \in ms THEN flushGen + 1 ELSE flushedAt[m]]
      /\ \A m \in Modules : flushedAt[m] \in 0 .. MaxFlushes /\ flushedAt[m] <= flushGen
  BY DEF Flush, AuthInv
<1>4. flushedAt' \in [Modules -> 0 .. MaxFlushes] /\ \A m \in Modules : flushedAt'[m] <= flushGen'
  BY <1>1, <1>2, <1>3
<1>5. cache \in Seq(Entries) /\ FlushRevokes
  BY DEF AuthInv, CacheOK
<1>6. /\ cache' \in Seq(Entries)
      /\ Range(cache') \subseteq Range(cache) \cap {e \in Range(cache) : e.key[1] \notin ms}
  BY <1>5, KeptRange DEF Flush
<1>7. \A e \in Range(cache) : e.key[1] \in Modules
  <2>1. \A e \in Range(cache) : e \in Entries
    BY <1>5 DEF Range
  <2>2. \A e \in Entries : e.key \in CacheKeys
    BY DEF Entries
  <2>3. \A k \in CacheKeys : k[1] \in Modules
    BY DEF CacheKeys
  <2>. QED  BY <2>1, <2>2, <2>3
<1>8. FlushRevokes'
  BY <1>3, <1>5, <1>6, <1>7 DEF FlushRevokes
<1>9. Admits
  BY <1>6 DEF Admits
<1>10. \A r \in Reqs : task[r] = NoTask \/ TaskFits(r, task[r])
  BY DEF AuthInv
<1>11. ASSUME NEW r \in Reqs, TaskFits(r, task[r])
       PROVE  TaskFits(r, task[r])'
  <2>. DEFINE t == task[r]
  <2>1. t \in Tasks /\ t.gen \in Nat /\ t.gen <= flushGen
    BY <1>11, ChainAssumption DEF TaskFits, Tasks
  <2>2. t.gen <= flushGen' /\ t.gen # flushGen'
    BY <1>1, <1>2, <2>1
  <2>. QED  BY <1>1, <1>11, <2>2 DEF TaskFits
<1>12. task = [q \in Reqs |-> task[q]] /\ permits \in [{"data", "admin"} -> Nat]
       /\ fut \in [Reqs -> {"idle", "permit", "await"}] /\ clock \in 0 .. MaxClock
  BY DEF AuthInv
<1>13. \A r \in Reqs : (task[r] = NoTask \/ TaskFits(r, task[r]))'
  BY <1>1, <1>10, <1>11
<1>. QED  BY <1>1, <1>2, <1>4, <1>6, <1>8, <1>9, <1>12, <1>13 DEF AuthInv, CacheOK

LEMMA AuthStep ==
    ASSUME AuthInv, [AuthNext]_authVars
    PROVE  AuthInv' /\ Admits
<1>1. CASE UNCHANGED authVars
  BY <1>1 DEF authVars, AuthInv, CacheOK, FlushRevokes, TaskFits, Admits
<1>2. CASE FlushModule \/ FlushAll
  BY <1>2, FlushStep DEF FlushModule, FlushAll
<1>3. CASE \E r \in Reqs : \/ Arrive(r) \/ PermitWait(r) \/ AwaitTimeout(r)
                           \/ Disconnect(r)
                           \/ Work(r) \/ Answer(r) \/ Panic(r)
  BY <1>3, FutureStep, SpawnStep, LookupStep, AdminPutStep, CommitStep, AnswerStep, PanicStep
     DEF PermitWait, Work
<1>. QED  BY <1>1, <1>2, <1>3, TickStep DEF AuthNext

LEMMA AuthStarts == AuthInit => AuthInv
<1>. SUFFICES ASSUME AuthInit PROVE AuthInv
  OBVIOUS
<1>1. clock \in 0 .. MaxClock /\ flushGen \in 0 .. MaxFlushes /\ flushGen = 0
  BY ChainAssumption DEF AuthInit
<1>2. flushedAt \in [Modules -> 0 .. MaxFlushes] /\ \A m \in Modules : flushedAt[m] <= flushGen
  BY ChainAssumption DEF AuthInit
<1>3. permits \in [{"data", "admin"} -> Nat]
  BY ChainAssumption DEF AuthInit
<1>4. CacheOK
  <2>1. cache = <<>> /\ Range(<<>>) = {} /\ <<>> \in Seq(Entries)
    BY DEF AuthInit, Range
  <2>. QED  BY <2>1 DEF CacheOK, FlushRevokes
<1>. QED  BY <1>1, <1>2, <1>3, <1>4 DEF AuthInit, AuthInv

LEMMA AuthInvHolds == AuthSpec => []AuthInv
BY AuthStarts, AuthStep, PTL DEF AuthSpec

(* Futures, spawned chains and permits keep their types and the cache holds *)
(* answers of modules to credentials, stamped with a generation and an      *)
(* expiry: for any requests, credentials, chains, permits and lifetimes.    *)
THEOREM AuthTypes == AuthSpec => []AuthTypeOK
BY AuthInvHolds, AuthTypesHold, PTL

(* An identity in the cache was given after the last flush of its module,   *)
(* although chains that began before the flush go on under it and store     *)
(* what they were told: the generation that put_if_gen compares is enough.  *)
THEOREM AuthFlushRevokes == AuthSpec => []FlushRevokes
<1>1. AuthInv => FlushRevokes
  BY DEF AuthInv, CacheOK
<1>. QED  BY <1>1, AuthInvHolds, PTL

(* A new row of the cache is about the credential of a chain at work, which *)
(* has identified it if it is the data plane's: refused credentials evict no *)
(* live row, whichever chains run, panic or are left by their caller.       *)
THEOREM AuthDeniedAdmitsNothing == AuthSpec => DeniedAdmitsNothing
<1>. DEFINE A == \A e \in Range(cache') \ Range(cache) :
         \E r \in Reqs : /\ task[r] # NoTask /\ task[r].cred = e.key[2]
                         /\ r \in DataReqs => task[r].ans \in Identifies
<1>1. AuthInv /\ [AuthNext]_authVars => [A]_authVars
  BY AuthStep DEF Admits
<1>2. AuthSpec => [][A]_authVars
  BY <1>1, AuthStarts, AuthStep, PTL DEF AuthSpec
<1>. QED  BY <1>2 DEF DeniedAdmitsNothing

-----------------------------------------------------------------------------
(* Names and documents of the configuration. *)

LEMMA NamesAre ==
    /\ Names = {"team", "leaf", "hook", "root", "pin"}
    /\ Defs("team") = {"leaf", "top"} /\ Defs("leaf") = {"team", "top"}
    /\ Defs("hook") = {"v1"} /\ Defs("root") = {"v1", "v2"} /\ Defs("pin") = {"v1"}
BY DEF Names, Groups, Hooks, Root, Pins, Defs

LEMMA DefsProper ==
    /\ \A n \in Names : Defs(n) \subseteq AllDefs /\ None \notin Defs(n)
    /\ None \notin Groups /\ None # "top" /\ "top" \notin Groups
    /\ "root" \in Names /\ "pin" \in Names /\ None # "v1" /\ "v1" \in Defs("root")
<1>1. \A n \in Names : Defs(n) \subseteq AllDefs /\ None \notin Defs(n)
  BY NoDefinition DEF AllDefs
<1>2. {"team", "leaf"} \subseteq Names
  BY NamesAre
<1>3. {"team", "leaf", "top"} \subseteq AllDefs
  BY <1>1, <1>2, NamesAre
<1>4. "root" \in Names /\ "pin" \in Names /\ "v1" \in Defs("root")
  BY NamesAre
<1>5. "v1" # None
  BY <1>1, <1>4
<1>6. None \notin {"team", "leaf", "top"}
  BY <1>3, NoDefinition
<1>. QED  BY <1>1, <1>4, <1>5, <1>6 DEF Groups

LEMMA SectionsAre ==
    /\ \A n \in Groups : SectionOf(n) = Groups
    /\ \A n \in Hooks : SectionOf(n) = Hooks
    /\ Groups \cap Hooks = {} /\ Groups \cap Root = {} /\ Groups \cap Pins = {}
    /\ Hooks \cap Root = {} /\ Hooks \cap Pins = {} /\ Root \cap Pins = {}
    /\ Groups \subseteq Names /\ Hooks \subseteq Names /\ Root \subseteq Names /\ Pins \subseteq Names
    /\ Names \subseteq Groups \cup Hooks \cup {"root", "pin"}
<1>1. /\ Groups \cap Hooks = {} /\ Groups \cap Root = {} /\ Groups \cap Pins = {}
      /\ Hooks \cap Root = {} /\ Hooks \cap Pins = {} /\ Root \cap Pins = {}
  BY DEF Groups, Hooks, Root, Pins
<1>2. \A n \in Groups, S \in Sections : n \in S <=> S = Groups
  BY <1>1 DEF Sections
<1>3. \A n \in Hooks, S \in Sections : n \in S <=> S = Hooks
  BY <1>1 DEF Sections
<1>4. Groups \in Sections /\ Hooks \in Sections
  BY DEF Sections
<1>5. \A n \in Groups : SectionOf(n) = Groups
  BY <1>2, <1>4 DEF SectionOf
<1>6. \A n \in Hooks : SectionOf(n) = Hooks
  BY <1>3, <1>4 DEF SectionOf
<1>7. /\ Groups \subseteq Names /\ Hooks \subseteq Names /\ Root \subseteq Names /\ Pins \subseteq Names
      /\ Names \subseteq Groups \cup Hooks \cup {"root", "pin"}
  BY DEF Names, Root, Pins
<1>. QED  BY <1>1, <1>5, <1>6, <1>7

-----------------------------------------------------------------------------
(* Documents. *)
LEMMA DocIs ==
    ASSUME NEW f
    PROVE  f \in Doc <=> f = [n \in Names |-> f[n]] /\ \A n \in Names : f[n] \in Defs(n) \cup {None}
<1>1. ASSUME f = [n \in Names |-> f[n]], \A n \in Names : f[n] \in Defs(n) \cup {None}
      PROVE  f \in Doc
  <2>1. \A n \in Names : f[n] \in AllDefs \cup {None}
    BY <1>1, DefsProper
  <2>2. f \in [Names -> AllDefs \cup {None}]
    BY <1>1, <2>1
  <2>. QED  BY <1>1, <2>2 DEF Doc
<1>. QED  BY <1>1 DEF Doc

LEMMA DocEdit ==
    ASSUME NEW f \in Doc, NEW n \in Names, NEW d \in Defs(n) \cup {None}
    PROVE  /\ [f EXCEPT ![n] = d] \in Doc
           /\ [f EXCEPT ![n] = d][n] = d
           /\ \A m \in Names : m # n => [f EXCEPT ![n] = d][m] = f[m]
<1>1. f = [m \in Names |-> f[m]] /\ \A m \in Names : f[m] \in Defs(m) \cup {None}
  BY DocIs
<1>. DEFINE g == [f EXCEPT ![n] = d]
<1>2. /\ g = [m \in Names |-> g[m]]
      /\ \A m \in Names : g[m] = IF m = n THEN d ELSE f[m]
  BY <1>1
<1>. HIDE DEF g
<1>3. \A m \in Names : g[m] \in Defs(m) \cup {None}
  BY <1>1, <1>2
<1>4. g \in Doc
  BY <1>2, <1>3, DocIs
<1>. QED  BY <1>2, <1>4 DEF g

(* The overlay has entries and no tombstone. *)
Overlays == {o \in [items : Doc, dead : SUBSET Names] : o.dead = {}}

(* The deployed file has root settings and no pin. *)
Deployed(f) == f \in Doc /\ f["pin"] = None /\ f["root"] # None

LEMMA MergeIs ==
    ASSUME NEW f \in Doc, NEW o \in Overlays
    PROVE  /\ Merge(f, o) \in Doc
           /\ \A n \in Names : Merge(f, o)[n] = IF o.items[n] # None THEN o.items[n] ELSE f[n]
<1>. DEFINE g == Merge(f, o)
<1>1. o.dead = {} /\ o.items \in Doc
  BY DEF Overlays
<1>2. /\ g = [n \in Names |-> g[n]]
      /\ \A n \in Names : g[n] = IF o.items[n] # None THEN o.items[n] ELSE f[n]
  BY <1>1 DEF Merge
<1>. HIDE DEF g
<1>3. \A n \in Names : g[n] \in Defs(n) \cup {None}
  BY <1>1, <1>2, DocIs
<1>. QED  BY <1>2, <1>3, DocIs DEF g

LEMMA ClearIs ==
    ASSUME NEW o \in Overlays, NEW S
    PROVE  /\ ClearSection(o, S) \in Overlays
           /\ \A n \in Names : ClearSection(o, S).items[n] = IF n \in S THEN None ELSE o.items[n]
<1>. DEFINE g == ClearSection(o, S).items
<1>1. o.dead = {} /\ o.items \in Doc
  BY DEF Overlays
<1>2. /\ g = [n \in Names |-> g[n]]
      /\ \A n \in Names : g[n] = IF n \in S THEN None ELSE o.items[n]
      /\ ClearSection(o, S) = [items |-> g, dead |-> {}]
  BY <1>1 DEF ClearSection
<1>. HIDE DEF g
<1>3. \A n \in Names : g[n] \in Defs(n) \cup {None}
  BY <1>1, <1>2, DocIs
<1>4. g \in Doc
  BY <1>2, <1>3, DocIs
<1>. QED  BY <1>2, <1>4 DEF Overlays, g

(* The tombstones of the section are those of names of the base that the   *)
(* registry lacks.                                                         *)
LEMMA PersistIs ==
    ASSUME NEW o \in Overlays, NEW S, NEW items \in Doc, NEW add, NEW base,
           add \subseteq S \cap Names, \A n \in add : n \notin base
    PROVE  /\ PersistSection(o, S, items, add, base) \in Overlays
           /\ \A n \in Names : PersistSection(o, S, items, add, base).items[n]
                                 = IF n \in S THEN items[n] ELSE o.items[n]
<1>. DEFINE p == PersistSection(o, S, items, add, base)
            g == p.items
<1>1. o.dead = {} /\ o.items \in Doc
  BY DEF Overlays
<1>2. /\ g = [n \in Names |-> g[n]]
      /\ \A n \in Names : g[n] = IF n \in S THEN items[n] ELSE o.items[n]
      /\ p = [items |-> g, dead |-> {n \in o.dead \cup add : n \notin S \/ (items[n] = None /\ n \in base)}]
  BY DEF PersistSection
<1>3. {n \in o.dead \cup add : n \notin S \/ (items[n] = None /\ n \in base)} = {}
  BY <1>1
<1>4. p = [items |-> g, dead |-> {}]
  BY <1>2, <1>3
<1>. HIDE DEF p, g
<1>5. \A n \in Names : g[n] \in Defs(n) \cup {None}
  BY <1>1, <1>2, DocIs
<1>6. g \in Doc
  BY <1>2, <1>5, DocIs
<1>7. p.items = g /\ p \in Overlays
  BY <1>4, <1>6 DEF Overlays
<1>. QED  BY <1>2, <1>7 DEF p

-----------------------------------------------------------------------------
(* The invariant of the transactions. *)

(* The Apps that may be installed.                                         *)
Apps == {a \in [items : Doc, base : Doc, version : Nat] :
            Deployed(a.base) /\ a.items["root"] # None /\ ValidGroups(a.items)}

(* Overlay o holds what App a has and its base has not; its pin; a was      *)
(* built over o.                                                           *)
DurableIn(o, a) == \A n \in (Groups \cup Hooks) \ BaseNames(a) : o.items[n] = a.items[n]
PinIn(o, a) == o.items["pin"] = a.items["pin"]
BuiltOn(o, a) == \A n \in Names : a.items[n] = IF o.items[n] # None THEN o.items[n] ELSE a.base[n]

GroupsSame(x, y) == \A g \in Groups : x[g] = y[g]

(* From overlay o and App a to p and x: one group written, or none.        *)
OneWrite(o, p, a, x) ==
    \/ GroupsSame(p.items, o.items) /\ GroupsSame(x.items, a.items)
    \/ /\ GroupsSame(p.items, x.items)
       /\ \E g \in Groups : a.base[g] = None /\ \A e \in Groups \ {g} : x.items[e] = a.items[e]
LayerKept(o, p) == GroupsSame(p.items, o.items) \/ \A g \in Groups : p.items[g] = None

(* The base and the pin stay, and the group k that the key is bound to.    *)
EditOf(x, a, k) ==
    /\ x.base = a.base /\ x.items["pin"] = a.items["pin"]
    /\ \A g \in Groups : x.items[g] = None /\ a.items[g] # None => k # g

Follows(x, a) == x \in Apps /\ x.version = a.version + 1

(* Persisted, as a function of the transaction and the overlay.            *)
Wrote(t, o) ==
    LET r == t.req
        S == CASE r.kind \in {"edit", "delete"} -> SectionOf(r.name)
               [] r.kind \in {"mint", "leaf"} -> Groups
               [] r.kind = "rollback" -> Hooks
               [] r.kind = "settings" -> Root
        add == IF r.kind = "delete" THEN {r.name} ELSE {} IN
    IF r.kind = "reset" THEN ClearSection(o, r.section)
    ELSE PersistSection(o, S, t.next.items, add, BaseNames(t.next))

(* What will be persisted and then installed ...                           *)
Planned(t, o, a, k) ==
    LET p == Wrote(t, o) IN
    /\ Follows(t.next, a) /\ p \in Overlays /\ DurableIn(p, t.next)
    /\ t.req.kind \notin Persistless
    /\ t.req.kind \in Rebuilds => BuiltOn(p, t.next) /\ LayerKept(o, p)
    /\ t.req.kind \notin Rebuilds =>
          /\ EditOf(t.next, a, k) /\ OneWrite(o, p, a, t.next)
          /\ p.items["pin"] = o.items["pin"]

(* ... and what is persisted, if it is to be.                              *)
Due(t, o, a, k) ==
    /\ Follows(t.next, a) /\ DurableIn(o, t.next)
    /\ t.req.kind \in Rebuilds => BuiltOn(o, t.next)
    /\ t.req.kind \notin Rebuilds => EditOf(t.next, a, k)
    /\ t.req.kind = "auth" => t.next.items = a.items

Target(t) == IF t.req.kind = "mint" THEN "leaf" ELSE t.req.name

InSection(t, o, a, k) ==
    /\ t = [client |-> t.client, req |-> t.req, snap |-> t.snap, next |-> t.next, step |-> t.step]
    /\ t.client \in Clients
    /\ t.step \in {"persist", "swap", "rebuild", "there", "bind"}
    /\ t.step = "persist" => Planned(t, o, a, k)
    /\ t.step = "swap" => Due(t, o, a, k)
    /\ t.step \in {"persist", "swap"} /\ t.req.kind = "mint" => t.next.items["leaf"] # None
    /\ t.step = "rebuild" => t.req.kind = "pin" /\ t.snap = a
    /\ t.step = "bind" => t.next = a /\ Target(t) \in Groups /\ a.items[Target(t)] # None

BoundIn(k, a) == k # None /\ a.items[k] = None => k \in dropped

PcStates == {"idle", "push", "section", "record", "selfBind"}

Typed ==
    /\ Deployed(file) /\ overlay \in Overlays /\ live \in Apps
    /\ limits \in Defs("root")
    /\ bind \in [Keys -> Groups \cup {None}]
    /\ stuck \in BOOLEAN

Locked ==
    /\ pc \in [Clients -> PcStates]
    /\ \A c \in Clients : pc[c] = "section" <=> txn # NoTxn /\ txn.client = c
    /\ txn = NoTxn \/ InSection(txn, overlay, live, bind["adminKey"])

(* Every version was paid for.                                             *)
Counted ==
    /\ ops \in Nat /\ ops <= MaxOps
    /\ live.version <= ops
    /\ txn # NoTxn /\ txn.step \in {"persist", "swap", "rebuild"} => live.version + 1 <= ops

Durable ==
    /\ DurableIn(overlay, View)
    /\ (txn # NoTxn => txn.step \in {"persist", "there", "bind"}
                       \/ (txn.step = "swap" /\ txn.req.kind \notin Rebuilds))
          => stuck \/ PinIn(overlay, live)

Bound == LET k == bind["adminKey"] IN BoundIn(k, live) /\ BoundIn(k, View)

HookSets == [Hooks -> {"v1", None}]
LogRows == [version : Nat, hooks : HookSets]

(* v is the number of an App of this process and hooks its hooks.          *)
WasInForce(v, hooks) ==
    v \in Nat /\ v <= live.version /\ hooks \in HookSets /\ hooks = hist[v + 1]

Historic ==
    /\ hist \in Seq(HookSets) /\ Len(hist) = live.version + 1
    /\ hist[live.version + 1] = HooksOf(live.items)
    /\ log \in Seq(LogRows) /\ Len(log) \in 1 .. MaxVersions
    /\ \A row \in Range(log) : WasInForce(row.version, row.hooks)
    /\ done = [c \in Clients |-> done[c]]
    /\ \A c \in Clients : pc[c] \in {"push", "record"} => WasInForce(done[c].version, done[c].items)

PlaneInv == Typed /\ Locked /\ Counted /\ Durable /\ Bound /\ Historic

-----------------------------------------------------------------------------
LEMMA AppIs ==
    ASSUME NEW a \in Apps
    PROVE  /\ a.items \in Doc /\ a.base \in Doc /\ a.version \in Nat
           /\ Deployed(a.base) /\ a.items["root"] # None /\ ValidGroups(a.items)
           /\ a = [items |-> a.items, base |-> a.base, version |-> a.version]
           /\ HooksOf(a.items) \in HookSets
<1>1. /\ a.items \in Doc /\ a.base \in Doc /\ a.version \in Nat
      /\ Deployed(a.base) /\ a.items["root"] # None /\ ValidGroups(a.items)
      /\ a = [items |-> a.items, base |-> a.base, version |-> a.version]
  BY DEF Apps
<1>2. \A h \in Hooks : a.items[h] \in {"v1", None}
  BY <1>1, DocIs, NamesAre, SectionsAre DEF Hooks
<1>3. HooksOf(a.items) \in HookSets
  BY <1>2 DEF HooksOf, HookSets
<1>. QED  BY <1>1, <1>3

LEMMA AppMade ==
    ASSUME NEW i \in Doc, NEW b, Deployed(b), NEW v \in Nat, i["root"] # None, ValidGroups(i)
    PROVE  /\ [items |-> i, base |-> b, version |-> v] \in Apps
           /\ [items |-> i, base |-> b, version |-> v].items = i
           /\ [items |-> i, base |-> b, version |-> v].base = b
           /\ [items |-> i, base |-> b, version |-> v].version = v
<1>. DEFINE a == [items |-> i, base |-> b, version |-> v]
<1>1. b \in Doc
  BY DEF Deployed
<1>2. a \in [items : Doc, base : Doc, version : Nat] /\ a.items = i /\ a.base = b /\ a.version = v
  BY <1>1
<1>. HIDE DEF a
<1>3. a \in Apps
  BY <1>2 DEF Apps
<1>. QED  BY <1>2, <1>3 DEF a

(* ValidGroups looks at the groups alone.                                  *)
LEMMA ValidSame ==
    ASSUME NEW x, NEW y, GroupsSame(x, y), ValidGroups(x)
    PROVE  ValidGroups(y)
<1>1. \A g \in Groups : x[g] = y[g]
  BY DEF GroupsSame
<1>. DEFINE G == {g \in Groups : x[g] # None}
<1>2. {g \in Groups : y[g] # None} = G
  BY <1>1
<1>3. \A g \in G : y[g] \in G \cup {"top"}
  BY <1>1 DEF ValidGroups
<1>4. \A S \in (SUBSET G) \ {{}} : \E g \in S : y[g] \notin S
  <2>. SUFFICES ASSUME NEW S \in (SUBSET G) \ {{}} PROVE \E g \in S : y[g] \notin S
    OBVIOUS
  <2>1. PICK g \in S : x[g] \notin S
    BY DEF ValidGroups
  <2>. QED  BY <1>1, <2>1
<1>. HIDE DEF G
<1>. QED  BY <1>2, <1>3, <1>4 DEF ValidGroups

(* A leaf under a team that is there.                                      *)
LEMMA ValidLeaf ==
    ASSUME NEW x \in Doc, NEW y, ValidGroups(x), x["leaf"] = None, x["team"] # None,
           y["leaf"] = "team", y["team"] = x["team"]
    PROVE  ValidGroups(y)
<1>1. {g \in Groups : x[g] # None} = {"team"}
  BY DEF Groups
<1>2. x["team"] \in {"team"} \cup {"top"}
  BY <1>1 DEF ValidGroups
<1>3. x["team"] \in Defs("team") \cup {None}
  BY DocIs, NamesAre
<1>4. y["team"] = "top"
  BY <1>2, <1>3, NamesAre
<1>5. "team" # None /\ "top" # None
  BY DefsProper DEF Groups
<1>6. {g \in Groups : y[g] # None} = {"team", "leaf"}
  BY <1>4, <1>5 DEF Groups
<1>7. \A S \in (SUBSET {"team", "leaf"}) \ {{}} : \E g \in S : y[g] \notin S
  <2>. SUFFICES ASSUME NEW S \in (SUBSET {"team", "leaf"}) \ {{}} PROVE \E g \in S : y[g] \notin S
    OBVIOUS
  <2>1. "top" \notin S
    OBVIOUS
  <2>2. CASE "team" \in S
    BY <1>4, <2>1, <2>2
  <2>3. CASE "team" \notin S
    <3>1. PICK g \in S : TRUE
      OBVIOUS
    <3>2. g = "leaf"
      BY <2>3
    <3>. QED  BY <2>3, <3>2
  <2>. QED  BY <2>2, <2>3
<1>8. \A g \in {"team", "leaf"} : y[g] \in {"team", "leaf"} \cup {"top"}
  BY <1>4
<1>. QED  BY <1>6, <1>7, <1>8 DEF ValidGroups

LEMMA FilesAre ==
    /\ Deployed(BaseFile)
    /\ \A n \in Groups \cup Hooks : Deployed(Body(n))
    /\ ValidGroups(BaseFile) /\ NoOverlay \in Overlays
<1>1. BaseFile["team"] = "top" /\ BaseFile["leaf"] = None /\ BaseFile["hook"] = None
      /\ BaseFile["root"] = "v1" /\ BaseFile["pin"] = None
      /\ BaseFile = [n \in Names |-> BaseFile[n]]
  BY NamesAre DEF BaseFile
<1>2. \A n \in Names : BaseFile[n] \in Defs(n) \cup {None}
  BY <1>1, NamesAre
<1>3. BaseFile \in Doc
  BY <1>1, <1>2, DocIs
<1>4. Deployed(BaseFile)
  BY <1>1, <1>3, DefsProper DEF Deployed
<1>5. ASSUME NEW n \in Groups \cup Hooks
      PROVE  Deployed(Body(n))
  <2>. DEFINE d == IF BaseFile[n] = None THEN CHOOSE e \in Defs(n) : e \notin Groups ELSE None
  <2>1. n \in Names /\ n # "root" /\ n # "pin"
    BY SectionsAre DEF Groups, Hooks
  <2>2. \E e \in Defs(n) : e \notin Groups
    BY NamesAre DEF Groups, Hooks
  <2>3. d \in Defs(n) \cup {None}
    BY <2>2
  <2>4. Body(n) = [BaseFile EXCEPT ![n] = d]
    BY <1>1, <2>1 DEF Body
  <2>. HIDE DEF d
  <2>5. Body(n) \in Doc /\ \A m \in Names : m # n => Body(n)[m] = BaseFile[m]
    <3>1. n \in Names
      BY <2>1
    <3>2. /\ [BaseFile EXCEPT ![n] = d] \in Doc
          /\ \A m \in Names : m # n => [BaseFile EXCEPT ![n] = d][m] = BaseFile[m]
      BY <1>3, <3>1, <2>3, DocEdit
    <3>. QED  BY <2>4, <3>2
  <2>6. Body(n)["pin"] = BaseFile["pin"] /\ Body(n)["root"] = BaseFile["root"]
    BY <2>1, <2>5, DefsProper
  <2>. QED  BY <1>4, <2>5, <2>6 DEF Deployed
<1>6. ValidGroups(BaseFile)
  <2>1. "top" # None
    BY DefsProper
  <2>2. {g \in Groups : BaseFile[g] # None} = {"team"}
    BY <1>1, <2>1 DEF Groups
  <2>3. ASSUME NEW S \in (SUBSET {"team"}) \ {{}}
        PROVE  \E g \in S : BaseFile[g] \notin S
    <3>1. PICK g \in S : TRUE
      OBVIOUS
    <3>2. g = "team" /\ "top" \notin S
      OBVIOUS
    <3>. QED  BY <1>1, <3>2
  <2>. QED  BY <1>1, <2>2, <2>3 DEF ValidGroups
<1>7. NoOverlay \in Overlays
  <2>. DEFINE f == [n \in Names |-> None]
  <2>1. f = [n \in Names |-> f[n]] /\ \A n \in Names : f[n] \in Defs(n) \cup {None}
    OBVIOUS
  <2>. HIDE DEF f
  <2>2. f \in Doc
    BY <2>1, DocIs
  <2>. QED  BY <2>2 DEF NoOverlay, Overlays, f
<1>. QED  BY <1>4, <1>5, <1>6, <1>7

(* An App built over an overlay.                                           *)
LEMMA BuildIs ==
    ASSUME NEW f, Deployed(f), NEW o \in Overlays, NEW v \in Nat
    PROVE  LET a == Build(f, o, v) IN
           /\ a.items = Merge(f, o) /\ a.base = f /\ a.version = v
           /\ a.items \in Doc /\ BuiltOn(o, a)
           /\ a.items["root"] # None /\ a.items["root"] \in Defs("root")
           /\ ValidGroups(a.items) => a \in Apps
<1>. DEFINE a == Build(f, o, v)
<1>1. a = [items |-> Merge(f, o), base |-> f, version |-> v]
  BY DEF Build
<1>2. a.items = Merge(f, o) /\ a.base = f /\ a.version = v
  BY <1>1
<1>. HIDE DEF a
<1>3. f \in Doc /\ f["root"] # None
  BY DEF Deployed
<1>4. a.items \in Doc /\ BuiltOn(o, a)
  BY <1>2, <1>3, MergeIs DEF BuiltOn
<1>5. a.items["root"] # None
  BY <1>2, <1>3, <1>4, DefsProper DEF BuiltOn
<1>6. a.items["root"] \in Defs("root")
  BY <1>4, <1>5, DocIs, DefsProper
<1>7. ASSUME ValidGroups(a.items) PROVE a \in Apps
  BY <1>1, <1>2, <1>4, <1>5, <1>7, AppMade
<1>. QED  BY <1>2, <1>4, <1>5, <1>6, <1>7 DEF a

(* What is built over an overlay is durable in it.                         *)
LEMMA BuiltDurable ==
    ASSUME NEW o, NEW a \in Apps, BuiltOn(o, a)
    PROVE  DurableIn(o, a) /\ PinIn(o, a)
<1>1. \A n \in (Groups \cup Hooks) \ BaseNames(a) : n \in Names /\ a.base[n] = None
  BY SectionsAre DEF BaseNames
<1>2. DurableIn(o, a)
  BY <1>1 DEF DurableIn, BuiltOn
<1>3. a.base["pin"] = None /\ "pin" \in Names
  BY AppIs, DefsProper DEF Deployed
<1>4. PinIn(o, a)
  BY <1>3 DEF PinIn, BuiltOn
<1>. QED  BY <1>2, <1>4

LEMMA PersistedIs == Persisted = Wrote(txn, overlay)
BY DEF Persisted, Wrote

-----------------------------------------------------------------------------
(* Transactions begin. *)

LEMMA ClientsDistinct ==
    \A c, r, s, x, p : [client |-> c, req |-> r, snap |-> s, next |-> x, step |-> p] # NoTxn
<1>. SUFFICES ASSUME NEW c, NEW r, NEW s, NEW x, NEW p,
                     [client |-> c, req |-> r, snap |-> s, next |-> x, step |-> p] = NoTxn
              PROVE  FALSE
  OBVIOUS
<1>. DEFINE t == [client |-> c, req |-> r, snap |-> s, next |-> x, step |-> p]
<1>1. DOMAIN t = {"client", "req", "snap", "next", "step"} /\ DOMAIN NoTxn = {"client"}
  BY DEF NoTxn
<1>2. "step" \in DOMAIN t /\ "step" \notin DOMAIN NoTxn
  BY <1>1
<1>. QED  BY <1>2

(* One more transaction.                                                   *)
LEMMA OneMore ==
    ASSUME Counted, ops < MaxOps, ops' = ops + 1, live' = live, live \in Apps
    PROVE  Counted'
<1>. DEFINE v == live.version
<1>1. ops \in Nat /\ v <= ops /\ v \in Nat /\ MaxOps \in Nat
  BY AppIs, PlaneBounds DEF Counted
<1>. HIDE DEF v
<1>2. ops + 1 \in Nat /\ ops + 1 <= MaxOps /\ v + 1 <= ops + 1 /\ v <= ops + 1
  BY <1>1
<1>. QED  BY <1>2 DEF Counted, v

(* A transaction that begins: what its plan must establish.                *)
LEMMA Begins ==
    ASSUME PlaneInv, txn = NoTxn, ops < MaxOps, NEW c \in Clients, pc[c] \in {"idle", "push"},
           NEW r, NEW next, NEW step, Begin(c, r, next, step),
           UNCHANGED <<file, live, log, bind, hist, dropped, stuck>>,
           limits' \in Defs("root"), overlay' \in Overlays, DurableIn(overlay', live),
           step # "rebuild" => overlay' = overlay,
           step = "swap" => r.kind \in Persistless,
           done' = done \/ done' = [done EXCEPT ![c] = Nothing],
           InSection([client |-> c, req |-> r, snap |-> live, next |-> next, step |-> step],
                     overlay', live, bind["adminKey"])
    PROVE  PlaneInv'
<1>. DEFINE t == [client |-> c, req |-> r, snap |-> live, next |-> next, step |-> step]
<1>1. txn' = t /\ ops' = ops + 1 /\ pc' = [pc EXCEPT ![c] = "section"]
  BY DEF Begin
<1>2. t # NoTxn /\ t.client = c /\ t.req = r /\ t.step = step
  BY ClientsDistinct
<1>3. InSection(t, overlay', live, bind["adminKey"])
  OBVIOUS
<1>. HIDE DEF t
<1>4. Typed'
  BY DEF PlaneInv, Typed
<1>5. Locked'
  <2>1. pc \in [Clients -> PcStates] /\ \A b \in Clients : pc[b] # "section"
    BY DEF PlaneInv, Locked
  <2>2. pc' \in [Clients -> PcStates] /\ \A b \in Clients : pc'[b] = "section" <=> b = c
    BY <1>1, <2>1 DEF PcStates
  <2>. QED  BY <1>1, <1>2, <1>3, <2>2 DEF Locked
<1>6. Counted'
  BY <1>1, OneMore DEF PlaneInv, Typed
<1>7. View' = live /\ View = live
  BY <1>1, <1>2 DEF View, At
<1>8. Durable'
  <2>1. stuck \/ PinIn(overlay, live)
    BY DEF PlaneInv, Durable
  <2>2. step = "rebuild" \/ stuck \/ PinIn(overlay', live)
    BY <2>1
  <2>. QED  BY <1>1, <1>2, <1>7, <2>2 DEF Durable
<1>9. Bound'
  BY <1>7 DEF PlaneInv, Bound, BoundIn
<1>10. Historic'
  <2>1. \A b \in Clients : pc'[b] \in {"push", "record"} => pc'[b] = pc[b] /\ done'[b] = done[b]
    BY <1>1 DEF PlaneInv, Locked, Historic
  <2>2. done' = [b \in Clients |-> done'[b]]
    BY DEF PlaneInv, Historic
  <2>. QED  BY <2>1, <2>2 DEF PlaneInv, Historic, WasInForce
<1>. QED  BY <1>4, <1>5, <1>6, <1>8, <1>9, <1>10 DEF PlaneInv

(* An App with other entries, one version on.                              *)
NextOf(a, i, w) == [a EXCEPT !.items = i, !.version = w]

LEMMA NextApp ==
    ASSUME NEW a \in Apps, NEW i \in Doc, i["root"] # None, ValidGroups(i), NEW w, w = a.version + 1
    PROVE  LET x == NextOf(a, i, w) IN
           Follows(x, a) /\ x.items = i /\ x.base = a.base
<1>. DEFINE x == NextOf(a, i, w)
<1>1. a \in [items : Doc, base : Doc, version : Nat] /\ w \in Nat
  BY DEF Apps
<1>2. x \in [items : Doc, base : Doc, version : Nat] /\ x.items = i /\ x.base = a.base /\ x.version = w
  BY <1>1 DEF NextOf
<1>. HIDE DEF x
<1>3. x \in Apps
  BY <1>2, AppIs DEF Apps
<1>. QED  BY <1>2, <1>3 DEF Follows, x

LEMMA EditedIs ==
    ASSUME NEW a \in Apps, NEW n \in Groups \cup Hooks, NEW d \in Defs(n) \cup {None},
           ValidGroups([a.items EXCEPT ![n] = d])
    PROVE  LET x == Edited(a, n, d) IN
           /\ Follows(x, a) /\ x.base = a.base /\ x.items[n] = d
           /\ \A m \in Names : m # n => x.items[m] = a.items[m]
<1>. DEFINE i == [a.items EXCEPT ![n] = d]
            w == a.version + 1
            x == Edited(a, n, d)
<1>1. x = NextOf(a, i, w)
  BY DEF Edited, NextOf
<1>2. a.items \in Doc /\ a.items["root"] # None
  BY AppIs
<1>3. n \in Names /\ n # "root" /\ "root" \in Names
  BY SectionsAre, DefsProper DEF Groups, Hooks
<1>4. i \in Doc /\ i[n] = d /\ \A m \in Names : m # n => i[m] = a.items[m]
  BY <1>2, <1>3, DocEdit
<1>5. ValidGroups(i) /\ w = a.version + 1
  OBVIOUS
<1>. HIDE DEF x, i, w
<1>6. i["root"] # None
  BY <1>2, <1>3, <1>4
<1>7. Follows(x, a) /\ x.items = i /\ x.base = a.base
  BY <1>1, <1>4, <1>5, <1>6, NextApp
<1>. QED  BY <1>4, <1>7 DEF x

(* The entries of an edited App.                                           *)
LEMMA EditedItems ==
    ASSUME NEW a \in Apps, NEW n, NEW d
    PROVE  Edited(a, n, d).items = [a.items EXCEPT ![n] = d]
<1>1. a \in [items : Doc, base : Doc, version : Nat]
  BY DEF Apps
<1>. QED  BY <1>1 DEF Edited

(* The App x differs from a in section S alone, in the groups by one.      *)
Touches(x, a, S, k) ==
    /\ Follows(x, a) /\ x.base = a.base /\ S \in {Groups, Hooks}
    /\ \A m \in Names : m \notin S => x.items[m] = a.items[m]
    /\ S = Groups =>
           \E g \in Groups :
              /\ a.base[g] = None
              /\ \A e \in Groups \ {g} : x.items[e] = a.items[e]
              /\ x.items[g] = None => k # g

LEMMA SectionPlanned ==
    ASSUME NEW a \in Apps, NEW o \in Overlays, DurableIn(o, a), NEW x, NEW S, NEW k, Touches(x, a, S, k),
           NEW add, add \subseteq S, \A n \in add : n \notin BaseNames(a)
    PROVE  LET p == PersistSection(o, S, x.items, add, BaseNames(x)) IN
           /\ p \in Overlays /\ DurableIn(p, x) /\ EditOf(x, a, k) /\ OneWrite(o, p, a, x)
           /\ p.items["pin"] = o.items["pin"]
<1>. DEFINE p == PersistSection(o, S, x.items, add, BaseNames(x))
<1>0. /\ Follows(x, a) /\ x.base = a.base /\ S \in {Groups, Hooks}
      /\ \A m \in Names : m \notin S => x.items[m] = a.items[m]
      /\ S = Groups =>
           \E g \in Groups :
              /\ a.base[g] = None
              /\ \A e \in Groups \ {g} : x.items[e] = a.items[e]
              /\ x.items[g] = None => k # g
  BY DEF Touches
<1>1. x \in Apps /\ x.items \in Doc /\ BaseNames(x) = BaseNames(a)
  BY <1>0, AppIs DEF Follows, BaseNames
<1>2. /\ Groups \subseteq Names /\ Hooks \subseteq Names /\ S \subseteq Names
      /\ "pin" \in Names /\ "pin" \notin S
  BY <1>0, SectionsAre, DefsProper DEF Groups, Hooks
<1>3. add \subseteq S \cap Names /\ \A n \in add : n \notin BaseNames(x)
  BY <1>1, <1>2
<1>4. p \in Overlays /\ \A n \in Names : p.items[n] = IF n \in S THEN x.items[n] ELSE o.items[n]
  BY <1>1, <1>3, PersistIs
<1>. HIDE DEF p
<1>5. DurableIn(p, x)
  BY <1>0, <1>1, <1>2, <1>4 DEF DurableIn
<1>6. p.items["pin"] = o.items["pin"] /\ x.items["pin"] = a.items["pin"]
  BY <1>0, <1>2, <1>4
<1>7. CASE S = Groups
  <2>1. PICK g \in Groups : /\ a.base[g] = None
                            /\ \A e \in Groups \ {g} : x.items[e] = a.items[e]
                            /\ x.items[g] = None => k # g
    BY <1>0, <1>7
  <2>2. \A e \in Groups : x.items[e] = None /\ a.items[e] # None => k # e
    BY <2>1
  <2>20. EditOf(x, a, k)
    BY <1>0, <1>6, <2>2 DEF EditOf
  <2>3. OneWrite(o, p, a, x)
    BY <1>2, <1>4, <1>7, <2>1 DEF OneWrite, GroupsSame
  <2>. QED  BY <1>4, <1>5, <1>6, <2>20, <2>3 DEF p
<1>8. CASE S = Hooks
  <2>1. \A g \in Groups : g \in Names /\ g \notin S
    BY <1>2, <1>8, SectionsAre
  <2>2. EditOf(x, a, k)
    BY <1>0, <1>6, <2>1 DEF EditOf
  <2>3. OneWrite(o, p, a, x)
    BY <1>0, <1>4, <2>1 DEF OneWrite, GroupsSame
  <2>. QED  BY <1>4, <1>5, <1>6, <2>2, <2>3 DEF p
<1>. QED  BY <1>0, <1>7, <1>8

LEMMA AtRest ==
    ASSUME PlaneInv, txn = NoTxn
    PROVE  /\ live \in Apps /\ overlay \in Overlays /\ Deployed(file) /\ DurableIn(overlay, live)
           /\ limits \in Defs("root")
           /\ bind \in [Keys -> Groups \cup {None}] /\ View = live
           /\ done = [c \in Clients |-> done[c]]
<1>1. View = live
  BY DEF View, At
<1>. QED  BY <1>1 DEF PlaneInv, Typed, Durable, Historic

(* Transaction t is to write the entry n of what is in force.              *)
Writes(t, a, n) ==
    /\ Follows(t.next, a) /\ t.next.base = a.base /\ n \in Groups \cup Hooks
    /\ \A m \in Names : m # n => t.next.items[m] = a.items[m]
    /\ \/ t.req.kind = "edit" /\ t.req.name = n
       \/ t.req.kind = "delete" /\ t.req.name = n /\ n \notin BaseNames(a)
       \/ t.req.kind \in {"mint", "leaf"} /\ n = "leaf"
    /\ n \in Groups => n \notin BaseNames(a)

LEMMA WritePlanned ==
    ASSUME NEW a \in Apps, NEW o \in Overlays, DurableIn(o, a), NEW t, NEW n, Writes(t, a, n),
           NEW k, n \in Groups /\ t.next.items[n] = None => k # n
    PROVE  Planned(t, o, a, k)
<1>. DEFINE S == IF n \in Groups THEN Groups ELSE Hooks
            add == IF t.req.kind = "delete" THEN {n} ELSE {}
            x == t.next
            p == PersistSection(o, S, x.items, add, BaseNames(x))
<1>0. /\ Follows(x, a) /\ x.base = a.base /\ n \in Groups \cup Hooks
      /\ \A m \in Names : m # n => x.items[m] = a.items[m]
      /\ \/ t.req.kind = "edit" /\ t.req.name = n
         \/ t.req.kind = "delete" /\ t.req.name = n /\ n \notin BaseNames(a)
         \/ t.req.kind \in {"mint", "leaf"} /\ n = "leaf"
      /\ n \in Groups => n \notin BaseNames(a)
  BY DEF Writes
<1>1. SectionOf(n) = S /\ S \in {Groups, Hooks} /\ n \in S
  BY <1>0, SectionsAre
<1>2. /\ t.req.kind \in {"edit", "delete", "mint", "leaf"}
      /\ t.req.kind \in {"edit", "delete"} => t.req.name = n
      /\ t.req.kind \in {"mint", "leaf"} => S = Groups
  BY <1>0 DEF Groups
<1>3. Wrote(t, o) = p
  BY <1>1, <1>2 DEF Wrote
<1>4. add \subseteq S /\ \A m \in add : m \notin BaseNames(a)
  BY <1>0, <1>1
<1>5. S = Groups => n \in Groups
  BY <1>1
<1>. HIDE DEF S, add
<1>6. \A m \in Names : m \notin S => x.items[m] = a.items[m]
  BY <1>0, <1>1
<1>7. ASSUME n \in Groups
      PROVE  /\ a.base[n] = None
             /\ \A e \in Groups \ {n} : x.items[e] = a.items[e]
             /\ x.items[n] = None => k # n
  <2>1. a.base[n] = None
    BY <1>0, <1>7 DEF BaseNames
  <2>2. \A e \in Groups \ {n} : x.items[e] = a.items[e]
    BY <1>0, SectionsAre
  <2>. QED  BY <1>7, <2>1, <2>2
<1>8. Touches(x, a, S, k)
  BY <1>0, <1>1, <1>5, <1>6, <1>7 DEF Touches
<1>9. /\ p \in Overlays /\ DurableIn(p, x) /\ EditOf(x, a, k) /\ OneWrite(o, p, a, x)
      /\ p.items["pin"] = o.items["pin"]
  BY <1>4, <1>8, SectionPlanned
<1>10. t.req.kind \notin Persistless /\ t.req.kind \notin Rebuilds
  BY <1>2 DEF Persistless, Rebuilds
<1>. HIDE DEF p
<1>. QED  BY <1>0, <1>3, <1>9, <1>10 DEF Planned

(* The record of a transaction.                                            *)
LEMMA TxnIs ==
    ASSUME NEW c, NEW r, NEW s, NEW x, NEW p
    PROVE  LET t == [client |-> c, req |-> r, snap |-> s, next |-> x, step |-> p] IN
           /\ t.client = c /\ t.req = r /\ t.snap = s /\ t.next = x /\ t.step = p
           /\ t = [client |-> t.client, req |-> t.req, snap |-> t.snap, next |-> t.next, step |-> t.step]
OBVIOUS

(* build_with_group and its like, under the lock.                          *)
LEMMA EditBegins ==
    ASSUME PlaneInv, txn = NoTxn, ops < MaxOps, NEW c \in Clients, pc[c] \in {"idle", "push"},
           NEW kind \in {"edit", "delete"}, NEW n \in Groups \cup Hooks, NEW d \in Defs(n) \cup {None},
           Edit(c, kind, n, d),
           done' = done \/ done' = [done EXCEPT ![c] = Nothing],
           n \in Groups \/ kind = "delete" => n \notin BaseNames(live),
           kind = "edit" /\ n \in Groups => d # None,
           kind = "delete" /\ n \in Groups => bind["adminKey"] # n
    PROVE  PlaneInv'
<1>. DEFINE r == [kind |-> kind, name |-> n]
            x == Edited(live, n, d)
            t == [client |-> c, req |-> r, snap |-> live, next |-> x, step |-> "persist"]
            k == bind["adminKey"]
<1>1. /\ live \in Apps /\ overlay \in Overlays /\ DurableIn(overlay, live)
      /\ limits \in Defs("root")
  BY AtRest
<1>2. ValidGroups(x.items) /\ Begin(c, r, x, "persist")
      /\ UNCHANGED <<disk, live, limits, log, bind, hist, dropped, stuck, edits, fails, crashes>>
  BY DEF Edit
<1>3. /\ Follows(x, live) /\ x.base = live.base /\ x.items[n] = d
      /\ \A m \in Names : m # n => x.items[m] = live.items[m]
  <2>1. ValidGroups([live.items EXCEPT ![n] = d])
    BY <1>1, <1>2, EditedItems
  <2>. QED  BY <1>1, <2>1, EditedIs
<1>4. r.kind = kind /\ r.name = n
  OBVIOUS
<1>5. /\ t.req = r /\ t.next = x /\ t.step = "persist" /\ t.client = c
      /\ t = [client |-> t.client, req |-> t.req, snap |-> t.snap, next |-> t.next, step |-> t.step]
  BY TxnIs
<1>. HIDE DEF x, t, r
<1>6. n \in Groups /\ x.items[n] = None => k # n
  BY <1>3
<1>61. Writes(t, live, n)
  BY <1>3, <1>4, <1>5 DEF Writes
<1>7. Planned(t, overlay, live, k)
  BY <1>1, <1>5, <1>6, <1>61, WritePlanned
<1>8. InSection(t, overlay, live, k)
  BY <1>4, <1>5, <1>7 DEF InSection
<1>9. overlay' = overlay /\ UNCHANGED <<file, live, log, bind, hist, dropped, stuck>> /\ limits' = limits
  BY <1>2 DEF disk
<1>. QED  BY <1>1, <1>2, <1>8, <1>9, Begins DEF t

LEMMA VersionOn ==
    ASSUME NEW a \in Apps
    PROVE  LET x == [a EXCEPT !.version = @ + 1] IN
           Follows(x, a) /\ x.items = a.items /\ x.base = a.base
<1>. DEFINE w == a.version + 1
            x == [a EXCEPT !.version = w]
<1>1. a \in [items : Doc, base : Doc, version : Nat] /\ w \in Nat
  BY DEF Apps
<1>2. [a EXCEPT !.version = @ + 1] = x /\ w = a.version + 1
  OBVIOUS
<1>. HIDE DEF w
<1>3. x \in [items : Doc, base : Doc, version : Nat] /\ x.items = a.items /\ x.base = a.base /\ x.version = w
  BY <1>1
<1>. HIDE DEF x
<1>4. x \in Apps
  BY <1>3, AppIs DEF Apps
<1>5. Follows(x, a) /\ x.items = a.items /\ x.base = a.base
  BY <1>2, <1>3, <1>4 DEF Follows
<1>. QED  BY <1>2, <1>5

LEMMA PutAuthBegins ==
    ASSUME PlaneInv, txn = NoTxn, ops < MaxOps, NEW c \in Clients, pc[c] = "idle", PutAuth(c)
    PROVE  PlaneInv'
<1>. DEFINE r == [kind |-> "auth"]
            x == [live EXCEPT !.version = @ + 1]
            t == [client |-> c, req |-> r, snap |-> live, next |-> x, step |-> "swap"]
            k == bind["adminKey"]
<1>1. live \in Apps /\ overlay \in Overlays /\ DurableIn(overlay, live) /\ limits \in Defs("root")
  BY AtRest
<1>2. /\ Begin(c, r, x, "swap")
      /\ UNCHANGED <<disk, live, limits, log, done, bind, hist, dropped, stuck, edits, fails, crashes>>
  BY DEF PutAuth
<1>3. Follows(x, live) /\ x.items = live.items /\ x.base = live.base
  BY <1>1, VersionOn
<1>4. r.kind = "auth"
  OBVIOUS
<1>5. /\ t.req = r /\ t.next = x /\ t.step = "swap" /\ t.client = c
      /\ t = [client |-> t.client, req |-> t.req, snap |-> t.snap, next |-> t.next, step |-> t.step]
  BY TxnIs
<1>. HIDE DEF x, t, r
<1>6. DurableIn(overlay, x) /\ EditOf(x, live, k)
  BY <1>1, <1>3 DEF DurableIn, EditOf, BaseNames
<1>7. Due(t, overlay, live, k)
  BY <1>3, <1>4, <1>5, <1>6 DEF Due, Rebuilds
<1>8. InSection(t, overlay, live, k)
  BY <1>4, <1>5, <1>7 DEF InSection
<1>9. overlay' = overlay /\ UNCHANGED <<file, live, log, bind, hist, dropped, stuck>> /\ limits' = limits
      /\ done' = done
  BY <1>2 DEF disk
<1>10. r.kind \in Persistless
  BY <1>4 DEF Persistless
<1>. QED  BY <1>1, <1>2, <1>8, <1>9, <1>10, Begins DEF t

LEMMA BindBegins ==
    ASSUME PlaneInv, txn = NoTxn, ops < MaxOps, NEW c \in Clients, pc[c] = "idle",
           NEW r, NEW step, Begin(c, r, live, step),
           UNCHANGED <<disk, live, limits, log, done, bind, hist, dropped, stuck>>,
           \/ step = "there"
           \/ /\ step = "bind" /\ r.kind = "mint" /\ live.items["leaf"] # None
           \/ /\ step = "bind" /\ r.kind = "rebind" /\ r.name \in Groups /\ live.items[r.name] # None
    PROVE  PlaneInv'
<1>. DEFINE t == [client |-> c, req |-> r, snap |-> live, next |-> live, step |-> step]
            k == bind["adminKey"]
<1>1. live \in Apps /\ overlay \in Overlays /\ DurableIn(overlay, live) /\ limits \in Defs("root")
  BY AtRest
<1>2. /\ t.req = r /\ t.next = live /\ t.step = step /\ t.client = c
      /\ t = [client |-> t.client, req |-> t.req, snap |-> t.snap, next |-> t.next, step |-> t.step]
  BY TxnIs
<1>. HIDE DEF t
<1>3. step = "bind" => Target(t) \in Groups /\ live.items[Target(t)] # None
  BY <1>2 DEF Target, Groups
<1>4. InSection(t, overlay, live, k)
  BY <1>2, <1>3 DEF InSection
<1>5. overlay' = overlay /\ UNCHANGED <<file, live, log, bind, hist, dropped, stuck>> /\ limits' = limits
      /\ done' = done
  BY DEF disk
<1>6. step # "swap"
  OBVIOUS
<1>. QED  BY <1>1, <1>4, <1>5, <1>6, Begins DEF t

LEMMA UpdateKeyBegins ==
    ASSUME PlaneInv, txn = NoTxn, ops < MaxOps, NEW c \in Clients, pc[c] = "idle",
           NEW g \in Groups, UpdateKey(c, g)
    PROVE  PlaneInv'
<1>. DEFINE r == [kind |-> "rebind", name |-> g]
<1>1. /\ live.items[g] # None /\ Begin(c, r, live, "bind")
      /\ UNCHANGED <<disk, live, limits, log, done, bind, hist, dropped, stuck>>
  BY DEF UpdateKey
<1>2. r.kind = "rebind" /\ r.name = g
  OBVIOUS
<1>. HIDE DEF r
<1>. QED  BY <1>1, <1>2, BindBegins

LEMMA MintBegins ==
    ASSUME PlaneInv, txn = NoTxn, ops < MaxOps, NEW c \in Clients, pc[c] = "idle",
           NEW kind \in {"mint", "leaf"}, PlanMintGroup(c, kind)
    PROVE  PlaneInv'
<1>. DEFINE r == [kind |-> kind]
            k == bind["adminKey"]
<1>1. /\ live \in Apps /\ overlay \in Overlays /\ DurableIn(overlay, live) /\ limits \in Defs("root")
      /\ bind \in [Keys -> Groups \cup {None}]
  BY AtRest
<1>2. /\ UNCHANGED <<disk, live, limits, log, done, bind, hist, dropped, stuck>>
      /\ overlay' = overlay /\ UNCHANGED <<file, live, log, bind, hist, dropped, stuck>>
      /\ limits' = limits /\ done' = done
  BY DEF PlanMintGroup, disk
<1>3. r.kind = kind
  OBVIOUS
<1>4. CASE /\ live.items["leaf"] = None /\ live.items["team"] # None /\ "leaf" \notin BaseNames(live)
           /\ Begin(c, r, Edited(live, "leaf", "team"), "persist")
  <2>. DEFINE x == Edited(live, "leaf", "team")
              i == [live.items EXCEPT !["leaf"] = "team"]
              t == [client |-> c, req |-> r, snap |-> live, next |-> x, step |-> "persist"]
  <2>1. "leaf" \in Groups /\ "team" \in Defs("leaf") /\ "team" # None /\ "leaf" \in Names /\ "team" \in Names
    BY NamesAre, DefsProper DEF Groups
  <2>2. live.items \in Doc /\ ValidGroups(live.items)
    BY <1>1, AppIs
  <2>3. i["leaf"] = "team" /\ i["team"] = live.items["team"]
    <3>1. live.items = [n \in Names |-> live.items[n]]
      BY <2>2, DocIs
    <3>. QED  BY <2>1, <3>1
  <2>. HIDE DEF i
  <2>4. ValidGroups(i)
    <3>1. live.items["leaf"] = None /\ live.items["team"] # None
      BY <1>4
    <3>. HIDE DEF x, t, r
    <3>. QED  BY <2>2, <2>3, <3>1, ValidLeaf
  <2>5. /\ Follows(x, live) /\ x.base = live.base /\ x.items["leaf"] = "team"
        /\ \A m \in Names : m # "leaf" => x.items[m] = live.items[m]
    <3>1. "leaf" \in Groups \cup Hooks /\ "team" \in Defs("leaf") \cup {None}
      BY <2>1
    <3>2. ValidGroups([live.items EXCEPT !["leaf"] = "team"])
      BY <2>4 DEF i
    <3>. QED  BY <1>1, <3>1, <3>2, EditedIs
  <2>6. /\ t.req = r /\ t.next = x /\ t.step = "persist" /\ t.client = c
        /\ t = [client |-> t.client, req |-> t.req, snap |-> t.snap, next |-> t.next, step |-> t.step]
    BY TxnIs
  <2>7. Begin(c, r, x, "persist")
    BY <1>4
  <2>. HIDE DEF x, t, r
  <2>8. Writes(t, live, "leaf")
    BY <1>3, <1>4, <2>1, <2>5, <2>6 DEF Writes
  <2>9. t.next.items["leaf"] # None
    BY <2>1, <2>5, <2>6
  <2>10. Planned(t, overlay, live, k)
    BY <1>1, <2>8, <2>9, WritePlanned
  <2>11. InSection(t, overlay, live, k)
    BY <2>6, <2>9, <2>10 DEF InSection
  <2>. QED  BY <1>1, <1>2, <2>7, <2>11, Begins DEF t
<1>5. CASE kind = "mint" /\ live.items["leaf"] = "team" /\ Begin(c, r, live, "bind")
  <2>1. live.items["leaf"] # None
    BY <1>5, DefsProper DEF Groups
  <2>. HIDE DEF r
  <2>. QED  BY <1>2, <1>3, <1>5, <2>1, BindBegins
<1>6. CASE kind = "leaf" /\ live.items["leaf"] # None /\ Begin(c, r, live, "there")
  <2>. HIDE DEF r
  <2>. QED  BY <1>2, <1>6, BindBegins
<1>. QED  BY <1>4, <1>5, <1>6 DEF PlanMintGroup

LEMMA RollbackBegins ==
    ASSUME PlaneInv, txn = NoTxn, ops < MaxOps, NEW c \in Clients, pc[c] = "idle",
           NEW v, RollbackConfig(c, v)
    PROVE  PlaneInv'
<1>. DEFINE row == Row(log, v)
            r == [kind |-> "rollback"]
            i == [n \in Names |-> IF n \in Hooks THEN row.hooks[n] ELSE live.items[n]]
            w == live.version + 1
            x == NextOf(live, i, w)
            t == [client |-> c, req |-> r, snap |-> live, next |-> x, step |-> "persist"]
            k == bind["adminKey"]
<1>1. /\ live \in Apps /\ overlay \in Overlays /\ DurableIn(overlay, live) /\ limits \in Defs("root")
  BY AtRest
<1>2. /\ overlay' = overlay /\ UNCHANGED <<file, live, log, bind, hist, dropped, stuck>>
      /\ limits' = limits /\ done' = done
  BY DEF RollbackConfig, disk
<1>3. Begin(c, r, x, "persist") /\ v \in Retained(log)
  BY DEF RollbackConfig, NextOf
<1>4. row \in Range(log)
  <2>1. \E q \in Range(log) : q.version = v
    BY <1>3 DEF Retained
  <2>. QED  BY <2>1 DEF Row
<1>5. row.hooks \in HookSets
  <2>1. log \in Seq(LogRows)
    BY DEF PlaneInv, Historic
  <2>2. row \in LogRows
    BY <1>4, <2>1 DEF Range
  <2>. QED  BY <2>2 DEF LogRows
<1>. HIDE DEF row
<1>6. live.items \in Doc /\ ValidGroups(live.items) /\ live.items["root"] # None
  BY <1>1, AppIs
<1>7. i = [n \in Names |-> i[n]] /\ \A n \in Names : i[n] = IF n \in Hooks THEN row.hooks[n] ELSE live.items[n]
  OBVIOUS
<1>8. r.kind = "rollback" /\ w = live.version + 1
  OBVIOUS
<1>9. /\ t.req = r /\ t.next = x /\ t.step = "persist" /\ t.client = c
      /\ t = [client |-> t.client, req |-> t.req, snap |-> t.snap, next |-> t.next, step |-> t.step]
  BY TxnIs
<1>. HIDE DEF i, w, r, x, t
<1>10. \A n \in Names : i[n] \in Defs(n) \cup {None}
  <2>1. \A n \in Hooks : row.hooks[n] \in {"v1", None} /\ Defs(n) = {"v1"}
    BY <1>5, NamesAre DEF HookSets, Hooks
  <2>2. \A n \in Names : live.items[n] \in Defs(n) \cup {None}
    BY <1>6, DocIs
  <2>. QED  BY <1>7, <2>1, <2>2
<1>11. i \in Doc
  BY <1>7, <1>10, DocIs
<1>12. \A n \in Names : n \notin Hooks => i[n] = live.items[n]
  BY <1>7
<1>13. GroupsSame(live.items, i) /\ i["root"] # None
  BY <1>6, <1>12, SectionsAre, DefsProper DEF GroupsSame, Hooks
<1>14. ValidGroups(i)
  BY <1>6, <1>13, ValidSame
<1>15. Follows(x, live) /\ x.items = i /\ x.base = live.base
  BY <1>1, <1>8, <1>11, <1>13, <1>14, NextApp DEF x
<1>16. Groups # Hooks
  BY DEF Groups, Hooks
<1>17. Touches(x, live, Hooks, k)
  BY <1>12, <1>15, <1>16 DEF Touches
<1>. DEFINE add == {}
            p == PersistSection(overlay, Hooks, x.items, add, BaseNames(x))
<1>18. Wrote(t, overlay) = p
  BY <1>8, <1>9 DEF Wrote
<1>180. add \subseteq Hooks /\ \A n \in add : n \notin BaseNames(live)
  OBVIOUS
<1>. HIDE DEF add
<1>19. /\ p \in Overlays /\ DurableIn(p, x) /\ EditOf(x, live, k) /\ OneWrite(overlay, p, live, x)
       /\ p.items["pin"] = overlay.items["pin"]
  BY <1>1, <1>17, <1>180, SectionPlanned
<1>. HIDE DEF p
<1>20. Planned(t, overlay, live, k)
  <2>1. t.req.kind \notin Persistless /\ t.req.kind \notin Rebuilds
    BY <1>8, <1>9 DEF Persistless, Rebuilds
  <2>. QED  BY <1>9, <1>15, <1>18, <1>19, <2>1 DEF Planned
<1>21. InSection(t, overlay, live, k)
  BY <1>8, <1>9, <1>20 DEF InSection
<1>. QED  BY <1>1, <1>2, <1>3, <1>21, Begins DEF t

(* What is rebuilt over overlay o is what will be persisted, or is.        *)
Leads(t, p, o) ==
    \/ t.req.kind \in Persistless /\ o = p
    \/ /\ t.req.kind \notin Persistless
       /\ Wrote(t, p) \in Overlays /\ LayerKept(p, Wrote(t, p))
       /\ \A n \in Names : Wrote(t, p).items[n] = o.items[n]

LEMMA RebuildPlanned ==
    ASSUME NEW a \in Apps, NEW p \in Overlays, NEW k, NEW t, NEW f, Deployed(f), NEW o \in Overlays,
           t.next = Build(f, o, a.version + 1), ValidGroups(t.next.items), Leads(t, p, o),
           t.req.kind \in Rebuilds
    PROVE  /\ t.req.kind \in Persistless => Due(t, p, a, k)
           /\ t.req.kind \notin Persistless => Planned(t, p, a, k)
           /\ t.next.items["root"] \in Defs("root")
<1>. DEFINE x == t.next
<1>1. a.version \in Nat /\ a.version + 1 \in Nat
  BY AppIs
<1>2. /\ x.version = a.version + 1 /\ BuiltOn(o, x) /\ x.items["root"] \in Defs("root") /\ x \in Apps
  BY <1>1, BuildIs
<1>3. Follows(x, a)
  BY <1>2 DEF Follows
<1>4. t.req.kind # "auth"
  BY DEF Rebuilds
<1>5. CASE t.req.kind \in Persistless /\ o = p
  <2>1. DurableIn(p, x)
    BY <1>2, <1>5, BuiltDurable
  <2>. HIDE DEF x
  <2>2. Due(t, p, a, k)
    BY <1>2, <1>3, <1>4, <1>5, <2>1 DEF Due, x
  <2>. QED  BY <1>2, <1>5, <2>2 DEF x
<1>6. CASE /\ t.req.kind \notin Persistless
           /\ Wrote(t, p) \in Overlays /\ LayerKept(p, Wrote(t, p))
           /\ \A n \in Names : Wrote(t, p).items[n] = o.items[n]
  <2>1. BuiltOn(Wrote(t, p), x)
    BY <1>2, <1>6 DEF BuiltOn
  <2>2. DurableIn(Wrote(t, p), x)
    BY <1>2, <2>1, BuiltDurable
  <2>3. Planned(t, p, a, k)
    BY <1>3, <1>6, <2>1, <2>2 DEF Planned
  <2>. QED  BY <1>2, <1>6, <2>3
<1>. QED  BY <1>5, <1>6 DEF Leads

LEMMA RebuildBegins ==
    ASSUME PlaneInv, txn = NoTxn, ops < MaxOps, NEW c \in Clients, pc[c] = "idle",
           NEW r, r.kind \in {"reload", "plugins", "apply", "reset", "settings"},
           NEW f, Deployed(f), NEW o \in Overlays, Rebuild(c, r, f, o),
           NEW t, t.req = r, t.next = Build(f, o, live.version + 1), t.client = c, t.snap = live,
           t.step = IF r.kind \in Persistless THEN "swap" ELSE "persist",
           t = [client |-> t.client, req |-> t.req, snap |-> t.snap, next |-> t.next, step |-> t.step],
           Leads(t, overlay, o)
    PROVE  PlaneInv'
<1>. DEFINE k == bind["adminKey"]
<1>1. live \in Apps /\ overlay \in Overlays /\ DurableIn(overlay, live)
  BY AtRest
<1>2. /\ ValidGroups(t.next.items) /\ Begin(c, t.req, t.next, t.step)
      /\ limits' = t.next.items["root"]
      /\ UNCHANGED <<disk, live, log, done, bind, hist, dropped, stuck, edits, fails, crashes>>
  BY DEF Rebuild
<1>3. t.req.kind \in Rebuilds /\ t.req.kind # "mint" /\ t.req.kind # "pin"
  BY DEF Rebuilds
<1>4. /\ t.req.kind \in Persistless => Due(t, overlay, live, k)
      /\ t.req.kind \notin Persistless => Planned(t, overlay, live, k)
      /\ t.next.items["root"] \in Defs("root")
  BY <1>1, <1>2, <1>3, RebuildPlanned
<1>5. InSection(t, overlay, live, k)
  BY <1>3, <1>4 DEF InSection
<1>6. overlay' = overlay /\ UNCHANGED <<file, live, log, bind, hist, dropped, stuck>>
      /\ limits' \in Defs("root") /\ done' = done
  BY <1>2, <1>4 DEF disk
<1>7. t = [client |-> c, req |-> t.req, snap |-> live, next |-> t.next, step |-> t.step]
  OBVIOUS
<1>8. t.step = "swap" => t.req.kind \in Persistless
  OBVIOUS
<1>9. t.step # "rebuild"
  OBVIOUS
<1>. QED  BY <1>1, <1>2, <1>5, <1>6, <1>7, <1>8, <1>9, Begins

(* The transaction that a rebuild begins.                                  *)
RebuildTxn(c, r, f, o) ==
    [client |-> c, req |-> r, snap |-> live, next |-> Build(f, o, live.version + 1),
     step |-> IF r.kind \in Persistless THEN "swap" ELSE "persist"]

LEMMA RebuildTxnIs ==
    ASSUME NEW c, NEW r, NEW f, NEW o
    PROVE  LET t == RebuildTxn(c, r, f, o) IN
           /\ t.req = r /\ t.next = Build(f, o, live.version + 1) /\ t.client = c /\ t.snap = live
           /\ t.step = IF r.kind \in Persistless THEN "swap" ELSE "persist"
           /\ t = [client |-> t.client, req |-> t.req, snap |-> t.snap, next |-> t.next, step |-> t.step]
BY TxnIs DEF RebuildTxn

LEMMA ReloadBegins ==
    ASSUME PlaneInv, txn = NoTxn, ops < MaxOps, NEW c \in Clients, pc[c] = "idle",
           NEW r, r.kind \in {"reload", "plugins", "apply"}, NEW f, Deployed(f), Rebuild(c, r, f, overlay)
    PROVE  PlaneInv'
<1>. DEFINE t == RebuildTxn(c, r, f, overlay)
<1>1. overlay \in Overlays
  BY AtRest
<1>2. /\ t.req = r /\ t.next = Build(f, overlay, live.version + 1) /\ t.client = c /\ t.snap = live
      /\ t.step = IF r.kind \in Persistless THEN "swap" ELSE "persist"
      /\ t = [client |-> t.client, req |-> t.req, snap |-> t.snap, next |-> t.next, step |-> t.step]
  BY RebuildTxnIs
<1>. HIDE DEF t
<1>3. t.req.kind \in Persistless
  BY <1>2 DEF Persistless
<1>4. Leads(t, overlay, overlay)
  BY <1>3 DEF Leads
<1>5. r.kind \in {"reload", "plugins", "apply", "reset", "settings"}
  OBVIOUS
<1>. QED  BY <1>1, <1>2, <1>4, <1>5, RebuildBegins

LEMMA ResetBegins ==
    ASSUME PlaneInv, txn = NoTxn, ops < MaxOps, NEW c \in Clients, pc[c] = "idle",
           NEW S \in Sections, ResetOverlaySection(c, S)
    PROVE  PlaneInv'
<1>. DEFINE r == [kind |-> "reset", section |-> S]
            o == ClearSection(overlay, S)
            t == RebuildTxn(c, r, file, o)
<1>1. overlay \in Overlays /\ Deployed(file)
  BY AtRest
<1>2. /\ t.req = r /\ t.next = Build(file, o, live.version + 1) /\ t.client = c /\ t.snap = live
      /\ t.step = IF r.kind \in Persistless THEN "swap" ELSE "persist"
      /\ t = [client |-> t.client, req |-> t.req, snap |-> t.snap, next |-> t.next, step |-> t.step]
  BY RebuildTxnIs
<1>3. Rebuild(c, r, file, o)
  BY DEF ResetOverlaySection
<1>4. r.kind = "reset" /\ r.section = S
  OBVIOUS
<1>. HIDE DEF t, r
<1>5. Wrote(t, overlay) = o
  BY <1>2, <1>4 DEF Wrote
<1>6. o \in Overlays /\ \A n \in Names : o.items[n] = IF n \in S THEN None ELSE overlay.items[n]
  BY <1>1, ClearIs
<1>. HIDE DEF o
<1>7. LayerKept(overlay, o)
  <2>1. CASE S = Groups
    BY <1>6, <2>1, SectionsAre DEF LayerKept
  <2>2. CASE S # Groups
    <3>1. \A g \in Groups : g \in Names /\ g \notin S
      BY <2>2, SectionsAre DEF Sections
    <3>. QED  BY <1>6, <3>1 DEF LayerKept, GroupsSame
  <2>. QED  BY <2>1, <2>2
<1>8. t.req.kind \notin Persistless
  BY <1>2, <1>4 DEF Persistless
<1>9. Leads(t, overlay, o)
  BY <1>5, <1>6, <1>7, <1>8 DEF Leads
<1>10. r.kind \in {"reload", "plugins", "apply", "reset", "settings"}
  BY <1>4
<1>. QED  BY <1>1, <1>2, <1>3, <1>6, <1>9, <1>10, RebuildBegins

LEMMA SettingsBegins ==
    ASSUME PlaneInv, txn = NoTxn, ops < MaxOps, NEW c \in Clients, pc[c] = "idle",
           NEW d \in Defs("root"), PutConfigSettings(c, d)
    PROVE  PlaneInv'
<1>. DEFINE r == [kind |-> "settings"]
            i == [overlay.items EXCEPT !["root"] = d]
            o == [overlay EXCEPT !.items["root"] = d]
            t == RebuildTxn(c, r, file, o)
            x == Build(file, o, live.version + 1)
            p == PersistSection(overlay, Root, x.items, {}, BaseNames(x))
<1>1. overlay \in Overlays /\ Deployed(file) /\ live \in Apps
  BY AtRest
<1>2. /\ t.req = r /\ t.next = x /\ t.client = c /\ t.snap = live
      /\ t.step = IF r.kind \in Persistless THEN "swap" ELSE "persist"
      /\ t = [client |-> t.client, req |-> t.req, snap |-> t.snap, next |-> t.next, step |-> t.step]
  BY RebuildTxnIs
<1>3. Rebuild(c, r, file, o)
  BY DEF PutConfigSettings
<1>4. r.kind = "settings"
  OBVIOUS
<1>. HIDE DEF t, r
<1>5. Wrote(t, overlay) = p
  BY <1>2, <1>4 DEF Wrote
<1>6. i \in Doc /\ i["root"] = d /\ \A n \in Names : n # "root" => i[n] = overlay.items[n]
  <2>1. overlay.items \in Doc /\ "root" \in Names /\ d \in Defs("root") \cup {None}
    BY <1>1, DefsProper DEF Overlays
  <2>. QED  BY <2>1, DocEdit
<1>7. o \in Overlays /\ o.items = i
  <2>1. overlay \in [items : Doc, dead : SUBSET Names] /\ overlay.dead = {}
    BY <1>1 DEF Overlays
  <2>2. o = [overlay EXCEPT !.items = i]
    OBVIOUS
  <2>. HIDE DEF i
  <2>3. o \in [items : Doc, dead : SUBSET Names] /\ o.items = i /\ o.dead = {}
    BY <1>6, <2>1, <2>2
  <2>. QED  BY <2>3 DEF Overlays
<1>. HIDE DEF o, i
<1>8. live.version + 1 \in Nat
  BY <1>1, AppIs
<1>9. x.items \in Doc /\ BuiltOn(o, x)
  BY <1>1, <1>7, <1>8, BuildIs
<1>. HIDE DEF x
<1>10. p \in Overlays /\ \A n \in Names : p.items[n] = IF n \in Root THEN x.items[n] ELSE overlay.items[n]
  <2>. DEFINE add == {}
  <2>1. add \subseteq Root \cap Names /\ \A n \in add : n \notin BaseNames(x)
    OBVIOUS
  <2>2. p = PersistSection(overlay, Root, x.items, add, BaseNames(x))
    OBVIOUS
  <2>. HIDE DEF add, p
  <2>. QED  BY <1>1, <1>9, <2>1, <2>2, PersistIs
<1>. HIDE DEF p
<1>11. x.items["root"] = d
  BY <1>6, <1>7, <1>9, DefsProper DEF BuiltOn
<1>12. \A n \in Names : p.items[n] = o.items[n]
  BY <1>6, <1>7, <1>10, <1>11 DEF Root
<1>13. LayerKept(overlay, p)
  <2>1. \A g \in Groups : g \in Names /\ g \notin Root
    BY SectionsAre
  <2>. QED  BY <1>10, <2>1 DEF LayerKept, GroupsSame
<1>14. t.req.kind \notin Persistless
  BY <1>2, <1>4 DEF Persistless
<1>15. Leads(t, overlay, o)
  BY <1>5, <1>10, <1>12, <1>13, <1>14 DEF Leads
<1>16. r.kind \in {"reload", "plugins", "apply", "reset", "settings"}
  BY <1>4
<1>. QED  BY <1>1, <1>2, <1>3, <1>7, <1>15, <1>16, RebuildBegins DEF x

LEMMA PinBegins ==
    ASSUME PlaneInv, txn = NoTxn, ops < MaxOps, NEW c \in Clients, pc[c] = "idle",
           NEW d \in Defs("pin"), RollbackPlugin(c, d)
    PROVE  PlaneInv'
<1>. DEFINE r == [kind |-> "pin"]
            i == [overlay.items EXCEPT !["pin"] = d]
            t == [client |-> c, req |-> r, snap |-> live, next |-> live, step |-> "rebuild"]
            k == bind["adminKey"]
<1>1. live \in Apps /\ overlay \in Overlays /\ DurableIn(overlay, live) /\ limits \in Defs("root")
  BY AtRest
<1>2. /\ Begin(c, r, live, "rebuild")
      /\ UNCHANGED <<file, live, limits, log, done, bind, hist, dropped, stuck>>
  BY DEF RollbackPlugin
<1>3. overlay' = [overlay EXCEPT !.items = i]
  BY DEF RollbackPlugin
<1>4. r.kind = "pin"
  OBVIOUS
<1>5. /\ t.req = r /\ t.next = live /\ t.step = "rebuild" /\ t.client = c /\ t.snap = live
      /\ t = [client |-> t.client, req |-> t.req, snap |-> t.snap, next |-> t.next, step |-> t.step]
  BY TxnIs
<1>. HIDE DEF t, r
<1>6. i \in Doc /\ \A n \in Names : n # "pin" => i[n] = overlay.items[n]
  <2>1. overlay.items \in Doc /\ "pin" \in Names /\ d \in Defs("pin") \cup {None}
    BY <1>1, DefsProper DEF Overlays
  <2>. QED  BY <2>1, DocEdit
<1>. HIDE DEF i
<1>7. overlay' \in Overlays /\ overlay'.items = i
  BY <1>1, <1>3, <1>6 DEF Overlays
<1>8. DurableIn(overlay', live)
  <2>1. \A n \in Groups \cup Hooks : n \in Names /\ n # "pin"
    BY SectionsAre DEF Groups, Hooks
  <2>. QED  BY <1>1, <1>6, <1>7, <2>1 DEF DurableIn
<1>9. InSection(t, overlay', live, k)
  BY <1>4, <1>5 DEF InSection
<1>. QED  BY <1>1, <1>2, <1>7, <1>8, <1>9, Begins DEF t

LEMMA PlanStep ==
    ASSUME PlaneInv, NEW c \in Clients, Plan(c)
    PROVE  PlaneInv'
<1>1. pc[c] = "idle" /\ txn = NoTxn /\ ops < MaxOps /\ pc[c] \in {"idle", "push"}
  BY DEF Plan
<1>2. \A n \in Names : Defs(n) \subseteq Defs(n) \cup {None} /\ None \notin Defs(n)
  BY DefsProper
<1>3. ASSUME NEW g \in Groups, DeleteGroup(c, g) PROVE PlaneInv'
  <2>1. bind["adminKey"] # g
    BY <1>3 DEF DeleteGroup, Keys
  <2>2. g \notin BaseNames(live) /\ Edit(c, "delete", g, None) /\ done' = done
    BY <1>3 DEF DeleteGroup, Editable
  <2>3. g \in Groups \cup Hooks /\ None \in Defs(g) \cup {None} /\ "delete" # "edit"
        /\ "delete" \in {"edit", "delete"}
    OBVIOUS
  <2>. QED  BY <1>1, <2>1, <2>2, <2>3, EditBegins
<1>4. ASSUME NEW h \in Hooks, DeleteHook(c, h) PROVE PlaneInv'
  <2>1. h \notin Groups
    BY SectionsAre
  <2>2. h \notin BaseNames(live) /\ Edit(c, "delete", h, None) /\ done' = done
    BY <1>4 DEF DeleteHook, Editable
  <2>3. h \in Groups \cup Hooks /\ None \in Defs(h) \cup {None} /\ "delete" # "edit"
        /\ "delete" \in {"edit", "delete"}
    OBVIOUS
  <2>. QED  BY <1>1, <2>1, <2>2, <2>3, EditBegins
<1>5. ASSUME NEW n \in Groups \cup Hooks, NEW d \in Defs(n), Edit(c, "edit", n, d), done' = done,
             n \notin BaseNames(live)
      PROVE  PlaneInv'
  <2>1. n \in Names
    BY SectionsAre
  <2>2. d # None /\ d \in Defs(n) \cup {None} /\ "delete" # "edit" /\ "edit" \in {"edit", "delete"}
    BY <1>2, <2>1
  <2>. QED  BY <1>1, <1>5, <2>2, EditBegins
<1>6. ASSUME NEW g \in Groups, NEW d \in Defs(g), RegisterGroup(c, g, d) \/ PutGroup(c, g, d)
      PROVE  PlaneInv'
  BY <1>5, <1>6 DEF RegisterGroup, PutGroup, Editable
<1>7. ASSUME NEW h \in Hooks, NEW d \in Defs(h), RegisterHook(c, h, d) \/ PutHook(c, h, d)
      PROVE  PlaneInv'
  BY <1>5, <1>7 DEF RegisterHook, PutHook, Editable
<1>8. ASSUME NEW n \in Groups \cup Hooks, ApplyConfig(c, n) PROVE PlaneInv'
  <2>. DEFINE r == [kind |-> "apply"]
  <2>1. Rebuild(c, r, Body(n), overlay) /\ r.kind = "apply"
    BY <1>8 DEF ApplyConfig
  <2>2. Deployed(Body(n))
    BY FilesAre
  <2>. HIDE DEF r
  <2>. QED  BY <1>1, <2>1, <2>2, ReloadBegins
<1>9. ASSUME ReloadConfig(c) PROVE PlaneInv'
  <2>. DEFINE r == [kind |-> "reload"]
  <2>1. Rebuild(c, r, file, overlay) /\ r.kind = "reload"
    BY <1>9 DEF ReloadConfig
  <2>2. Deployed(file)
    BY <1>1, AtRest
  <2>. HIDE DEF r
  <2>. QED  BY <1>1, <2>1, <2>2, ReloadBegins
<1>10. ASSUME ReloadPlugins(c) PROVE PlaneInv'
  <2>. DEFINE r == [kind |-> "plugins"]
  <2>1. Rebuild(c, r, file, overlay) /\ r.kind = "plugins"
    BY <1>10 DEF ReloadPlugins
  <2>2. Deployed(file)
    BY <1>1, AtRest
  <2>. HIDE DEF r
  <2>. QED  BY <1>1, <2>1, <2>2, ReloadBegins
<1>11. \/ \E g \in Groups :
            DeleteGroup(c, g) \/ \E d \in Defs(g) : RegisterGroup(c, g, d) \/ PutGroup(c, g, d)
       \/ \E h \in Hooks :
            DeleteHook(c, h) \/ \E d \in Defs(h) : RegisterHook(c, h, d) \/ PutHook(c, h, d)
       \/ \E n \in Groups \cup Hooks : ApplyConfig(c, n)
       \/ PutAuth(c)
       \/ \E kind \in {"mint", "leaf"} : PlanMintGroup(c, kind)
       \/ \E g \in Groups : UpdateKey(c, g)
       \/ \E v \in Retained(log) : RollbackConfig(c, v)
       \/ ReloadConfig(c) \/ ReloadPlugins(c)
       \/ \E S \in Sections : ResetOverlaySection(c, S)
       \/ \E d \in Defs("root") : PutConfigSettings(c, d)
       \/ \E d \in Defs("pin") : RollbackPlugin(c, d)
  BY DEF Plan
<1>. QED  BY <1>1, <1>3, <1>4, <1>6, <1>7, <1>8, <1>9, <1>10, <1>11, PutAuthBegins, MintBegins,
             UpdateKeyBegins, RollbackBegins, ResetBegins, SettingsBegins, PinBegins

-----------------------------------------------------------------------------
(* Transactions end, and the steps beside them. *)

LEMMA SubRows ==
    ASSUME NEW X, NEW q \in Seq(X), NEW m \in 1 .. Len(q) + 1
    PROVE  LET s == SubSeq(q, m, Len(q)) IN
           s \in Seq(X) /\ Len(s) = (Len(q) - m) + 1 /\ Range(s) \subseteq Range(q)
<1>. DEFINE s == SubSeq(q, m, Len(q))
            n == Len(q)
<1>1. n \in Nat /\ \A i \in m .. n : i \in 1 .. n
  OBVIOUS
<1>2. s \in Seq(X) /\ Len(s) = (n - m) + 1
  OBVIOUS
<1>3. \A i \in 1 .. Len(s) : s[i] = q[(m + i) - 1] /\ (m + i) - 1 \in 1 .. n
  BY <1>1, <1>2
<1>. HIDE DEF s
<1>4. DOMAIN s = 1 .. Len(s) /\ DOMAIN q = 1 .. n
  BY <1>2
<1>5. Range(s) \subseteq Range(q)
  BY <1>3, <1>4 DEF Range
<1>. QED  BY <1>2, <1>5 DEF s

(* VersionLog::record keeps rows it had, and adds the App's.               *)
LEMMA RecordedRows ==
    ASSUME NEW l \in Seq(LogRows), NEW a, a.version \in Nat, HooksOf(a.items) \in HookSets
    PROVE  /\ Recorded(l, a) \in Seq(LogRows)
           /\ Len(Recorded(l, a)) \in 1 .. MaxVersions
           /\ \A row \in Range(Recorded(l, a)) :
                 row \in Range(l) \/ (row.version = a.version /\ row.hooks = HooksOf(a.items))
<1>. DEFINE kept == Kept(l, {r \in Range(l) : r.version # a.version})
            room == IF Len(kept) >= MaxVersions
                    THEN SubSeq(kept, (Len(kept) - MaxVersions) + 2, Len(kept))
                    ELSE kept
            new == [version |-> a.version, hooks |-> HooksOf(a.items)]
<1>1. kept \in Seq(LogRows) /\ Range(kept) \subseteq Range(l)
  BY KeptRange
<1>2. new \in LogRows /\ new.version = a.version /\ new.hooks = HooksOf(a.items)
  BY DEF LogRows
<1>3. Recorded(l, a) = Append(room, new)
  BY DEF Recorded
<1>. HIDE DEF kept, new
<1>4. MaxVersions \in Nat \ {0} /\ Len(kept) \in Nat
  BY <1>1, PlaneBounds
<1>5. room \in Seq(LogRows) /\ Range(room) \subseteq Range(kept) /\ Len(room) + 1 <= MaxVersions
  <2>1. CASE Len(kept) >= MaxVersions
    <3>. DEFINE m == (Len(kept) - MaxVersions) + 2
    <3>1. m \in 1 .. Len(kept) + 1 /\ ((Len(kept) - m) + 1) + 1 = MaxVersions
      BY <1>4, <2>1
    <3>2. room = SubSeq(kept, m, Len(kept))
      BY <2>1
    <3>. HIDE DEF m
    <3>3. /\ SubSeq(kept, m, Len(kept)) \in Seq(LogRows)
          /\ Len(SubSeq(kept, m, Len(kept))) = (Len(kept) - m) + 1
          /\ Range(SubSeq(kept, m, Len(kept))) \subseteq Range(kept)
      BY <1>1, <3>1, SubRows
    <3>. HIDE DEF room
    <3>. QED  BY <1>4, <3>1, <3>2, <3>3
  <2>2. CASE ~(Len(kept) >= MaxVersions)
    <3>1. Len(kept) + 1 <= MaxVersions
      BY <1>4, <2>2
    <3>. QED  BY <1>1, <2>2, <3>1
  <2>. QED  BY <2>1, <2>2
<1>. HIDE DEF room
<1>6. /\ Append(room, new) \in Seq(LogRows) /\ Len(Append(room, new)) = Len(room) + 1
      /\ Range(Append(room, new)) = Range(room) \cup {new}
  BY <1>2, <1>5, AppendRange
<1>7. Len(Recorded(l, a)) \in 1 .. MaxVersions
  <2>1. Len(room) \in Nat
    BY <1>5
  <2>. QED  BY <1>3, <1>4, <1>5, <1>6, <2>1
<1>8. ASSUME NEW row \in Range(Recorded(l, a))
      PROVE  row \in Range(l) \/ (row.version = a.version /\ row.hooks = HooksOf(a.items))
  BY <1>1, <1>2, <1>3, <1>5, <1>6
<1>. QED  BY <1>3, <1>6, <1>7, <1>8

(* The histories, when no App is installed.                                *)
LEMMA HistSame ==
    ASSUME Historic, UNCHANGED <<hist, live>>, live \in Apps,
           log' = log \/ \E a : /\ WasInForce(a.version, HooksOf(a.items))
                                /\ log' = Recorded(log, a),
           done' = [c \in Clients |-> done'[c]],
           \A c \in Clients : pc'[c] \in {"push", "record"} =>
               WasInForce(done'[c].version, done'[c].items)
    PROVE  Historic'
<1>2. log' \in Seq(LogRows) /\ Len(log') \in 1 .. MaxVersions
      /\ \A row \in Range(log') : WasInForce(row.version, row.hooks)
  <2>1. CASE log' = log
    BY <2>1 DEF Historic
  <2>2. CASE \E a : WasInForce(a.version, HooksOf(a.items)) /\ log' = Recorded(log, a)
    <3>1. PICK a : WasInForce(a.version, HooksOf(a.items)) /\ log' = Recorded(log, a)
      BY <2>2
    <3>2. a.version \in Nat /\ HooksOf(a.items) \in HookSets /\ log \in Seq(LogRows)
      BY <3>1 DEF WasInForce, Historic
    <3>3. /\ log' \in Seq(LogRows) /\ Len(log') \in 1 .. MaxVersions
          /\ \A row \in Range(log') :
                row \in Range(log) \/ (row.version = a.version /\ row.hooks = HooksOf(a.items))
      BY <3>1, <3>2, RecordedRows
    <3>4. \A row \in Range(log) : WasInForce(row.version, row.hooks)
      BY DEF Historic
    <3>5. ASSUME NEW row \in Range(log') PROVE WasInForce(row.version, row.hooks)
      <4>1. CASE row \in Range(log)
        BY <3>4, <4>1
      <4>2. CASE row.version = a.version /\ row.hooks = HooksOf(a.items)
        BY <3>1, <4>2
      <4>. QED  BY <3>3, <4>1, <4>2
    <3>. QED  BY <3>3, <3>5
  <2>. QED  BY <2>1, <2>2
<1>3. /\ hist \in Seq(HookSets) /\ Len(hist) = live.version + 1
      /\ hist[live.version + 1] = HooksOf(live.items)
  BY DEF Historic
<1>. QED  BY <1>2, <1>3 DEF Historic, WasInForce

LEMMA DoneSame ==
    ASSUME Historic, NEW c \in Clients, pc[c] \in {"push", "record"}
    PROVE  WasInForce(done[c].version, done[c].items)
BY DEF Historic

LEMMA LiveInForce ==
    ASSUME PlaneInv
    PROVE  WasInForce(live.version, HooksOf(live.items))
<1>1. live \in Apps
  BY DEF PlaneInv, Typed
<1>2. live.version \in Nat /\ HooksOf(live.items) \in HookSets
  BY <1>1, AppIs
<1>. QED  BY <1>2 DEF WasInForce, PlaneInv, Historic

(* The fields of the transaction, and of one that goes on.                 *)
LEMMA TxnNow ==
    ASSUME PlaneInv, txn # NoTxn
    PROVE  /\ InSection(txn, overlay, live, bind["adminKey"])
           /\ txn = [client |-> txn.client, req |-> txn.req, snap |-> txn.snap,
                     next |-> txn.next, step |-> txn.step]
           /\ txn.client \in Clients
           /\ txn.step \in {"persist", "swap", "rebuild", "there", "bind"}
BY DEF PlaneInv, Locked, InSection

IsTxn(t) ==
    t = [client |-> t.client, req |-> t.req, snap |-> t.snap, next |-> t.next, step |-> t.step]

Moved(u, t, x, s) ==
    u = [t EXCEPT !.next = x, !.step = s] \/ (u = [t EXCEPT !.step = s] /\ x = t.next)

LEMMA TxnGoes ==
    ASSUME NEW t, IsTxn(t), NEW x, NEW s, NEW u, Moved(u, t, x, s)
    PROVE  /\ u.client = t.client /\ u.req = t.req /\ u.snap = t.snap /\ u.next = x /\ u.step = s
           /\ IsTxn(u) /\ u # NoTxn
<1>. USE DEF IsTxn
<1>. DEFINE c == t.client
            r == t.req
            a == t.snap
            n == t.next
            p == t.step
<1>1. t = [client |-> c, req |-> r, snap |-> a, next |-> n, step |-> p]
  OBVIOUS
<1>. HIDE DEF c, r, a, n, p
<1>2. t \in [client : {c}, req : {r}, snap : {a}, next : {n}, step : {p}]
  BY <1>1
<1>3. CASE u = [t EXCEPT !.next = x, !.step = s]
  <2>1. u \in [client : {c}, req : {r}, snap : {a}, next : {x}, step : {s}]
    BY <1>2, <1>3
  <2>. QED  BY <2>1, ClientsDistinct DEF c, r, a, n, p
<1>4. CASE u = [t EXCEPT !.step = s] /\ x = t.next
  <2>1. u \in [client : {c}, req : {r}, snap : {a}, next : {n}, step : {s}]
    BY <1>2, <1>4
  <2>. QED  BY <1>4, <2>1, ClientsDistinct DEF c, r, a, n, p
<1>. QED  BY <1>3, <1>4 DEF Moved

(* The lock is let go of.                                                  *)
LEMMA Ends ==
    ASSUME PlaneInv, txn # NoTxn, NEW then \in {"idle", "record", "selfBind"}, End(then)
    PROVE  /\ txn' = NoTxn /\ Locked'
           /\ done' = [c \in Clients |-> done'[c]]
           /\ \A c \in Clients : pc'[c] \in {"push", "record"} =>
                 \/ pc[c] \in {"push", "record"} /\ done'[c] = done[c]
                 \/ /\ then = "record"
                    /\ done'[c] = [version |-> txn.next.version, items |-> HooksOf(txn.next.items)]
<1>. DEFINE b == txn.client
<1>1. b \in Clients
  BY TxnNow
<1>2. /\ pc \in [Clients -> PcStates]
      /\ \A c \in Clients : pc[c] = "section" <=> c = b
      /\ done = [c \in Clients |-> done[c]]
  BY DEF PlaneInv, Locked, Historic
<1>3. /\ txn' = NoTxn
      /\ \/ /\ pc' = [pc EXCEPT ![b] = then]
            /\ done' = IF then = "record"
                       THEN [done EXCEPT ![b] = [version |-> txn.next.version,
                                                 items |-> HooksOf(txn.next.items)]]
                       ELSE done
         \/ pc' = [pc EXCEPT ![b] = "idle"] /\ done' = done
  BY DEF End
<1>. HIDE DEF b
<1>4. pc' \in [Clients -> PcStates] /\ \A c \in Clients : pc'[c] # "section"
  BY <1>1, <1>2, <1>3 DEF PcStates
<1>5. Locked'
  BY <1>3, <1>4 DEF Locked
<1>6. done' = [c \in Clients |-> done'[c]]
  BY <1>2, <1>3
<1>7. ASSUME NEW c \in Clients, pc'[c] \in {"push", "record"}
      PROVE  \/ pc[c] \in {"push", "record"} /\ done'[c] = done[c]
             \/ /\ then = "record"
                /\ done'[c] = [version |-> txn.next.version, items |-> HooksOf(txn.next.items)]
  <2>1. CASE c = b
    BY <1>1, <1>2, <1>3, <1>7, <2>1
  <2>2. CASE c # b
    BY <1>1, <1>2, <1>3, <1>7, <2>2
  <2>. QED  BY <2>1, <2>2
<1>. QED  BY <1>3, <1>5, <1>6, <1>7

(* It ends without an installation.                                        *)
LEMMA EndsSame ==
    ASSUME PlaneInv, txn # NoTxn, NEW then \in {"idle", "selfBind"}, End(then),
           UNCHANGED <<file, live, limits, hist, dropped, ops>>,
           overlay' \in Overlays, DurableIn(overlay', live), stuck' \in BOOLEAN,
           stuck' \/ PinIn(overlay', live),
           log' = log \/ log' = Recorded(log, live),
           bind' \in [Keys -> Groups \cup {None}], BoundIn(bind'["adminKey"], live)
    PROVE  PlaneInv'
<1>1. /\ txn' = NoTxn /\ Locked'
      /\ done' = [c \in Clients |-> done'[c]]
      /\ \A c \in Clients : pc'[c] \in {"push", "record"} =>
            pc[c] \in {"push", "record"} /\ done'[c] = done[c]
  BY Ends
<1>2. Typed'
  BY DEF PlaneInv, Typed
<1>3. Counted'
  BY <1>1 DEF PlaneInv, Counted
<1>4. View' = live
  BY <1>1 DEF View, At
<1>5. Durable'
  BY <1>1, <1>4 DEF Durable
<1>6. Bound'
  BY <1>4 DEF Bound, BoundIn
<1>7. Historic'
  <2>1. Historic /\ live \in Apps
    BY DEF PlaneInv, Typed
  <2>2. \A c \in Clients : pc'[c] \in {"push", "record"} =>
           WasInForce(done'[c].version, done'[c].items)
    BY <1>1, <2>1, DoneSame
  <2>3. log' = log \/ \E a : WasInForce(a.version, HooksOf(a.items)) /\ log' = Recorded(log, a)
    BY LiveInForce
  <2>. QED  BY <1>1, <2>1, <2>2, <2>3, HistSame
<1>. QED  BY <1>1, <1>2, <1>3, <1>5, <1>6, <1>7 DEF PlaneInv

(* A key that is deleted lets a plan stand.                                *)
LEMMA KeyGone ==
    ASSUME NEW t, NEW o, NEW a, NEW k, InSection(t, o, a, k)
    PROVE  InSection(t, o, a, None)
<1>1. None \notin Groups
  BY DefsProper
<1>2. \A x : EditOf(x, a, k) => EditOf(x, a, None)
  BY <1>1 DEF EditOf
<1>3. Planned(t, o, a, k) => Planned(t, o, a, None)
  BY <1>2 DEF Planned
<1>4. Due(t, o, a, k) => Due(t, o, a, None)
  BY <1>2 DEF Due
<1>. QED  BY <1>3, <1>4 DEF InSection

(* A step outside the lock, of a handler or of the key store.              *)
LEMMA Aside ==
    ASSUME PlaneInv, UNCHANGED <<file, overlay, live, limits, txn, hist, dropped, stuck, ops>>,
           bind' \in [Keys -> Groups \cup {None}], bind'["adminKey"] \in {bind["adminKey"], None},
           pc' \in [Clients -> PcStates], \A c \in Clients : pc'[c] = "section" <=> pc[c] = "section",
           log' = log \/ \E a : /\ WasInForce(a.version, HooksOf(a.items))
                                /\ log' = Recorded(log, a),
           done' = [c \in Clients |-> done'[c]],
           \A c \in Clients : pc'[c] \in {"push", "record"} =>
               WasInForce(done'[c].version, done'[c].items)
    PROVE  PlaneInv'
<1>1. Typed'
  BY DEF PlaneInv, Typed
<1>2. Locked'
  <2>1. txn = NoTxn \/ InSection(txn, overlay, live, bind'["adminKey"])
    BY KeyGone DEF PlaneInv, Locked
  <2>. QED  BY <2>1 DEF PlaneInv, Locked
<1>3. Counted'
  BY DEF PlaneInv, Counted
<1>4. View' = View
  BY DEF View, At
<1>5. Durable'
  BY <1>4 DEF PlaneInv, Durable
<1>6. Bound'
  BY <1>4 DEF PlaneInv, Bound, BoundIn
<1>7. Historic'
  BY HistSame DEF PlaneInv, Typed
<1>. QED  BY <1>1, <1>2, <1>3, <1>5, <1>6, <1>7 DEF PlaneInv

(* The shapes that those steps keep.                                       *)
LEMMA Shapes ==
    ASSUME PlaneInv
    PROVE  /\ pc \in [Clients -> PcStates]
           /\ bind \in [Keys -> Groups \cup {None}]
           /\ done = [c \in Clients |-> done[c]]
           /\ \A c \in Clients : pc[c] \in {"push", "record"} =>
                 WasInForce(done[c].version, done[c].items)
BY DEF PlaneInv, Typed, Locked, Historic

LEMMA PushStep ==
    ASSUME PlaneInv, NEW c \in Clients, NEW h \in Hooks, PushSettings(c, h)
    PROVE  PlaneInv'
<1>. DEFINE d == [version |-> live.version, items |-> HooksOf(live.items)]
<1>1. /\ pc[c] = "idle" /\ pc' = [pc EXCEPT ![c] = "push"] /\ done' = [done EXCEPT ![c] = d]
      /\ UNCHANGED <<file, overlay, live, limits, log, txn, bind, hist, dropped, stuck, ops>>
  BY DEF PushSettings, disk, counters
<1>2. WasInForce(d.version, d.items)
  BY LiveInForce
<1>. HIDE DEF d
<1>3. pc' \in [Clients -> PcStates] /\ \A b \in Clients : pc'[b] = "section" <=> pc[b] = "section"
  BY <1>1, Shapes DEF PcStates
<1>4. done' = [b \in Clients |-> done'[b]]
  BY <1>1, Shapes
<1>5. ASSUME NEW b \in Clients, pc'[b] \in {"push", "record"}
      PROVE  WasInForce(done'[b].version, done'[b].items)
  <2>1. CASE b = c
    <3>1. done'[b] = d
      BY <1>1, <2>1, Shapes
    <3>. QED  BY <1>2, <3>1
  <2>2. CASE b # c
    <3>1. done'[b] = done[b] /\ pc'[b] = pc[b]
      BY <1>1, <2>2, Shapes
    <3>. QED  BY <1>5, <3>1, Shapes
  <2>. QED  BY <2>1, <2>2
<1>6. bind' \in [Keys -> Groups \cup {None}]
  BY <1>1, Shapes
<1>. QED  BY <1>1, <1>3, <1>4, <1>5, <1>6, Aside

(* A handler that leaves: nothing of it is left.                           *)
LEMMA Leaves ==
    ASSUME PlaneInv, NEW c \in Clients, pc[c] # "section", pc' = [pc EXCEPT ![c] = "idle"],
           done' = [done EXCEPT ![c] = Nothing] \/ done' = done,
           UNCHANGED <<file, overlay, live, limits, txn, hist, dropped, stuck, ops>>,
           bind' \in [Keys -> Groups \cup {None}], bind'["adminKey"] \in {bind["adminKey"], None},
           log' = log \/ \E a : /\ WasInForce(a.version, HooksOf(a.items))
                                /\ log' = Recorded(log, a)
    PROVE  PlaneInv'
<1>1. pc' \in [Clients -> PcStates] /\ \A b \in Clients : pc'[b] = "section" <=> pc[b] = "section"
  BY Shapes DEF PcStates
<1>2. done' = [b \in Clients |-> done'[b]]
  BY Shapes
<1>3. ASSUME NEW b \in Clients, pc'[b] \in {"push", "record"}
      PROVE  WasInForce(done'[b].version, done'[b].items)
  <2>1. b # c
    BY <1>3, Shapes
  <2>2. done'[b] = done[b] /\ pc'[b] = pc[b]
    BY <2>1, Shapes
  <2>. QED  BY <1>3, <2>2, Shapes
<1>. QED  BY <1>1, <1>2, <1>3, Aside

(* Hooks that were in force at some version.                               *)
LEMMA HooksAre ==
    ASSUME NEW v, NEW h, WasInForce(v, h)
    PROVE  HooksOf(h) = h /\ \A n \in Hooks : h[n] \in Defs(n) \cup {None}
<1>1. h \in [Hooks -> {"v1", None}]
  BY DEF WasInForce, HookSets
<1>2. HooksOf(h) = h
  BY <1>1 DEF HooksOf
<1>3. \A n \in Hooks : h[n] \in Defs(n) \cup {None}
  BY <1>1, NamesAre DEF Hooks
<1>. QED  BY <1>2, <1>3

LEMMA PatchStep ==
    ASSUME PlaneInv, NEW c \in Clients, NEW h \in Hooks, PatchHookSettings(c, h)
    PROVE  PlaneInv'
<1>1. pc[c] = "push" /\ txn = NoTxn /\ done' = [done EXCEPT ![c] = Nothing]
  BY DEF PatchHookSettings
<1>. DEFINE d == done[c].items[h]
<1>2. d \in Defs(h) \cup {None}
  <2>1. WasInForce(done[c].version, done[c].items)
    BY <1>1, Shapes
  <2>. QED  BY <2>1, HooksAre
<1>3. CASE ops < MaxOps /\ Edit(c, "edit", h, d)
  <2>. HIDE DEF d
  <2>1. h \in Groups \cup Hooks /\ h \notin Groups /\ "edit" # "delete" /\ "edit" \in {"edit", "delete"}
    BY SectionsAre
  <2>. QED  BY <1>1, <1>2, <1>3, <2>1, EditBegins
<1>4. CASE /\ pc' = [pc EXCEPT ![c] = "idle"]
           /\ UNCHANGED <<disk, live, limits, log, txn, bind, hist, dropped, stuck, counters>>
  <2>1. UNCHANGED <<file, overlay, live, limits, log, txn, bind, hist, dropped, stuck, ops>>
    BY <1>4 DEF disk, counters
  <2>. QED  BY <1>1, <1>4, <2>1, Shapes, Leaves
<1>. QED  BY <1>3, <1>4 DEF PatchHookSettings

LEMMA RecordStep ==
    ASSUME PlaneInv, NEW c \in Clients, Record(c)
    PROVE  PlaneInv'
<1>1. /\ pc[c] = "record" /\ log' = Recorded(log, done[c])
      /\ pc' = [pc EXCEPT ![c] = "idle"] /\ done' = [done EXCEPT ![c] = Nothing]
      /\ UNCHANGED <<file, overlay, live, limits, txn, bind, hist, dropped, stuck, ops>>
  BY DEF Record, disk, counters
<1>2. WasInForce(done[c].version, done[c].items)
  BY <1>1, Shapes
<1>3. WasInForce(done[c].version, HooksOf(done[c].items))
  BY <1>2, HooksAre
<1>4. \E a : WasInForce(a.version, HooksOf(a.items)) /\ log' = Recorded(log, a)
  BY <1>1, <1>3
<1>. QED  BY <1>1, <1>4, Shapes, Leaves

LEMMA SelfBindStep ==
    ASSUME PlaneInv, NEW c \in Clients, SelfBind(c)
    PROVE  PlaneInv'
<1>1. /\ pc[c] = "selfBind" /\ bind' = [bind EXCEPT !["selfKey"] = "leaf"]
      /\ pc' = [pc EXCEPT ![c] = "idle"]
      /\ UNCHANGED <<file, overlay, live, limits, log, txn, done, hist, dropped, stuck, ops>>
  BY DEF SelfBind, disk, counters
<1>2. bind' \in [Keys -> Groups \cup {None}] /\ bind'["adminKey"] = bind["adminKey"]
  BY <1>1, Shapes DEF Keys, Groups
<1>. QED  BY <1>1, <1>2, Leaves

LEMMA DeleteKeyStep ==
    ASSUME PlaneInv, NEW k \in Keys, DeleteKey(k)
    PROVE  PlaneInv'
<1>1. /\ bind' = [bind EXCEPT ![k] = None]
      /\ UNCHANGED <<file, overlay, live, limits, log, txn, pc, done, hist, dropped, stuck, ops>>
  BY DEF DeleteKey, disk, counters
<1>2. bind' \in [Keys -> Groups \cup {None}] /\ bind'["adminKey"] \in {bind["adminKey"], None}
  BY <1>1, Shapes DEF Keys
<1>. QED  BY <1>1, <1>2, Shapes, Aside

(* No edit takes away the root settings or pins a plugin.                  *)
LEMMA EditFileStep ==
    ASSUME PlaneInv, NEW n \in Names \ Pins,
           NEW d \in Defs(n) \cup (IF n \in Root THEN {} ELSE {None}), EditFile(n, d)
    PROVE  PlaneInv'
<1>1. /\ file' = [file EXCEPT ![n] = d]
      /\ UNCHANGED <<overlay, live, limits, log, txn, pc, done, bind, hist, dropped, stuck, ops>>
  BY DEF EditFile
<1>2. Deployed(file')
  <2>1. Deployed(file) /\ d \in Defs(n) \cup {None} /\ n \in Names
    BY DEF PlaneInv, Typed
  <2>10. file \in Doc
    BY <2>1 DEF Deployed
  <2>11. /\ [file EXCEPT ![n] = d] \in Doc /\ [file EXCEPT ![n] = d][n] = d
         /\ \A m \in Names : m # n => [file EXCEPT ![n] = d][m] = file[m]
    BY <2>1, <2>10, DocEdit
  <2>2. /\ file' \in Doc /\ file'[n] = d
        /\ \A m \in Names : m # n => file'[m] = file[m]
    BY <1>1, <2>11
  <2>3. n = "root" => d # None
    BY DefsProper DEF Root
  <2>4. n # "pin" /\ "pin" \in Names /\ "root" \in Names
    BY DefsProper DEF Pins
  <2>. QED  BY <2>1, <2>2, <2>3, <2>4 DEF Deployed
<1>3. Typed'
  BY <1>1, <1>2 DEF PlaneInv, Typed
<1>4. Locked'
  BY <1>1 DEF PlaneInv, Locked
<1>5. Counted'
  BY <1>1 DEF PlaneInv, Counted
<1>6. View' = View
  BY <1>1 DEF View, At
<1>7. Durable' /\ Bound'
  BY <1>1, <1>6 DEF PlaneInv, Durable, Bound, BoundIn
<1>8. Historic'
  <2>1. log' = log /\ done' = [c \in Clients |-> done'[c]]
    BY <1>1, Shapes
  <2>2. \A c \in Clients : pc'[c] \in {"push", "record"} =>
           WasInForce(done'[c].version, done'[c].items)
    BY <1>1, Shapes
  <2>. QED  BY <1>1, <2>1, <2>2, HistSame DEF PlaneInv, Typed
<1>. QED  BY <1>3, <1>4, <1>5, <1>7, <1>8 DEF PlaneInv

(* A group that a commit takes away is one that a rebuild drops, or not    *)
(* the key's.                                                              *)
LEMMA GoneIsDropped ==
    ASSUME PlaneInv, NEW k, k = bind["adminKey"], NEW x, x = txn.next,
           txn.req.kind \notin Rebuilds => EditOf(x, live, k)
    PROVE  k # None /\ x.items[k] = None => k \in Dropped /\ k \in Absent(x)
<1>1. k \in Groups \cup {None}
  BY Shapes DEF Keys
<1>2. BoundIn(k, live)
  BY DEF PlaneInv, Bound
<1>. SUFFICES ASSUME k # None, x.items[k] = None PROVE k \in Dropped /\ k \in Absent(x)
  OBVIOUS
<1>3. k \in Groups /\ k \in Absent(x)
  BY <1>1 DEF Absent
<1>4. CASE live.items[k] = None
  BY <1>2, <1>3, <1>4 DEF BoundIn, Dropped
<1>5. CASE live.items[k] # None
  <2>1. txn.req.kind \in Rebuilds
    BY <1>3, <1>5 DEF EditOf
  <2>2. k \notin Absent(live)
    BY <1>5 DEF Absent
  <2>. QED  BY <1>3, <2>1, <2>2 DEF Dropped
<1>. QED  BY <1>3, <1>4, <1>5

(* The histories, when the log and the handlers stay.                      *)
LEMMA HistKept ==
    ASSUME PlaneInv, UNCHANGED <<hist, live, log, done, pc>>
    PROVE  Historic'
<1>1. Historic /\ live \in Apps
  BY DEF PlaneInv, Typed
<1>2. /\ done' = [c \in Clients |-> done'[c]]
      /\ \A c \in Clients : pc'[c] \in {"push", "record"} =>
             WasInForce(done'[c].version, done'[c].items)
  BY Shapes
<1>. QED  BY <1>1, <1>2, HistSame

(* commit_and_swap has written: what is to be installed is durable.         *)
LEMMA PersistStep ==
    ASSUME PlaneInv, Persist
    PROVE  PlaneInv'
<1>. DEFINE x == txn.next
            p == Wrote(txn, overlay)
            k == bind["adminKey"]
            u == [txn EXCEPT !.step = "swap"]
<1>1. /\ txn # NoTxn /\ txn.step = "persist" /\ overlay' = p
      /\ txn' = u /\ dropped' = Dropped
      /\ UNCHANGED <<file, live, limits, log, pc, done, bind, hist, stuck, ops>>
  BY PersistedIs DEF Persist, At, counters
<1>2. /\ InSection(txn, overlay, live, k)
      /\ txn = [client |-> txn.client, req |-> txn.req, snap |-> txn.snap,
                next |-> txn.next, step |-> txn.step]
      /\ txn.client \in Clients
  BY <1>1, TxnNow
<1>3. Planned(txn, overlay, live, k)
  BY <1>1, <1>2 DEF InSection
<1>20. Moved(u, txn, x, "swap") /\ IsTxn(txn)
  BY <1>2 DEF Moved, IsTxn
<1>. HIDE DEF u
<1>4. /\ u.client = txn.client /\ u.req = txn.req /\ u.snap = txn.snap /\ u.next = x /\ u.step = "swap"
      /\ IsTxn(u) /\ u # NoTxn
  BY <1>20, TxnGoes
<1>5. /\ Follows(x, live) /\ p \in Overlays /\ DurableIn(p, x) /\ txn.req.kind \notin Persistless
      /\ txn.req.kind \in Rebuilds => BuiltOn(p, x)
      /\ txn.req.kind \notin Rebuilds => EditOf(x, live, k) /\ p.items["pin"] = overlay.items["pin"]
  BY <1>3 DEF Planned
<1>. HIDE DEF p
<1>6. Typed'
  BY <1>1, <1>5 DEF PlaneInv, Typed
<1>7. Due(u, p, live, k)
  <2>1. txn.req.kind # "auth"
    BY <1>5 DEF Persistless
  <2>. QED  BY <1>4, <1>5, <2>1 DEF Due
<1>8. InSection(u, p, live, k)
  <2>1. txn.req.kind = "mint" => x.items["leaf"] # None
    BY <1>1, <1>2 DEF InSection
  <2>. QED  BY <1>2, <1>4, <1>7, <2>1 DEF InSection, IsTxn
<1>9. Locked'
  BY <1>1, <1>4, <1>8 DEF PlaneInv, Locked
<1>10. Counted'
  BY <1>1, <1>4 DEF PlaneInv, Counted
<1>11. View' = x
  BY <1>1, <1>4, <1>5 DEF View, At
<1>12. Durable'
  <2>1. stuck \/ PinIn(overlay, live)
    BY <1>1 DEF PlaneInv, Durable
  <2>2. txn.req.kind \notin Rebuilds => stuck \/ PinIn(p, live)
    BY <1>5, <2>1 DEF PinIn
  <2>. QED  BY <1>1, <1>4, <1>5, <1>11, <2>2 DEF Durable
<1>13. Bound'
  <2>1. k # None /\ x.items[k] = None => k \in Dropped
    BY <1>5, GoneIsDropped
  <2>2. k # None /\ live.items[k] = None => k \in Dropped
    BY DEF PlaneInv, Bound, BoundIn, Dropped
  <2>. QED  BY <1>1, <1>11, <2>1, <2>2 DEF Bound, BoundIn
<1>14. Historic'
  BY <1>1, HistKept
<1>. QED  BY <1>6, <1>9, <1>10, <1>12, <1>13, <1>14 DEF PlaneInv

LEMMA RebuildPinStep ==
    ASSUME PlaneInv, RebuildPin
    PROVE  PlaneInv'
<1>. DEFINE x == Build(file, overlay, txn.snap.version + 1)
            k == bind["adminKey"]
            u == [txn EXCEPT !.next = x, !.step = "swap"]
<1>1. /\ txn # NoTxn /\ txn.step = "rebuild" /\ ValidGroups(x.items)
      /\ txn' = u /\ limits' = x.items["root"]
      /\ UNCHANGED <<file, overlay, live, log, pc, done, bind, hist, dropped, stuck, ops>>
  BY DEF RebuildPin, At, disk, counters
<1>2. /\ InSection(txn, overlay, live, k)
      /\ txn = [client |-> txn.client, req |-> txn.req, snap |-> txn.snap,
                next |-> txn.next, step |-> txn.step]
      /\ txn.client \in Clients
  BY <1>1, TxnNow
<1>3. txn.req.kind = "pin" /\ txn.snap = live
  BY <1>1, <1>2 DEF InSection
<1>20. Moved(u, txn, x, "swap") /\ IsTxn(txn)
  BY <1>2 DEF Moved, IsTxn
<1>. HIDE DEF u, x
<1>4. /\ u.client = txn.client /\ u.req = txn.req /\ u.snap = txn.snap /\ u.next = x /\ u.step = "swap"
      /\ IsTxn(u) /\ u # NoTxn
  BY <1>20, TxnGoes
<1>5. live \in Apps /\ overlay \in Overlays /\ Deployed(file)
  BY DEF PlaneInv, Typed
<1>6. /\ u.next = Build(file, overlay, live.version + 1) /\ ValidGroups(u.next.items)
  BY <1>1, <1>3, <1>4 DEF x
<1>7. u.req.kind \in Rebuilds /\ u.req.kind \in Persistless /\ u.req.kind = "pin"
  BY <1>3, <1>4 DEF Rebuilds, Persistless
<1>8. Leads(u, overlay, overlay)
  BY <1>7 DEF Leads
<1>9. Due(u, overlay, live, k) /\ u.next.items["root"] \in Defs("root")
  BY <1>5, <1>6, <1>7, <1>8, RebuildPlanned
<1>10. limits' \in Defs("root")
  BY <1>1, <1>4, <1>9
<1>11. Typed'
  BY <1>1, <1>10 DEF PlaneInv, Typed
<1>12. InSection(u, overlay, live, k)
  BY <1>2, <1>4, <1>7, <1>9 DEF InSection, IsTxn
<1>13. Locked'
  BY <1>1, <1>4, <1>12 DEF PlaneInv, Locked
<1>14. Counted'
  BY <1>1, <1>4 DEF PlaneInv, Counted
<1>15. View' = live /\ View = live
  BY <1>1, <1>4, <1>7 DEF View, At
<1>16. Durable'
  BY <1>1, <1>4, <1>7, <1>15 DEF PlaneInv, Durable
<1>17. Bound'
  BY <1>1, <1>15 DEF PlaneInv, Bound, BoundIn
<1>18. Historic'
  BY <1>1, HistKept
<1>. QED  BY <1>11, <1>13, <1>14, <1>16, <1>17, <1>18 DEF PlaneInv

(* What the lock's holder leaves when it writes nothing but its pin.       *)
LEMMA LeftAlone ==
    ASSUME PlaneInv, txn # NoTxn, txn.step \in {"persist", "rebuild", "there", "bind"}
    PROVE  /\ overlay \in Overlays /\ DurableIn(overlay, live) /\ stuck \in BOOLEAN
           /\ txn.step # "rebuild" => stuck \/ PinIn(overlay, live)
           /\ bind \in [Keys -> Groups \cup {None}] /\ BoundIn(bind["adminKey"], live)
<1>1. View = live
  BY DEF View, At
<1>. QED  BY <1>1 DEF PlaneInv, Typed, Durable, Bound

LEMMA RevertPinStep ==
    ASSUME PlaneInv, RevertPin
    PROVE  PlaneInv'
<1>. DEFINE k == bind["adminKey"]
            i == [overlay.items EXCEPT !["pin"] = live.items["pin"]]
<1>1. /\ txn # NoTxn /\ txn.step = "rebuild" /\ End("idle")
      /\ \/ overlay' = [overlay EXCEPT !.items["pin"] = txn.snap.items["pin"]] /\ stuck' = stuck
         \/ stuck' = TRUE /\ overlay' = overlay
      /\ UNCHANGED <<file, live, limits, log, bind, hist, dropped, ops>>
  BY DEF RevertPin, At
<1>2. txn.snap = live
  BY <1>1, TxnNow DEF InSection
<1>3. overlay \in Overlays /\ DurableIn(overlay, live) /\ stuck \in BOOLEAN
      /\ bind \in [Keys -> Groups \cup {None}] /\ BoundIn(bind["adminKey"], live) /\ live \in Apps
  BY <1>1, LeftAlone DEF PlaneInv, Typed
<1>4. i \in Doc /\ i["pin"] = live.items["pin"] /\ \A n \in Names : n # "pin" => i[n] = overlay.items[n]
  <2>1. overlay.items \in Doc /\ "pin" \in Names
    BY <1>3, DefsProper DEF Overlays
  <2>2. live.items["pin"] \in Defs("pin") \cup {None}
    BY <1>3, <2>1, AppIs, DocIs
  <2>. QED  BY <2>1, <2>2, DocEdit
<1>5. CASE stuck' = TRUE /\ overlay' = overlay
  <2>1. overlay' \in Overlays /\ DurableIn(overlay', live) /\ stuck' \in BOOLEAN
        /\ (stuck' \/ PinIn(overlay', live))
    BY <1>3, <1>5
  <2>. QED  BY <1>1, <1>3, <2>1, EndsSame
<1>6. CASE overlay' = [overlay EXCEPT !.items["pin"] = txn.snap.items["pin"]] /\ stuck' = stuck
  <2>1. overlay' = [overlay EXCEPT !.items = i]
    BY <1>2, <1>6
  <2>. HIDE DEF i
  <2>2. overlay' \in Overlays /\ overlay'.items = i
    BY <1>3, <1>4, <2>1 DEF Overlays
  <2>3. DurableIn(overlay', live)
    <3>1. \A n \in Groups \cup Hooks : n \in Names /\ n # "pin"
      BY SectionsAre DEF Groups, Hooks
    <3>. QED  BY <1>3, <1>4, <2>2, <3>1 DEF DurableIn
  <2>4. PinIn(overlay', live)
    BY <1>4, <2>2 DEF PinIn
  <2>5. stuck' \in BOOLEAN /\ (stuck' \/ PinIn(overlay', live))
    BY <1>3, <1>6, <2>4
  <2>. QED  BY <1>1, <1>3, <2>2, <2>3, <2>5, EndsSame
<1>. QED  BY <1>1, <1>5, <1>6

LEMMA NothingDoneStep ==
    ASSUME PlaneInv, LeafThere \/ PersistFails
    PROVE  PlaneInv'
<1>1. PICK then \in {"idle", "selfBind"} :
         /\ txn # NoTxn /\ txn.step \in {"there", "persist"} /\ End(then)
         /\ UNCHANGED <<file, overlay, live, limits, log, bind, hist, dropped, stuck, ops>>
  BY DEF LeafThere, PersistFails, At, disk, counters
<1>2. overlay \in Overlays /\ DurableIn(overlay, live) /\ stuck \in BOOLEAN
      /\ (stuck \/ PinIn(overlay, live))
      /\ bind \in [Keys -> Groups \cup {None}] /\ BoundIn(bind["adminKey"], live)
  BY <1>1, LeftAlone
<1>. QED  BY <1>1, <1>2, EndsSame

LEMMA BindStep ==
    ASSUME PlaneInv, Bind
    PROVE  PlaneInv'
<1>. DEFINE g == Target(txn)
<1>1. /\ txn # NoTxn /\ txn.step = "bind" /\ End("idle")
      /\ log' = IF txn.next # txn.snap THEN Recorded(log, txn.next) ELSE log
      /\ bind' = [bind EXCEPT !["adminKey"] = g] \/ bind' = bind
      /\ UNCHANGED <<file, overlay, live, limits, hist, dropped, stuck, ops>>
  BY DEF Bind, At, disk, Target
<1>2. txn.next = live /\ g \in Groups /\ live.items[g] # None
  BY <1>1, TxnNow DEF InSection
<1>3. overlay \in Overlays /\ DurableIn(overlay, live) /\ stuck \in BOOLEAN
      /\ (stuck \/ PinIn(overlay, live))
      /\ bind \in [Keys -> Groups \cup {None}] /\ BoundIn(bind["adminKey"], live)
  BY <1>1, LeftAlone
<1>. HIDE DEF g
<1>4. bind' \in [Keys -> Groups \cup {None}] /\ bind'["adminKey"] \in {g, bind["adminKey"]}
  BY <1>1, <1>2, <1>3 DEF Keys
<1>5. BoundIn(bind'["adminKey"], live)
  BY <1>2, <1>3, <1>4 DEF BoundIn
<1>. QED  BY <1>1, <1>2, <1>3, <1>4, <1>5, EndsSame

(* What the swap finds.                                                    *)
LEMMA SwapIs ==
    ASSUME PlaneInv, Swap
    PROVE  LET x == txn.next IN
           /\ txn # NoTxn /\ txn.step = "swap" /\ live' = x
           /\ hist' = Append(hist, HooksOf(x.items))
           /\ dropped' = Dropped \cap Absent(x)
           /\ stuck' = (stuck /\ txn.req.kind \notin Rebuilds)
           /\ UNCHANGED <<file, overlay, limits, log, bind, ops>>
           /\ \/ /\ txn.req.kind = "mint" /\ txn' = [txn EXCEPT !.step = "bind"]
                 /\ pc' = pc /\ done' = done
              \/ \E then \in {"idle", "record", "selfBind"} : End(then)
           /\ InSection(txn, overlay, live, bind["adminKey"]) /\ IsTxn(txn)
           /\ Due(txn, overlay, live, bind["adminKey"])
           /\ live \in Apps /\ x \in Apps /\ x.version = live.version + 1
<1>1. txn # NoTxn /\ txn.step = "swap"
  BY DEF Swap, At
<1>2. InSection(txn, overlay, live, bind["adminKey"]) /\ IsTxn(txn)
  BY <1>1, TxnNow DEF IsTxn
<1>3. Due(txn, overlay, live, bind["adminKey"])
  BY <1>1, <1>2 DEF InSection
<1>4. txn.next \in Apps /\ txn.next.version = live.version + 1
  BY <1>3 DEF Due, Follows
<1>5. \/ /\ txn.req.kind = "mint" /\ txn' = [txn EXCEPT !.step = "bind"]
         /\ pc' = pc /\ done' = done
      \/ \E then \in {"idle", "record", "selfBind"} : End(then)
  BY DEF Swap
<1>6. live \in Apps
  BY DEF PlaneInv, Typed
<1>. QED  BY <1>1, <1>2, <1>3, <1>4, <1>5, <1>6 DEF Swap, disk, counters

(* One more App in the history.                                            *)
LEMMA HistoryGrows ==
    ASSUME Historic, live \in Apps, NEW x \in Apps, x.version = live.version + 1, live' = x,
           hist' = Append(hist, HooksOf(x.items)), log' = log,
           done' = [c \in Clients |-> done'[c]],
           \A c \in Clients : pc'[c] \in {"push", "record"} =>
                 \/ pc[c] \in {"push", "record"} /\ done'[c] = done[c]
                 \/ done'[c] = [version |-> x.version, items |-> HooksOf(x.items)]
    PROVE  Historic'
<1>. DEFINE n == live.version
            h == HooksOf(x.items)
            m == x.version
<1>1. n \in Nat /\ m = n + 1 /\ h \in HookSets
  BY AppIs
<1>2. hist \in Seq(HookSets) /\ Len(hist) = n + 1
  BY DEF Historic
<1>3. hist' = Append(hist, h)
  OBVIOUS
<1>4. live'.version = m /\ HooksOf(live'.items) = h
  OBVIOUS
<1>. HIDE DEF n, h, m
<1>5. /\ hist' \in Seq(HookSets) /\ Len(hist') = m + 1 /\ hist'[m + 1] = h
      /\ \A v \in Nat : v <= n => hist'[v + 1] = hist[v + 1]
  BY <1>1, <1>2, <1>3
<1>6. ASSUME NEW v, NEW g, WasInForce(v, g)
      PROVE  v \in Nat /\ v <= live'.version /\ g \in HookSets /\ g = hist'[v + 1]
  <2>1. v \in Nat /\ v <= n /\ g \in HookSets /\ g = hist[v + 1]
    BY <1>6 DEF WasInForce, n
  <2>2. v <= m
    BY <1>1, <2>1
  <2>. QED  BY <1>4, <1>5, <2>1, <2>2
<1>7. m \in Nat /\ m <= live'.version /\ h \in HookSets /\ h = hist'[m + 1]
  BY <1>1, <1>4, <1>5
<1>8. \A row \in Range(log') :
         /\ row.version \in Nat /\ row.version <= live'.version
         /\ row.hooks \in HookSets /\ row.hooks = hist'[row.version + 1]
  BY <1>6 DEF Historic
<1>9. ASSUME NEW c \in Clients, pc'[c] \in {"push", "record"}
      PROVE  /\ done'[c].version \in Nat /\ done'[c].version <= live'.version
             /\ done'[c].items \in HookSets /\ done'[c].items = hist'[done'[c].version + 1]
  <2>1. CASE pc[c] \in {"push", "record"} /\ done'[c] = done[c]
    <3>1. WasInForce(done[c].version, done[c].items)
      BY <2>1, DoneSame
    <3>. QED  BY <1>6, <2>1, <3>1
  <2>2. CASE done'[c] = [version |-> m, items |-> h]
    <3>1. done'[c].version = m /\ done'[c].items = h
      BY <2>2
    <3>. QED  BY <1>7, <3>1
  <2>. QED  BY <1>9, <2>1, <2>2 DEF m, h
<1>10. log' \in Seq(LogRows) /\ Len(log') \in 1 .. MaxVersions
  BY DEF Historic
<1>11. /\ hist' \in Seq(HookSets) /\ Len(hist') = live'.version + 1
       /\ hist'[live'.version + 1] = HooksOf(live'.items)
  BY <1>4, <1>5
<1>. QED  BY <1>8, <1>9, <1>10, <1>11 DEF Historic, WasInForce

(* The swap installs what is durable: the next App of the history.         *)
LEMMA SwapStep ==
    ASSUME PlaneInv, Swap
    PROVE  PlaneInv'
<1>. DEFINE x == txn.next
            k == bind["adminKey"]
            u == [txn EXCEPT !.step = "bind"]
<1>1. /\ txn # NoTxn /\ txn.step = "swap" /\ live' = x
      /\ hist' = Append(hist, HooksOf(x.items))
      /\ dropped' = Dropped \cap Absent(x)
      /\ stuck' = (stuck /\ txn.req.kind \notin Rebuilds)
      /\ UNCHANGED <<file, overlay, limits, log, bind, ops>>
      /\ \/ txn.req.kind = "mint" /\ txn' = u /\ pc' = pc /\ done' = done
         \/ \E then \in {"idle", "record", "selfBind"} : End(then)
      /\ InSection(txn, overlay, live, k) /\ IsTxn(txn)
      /\ Due(txn, overlay, live, k)
      /\ live \in Apps /\ x \in Apps /\ x.version = live.version + 1
  BY SwapIs
<1>2. Moved(u, txn, x, "bind")
  BY DEF Moved
<1>. HIDE DEF u
<1>3. /\ u.client = txn.client /\ u.req = txn.req /\ u.snap = txn.snap /\ u.next = x /\ u.step = "bind"
      /\ IsTxn(u) /\ u # NoTxn
  BY <1>1, <1>2, TxnGoes
<1>4. stuck' \in BOOLEAN
  BY <1>1
<1>5. Typed'
  BY <1>1, <1>4 DEF PlaneInv, Typed
<1>6. /\ DurableIn(overlay, x)
      /\ txn.req.kind \in Rebuilds => BuiltOn(overlay, x)
      /\ txn.req.kind \notin Rebuilds => EditOf(x, live, k)
  BY <1>1 DEF Due
<1>7. k # None /\ x.items[k] = None => k \in dropped'
  BY <1>1, <1>6, GoneIsDropped
<1>8. live.version \in Nat /\ x.version <= ops /\ ops \in Nat /\ ops <= MaxOps
  BY <1>1, AppIs DEF PlaneInv, Counted
<1>9. stuck' \/ PinIn(overlay, x)
  <2>1. CASE txn.req.kind \in Rebuilds
    BY <1>1, <1>6, <2>1, BuiltDurable
  <2>2. CASE txn.req.kind \notin Rebuilds
    <3>1. stuck \/ PinIn(overlay, live)
      BY <1>1, <2>2 DEF PlaneInv, Durable
    <3>2. x.items["pin"] = live.items["pin"]
      BY <1>6, <2>2 DEF EditOf
    <3>. QED  BY <1>1, <2>2, <3>1, <3>2 DEF PinIn
  <2>. QED  BY <2>1, <2>2
<1>10. ASSUME txn' = NoTxn \/ (txn' # NoTxn /\ txn'.step = "bind"), Locked', Historic'
       PROVE  PlaneInv'
  <2>1. Counted'
    BY <1>1, <1>8, <1>10 DEF Counted
  <2>2. View' = x
    BY <1>1, <1>10 DEF View, At
  <2>3. Durable'
    BY <1>1, <1>6, <1>9, <2>2 DEF Durable
  <2>4. Bound'
    BY <1>1, <1>7, <2>2 DEF Bound, BoundIn
  <2>. QED  BY <1>5, <1>10, <2>1, <2>3, <2>4 DEF PlaneInv
<1>11. CASE txn.req.kind = "mint" /\ txn' = u /\ pc' = pc /\ done' = done
  <2>1. x.items["leaf"] # None
    BY <1>1, <1>11 DEF InSection
  <2>2. Target(u) = "leaf" /\ "leaf" \in Groups
    BY <1>3, <1>11 DEF Target, Groups
  <2>3. InSection(u, overlay, x, k)
    BY <1>1, <1>3, <2>1, <2>2 DEF InSection, IsTxn
  <2>4. Locked'
    BY <1>1, <1>3, <1>11, <2>3 DEF PlaneInv, Locked
  <2>5. Historic'
    <3>1. done' = [c \in Clients |-> done'[c]]
      BY <1>11, Shapes
    <3>2. Historic /\ log' = log /\ \A c \in Clients : pc'[c] = pc[c] /\ done'[c] = done[c]
      BY <1>1, <1>11 DEF PlaneInv
    <3>. QED  BY <1>1, <3>1, <3>2, HistoryGrows
  <2>. QED  BY <1>3, <1>10, <1>11, <2>4, <2>5
<1>12. CASE \E then \in {"idle", "record", "selfBind"} : End(then)
  <2>1. PICK then \in {"idle", "record", "selfBind"} : End(then)
    BY <1>12
  <2>2. /\ txn' = NoTxn /\ Locked'
        /\ done' = [c \in Clients |-> done'[c]]
        /\ \A c \in Clients : pc'[c] \in {"push", "record"} =>
              \/ pc[c] \in {"push", "record"} /\ done'[c] = done[c]
              \/ done'[c] = [version |-> x.version, items |-> HooksOf(x.items)]
    BY <1>1, <2>1, Ends
  <2>3. Historic'
    <3>1. Historic /\ log' = log
      BY <1>1 DEF PlaneInv
    <3>. QED  BY <1>1, <2>2, <3>1, HistoryGrows
  <2>. QED  BY <1>10, <2>2, <2>3
<1>. QED  BY <1>1, <1>11, <1>12

(* The log and the history of a boot.                                      *)
LEMMA BootHistory ==
    ASSUME NEW a \in Apps, a.version = 0, NEW l, l = Recorded(<<>>, a), NEW q, q = <<HooksOf(a.items)>>
    PROVE  /\ q \in Seq(HookSets) /\ Len(q) = a.version + 1 /\ q[a.version + 1] = HooksOf(a.items)
           /\ l \in Seq(LogRows) /\ Len(l) \in 1 .. MaxVersions
           /\ \A row \in Range(l) :
                 /\ row.version \in Nat /\ row.version <= a.version
                 /\ row.hooks \in HookSets /\ row.hooks = q[row.version + 1]
<1>. DEFINE h == HooksOf(a.items)
<1>1. h \in HookSets /\ a.version \in Nat
  BY AppIs
<1>2. q = <<h>>
  OBVIOUS
<1>3. <<>> \in Seq(LogRows) /\ Range(<<>>) = {}
  BY DEF Range
<1>4. /\ l \in Seq(LogRows) /\ Len(l) \in 1 .. MaxVersions
      /\ \A row \in Range(l) : row.version = a.version /\ row.hooks = h
  <2>1. /\ Recorded(<<>>, a) \in Seq(LogRows)
        /\ Len(Recorded(<<>>, a)) \in 1 .. MaxVersions
        /\ \A row \in Range(Recorded(<<>>, a)) :
              row \in Range(<<>>) \/ (row.version = a.version /\ row.hooks = HooksOf(a.items))
    BY <1>1, <1>3, RecordedRows
  <2>. QED  BY <1>3, <2>1
<1>. HIDE DEF h
<1>5. q \in Seq(HookSets) /\ Len(q) = 1 /\ q[1] = h
  BY <1>1, <1>2
<1>. QED  BY <1>1, <1>4, <1>5 DEF h

(* A boot finds on the disk what was in force, or what the swap was due to  *)
(* install.                                                                 *)
LEMMA RestartStep ==
    ASSUME PlaneInv, Restart
    PROVE  PlaneInv'
<1>. DEFINE a == Build(file, overlay, 0)
            k == bind["adminKey"]
<1>1. /\ ValidGroups(a.items) /\ live' = a /\ limits' = a.items["root"]
      /\ log' = Recorded(<<>>, a) /\ hist' = <<HooksOf(a.items)>>
      /\ txn' = NoTxn /\ pc' = [c \in Clients |-> "idle"] /\ done' = [c \in Clients |-> Nothing]
      /\ dropped' = (IF View.base = file THEN dropped ELSE Groups) \cap Absent(a)
      /\ stuck' = FALSE
      /\ UNCHANGED <<file, overlay, bind, ops>>
  BY DEF Restart, disk
<1>2. Deployed(file) /\ overlay \in Overlays
  BY DEF PlaneInv, Typed
<1>3. /\ a.base = file /\ a.version = 0 /\ BuiltOn(overlay, a) /\ a \in Apps
      /\ a.items["root"] \in Defs("root")
  BY <1>1, <1>2, BuildIs
<1>. HIDE DEF a
<1>4. DurableIn(overlay, a) /\ PinIn(overlay, a)
  BY <1>3, BuiltDurable
<1>5. limits' \in Defs("root")
  BY <1>1, <1>3
<1>6. Typed'
  BY <1>1, <1>2, <1>3, <1>5 DEF PlaneInv, Typed
<1>7. Locked'
  <2>1. pc' \in [Clients -> PcStates] /\ \A c \in Clients : pc'[c] # "section"
    BY <1>1 DEF PcStates
  <2>. QED  BY <1>1, <2>1 DEF Locked
<1>8. Counted'
  <2>1. ops \in Nat /\ ops <= MaxOps /\ 0 <= ops
    BY DEF PlaneInv, Counted
  <2>. QED  BY <1>1, <1>3, <2>1 DEF Counted
<1>9. View' = a
  BY <1>1 DEF View, At
<1>10. Durable'
  BY <1>1, <1>4, <1>9 DEF Durable
<1>11. ASSUME k # None, a.items[k] = None PROVE k \in dropped'
  <2>1. k \in Groups /\ k \in Names
    BY <1>11, Shapes, SectionsAre DEF Keys
  <2>2. k \in Absent(a)
    BY <1>11, <2>1 DEF Absent
  <2>3. CASE View.base = file
    <3>1. overlay.items[k] = None /\ file[k] = None
      BY <1>3, <1>11, <2>1 DEF BuiltOn
    <3>2. k \notin BaseNames(View)
      BY <2>3, <3>1 DEF BaseNames
    <3>3. View.items[k] = None
      BY <2>1, <3>1, <3>2 DEF PlaneInv, Durable, DurableIn
    <3>4. k \in dropped
      BY <1>11, <3>3 DEF PlaneInv, Bound, BoundIn
    <3>. QED  BY <1>1, <2>2, <2>3, <3>4
  <2>4. CASE View.base # file
    BY <1>1, <2>1, <2>2, <2>4
  <2>. QED  BY <2>3, <2>4
<1>12. Bound'
  BY <1>1, <1>9, <1>11 DEF Bound, BoundIn
<1>13. Historic'
  <2>1. /\ hist' \in Seq(HookSets) /\ Len(hist') = a.version + 1
        /\ hist'[a.version + 1] = HooksOf(a.items)
        /\ log' \in Seq(LogRows) /\ Len(log') \in 1 .. MaxVersions
        /\ \A row \in Range(log') :
              /\ row.version \in Nat /\ row.version <= a.version
              /\ row.hooks \in HookSets /\ row.hooks = hist'[row.version + 1]
    BY <1>1, <1>3, BootHistory
  <2>2. done' = [c \in Clients |-> done'[c]] /\ \A c \in Clients : pc'[c] = "idle"
    BY <1>1
  <2>. QED  BY <1>1, <2>1, <2>2 DEF Historic, WasInForce
<1>. QED  BY <1>6, <1>7, <1>8, <1>10, <1>12, <1>13 DEF PlaneInv

LEMMA PlaneStarts == Init => PlaneInv
<1>. SUFFICES ASSUME Init PROVE PlaneInv
  OBVIOUS
<1>. DEFINE a == Build(BaseFile, NoOverlay, 0)
<1>1. /\ file = BaseFile /\ overlay = NoOverlay /\ live = a /\ limits = BaseFile["root"]
      /\ log = Recorded(<<>>, a) /\ hist = <<HooksOf(a.items)>>
      /\ txn = NoTxn /\ pc = [c \in Clients |-> "idle"] /\ done = [c \in Clients |-> Nothing]
      /\ bind = [k \in Keys |-> None] /\ stuck = FALSE /\ ops = 0
  BY DEF Init
<1>2. Deployed(BaseFile) /\ NoOverlay \in Overlays /\ ValidGroups(BaseFile)
  BY FilesAre
<1>3. /\ a.items = Merge(BaseFile, NoOverlay) /\ a.base = BaseFile /\ a.version = 0
      /\ BuiltOn(NoOverlay, a) /\ ValidGroups(a.items) => a \in Apps
  BY <1>2, BuildIs
<1>30. BuiltOn(NoOverlay, a)
  BY <1>2, BuildIs
<1>. HIDE DEF a
<1>4. \A n \in Names : a.items[n] = BaseFile[n]
  BY <1>3, <1>30 DEF BuiltOn, NoOverlay
<1>5. a \in Apps
  <2>1. GroupsSame(BaseFile, a.items)
    BY <1>4, SectionsAre DEF GroupsSame
  <2>. QED  BY <1>2, <1>3, <1>30, <2>1, ValidSame
<1>6. DurableIn(NoOverlay, a) /\ PinIn(NoOverlay, a)
  BY <1>5, <1>30, BuiltDurable
<1>7. limits \in Defs("root")
  <2>1. BaseFile["root"] \in Defs("root") \cup {None} /\ BaseFile["root"] # None
    BY <1>2, DefsProper, DocIs DEF Deployed
  <2>. QED  BY <1>1, <2>1
<1>8. bind \in [Keys -> Groups \cup {None}] /\ bind["adminKey"] = None
  BY <1>1 DEF Keys
<1>9. Typed
  BY <1>1, <1>2, <1>5, <1>7, <1>8 DEF Typed
<1>10. Locked
  <2>1. pc \in [Clients -> PcStates] /\ \A c \in Clients : pc[c] # "section"
    BY <1>1 DEF PcStates
  <2>. QED  BY <1>1, <2>1 DEF Locked
<1>11. Counted
  <2>1. MaxOps \in Nat
    BY PlaneBounds
  <2>. QED  BY <1>1, <1>3, <2>1 DEF Counted
<1>12. View = a
  BY <1>1 DEF View, At
<1>13. Durable
  BY <1>1, <1>6, <1>12 DEF Durable
<1>14. Bound
  BY <1>8 DEF Bound, BoundIn
<1>15. Historic
  <2>1. /\ hist \in Seq(HookSets) /\ Len(hist) = a.version + 1
        /\ hist[a.version + 1] = HooksOf(a.items)
        /\ log \in Seq(LogRows) /\ Len(log) \in 1 .. MaxVersions
        /\ \A row \in Range(log) :
              /\ row.version \in Nat /\ row.version <= a.version
              /\ row.hooks \in HookSets /\ row.hooks = hist[row.version + 1]
    BY <1>1, <1>3, <1>5, BootHistory
  <2>2. done = [c \in Clients |-> done[c]] /\ \A c \in Clients : pc[c] = "idle"
    BY <1>1
  <2>. QED  BY <1>1, <2>1, <2>2 DEF Historic, WasInForce
<1>. QED  BY <1>9, <1>10, <1>11, <1>13, <1>14, <1>15 DEF PlaneInv

LEMMA PlaneStutters ==
    ASSUME PlaneInv, UNCHANGED vars
    PROVE  PlaneInv'
<1>1. /\ UNCHANGED <<file, overlay, live, limits, txn, hist, dropped, stuck, ops, bind, pc, log, done>>
  BY DEF vars
<1>. QED  BY <1>1, Shapes, Aside

LEMMA PlaneStep ==
    ASSUME PlaneInv, [Next]_vars
    PROVE  PlaneInv'
<1>1. ASSUME NEW c \in Clients, Plan(c) \/ Record(c) \/ SelfBind(c) PROVE PlaneInv'
  BY <1>1, PlanStep, RecordStep, SelfBindStep
<1>2. ASSUME NEW c \in Clients, NEW h \in Hooks, PushSettings(c, h) \/ PatchHookSettings(c, h)
      PROVE  PlaneInv'
  BY <1>2, PushStep, PatchStep
<1>3. CASE Section
  BY <1>3, RebuildPinStep, RevertPinStep, NothingDoneStep, PersistStep, SwapStep, BindStep DEF Section
<1>4. ASSUME NEW k \in Keys, DeleteKey(k) PROVE PlaneInv'
  BY <1>4, DeleteKeyStep
<1>5. ASSUME NEW n \in Names \ Pins,
             NEW d \in Defs(n) \cup (IF n \in Root THEN {} ELSE {None}), EditFile(n, d)
      PROVE  PlaneInv'
  BY <1>5, EditFileStep
<1>6. CASE Restart
  BY <1>6, RestartStep
<1>7. CASE UNCHANGED vars
  BY <1>7, PlaneStutters
<1>. QED  BY <1>1, <1>2, <1>3, <1>4, <1>5, <1>6, <1>7 DEF Next

(* The invariant holds of every behaviour: of any number of clients and     *)
(* transactions, whatever fails and wherever the process dies.              *)
LEMMA PlaneInvHolds == Spec => []PlaneInv
BY PlaneStarts, PlaneStep, PTL DEF Spec

-----------------------------------------------------------------------------
(* Documents hold definitions of their names, the lock has one holder and   *)
(* its client waits for it, no version is installed without a transaction,  *)
(* and the log has one row at least and MAX_VERSIONS at most.               *)
THEOREM ConfigTypes == Spec => []TypeOK
<1>1. PlaneInv => TypeOK
  <2>. SUFFICES ASSUME PlaneInv PROVE TypeOK
    OBVIOUS
  <2>1. /\ Deployed(file) /\ overlay \in Overlays /\ live \in Apps /\ limits \in Defs("root")
        /\ bind \in [Keys -> Groups \cup {None}]
    BY DEF PlaneInv, Typed
  <2>2. file \in Doc /\ overlay.items \in Doc /\ overlay.dead \subseteq Groups \cup Hooks
    BY <2>1 DEF Deployed, Overlays
  <2>3. live.items \in Doc /\ live.base \in Doc /\ live.version \in Nat
    BY <2>1, AppIs
  <2>4. live.version <= MaxOps /\ MaxOps \in Nat
    BY <2>3, PlaneBounds DEF PlaneInv, Counted
  <2>5. Len(log) \in 1 .. MaxVersions
    BY DEF PlaneInv, Historic
  <2>6. /\ pc \in [Clients -> {"idle", "push", "section", "record", "selfBind"}]
        /\ \A c \in Clients : pc[c] = "section" <=> txn # NoTxn /\ txn.client = c
    BY DEF PlaneInv, Locked, PcStates
  <2>. QED  BY <2>1, <2>2, <2>3, <2>4, <2>5, <2>6 DEF TypeOK
<1>. QED  BY <1>1, PlaneInvHolds, PTL

(* Whenever the lock is free, the overlay on the disk has what the API put  *)
(* in force and nothing it refused, after any reload, apply, reset, rollback *)
(* and edit of the file: commit_and_swap's persist-first order, and the      *)
(* whole section that each persist closure writes.                           *)
THEOREM ConfigDurable == Spec => []DurableEntries
<1>1. PlaneInv => DurableEntries
  <2>. SUFFICES ASSUME PlaneInv, txn = NoTxn
                PROVE  /\ \A n \in (Groups \cup Hooks) \ BaseNames(live) :
                            overlay.items[n] = live.items[n] /\ n \notin overlay.dead
                       /\ stuck \/ overlay.items["pin"] = live.items["pin"]
    BY DEF DurableEntries
  <2>1. overlay.dead = {}
    BY AtRest DEF Overlays
  <2>2. DurableIn(overlay, live)
    BY AtRest
  <2>3. stuck \/ PinIn(overlay, live)
    BY DEF PlaneInv, Durable
  <2>. QED  BY <2>1, <2>2, <2>3 DEF DurableIn, PinIn
<1>. QED  BY <1>1, PlaneInvHolds, PTL

(* Every parent that a group names is in force, no group is its own         *)
(* ancestor, and an administrator's key is bound to a group in force unless *)
(* a rebuild took it away: delete_group counts the keys under the lock that *)
(* binds them.                                                              *)
THEOREM ConfigNoDangling == Spec => []NoDangling
<1>1. PlaneInv => NoDangling
  <2>. SUFFICES ASSUME PlaneInv PROVE NoDangling
    OBVIOUS
  <2>1. ValidGroups(live.items)
    BY AppIs DEF PlaneInv, Typed
  <2>2. BoundIn(bind["adminKey"], live)
    BY DEF PlaneInv, Bound
  <2>. QED  BY <2>1, <2>2 DEF NoDangling, BoundIn
<1>. QED  BY <1>1, PlaneInvHolds, PTL

(* The rows of the version log, recorded outside the lock and in any order, *)
(* hold the hooks that were in force at their version.                      *)
THEOREM ConfigHistory == Spec => []HistoryTruthful
<1>1. PlaneInv => HistoryTruthful
  <2>. SUFFICES ASSUME PlaneInv PROVE HistoryTruthful
    OBVIOUS
  <2>1. Historic
    BY DEF PlaneInv
  <2>2. ASSUME NEW i \in DOMAIN log PROVE log[i].hooks = hist[log[i].version + 1]
    <3>1. log[i] \in Range(log)
      BY <2>2 DEF Range
    <3>2. WasInForce(log[i].version, log[i].hooks)
      BY <2>1, <3>1 DEF Historic
    <3>. QED  BY <3>2 DEF WasInForce
  <2>. QED  BY <2>1, <2>2 DEF Historic, HistoryTruthful
<1>. QED  BY <1>1, PlaneInvHolds, PTL

-----------------------------------------------------------------------------
(* Two durable layers. *)

(* The layers that an overlay and an App make.                             *)
GroupsOf(x) == [g \in Groups |-> x[g]]

LEMMA LayersAre ==
    /\ L!lvars = <<GroupsOf(View.base), GroupsOf(overlay.items), GroupsOf(View.items)>>
    /\ \A x \in Doc : GroupsOf(x) \in L!Layer
    /\ \A x, y : GroupsSame(x, y) => GroupsOf(x) = GroupsOf(y)
<1>1. L!lvars = <<GroupsOf(View.base), GroupsOf(overlay.items), GroupsOf(View.items)>>
  BY DEF L!lvars, GroupsOf
<1>2. ASSUME NEW x \in Doc PROVE GroupsOf(x) \in L!Layer
  <2>1. \A g \in Groups : x[g] \in Defs(g) \cup {None}
    BY DocIs, SectionsAre
  <2>2. \A g \in Groups : Defs(g) \subseteq Groups \cup {"top"}
    BY NamesAre DEF Groups
  <2>. QED  BY <2>1, <2>2 DEF GroupsOf, L!Layer
<1>3. \A x, y : GroupsSame(x, y) => GroupsOf(x) = GroupsOf(y)
  BY DEF GroupsSame, GroupsOf
<1>. QED  BY <1>1, <1>2, <1>3

(* Another base under the layer, or an emptied layer.                      *)
LEMMA LayersRebuilt ==
    ASSUME NEW x \in Apps, View' = x, BuiltOn(overlay', x), LayerKept(overlay, overlay')
    PROVE  [L!LNext]_(L!lvars)
<1>. DEFINE b == GroupsOf(x.base)
            i == GroupsOf(x.items)
            p == GroupsOf(overlay'.items)
<1>1. b \in L!Layer
  BY AppIs, LayersAre
<1>2. \A g \in Groups : i[g] = IF p[g] # None THEN p[g] ELSE b[g]
  BY SectionsAre DEF BuiltOn, GroupsOf
<1>3. CASE GroupsSame(overlay'.items, overlay.items)
  <2>1. p = GroupsOf(overlay.items)
    BY <1>3, LayersAre
  <2>2. i = L!Over(b, p)
    BY <1>2 DEF L!Over, GroupsOf
  <2>. QED  BY <1>1, <2>1, <2>2 DEF L!LNext, L!Rebase, GroupsOf
<1>4. CASE \A g \in Groups : overlay'.items[g] = None
  <2>1. p = [g \in Groups |-> None]
    BY <1>4 DEF GroupsOf
  <2>2. i = b
    BY <1>2, <1>4 DEF GroupsOf
  <2>. QED  BY <1>1, <2>1, <2>2 DEF L!LNext, L!Reset, GroupsOf
<1>. QED  BY <1>3, <1>4 DEF LayerKept

(* Nothing that the layers show.                                           *)
LEMMA LayersStay ==
    ASSUME View'.base = View.base, GroupsSame(View'.items, View.items),
           GroupsSame(overlay'.items, overlay.items)
    PROVE  [L!LNext]_(L!lvars)
<1>1. \A x, y : GroupsSame(x, y) => GroupsOf(x) = GroupsOf(y)
  BY LayersAre
<1>2. /\ GroupsOf(View'.base) = GroupsOf(View.base) /\ GroupsOf(View'.items) = GroupsOf(View.items)
      /\ GroupsOf(overlay'.items) = GroupsOf(overlay.items)
  BY <1>1
<1>. QED  BY <1>2 DEF GroupsOf, L!lvars

LEMMA LayersWritten ==
    ASSUME NEW a \in Apps, NEW x \in Apps, View = a, View' = x, x.base = a.base,
           OneWrite(overlay, overlay', a, x)
    PROVE  [L!LNext]_(L!lvars)
<1>1. CASE GroupsSame(overlay'.items, overlay.items) /\ GroupsSame(x.items, a.items)
  BY <1>1, LayersStay
<1>2. CASE /\ GroupsSame(overlay'.items, x.items)
           /\ \E g \in Groups : a.base[g] = None /\ \A e \in Groups \ {g} : x.items[e] = a.items[e]
  <2>1. PICK g \in Groups : a.base[g] = None /\ \A e \in Groups \ {g} : x.items[e] = a.items[e]
    BY <1>2
  <2>. DEFINE d == x.items[g]
              i == GroupsOf(x.items)
  <2>2. d \in (Groups \cup {"top"}) \cup {None}
    <3>1. i \in L!Layer
      BY AppIs, LayersAre
    <3>. QED  BY <3>1 DEF L!Layer, GroupsOf
  <2>3. i = [GroupsOf(a.items) EXCEPT ![g] = d]
    BY <2>1 DEF GroupsOf
  <2>4. GroupsOf(overlay'.items) = i
    BY <1>2, LayersAre
  <2>5. GroupsOf(x.base) = GroupsOf(a.base) /\ GroupsOf(a.base)[g] = None
    BY <2>1 DEF GroupsOf
  <2>6. L!Write(g, d)
    BY <2>3, <2>4, <2>5 DEF L!Write, GroupsOf
  <2>. QED  BY <2>2, <2>6 DEF L!LNext
<1>. QED  BY <1>1, <1>2 DEF OneWrite

LEMMA GroupsReflexive ==
    /\ \A x : GroupsSame(x, x)
    /\ \A x, n, d : n \notin Groups => GroupsSame([x EXCEPT ![n] = d], x)
BY DEF GroupsSame

(* A plan shows nothing.                                                   *)
LEMMA BeginView ==
    ASSUME txn = NoTxn, NEW c, NEW r, NEW next, NEW step, Begin(c, r, next, step), live' = live,
           step = "swap" => r.kind \in Persistless
    PROVE  View' = View
<1>. DEFINE t == [client |-> c, req |-> r, snap |-> live, next |-> next, step |-> step]
<1>1. txn' = t
  BY DEF Begin
<1>2. t.step = step /\ t.req = r
  BY TxnIs
<1>. HIDE DEF t
<1>. QED  BY <1>1, <1>2 DEF View, At

LEMMA EditView ==
    ASSUME txn = NoTxn, NEW c, NEW kind, NEW n, NEW d, Edit(c, kind, n, d)
    PROVE  View' = View /\ overlay' = overlay
<1>. DEFINE r == [kind |-> kind, name |-> n]
            x == Edited(live, n, d)
<1>1. Begin(c, r, x, "persist") /\ live' = live /\ overlay' = overlay
  BY DEF Edit, disk
<1>. HIDE DEF r, x
<1>. QED  BY <1>1, BeginView

LEMMA RebuildView ==
    ASSUME txn = NoTxn, NEW c, NEW r, NEW f, NEW o, Rebuild(c, r, f, o)
    PROVE  View' = View /\ overlay' = overlay
<1>. DEFINE x == Build(f, o, live.version + 1)
            s == IF r.kind \in Persistless THEN "swap" ELSE "persist"
<1>1. Begin(c, r, x, s) /\ live' = live /\ overlay' = overlay
  BY DEF Rebuild, disk
<1>2. s = "swap" => r.kind \in Persistless
  OBVIOUS
<1>. HIDE DEF x, s
<1>. QED  BY <1>1, <1>2, BeginView

LEMMA OtherPlansView ==
    ASSUME PlaneInv, txn = NoTxn, NEW c,
           \/ PutAuth(c)
           \/ \E kind \in {"mint", "leaf"} : PlanMintGroup(c, kind)
           \/ \E g \in Groups : UpdateKey(c, g)
           \/ \E v \in Retained(log) : RollbackConfig(c, v)
           \/ \E d \in Defs("pin") : RollbackPlugin(c, d)
    PROVE  View' = View /\ GroupsSame(overlay'.items, overlay.items)
<1>2. "persist" # "swap" /\ "bind" # "swap" /\ "there" # "swap" /\ "rebuild" # "swap"
  OBVIOUS
<1>3. CASE PutAuth(c)
  <2>. DEFINE r == [kind |-> "auth"]
              x == [live EXCEPT !.version = @ + 1]
  <2>1. Begin(c, r, x, "swap") /\ live' = live /\ overlay' = overlay
    BY <1>3 DEF PutAuth, disk
  <2>2. r.kind \in Persistless
    BY DEF Persistless
  <2>. HIDE DEF r, x
  <2>. QED  BY <2>1, <2>2, BeginView, GroupsReflexive
<1>4. ASSUME NEW kind \in {"mint", "leaf"}, PlanMintGroup(c, kind)
      PROVE  View' = View /\ GroupsSame(overlay'.items, overlay.items)
  <2>. DEFINE r == [kind |-> kind]
              x == Edited(live, "leaf", "team")
  <2>1. Begin(c, r, x, "persist") \/ Begin(c, r, live, "bind") \/ Begin(c, r, live, "there")
    BY <1>4 DEF PlanMintGroup
  <2>2. live' = live /\ overlay' = overlay
    BY <1>4 DEF PlanMintGroup, disk
  <2>. HIDE DEF r, x
  <2>. QED  BY <1>2, <2>1, <2>2, BeginView, GroupsReflexive
<1>5. ASSUME NEW g \in Groups, UpdateKey(c, g)
      PROVE  View' = View /\ GroupsSame(overlay'.items, overlay.items)
  <2>. DEFINE r == [kind |-> "rebind", name |-> g]
  <2>1. Begin(c, r, live, "bind") /\ live' = live /\ overlay' = overlay
    BY <1>5 DEF UpdateKey, disk
  <2>. HIDE DEF r
  <2>. QED  BY <1>2, <2>1, BeginView, GroupsReflexive
<1>6. ASSUME NEW v \in Retained(log), RollbackConfig(c, v)
      PROVE  View' = View /\ GroupsSame(overlay'.items, overlay.items)
  <2>. DEFINE r == [kind |-> "rollback"]
              x == [live EXCEPT !.items = [n \in Names |-> IF n \in Hooks THEN Row(log, v).hooks[n] ELSE @[n]],
                                !.version = @ + 1]
  <2>1. Begin(c, r, x, "persist") /\ live' = live /\ overlay' = overlay
    BY <1>6 DEF RollbackConfig, disk
  <2>. HIDE DEF r, x
  <2>. QED  BY <1>2, <2>1, BeginView, GroupsReflexive
<1>7. ASSUME NEW d \in Defs("pin"), RollbackPlugin(c, d)
      PROVE  View' = View /\ GroupsSame(overlay'.items, overlay.items)
  <2>. DEFINE r == [kind |-> "pin"]
  <2>. DEFINE i == [overlay.items EXCEPT !["pin"] = d]
  <2>1. Begin(c, r, live, "rebuild") /\ live' = live /\ overlay' = [overlay EXCEPT !.items = i]
    BY <1>7 DEF RollbackPlugin
  <2>. HIDE DEF r
  <2>2. View' = View
    BY <1>2, <2>1, BeginView
  <2>3. overlay \in [items : Doc, dead : SUBSET Names]
    BY AtRest DEF Overlays
  <2>4. \A g \in Groups : i[g] = overlay.items[g]
    <3>1. \A g \in Groups : g # "pin"
      BY DEF Groups
    <3>2. overlay.items \in Doc
      BY <2>3
    <3>3. overlay.items = [n \in Names |-> overlay.items[n]]
      BY <3>2, DocIs
    <3>. QED  BY <3>1, <3>3
  <2>. HIDE DEF i
  <2>5. overlay'.items = i
    BY <2>1, <2>3
  <2>. QED  BY <2>2, <2>4, <2>5 DEF GroupsSame
<1>. QED  BY <1>3, <1>4, <1>5, <1>6, <1>7

(* A transaction that begins shows nothing.                                 *)
LEMMA PlanView ==
    ASSUME PlaneInv, NEW c, Plan(c)
    PROVE  View' = View /\ GroupsSame(overlay'.items, overlay.items)
<1>0. txn = NoTxn
  BY DEF Plan
<1>1. ASSUME View' = View, overlay' = overlay
      PROVE  View' = View /\ GroupsSame(overlay'.items, overlay.items)
  BY <1>1, GroupsReflexive
<1>2. ASSUME NEW kind, NEW n, NEW d, Edit(c, kind, n, d)
      PROVE  View' = View /\ GroupsSame(overlay'.items, overlay.items)
  BY <1>0, <1>1, <1>2, EditView
<1>3. ASSUME NEW r, NEW f, NEW o, Rebuild(c, r, f, o)
      PROVE  View' = View /\ GroupsSame(overlay'.items, overlay.items)
  BY <1>0, <1>1, <1>3, RebuildView
<1>4. CASE \/ \E g \in Groups :
                DeleteGroup(c, g) \/ \E d \in Defs(g) : RegisterGroup(c, g, d) \/ PutGroup(c, g, d)
           \/ \E h \in Hooks :
                DeleteHook(c, h) \/ \E d \in Defs(h) : RegisterHook(c, h, d) \/ PutHook(c, h, d)
  <2>1. \E kind, n, d : Edit(c, kind, n, d)
    BY <1>4 DEF DeleteGroup, RegisterGroup, PutGroup, DeleteHook, RegisterHook, PutHook
  <2>. QED  BY <1>2, <2>1
<1>5. CASE \/ \E n \in Groups \cup Hooks : ApplyConfig(c, n)
           \/ ReloadConfig(c) \/ ReloadPlugins(c)
           \/ \E S \in Sections : ResetOverlaySection(c, S)
           \/ \E d \in Defs("root") : PutConfigSettings(c, d)
  <2>1. \E r, f, o : Rebuild(c, r, f, o)
    BY <1>5 DEF ApplyConfig, ReloadConfig, ReloadPlugins, ResetOverlaySection, PutConfigSettings
  <2>. QED  BY <1>3, <2>1
<1>. QED  BY <1>0, <1>4, <1>5, OtherPlansView DEF Plan

(* A step that leaves the lock's holder and the App alone.                 *)
LEMMA LayersQuiet ==
    ASSUME UNCHANGED <<overlay, live, txn>>
    PROVE  [L!LNext]_(L!lvars)
<1>1. View' = View
  BY DEF View, At
<1>. QED  BY <1>1, LayersStay, GroupsReflexive

(* Nor does the holder that lets go of the lock before any swap.           *)
LEMMA LayersEnd ==
    ASSUME txn # NoTxn, txn.step # "swap", txn' = NoTxn, live' = live,
           GroupsSame(overlay'.items, overlay.items)
    PROVE  [L!LNext]_(L!lvars)
<1>1. View' = live /\ View = live
  BY DEF View, At
<1>. QED  BY <1>1, LayersStay, GroupsReflexive

(* The disk takes a write, or the layer of a rebuild: the abstract step.    *)
LEMMA LayersPersist ==
    ASSUME PlaneInv, Persist
    PROVE  [L!LNext]_(L!lvars)
<1>. DEFINE x == txn.next
            p == Wrote(txn, overlay)
            k == bind["adminKey"]
            u == [txn EXCEPT !.step = "swap"]
<1>1. /\ txn # NoTxn /\ txn.step = "persist" /\ overlay' = p /\ txn' = u /\ live' = live
  BY PersistedIs DEF Persist, At
<1>2. Planned(txn, overlay, live, k)
  BY <1>1, TxnNow DEF InSection
<1>3. /\ x \in Apps /\ txn.req.kind \notin Persistless
      /\ txn.req.kind \in Rebuilds => BuiltOn(p, x) /\ LayerKept(overlay, p)
      /\ txn.req.kind \notin Rebuilds => x.base = live.base /\ OneWrite(overlay, p, live, x)
  BY <1>2 DEF Planned, Follows, EditOf
<1>4. Moved(u, txn, x, "swap") /\ IsTxn(txn)
  BY <1>1, TxnNow DEF Moved, IsTxn
<1>. HIDE DEF u, p
<1>5. u # NoTxn /\ u.step = "swap" /\ u.req = txn.req /\ u.next = x
  BY <1>4, TxnGoes
<1>6. View' = x /\ View = live
  BY <1>1, <1>3, <1>5 DEF View, At
<1>7. live \in Apps
  BY DEF PlaneInv, Typed
<1>8. CASE txn.req.kind \in Rebuilds
  BY <1>1, <1>3, <1>6, <1>8, LayersRebuilt
<1>9. CASE txn.req.kind \notin Rebuilds
  BY <1>1, <1>3, <1>6, <1>7, <1>9, LayersWritten
<1>. QED  BY <1>8, <1>9

(* The swap of what was persisted shows nothing; that of a rebuild that     *)
(* persists nothing puts its base under the layer.                          *)
LEMMA LayersSwap ==
    ASSUME PlaneInv, Swap
    PROVE  [L!LNext]_(L!lvars)
<1>. DEFINE x == txn.next
            k == bind["adminKey"]
            u == [txn EXCEPT !.step = "bind"]
<1>1. /\ txn # NoTxn /\ txn.step = "swap" /\ live' = x /\ overlay' = overlay
      /\ \/ txn' = u
         \/ \E then \in {"idle", "record", "selfBind"} : End(then)
      /\ IsTxn(txn) /\ Due(txn, overlay, live, k) /\ x \in Apps
  BY SwapIs
<1>2. Moved(u, txn, x, "bind")
  BY DEF Moved
<1>. HIDE DEF u
<1>3. u.step = "bind"
  BY <1>1, <1>2, TxnGoes
<1>4. txn' = NoTxn \/ txn'.step = "bind"
  BY <1>1, <1>3 DEF End
<1>5. View' = x
  BY <1>1, <1>4 DEF View, At
<1>6. GroupsSame(overlay'.items, overlay.items)
  BY <1>1, GroupsReflexive
<1>7. CASE txn.req.kind \notin Persistless
  <2>1. View = x
    BY <1>1, <1>7 DEF View, At
  <2>. QED  BY <1>5, <1>6, <2>1, LayersStay, GroupsReflexive
<1>8. CASE txn.req.kind \in Persistless /\ txn.req.kind \in Rebuilds
  <2>1. BuiltOn(overlay, x)
    BY <1>1, <1>8 DEF Due
  <2>2. LayerKept(overlay, overlay')
    BY <1>6 DEF LayerKept
  <2>. QED  BY <1>1, <1>5, <2>1, <2>2, LayersRebuilt
<1>9. CASE txn.req.kind \in Persistless /\ txn.req.kind \notin Rebuilds
  <2>1. txn.req.kind = "auth"
    BY <1>9 DEF Persistless, Rebuilds
  <2>2. x.base = live.base /\ x.items = live.items
    BY <1>1, <1>9, <2>1 DEF Due, EditOf
  <2>3. View = live
    BY <1>9 DEF View
  <2>. QED  BY <1>5, <1>6, <2>2, <2>3, LayersStay, GroupsReflexive
<1>. QED  BY <1>7, <1>8, <1>9

(* A pin that is taken back is no group's.                                  *)
LEMMA LayersRevert ==
    ASSUME PlaneInv, RevertPin
    PROVE  [L!LNext]_(L!lvars)
<1>. DEFINE i == [overlay.items EXCEPT !["pin"] = txn.snap.items["pin"]]
<1>1. /\ txn # NoTxn /\ txn.step = "rebuild" /\ txn' = NoTxn /\ live' = live
      /\ overlay' = overlay \/ overlay' = [overlay EXCEPT !.items = i]
  BY DEF RevertPin, At, End
<1>2. overlay \in [items : Doc, dead : SUBSET Names]
  BY DEF PlaneInv, Typed, Overlays
<1>3. \A g \in Groups : i[g] = overlay.items[g]
  <2>1. overlay.items = [n \in Names |-> overlay.items[n]]
    BY <1>2, DocIs
  <2>2. \A g \in Groups : g # "pin"
    BY DEF Groups
  <2>. QED  BY <2>1, <2>2
<1>. HIDE DEF i
<1>4. GroupsSame(overlay'.items, overlay.items)
  BY <1>1, <1>2, <1>3 DEF GroupsSame
<1>. QED  BY <1>1, <1>4, LayersEnd

LEMMA LayersOtherSection ==
    ASSUME PlaneInv, RebuildPin \/ LeafThere \/ PersistFails \/ Bind
    PROVE  [L!LNext]_(L!lvars)
<1>1. CASE RebuildPin
  <2>. DEFINE x == Build(file, overlay, txn.snap.version + 1)
              u == [txn EXCEPT !.next = x, !.step = "swap"]
  <2>1. txn # NoTxn /\ txn.step = "rebuild" /\ txn' = u /\ live' = live /\ overlay' = overlay
    BY <1>1 DEF RebuildPin, At, disk
  <2>2. txn.req.kind = "pin" /\ IsTxn(txn)
    BY <2>1, TxnNow DEF InSection, IsTxn
  <2>3. Moved(u, txn, x, "swap")
    BY DEF Moved
  <2>. HIDE DEF u, x
  <2>4. u.req = txn.req
    BY <2>2, <2>3, TxnGoes
  <2>5. View' = live /\ View = live
    BY <2>1, <2>2, <2>4 DEF View, At, Persistless
  <2>. QED  BY <2>1, <2>5, LayersStay, GroupsReflexive
<1>2. CASE LeafThere \/ PersistFails \/ Bind
  <2>1. /\ txn # NoTxn /\ txn.step \in {"there", "persist", "bind"} /\ txn' = NoTxn
        /\ live' = live /\ overlay' = overlay
    BY <1>2 DEF LeafThere, PersistFails, Bind, At, End, disk
  <2>. QED  BY <2>1, LayersEnd, GroupsReflexive
<1>. QED  BY <1>1, <1>2

(* A boot puts the file under the layer.                                    *)
LEMMA LayersRestart ==
    ASSUME PlaneInv, Restart
    PROVE  [L!LNext]_(L!lvars)
<1>. DEFINE a == Build(file, overlay, 0)
<1>1. ValidGroups(a.items) /\ live' = a /\ txn' = NoTxn /\ overlay' = overlay
  BY DEF Restart, disk
<1>2. Deployed(file) /\ overlay \in Overlays
  BY DEF PlaneInv, Typed
<1>3. BuiltOn(overlay, a) /\ a \in Apps
  BY <1>1, <1>2, BuildIs
<1>. HIDE DEF a
<1>4. View' = a
  BY <1>1 DEF View, At
<1>5. LayerKept(overlay, overlay')
  BY <1>1, GroupsReflexive DEF LayerKept
<1>. QED  BY <1>1, <1>3, <1>4, <1>5, LayersRebuilt

LEMMA LayersStep ==
    ASSUME PlaneInv, [Next]_vars
    PROVE  [L!LNext]_(L!lvars)
<1>1. ASSUME NEW c \in Clients, Plan(c) PROVE [L!LNext]_(L!lvars)
  BY <1>1, PlanView, LayersStay, GroupsReflexive
<1>2. ASSUME NEW c \in Clients, Record(c) \/ SelfBind(c) PROVE [L!LNext]_(L!lvars)
  BY <1>2, LayersQuiet DEF Record, SelfBind, disk
<1>3. ASSUME NEW c \in Clients, NEW h \in Hooks, PushSettings(c, h) PROVE [L!LNext]_(L!lvars)
  BY <1>3, LayersQuiet DEF PushSettings, disk
<1>4. ASSUME NEW c \in Clients, NEW h \in Hooks, PatchHookSettings(c, h) PROVE [L!LNext]_(L!lvars)
  <2>1. CASE UNCHANGED <<disk, live, txn>>
    BY <2>1, LayersQuiet DEF disk
  <2>2. CASE Edit(c, "edit", h, done[c].items[h])
    <3>1. txn = NoTxn
      BY <1>4 DEF PatchHookSettings
    <3>. QED  BY <2>2, <3>1, EditView, LayersStay, GroupsReflexive
  <2>. QED  BY <1>4, <2>1, <2>2 DEF PatchHookSettings
<1>5. CASE Section
  BY <1>5, LayersPersist, LayersSwap, LayersRevert, LayersOtherSection DEF Section
<1>6. ASSUME NEW k \in Keys, DeleteKey(k) PROVE [L!LNext]_(L!lvars)
  BY <1>6, LayersQuiet DEF DeleteKey, disk
<1>7. ASSUME NEW n, NEW d, EditFile(n, d) PROVE [L!LNext]_(L!lvars)
  BY <1>7, LayersQuiet DEF EditFile
<1>8. CASE Restart
  BY <1>8, LayersRestart
<1>9. CASE UNCHANGED vars
  BY <1>9, LayersQuiet DEF vars
<1>. QED  BY <1>1, <1>2, <1>3, <1>4, <1>5, <1>6, <1>7, <1>8, <1>9 DEF Next

LEMMA LayersStart == Init => L!LInit
<1>. SUFFICES ASSUME Init PROVE L!LInit
  OBVIOUS
<1>1. PlaneInv /\ txn = NoTxn /\ overlay = NoOverlay /\ live.base = BaseFile
  BY PlaneStarts DEF Init, Build
<1>2. View = live /\ live \in Apps /\ overlay \in Overlays
  BY <1>1, AtRest
<1>3. GroupsOf(View.base) \in L!Layer /\ GroupsOf(overlay.items) \in L!Layer
  <2>1. View.base \in Doc /\ overlay.items \in Doc
    BY <1>2, AppIs DEF Overlays
  <2>. QED  BY <2>1, LayersAre
<1>4. \A g \in Groups : View.items[g] = IF overlay.items[g] # None THEN overlay.items[g] ELSE View.base[g]
  <2>1. live = Build(BaseFile, NoOverlay, 0)
    BY DEF Init
  <2>2. Deployed(BaseFile) /\ NoOverlay \in Overlays
    BY FilesAre
  <2>3. BuiltOn(overlay, live)
    BY <1>1, <2>1, <2>2, BuildIs
  <2>. QED  BY <1>2, <2>3, SectionsAre DEF BuiltOn
<1>5. GroupsOf(View.items) = L!Over(GroupsOf(View.base), GroupsOf(overlay.items))
  BY <1>4 DEF GroupsOf, L!Over
<1>. QED  BY <1>3, <1>5 DEF L!LInit, GroupsOf

(* The groups are two durable layers: a transaction's write takes effect    *)
(* when the disk takes it, and no rebuild, failure or crash before or after *)
(* its swap loses it or repeats it.                                         *)
THEOREM ConfigImplementsLayers == Spec => ImplementsLayers
<1>1. Init => L!LInit
  BY LayersStart
<1>2. PlaneInv /\ [Next]_vars => [L!LNext]_(L!lvars)
  BY LayersStep
<1>. QED  BY <1>1, <1>2, PlaneInvHolds, PTL DEF Spec, ImplementsLayers, L!LSpec
=============================================================================
