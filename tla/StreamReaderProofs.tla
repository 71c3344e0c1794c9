------------------------- MODULE StreamReaderProofs -------------------------
(***************************************************************************)
(* The readers of the six upstream dialects, for any indices of an         *)
(* upstream's tool calls and any cap on the blocks held open.              *)
(*                                                                         *)
(* What a reader makes of a stream is a story: which blocks are open,      *)
(* which indices have been used, how far the message has come, and which   *)
(* usage was told.  Told and Allowed say what a well formed story is;      *)
(* After, what an event adds to it.  For each dialect an invariant relates *)
(* the reader's decode state, the frames its upstream has sent and the     *)
(* story so far (OaInv, GeInv, CoInv, BeInv, AnInv, RsInv).  The lemma     *)
(* of each reader (OpenAiReads ... ResponsesReads) is that whatever the    *)
(* upstream sends next, the reader's events go on with the story and leave *)
(* the invariant true.  RequestProofs then speaks of stories only.         *)
(*                                                                         *)
(* The readers loop over what a frame holds.  A fold cannot be reasoned    *)
(* about for any operator, so the five operators that are folded are told  *)
(* apart by a name, in one recursive function (FoldTo).                    *)
(***************************************************************************)
EXTENDS StreamTranslate, FiniteSetTheorems, WellFoundedInduction, TLAPS

-----------------------------------------------------------------------------
(* The story a reader tells: the open blocks with their kinds, the indices  *)
(* used, whether the message goes on, has its stop reason, its usage or its *)
(* end, the usage of the start, and the last one told.                      *)
Phases == {"body", "terminal", "final", "end"}
Begun  == [in |-> 1, out |-> 1]

Story == [open : SUBSET (Int \X Kinds), used : SUBSET Int, phase : Phases,
          start : {NoUsage, Begun}, last : {NoUsage, Zero, Final}]

StoryInit == [open |-> {}, used |-> {}, phase |-> "body", start |-> NoUsage,
              last |-> NoUsage]

Idx(S) == {p[1] : p \in S}

(* The events of a reader. *)
Event ==
    [ev : {"MessageStart"}, usage : {NoUsage, Begun}]
    \cup [ev : {"BlockStart"}, index : Int, kind : Kinds]
    \cup [ev : {"BlockDelta"}, index : Int, kind : Kinds]
    \cup [ev : {"BlockStop"}, index : Int]
    \cup [ev : {"MessageDelta"}, stop : BOOLEAN, usage : [in : Int, out : Int]]
    \cup [ev : {"MessageStop"}]
    \cup [ev : {"Error"}]

(* usage with the input tokens of the start, and the later of two usages.   *)
Whole(g, u) == IF g.start # NoUsage /\ u.in = 0
               THEN [u EXCEPT !.in = g.start.in] ELSE u

LastOf(g, v) == IF v = Final THEN Final ELSE IF g.last = NoUsage THEN Zero ELSE g.last

(* Which events a story may go on with.  Only an openai upstream tells the  *)
(* usage after the stop reason, and only a stop that tells nothing comes    *)
(* again.                                                                   *)
Allowed(g, e) ==
    CASE e.ev = "MessageStart" -> g.phase = "body"
      [] e.ev = "BlockStart" ->
           /\ g.phase = "body" /\ e.index \notin g.used
           /\ e.kind = "tool" \/ egress = "responses"
                \/ \A p \in g.open : p[2] # e.kind
      [] e.ev = "BlockDelta" -> g.phase = "body" /\ <<e.index, e.kind>> \in g.open
      [] e.ev = "BlockStop"  -> g.phase = "body" /\ e.index \in Idx(g.open)
      [] e.ev = "MessageDelta" ->
           /\ Whole(g, e.usage) \in {Zero, Final}
           /\ \/ g.phase = "body" /\ (e.stop \/ g.open = {})
              \/ g.phase = "terminal" /\ e.stop /\ Whole(g, e.usage) = Zero
              \/ /\ g.phase = "terminal" /\ ~e.stop /\ Whole(g, e.usage) = Final
                 /\ egress = "openai"
      [] e.ev = "MessageStop" -> g.phase # "end"
      [] e.ev = "Error" -> TRUE

(* The story after an event. *)
After(g, e) ==
    CASE e.ev = "MessageStart" ->
           [g EXCEPT !.start = IF e.usage = NoUsage THEN @ ELSE e.usage]
      [] e.ev = "BlockStart" ->
           [g EXCEPT !.open = @ \cup {<<e.index, e.kind>>}, !.used = @ \cup {e.index}]
      [] e.ev = "BlockStop" ->
           [g EXCEPT !.open = {p \in @ : p[1] # e.index}]
      [] e.ev = "MessageDelta" ->
           [g EXCEPT !.open = {},
                     !.phase = IF e.stop \/ @ = "terminal" THEN "terminal" ELSE "final",
                     !.last = LastOf(g, Whole(g, e.usage))]
      [] e.ev = "MessageStop" ->
           [g EXCEPT !.open = {}, !.phase = IF @ = "terminal" THEN @ ELSE "end"]
      [] OTHER -> g

(* What every story satisfies.                                             *)
Told(g) ==
    /\ g \in Story
    /\ \A p, q \in g.open : p[1] = q[1] => p = q
    /\ Idx(g.open) \subseteq g.used /\ IsFiniteSet(g.used)
    /\ g.phase = "body" => g.last = NoUsage
    /\ g.phase # "body" => g.open = {}
    /\ g.phase \in {"terminal", "final"} => g.last # NoUsage

(* The upstreams. *)
UpKinds  == Kinds \cup {""}
UpBlocks == Int \cup (Int \X (Kinds \cup {"part"}))
UpType == [phase : {"head", "body", "stopped", "tail", "closed"},
           open : SUBSET UpBlocks, used : SUBSET Int,
           sent : {NoUsage, Zero, Final}, kind : UpKinds, fault : BOOLEAN,
           frames : Nat]

(* What an upstream that has ended its message has reported. *)
ReportedBy(u) == IF u.sent = NoUsage THEN Zero ELSE u.sent

(* openai and gemini: the thinking block and the text block of the decode   *)
(* state; a chat has those open and the calls T.                            *)
Think(d) == IF d.thinkingOpen THEN {<<0, "thinking">>} ELSE {}
TextOf(d) == IF d.textOpen THEN {<<d.textIndex, "text">>} ELSE {}

Chat(d, g, T) ==
    /\ g.phase = "body" /\ g.start = NoUsage
    /\ g.open = Think(d) \cup TextOf(d) \cup {<<i, "tool">> : i \in T}
    /\ d.thinkingOpen => ~d.textOpen /\ T = {} /\ d.reasoningSeen
    /\ d.nextIr \in Nat
    /\ \A i \in g.used : i < d.nextIr \/ (i = 0 /\ d.reasoningSeen)
    /\ d.nextIr = 0 <=> ~d.textOpen /\ T = {}
    /\ d.textOpen <=> d.textIndex # None

(* the thinking block is not closed before the answer begins *)
Thinks(d) == d.reasoningSeen /\ d.nextIr = 0 => d.thinkingOpen

(* openai: the calls that are open have different indices in the story. *)
OaInv(d, u, g) ==
    /\ u.phase \in {"head", "tail", "closed"}
    /\ u.phase = "head" =>
         /\ Chat(d, g, {d.toolIr[i] : i \in d.openTools}) /\ Thinks(d)
         /\ IsFiniteSet(d.openTools)
         /\ DOMAIN d.toolIr = d.openTools
         /\ \A i, j \in d.openTools : d.toolIr[i] = d.toolIr[j] => i = j
         /\ u.used # {} => d.openTools # {}
         /\ u.sent = NoUsage
    /\ u.phase = "tail" =>
         /\ g.phase = "terminal" /\ g.start = NoUsage /\ d.started
         /\ ~d.thinkingOpen /\ ~d.textOpen /\ d.openTools = {}

(* gemini: a call is open under its own index. *)
GeInv(d, u, g) ==
    /\ u.phase \in {"head", "tail", "closed"}
    /\ u.phase = "head" => Chat(d, g, d.openTools) /\ Thinks(d) /\ u.sent = NoUsage
    /\ u.phase = "tail" =>
         /\ g.phase = "terminal" /\ g.start = NoUsage /\ d.started
         /\ ~d.thinkingOpen /\ ~d.textOpen /\ d.openTools = {}

(* cohere: the blocks are numbered by how many are tracked, so no index of  *)
(* the story reaches the count; a call that is open and tracked is open in  *)
(* the story.                                                               *)
CoCount(d) == CoTracked(d) + (IF d.textSeen THEN 1 ELSE 0)

CoInv(d, u, g) ==
    /\ u.phase \in {"head", "body", "tail"}
    /\ g.start = NoUsage
    /\ u.phase \in {"head", "body"} =>
         /\ g.phase = "body" /\ u.sent = NoUsage
         /\ u.phase = "head" => ~d.started
         /\ \A i \in g.used : i < CoCount(d)
         /\ \A j \in DOMAIN d.toolIr : d.toolIr[j] < CoCount(d)
         /\ \A i, j \in DOMAIN d.toolIr : d.toolIr[i] = d.toolIr[j] => i = j
         /\ DOMAIN d.toolIr \subseteq u.used /\ IsFiniteSet(DOMAIN d.toolIr)
         /\ \A j \in (u.open \ {CoTextBlock}) \cap DOMAIN d.toolIr : <<d.toolIr[j], "tool">> \in g.open
         /\ u.open \ {CoTextBlock} \subseteq u.used
         /\ \A p \in g.open : p[2] = "text" => d.textOpen /\ p[1] = d.textIndex
         /\ \A p \in g.open : p[2] # "thinking"
         /\ d.textOpen => /\ <<d.textIndex, "text">> \in g.open /\ ~d.textClosed
                           /\ d.textIndex # None /\ d.textSeen
         /\ ~d.textOpen /\ ~d.textClosed => d.textIndex = None /\ ~d.textSeen
    /\ u.phase = "tail" => g.phase = "terminal" /\ ~d.textOpen

(* anthropic and bedrock: one block at a time, numbered from zero. *)
One(u, g) ==
    /\ u.phase \in {"head", "body", "stopped"} =>
          g.used = u.used /\ u.used = 0 .. (Cardinality(u.used) - 1)
    /\ u.phase \in {"head", "stopped"} => u.open = {}
    /\ u.phase \in {"head", "body", "stopped"} => g.open = {<<i, u.kind>> : i \in u.open}
    /\ \A i, j \in u.open : i = j
    /\ u.open # {} => u.kind \in Kinds

(* bedrock: the decode state knows the kind of the open block. *)
BeInv(d, u, g) ==
    /\ One(u, g) /\ g.start = NoUsage
    /\ u.phase \in {"head", "body", "stopped"} =>
         /\ g.phase = "body" /\ u.sent = NoUsage
         /\ d.started <=> u.phase # "head"
         /\ d.openTools = {i \in u.open : u.kind = "tool"}
         /\ d.textOpen <=> u.open # {} /\ u.kind = "text"
         /\ d.thinkingOpen <=> u.open # {} /\ u.kind = "thinking"
         /\ d.pendingStop <=> u.phase = "stopped"
    /\ u.phase = "tail" => g.phase = "terminal"

AnInv(d, u, g) ==
    /\ One(u, g)
    /\ u.phase \in {"head", "body"} => g.phase = "body" /\ u.sent = NoUsage
    /\ u.phase \in {"body", "stopped"} => g.start = Begun
    /\ u.phase = "head" => g.start = NoUsage
    /\ u.phase = "stopped" => g.phase = "terminal" /\ g.last = Final /\ u.sent = Final
    /\ u.phase = "tail" => g.phase = "terminal"

(* responses: the keys of the open blocks are their indices, text apart; an *)
(* item that may still be announced by its delta has not been used.         *)
RsInv(d, u, g) ==
    /\ g.start = NoUsage
    /\ u.phase \in {"head", "body"} =>
         /\ g.phase = "body" /\ u.sent = NoUsage /\ IsFiniteSet(u.used)
         /\ u.used = 0 .. (Cardinality(u.used) - 1)
         /\ Cardinality(u.used) <= MaxOpenTools + 1
         /\ g.used \subseteq u.used
         /\ u.open \subseteq Int \X (Kinds \cup {"part"})
         /\ \A o \in u.open : o[1] \in u.used
         /\ \A o, p \in u.open : o[1] = p[1] => o = p
         /\ g.open \subseteq u.open
         /\ \A o \in u.open : o[2] \in {"text", "thinking"} /\ o \notin g.open => o[1] \notin g.used
         /\ d.openTools = {p[1] : p \in {q \in g.open : q[2] # "text"}}
                          \cup {TextKey(p[1]) : p \in {q \in g.open : q[2] = "text"}}
    /\ u.phase = "tail" => g.phase # "body"

(* The invariant of the reader of this stream. *)
ReaderInv(d, u, g) ==
    /\ Told(g)
    /\ u.phase = "tail" => g.last = ReportedBy(u)
    /\ u.phase # "closed" => ~u.fault
    /\ CASE egress = "openai" -> OaInv(d, u, g)
         [] egress = "gemini" -> GeInv(d, u, g)
         [] egress = "cohere" -> CoInv(d, u, g)
         [] egress = "bedrock" -> BeInv(d, u, g)
         [] egress = "anthropic" -> AnInv(d, u, g)
         [] egress = "responses" -> RsInv(d, u, g)

(* The translator: the blocks its writer keeps in a table, and those that   *)
(* are shown to the client as blocks.                                       *)
Kept(p) == CASE ingress = "gemini" -> p[2] = "tool"
             [] ingress = "cohere" -> p[2] # "thinking"
             [] ingress = "bedrock" -> TRUE
             [] OTHER -> FALSE
Shown(p) == CASE ingress = "gemini" -> FALSE
              [] ingress = "cohere" -> p[2] # "thinking"
              [] OTHER -> TRUE

(* The blocks agree: the translator has open what the story has, and the    *)
(* client what was shown to it; only the cap of responses makes it miss any.*)
Blocks(t, g, c) ==
    /\ t.openBlocks = Idx(g.open)
    /\ ingress # "responses" => t.items = {p \in g.open : Kept(p)} /\ ~t.missed
    /\ ingress = "responses" =>
         /\ t.items \subseteq g.open
         /\ \A p \in g.open \ t.items : p[2] = "tool" /\ t.missed
    /\ Idx({p \in g.open : Shown(p)}) \subseteq c.open
    /\ ingress # "openai" /\ ~t.missed => c.open \subseteq Idx({p \in g.open : Shown(p)})
    /\ c.open \subseteq c.used /\ c.used \subseteq g.used
    /\ c.faults \cap {"reused", "stray", "late"} = {}
    /\ "unclosed" \in c.faults => t.missed

(* The ends agree: what was told of the stop reason and the usage, and what *)
(* is held back.                                                            *)
Defers == ingress \notin {"openai", "bedrock"}

Ends(t, g, c) ==
    /\ g.phase = "body" => c.finishes = 0 /\ ~t.stopped /\ c.usage = NoUsage
    /\ c.stopped => ingress = "anthropic" /\ t.stopped /\ g.phase = "end"
    /\ t.pendingTerminal = IF Defers /\ g.phase = "terminal" THEN g.last ELSE NoUsage
    /\ g.phase = "terminal" /\ Defers => c.finishes = 0 /\ ~t.stopped /\ c.usage = NoUsage
    /\ g.phase \in {"final", "end"} /\ g.last # NoUsage /\ Defers => c.usage = g.last
    /\ ingress = "bedrock" =>
         /\ t.emitted => c.usage = g.last /\ g.phase # "body"
         /\ t.pending => g.phase # "body"
         /\ ~t.emitted /\ g.phase # "body" /\ g.last # NoUsage => g.last = Zero /\ t.pending
         /\ t.emitted /\ g.phase = "terminal" => g.last = Final
    /\ ingress # "bedrock" => ~t.pending
    /\ ingress = "openai" =>
         /\ g.phase = "terminal" =>
              c.finishes > 0 /\ c.usage = IF g.last = Final /\ includeUsage THEN Final ELSE NoUsage
         /\ g.phase \in {"final", "end"} =>
              c.finishes = 0 /\ c.usage = IF g.last = Final THEN Final ELSE NoUsage

(* The translator and the client are where the story is. *)
Sync(t, g, c) ==
    /\ Blocks(t, g, c) /\ Ends(t, g, c)
    /\ t.failed => c.errors > 0

(* The usages the translator keeps are those of the story. *)
Usages(t, g) == t.startUsage = g.start /\ t.lastUsage = g.last

\* A set of naturals that is not empty has a least element.
LEMMA LeastIn ==
    ASSUME NEW T, T \subseteq Nat, T # {}
    PROVE  \E n \in T : \A m \in T : n <= m
  <1>1. PICK n \in T : \A m \in T : ~ (<<m, n>> \in OpToRel(<, Nat))
    BY WFMin, NatLessThanWellFounded
  <1>2. \A m \in T : ~ (m < n)
    BY <1>1 DEF OpToRel
  <1> QED
    BY <1>2

-----------------------------------------------------------------------------
(* Folds over sequences.  The five operators the model folds are told      *)
(* apart by a name, so that what holds of every fold is stated once.       *)
Do(k, x, y) ==
    CASE k = "see"   -> See(x, y)
      [] k = "emit"  -> Emit(x, y)
      [] k = "event" -> OneEvent(x, y)
      [] k = "tool"  -> OaTool(x, y)
      [] k = "part"  -> GePart(x, y)

(* f maps every set of the first n indices of s to the fold over them. *)
IsFold(f, k, a, s, n) ==
    f = [S \in SUBSET (1 .. n) |->
           IF S = {} THEN a ELSE Do(k, f[S \ {Max(S)}], s[Max(S)])]

FoldTo(k, a, s, n) == (CHOOSE f : IsFold(f, k, a, s, n))[1 .. n]

\* The last index of a set that has it is its maximum.
LEMMA MaxIs ==
    ASSUME NEW n \in Nat, NEW S, S \subseteq 1 .. (n + 1), n + 1 \in S
    PROVE  Max(S) = n + 1
  <1>1. n + 1 \in S /\ \A y \in S : n + 1 >= y
    OBVIOUS
  <1>2. \A x \in S : (\A y \in S : x >= y) => x = n + 1
    BY <1>1
  <1> QED
    BY <1>1, <1>2 DEF Max

\* A non-empty set of indices has its maximum.
LEMMA MaxIn ==
    ASSUME NEW n \in Nat, NEW S, S \subseteq 1 .. n, S # {}
    PROVE  Max(S) \in S
  <1> DEFINE T == {m \in Nat : \A y \in S : m >= y}
  <1>1. n \in T
    OBVIOUS
  <1>2. PICK m \in T : \A x \in T : m <= x
    BY <1>1, LeastIn
  <1>3. m \in S
    <2> SUFFICES ASSUME m \notin S PROVE FALSE
      OBVIOUS
    <2>1. PICK y \in S : TRUE
      OBVIOUS
    <2>2. m > y /\ y \in Nat
      BY <1>2, <2>1
    <2>3. m - 1 \in T
      BY <1>2, <2>2
    <2> QED
      BY <2>3, <1>2
  <1>4. \A y \in S : m >= y
    BY <1>2
  <1> QED
    BY <1>3, <1>4 DEF Max

\* There is a recursive function for each fold.
LEMMA FoldsExist ==
    ASSUME NEW k, NEW a, NEW s, NEW n \in Nat
    PROVE  \E f : IsFold(f, k, a, s, n)
  <1> DEFINE T == {m \in Nat : ~ \E f : IsFold(f, k, a, s, m)}
  <1>1. 0 \notin T
    <2> DEFINE f == [S \in SUBSET (1 .. 0) |-> a]
    <2>1. \A S \in SUBSET (1 .. 0) : S = {}
      OBVIOUS
    <2>2. IsFold(f, k, a, s, 0)
      BY <2>1 DEF IsFold
    <2> QED
      BY <2>2
  <1>2. ASSUME NEW m \in Nat, m \notin T
        PROVE  m + 1 \notin T
    <2>1. PICK f : IsFold(f, k, a, s, m)
      BY <1>2
    <2> DEFINE h == [S \in SUBSET (1 .. (m + 1)) |->
                       IF m + 1 \notin S THEN f[S]
                       ELSE Do(k, f[S \ {m + 1}], s[m + 1])]
               v(S) == IF S = {} THEN a ELSE Do(k, h[S \ {Max(S)}], s[Max(S)])
    <2>2. ASSUME NEW S \in SUBSET (1 .. (m + 1))
          PROVE  h[S] = v(S)
      <3>1. CASE m + 1 \in S
        <4>1. Max(S) = m + 1
          BY <3>1, MaxIs
        <4>2. S \ {m + 1} \in SUBSET (1 .. (m + 1)) /\ m + 1 \notin S \ {m + 1}
          OBVIOUS
        <4>3. h[S \ {m + 1}] = f[S \ {m + 1}]
          BY <4>2
        <4>4. h[S] = Do(k, f[S \ {m + 1}], s[m + 1])
          BY <3>1
        <4> QED
          BY <4>1, <4>3, <4>4, <3>1
      <3>2. CASE m + 1 \notin S
        <4>1. S \in SUBSET (1 .. m)
          BY <3>2
        <4>2. h[S] = f[S]
          BY <3>2
        <4>3. f[S] = IF S = {} THEN a ELSE Do(k, f[S \ {Max(S)}], s[Max(S)])
          BY <2>1, <4>1 DEF IsFold
        <4>4. CASE S = {}
          BY <4>2, <4>3, <4>4
        <4>5. CASE S # {}
          <5>1. S \ {Max(S)} \in SUBSET (1 .. (m + 1)) /\ m + 1 \notin S \ {Max(S)}
            BY <3>2
          <5>2. h[S \ {Max(S)}] = f[S \ {Max(S)}]
            BY <5>1
          <5> QED
            BY <4>2, <4>3, <4>5, <5>2
        <4> QED
          BY <4>4, <4>5
      <3> QED
        BY <3>1, <3>2
    <2> DEFINE w == [S \in SUBSET (1 .. (m + 1)) |-> v(S)]
    <2>3. h = w
      <3> HIDE DEF v
      <3>1. h = [S \in SUBSET (1 .. (m + 1)) |-> h[S]]
        OBVIOUS
      <3> HIDE DEF h
      <3> QED
        BY <3>1, <2>2
    <2>4. IsFold(h, k, a, s, m + 1)
      <3> HIDE DEF h
      <3> QED
        BY <2>3 DEF IsFold
    <2> QED
      BY <2>4
  <1>3. T = {}
    <2> SUFFICES ASSUME T # {} PROVE FALSE
      OBVIOUS
    <2>1. PICK m \in T : \A x \in T : m <= x
      BY LeastIn
    <2>2. m # 0 /\ m - 1 \in Nat /\ m - 1 \notin T
      BY <2>1, <1>1
    <2>3. (m - 1) + 1 \notin T
      BY <2>2, <1>2
    <2> QED
      BY <2>1, <2>3
  <1> QED
    BY <1>3

\* The fold over the first m of two sequences that agree on them.
LEMMA FoldsAgree ==
    ASSUME NEW k, NEW a, NEW s, NEW r, NEW f, NEW h,
           NEW n \in Nat, NEW l \in Nat, NEW m \in Nat,
           IsFold(f, k, a, s, n), IsFold(h, k, a, r, l), m <= n, m <= l,
           \A i \in 1 .. m : s[i] = r[i]
    PROVE  f[1 .. m] = h[1 .. m]
  <1> DEFINE T == {i \in 0 .. m : f[1 .. i] # h[1 .. i]}
  <1>0. f[1 .. 0] = a /\ h[1 .. 0] = a
    <2>1. 1 .. 0 = {}
      OBVIOUS
    <2>2. {} \in SUBSET (1 .. n) /\ {} \in SUBSET (1 .. l)
      OBVIOUS
    <2> QED
      BY <2>1, <2>2 DEF IsFold
  <1>1. ASSUME NEW i \in 0 .. m, i + 1 \in 0 .. m, i \notin T
        PROVE  i + 1 \notin T
    <2> DEFINE S == 1 .. (i + 1)
    <2>1. S \in SUBSET (1 .. n) /\ S \in SUBSET (1 .. l) /\ S # {} /\ i + 1 \in S
      BY <1>1
    <2>2. Max(S) = i + 1
      BY <2>1, MaxIs
    <2>3. S \ {i + 1} = 1 .. i
      OBVIOUS
    <2> HIDE DEF S
    <2>4. f[S] = Do(k, f[S \ {Max(S)}], s[Max(S)])
      BY <2>1 DEF IsFold
    <2>5. h[S] = Do(k, h[S \ {Max(S)}], r[Max(S)])
      BY <2>1 DEF IsFold
    <2>6. s[i + 1] = r[i + 1] /\ f[1 .. i] = h[1 .. i]
      <3>1. i + 1 \in 1 .. m
        BY <1>1
      <3> QED
        BY <1>1, <3>1
    <2>7. f[S] = h[S]
      BY <2>2, <2>3, <2>4, <2>5, <2>6
    <2> QED
      BY <2>7 DEF S
  <1>2. T = {}
    <2> SUFFICES ASSUME T # {} PROVE FALSE
      OBVIOUS
    <2>0. T \subseteq Nat
      OBVIOUS
    <2> HIDE DEF T
    <2>1. PICK i \in T : \A x \in T : i <= x
      BY <2>0, LeastIn
    <2> USE DEF T
    <2>2. i # 0
      BY <1>0, <2>1
    <2>3. i - 1 \in 0 .. m /\ i - 1 \notin T /\ (i - 1) + 1 \in 0 .. m /\ (i - 1) + 1 = i
      BY <2>1, <2>2
    <2>4. (i - 1) + 1 \notin T
      BY <2>3, <1>1
    <2> QED
      BY <2>1, <2>3, <2>4
  <1> QED
    BY <1>2

\* A fold over nothing, and over one element more.
LEMMA FoldZero ==
    ASSUME NEW k, NEW a, NEW s
    PROVE  FoldTo(k, a, s, 0) = a
  <1> DEFINE f == CHOOSE f : IsFold(f, k, a, s, 0)
  <1>1. IsFold(f, k, a, s, 0)
    BY FoldsExist
  <1>2. 1 .. 0 = {} /\ {} \in SUBSET (1 .. 0)
    OBVIOUS
  <1> HIDE DEF f
  <1>3. f[{}] = a
    BY <1>1, <1>2 DEF IsFold
  <1> QED
    BY <1>2, <1>3 DEF FoldTo, f

LEMMA FoldNext ==
    ASSUME NEW k, NEW a, NEW s, NEW n \in Nat
    PROVE  FoldTo(k, a, s, n + 1) = Do(k, FoldTo(k, a, s, n), s[n + 1])
  <1> DEFINE f == CHOOSE f : IsFold(f, k, a, s, n)
             h == CHOOSE h : IsFold(h, k, a, s, n + 1)
             S == 1 .. (n + 1)
  <1>1. IsFold(f, k, a, s, n)
    BY FoldsExist
  <1>2. IsFold(h, k, a, s, n + 1)
    BY FoldsExist
  <1>3. S \in SUBSET (1 .. (n + 1)) /\ S # {} /\ S \ {n + 1} = 1 .. n
    OBVIOUS
  <1>4. Max(S) = n + 1
    BY MaxIs
  <1> HIDE DEF f, h
  <1>0. n <= n /\ n <= n + 1 /\ n + 1 \in Nat /\ \A i \in 1 .. n : s[i] = s[i]
    OBVIOUS
  <1>5. f[1 .. n] = h[1 .. n]
    BY <1>0, <1>1, <1>2, FoldsAgree
  <1> HIDE DEF S
  <1>6. h[S] = Do(k, h[S \ {Max(S)}], s[Max(S)])
    BY <1>2, <1>3 DEF IsFold
  <1>7. h[S] = Do(k, f[1 .. n], s[n + 1])
    BY <1>3, <1>4, <1>5, <1>6
  <1> QED
    BY <1>7 DEF FoldTo, f, h, S

\* A fold depends on the elements it has come to only.
LEMMA FoldSame ==
    ASSUME NEW k, NEW a, NEW s, NEW r, NEW n \in Nat, \A i \in 1 .. n : s[i] = r[i]
    PROVE  FoldTo(k, a, s, n) = FoldTo(k, a, r, n)
  <1> DEFINE f == CHOOSE f : IsFold(f, k, a, s, n)
             h == CHOOSE h : IsFold(h, k, a, r, n)
  <1>1. IsFold(f, k, a, s, n)
    BY FoldsExist
  <1>2. IsFold(h, k, a, r, n)
    BY FoldsExist
  <1> HIDE DEF f, h
  <1>0. n <= n
    OBVIOUS
  <1>3. f[1 .. n] = h[1 .. n]
    BY <1>0, <1>1, <1>2, FoldsAgree
  <1> QED
    BY <1>3 DEF FoldTo, f, h

\* Each fold of the model is one of these.
LEMMA SeeFold ==
    ASSUME NEW a, NEW s, DOMAIN s = 1 .. Len(s)
    PROVE  FoldLeft(See, a, s) = FoldTo("see", a, s, Len(s))
  <1>1. FoldLeft(See, a, s) =
          (CHOOSE g : g = [x \in SUBSET DOMAIN s |-> IF x = {} THEN a
            ELSE See(g[x \ {Max(x)}], s[Max(x)])])[DOMAIN s]
    BY DEF FoldLeft, MapThenFoldSet
  <1> QED
    BY <1>1 DEF FoldTo, IsFold, Do

\* The folds of the model are folds by name.
LEMMA EmitFold ==
    ASSUME NEW a, NEW s, DOMAIN s = 1 .. Len(s)
    PROVE  FoldLeft(Emit, a, s) = FoldTo("emit", a, s, Len(s))
  <1>1. FoldLeft(Emit, a, s) =
          (CHOOSE g : g = [x \in SUBSET DOMAIN s |-> IF x = {} THEN a
            ELSE Emit(g[x \ {Max(x)}], s[Max(x)])])[DOMAIN s]
    BY DEF FoldLeft, MapThenFoldSet
  <1> QED
    BY <1>1 DEF FoldTo, IsFold, Do

LEMMA EventFold ==
    ASSUME NEW a, NEW s, DOMAIN s = 1 .. Len(s)
    PROVE  FoldLeft(OneEvent, a, s) = FoldTo("event", a, s, Len(s))
  <1>1. FoldLeft(OneEvent, a, s) =
          (CHOOSE g : g = [x \in SUBSET DOMAIN s |-> IF x = {} THEN a
            ELSE OneEvent(g[x \ {Max(x)}], s[Max(x)])])[DOMAIN s]
    BY DEF FoldLeft, MapThenFoldSet
  <1> QED
    BY <1>1 DEF FoldTo, IsFold, Do

LEMMA ToolFold ==
    ASSUME NEW a, NEW s, DOMAIN s = 1 .. Len(s)
    PROVE  FoldLeft(OaTool, a, s) = FoldTo("tool", a, s, Len(s))
  <1>1. FoldLeft(OaTool, a, s) =
          (CHOOSE g : g = [x \in SUBSET DOMAIN s |-> IF x = {} THEN a
            ELSE OaTool(g[x \ {Max(x)}], s[Max(x)])])[DOMAIN s]
    BY DEF FoldLeft, MapThenFoldSet
  <1> QED
    BY <1>1 DEF FoldTo, IsFold, Do

LEMMA PartFold ==
    ASSUME NEW a, NEW s, DOMAIN s = 1 .. Len(s)
    PROVE  FoldLeft(GePart, a, s) = FoldTo("part", a, s, Len(s))
  <1>1. FoldLeft(GePart, a, s) =
          (CHOOSE g : g = [x \in SUBSET DOMAIN s |-> IF x = {} THEN a
            ELSE GePart(g[x \ {Max(x)}], s[Max(x)])])[DOMAIN s]
    BY DEF FoldLeft, MapThenFoldSet
  <1> QED
    BY <1>1 DEF FoldTo, IsFold, Do

-----------------------------------------------------------------------------
(* Ascending lists every element of a finite set of integers, once. *)
Below(S, x) == {j \in S : j < x}

\* The rank of an element: how many elements of the set are below it.
LEMMA RankIn ==
    ASSUME NEW S, S \subseteq Int, IsFiniteSet(S), NEW x \in S
    PROVE  Cardinality(Below(S, x)) \in 0 .. (Cardinality(S) - 1)
  <1> DEFINE B == Below(S, x)
             R == S \ {x}
  <1>1. B \in SUBSET R
    BY DEF Below
  <1>2. IsFiniteSet(R) /\ Cardinality(R) = Cardinality(S) - 1
    BY FS_RemoveElement
  <1>3. Cardinality(S) \in Nat
    BY FS_CardinalityType
  <1> HIDE DEF B, R
  <1>4. IsFiniteSet(B) /\ Cardinality(B) <= Cardinality(R)
    BY <1>1, <1>2, FS_Subset
  <1>5. Cardinality(B) \in Nat
    BY <1>4, FS_CardinalityType
  <1> QED
    BY <1>2, <1>3, <1>4, <1>5 DEF B

LEMMA RankGrows ==
    ASSUME NEW S, S \subseteq Int, IsFiniteSet(S), NEW x \in S, NEW y \in S, x < y
    PROVE  Cardinality(Below(S, x)) < Cardinality(Below(S, y))
  <1> DEFINE A == Below(S, x)
             B == Below(S, y)
  <1>0. x \in Int /\ y \in Int /\ ~ (x < x) /\ \A j \in S : j \in Int /\ (j < x => j < y)
    OBVIOUS
  <1>1. A \in SUBSET B /\ x \in B /\ x \notin A /\ B \in SUBSET S
    BY <1>0 DEF Below
  <1> HIDE DEF A, B
  <1>2. IsFiniteSet(B)
    BY <1>1, FS_Subset
  <1>3. IsFiniteSet(A) /\ Cardinality(A) <= Cardinality(B) /\ (Cardinality(B) = Cardinality(A) => B = A)
    BY <1>1, <1>2, FS_Subset
  <1>4. Cardinality(A) \in Nat /\ Cardinality(B) \in Nat
    BY <1>2, <1>3, FS_CardinalityType
  <1> QED
    BY <1>1, <1>3, <1>4 DEF A, B

\* There are n naturals below n.
LEMMA FromZero ==
    ASSUME NEW n \in Nat
    PROVE  IsFiniteSet(0 .. (n - 1)) /\ Cardinality(0 .. (n - 1)) = n
  <1>1. 0 \in Int /\ n - 1 \in Int
    OBVIOUS
  <1>2. IsFiniteSet(0 .. (n - 1)) /\ Cardinality(0 .. (n - 1)) = IF 0 > n - 1 THEN 0 ELSE (n - 1) - 0 + 1
    BY <1>1, FS_Interval
  <1> QED
    BY <1>2

\* Ascending(S) lists S.
LEMMA AscendingLists ==
    ASSUME NEW S, S \subseteq Int, IsFiniteSet(S)
    PROVE  /\ Cardinality(S) \in Nat
           /\ Ascending(S) \in Seq(S)
           /\ Len(Ascending(S)) = Cardinality(S)
           /\ \A m, n \in 1 .. Cardinality(S) : Ascending(S)[m] = Ascending(S)[n] => m = n
           /\ \A x \in S : \E n \in 1 .. Cardinality(S) : Ascending(S)[n] = x
  <1> DEFINE N == Cardinality(S)
             f == [x \in S |-> Cardinality(Below(S, x))]
             T == 0 .. (N - 1)
  <1>1. N \in Nat
    BY FS_CardinalityType
  <1>2. \A x \in S : Cardinality(Below(S, x)) \in T
    BY RankIn
  <1>3. \A x, y \in S : Cardinality(Below(S, x)) = Cardinality(Below(S, y)) => x = y
    <2> SUFFICES ASSUME NEW x \in S, NEW y \in S,
                        Cardinality(Below(S, x)) = Cardinality(Below(S, y)), x # y
                 PROVE  FALSE
      OBVIOUS
    <2>1. x \in Int /\ y \in Int
      OBVIOUS
    <2>2. Cardinality(Below(S, x)) \in Int /\ Cardinality(Below(S, y)) \in Int
      BY <1>2
    <2>3. CASE x < y
      <3>1. Cardinality(Below(S, x)) < Cardinality(Below(S, y))
        BY <2>3, RankGrows
      <3> QED
        BY <2>2, <3>1
    <2>4. CASE y < x
      <3>1. Cardinality(Below(S, y)) < Cardinality(Below(S, x))
        BY <2>4, RankGrows
      <3> QED
        BY <2>2, <3>1
    <2> QED
      BY <2>1, <2>3, <2>4
  <1>4. f \in [S -> T]
    BY <1>2
  <1>5. f \in Injection(S, T)
    BY <1>3, <1>4 DEF Injection, IsInjective
  <1>6. IsFiniteSet(T) /\ Cardinality(T) = N
    <2> HIDE DEF N
    <2> QED
      BY <1>1, FromZero
  <1> HIDE DEF f, T
  <1>7. f \in Surjection(S, T)
    BY <1>5, <1>6, FS_Injection DEF N
  <1>8. \A m \in T : \E x \in S : f[x] = m
    BY <1>7 DEF Surjection
  <1> USE DEF f, T
  <1>9. ASSUME NEW n \in 1 .. N
        PROVE  /\ Ascending(S)[n] \in S
               /\ Cardinality(Below(S, Ascending(S)[n])) = n - 1
    <2>1. n - 1 \in T
      BY <1>1
    <2>2. PICK x \in S : Cardinality(Below(S, x)) = n - 1
      BY <2>1, <1>8
    <2>3. Ascending(S)[n] = CHOOSE i \in S : Cardinality(Below(S, i)) = n - 1
      BY DEF Ascending, Below
    <2> QED
      BY <2>2, <2>3
  <1>10. Ascending(S) \in Seq(S) /\ Len(Ascending(S)) = N
    <2>1. DOMAIN Ascending(S) = 1 .. N
      BY DEF Ascending
    <2>2. Ascending(S) \in [1 .. N -> S]
      <3> DEFINE nth(n) == CHOOSE i \in S : Cardinality({j \in S : j < i}) = n - 1
      <3>0. Ascending(S) = [n \in 1 .. N |-> nth(n)]
        BY DEF Ascending
      <3> HIDE DEF N, nth
      <3>1. Ascending(S) = [n \in 1 .. N |-> Ascending(S)[n]]
        BY <3>0
      <3> QED
        BY <1>9, <3>1
    <2> HIDE DEF N
    <2>3. Ascending(S) \in Seq(S)
      BY <2>2, <1>1
    <2> QED
      BY <2>1, <2>3, <1>1
  <1>11. \A m, n \in 1 .. N : Ascending(S)[m] = Ascending(S)[n] => m = n
    <2> SUFFICES ASSUME NEW m \in 1 .. N, NEW n \in 1 .. N,
                        Ascending(S)[m] = Ascending(S)[n]
                 PROVE  m = n
      OBVIOUS
    <2>1. m - 1 = n - 1
      BY <1>9
    <2> QED
      BY <2>1, <1>1
  <1>12. \A x \in S : \E n \in 1 .. N : Ascending(S)[n] = x
    <2> SUFFICES ASSUME NEW x \in S
                 PROVE  \E n \in 1 .. N : Ascending(S)[n] = x
      OBVIOUS
    <2>1. Cardinality(Below(S, x)) \in T
      BY <1>2
    <2> DEFINE n == Cardinality(Below(S, x)) + 1
    <2>2. n \in 1 .. N /\ n - 1 = Cardinality(Below(S, x))
      BY <2>1, <1>1
    <2> HIDE DEF n
    <2>3. Ascending(S)[n] \in S /\ Cardinality(Below(S, Ascending(S)[n])) = Cardinality(Below(S, x))
      BY <2>2, <1>9
    <2>4. Ascending(S)[n] = x
      BY <2>3, <1>3
    <2> QED
      BY <2>2, <2>4
  <1> QED
    BY <1>1, <1>10, <1>11, <1>12

-----------------------------------------------------------------------------
(* Stories.  A sequence of events tells a story from g to h if each event  *)
(* is allowed where the one before it left.                                *)
Legal(g, evs, h) ==
    /\ evs \in Seq(Event)
    /\ \E r : /\ r[0] = g /\ r[Len(evs)] = h
              /\ \A i \in 0 .. Len(evs) : Told(r[i])
              /\ \A i \in 1 .. Len(evs) :
                    Allowed(r[i - 1], evs[i]) /\ r[i] = After(r[i - 1], evs[i])

\* A story that is told goes from its beginning to its end.
LEMMA LegalEnds ==
    ASSUME NEW g, NEW evs, NEW h, Legal(g, evs, h)
    PROVE  Told(g) /\ Told(h) /\ evs \in Seq(Event)
  <1>1. Len(evs) \in Nat
    BY DEF Legal
  <1>2. PICK r : r[0] = g /\ r[Len(evs)] = h /\ \A i \in 0 .. Len(evs) : Told(r[i])
    BY DEF Legal
  <1>3. 0 \in 0 .. Len(evs) /\ Len(evs) \in 0 .. Len(evs)
    BY <1>1
  <1> QED
    BY <1>2, <1>3 DEF Legal

LEMMA LegalNone ==
    ASSUME NEW g, Told(g)
    PROVE  Legal(g, <<>>, g)
  <1> DEFINE r == [i \in {0} |-> g]
  <1>1. <<>> \in Seq(Event) /\ Len(<<>>) = 0
    OBVIOUS
  <1>2. r[0] = g
    OBVIOUS
  <1> HIDE DEF r
  <1> QED
    BY <1>1, <1>2 DEF Legal

\* Two stories, one after the other, make a story.
LEMMA LegalCat ==
    ASSUME NEW g, NEW s, NEW h, NEW t, NEW k, Legal(g, s, h), Legal(h, t, k)
    PROVE  Legal(g, s \o t, k)
  <1>1. s \in Seq(Event) /\ t \in Seq(Event) /\ Len(s) \in Nat /\ Len(t) \in Nat
    BY DEF Legal
  <1>2. PICK r : /\ r[0] = g /\ r[Len(s)] = h
                 /\ \A i \in 0 .. Len(s) : Told(r[i])
                 /\ \A i \in 1 .. Len(s) : Allowed(r[i - 1], s[i]) /\ r[i] = After(r[i - 1], s[i])
    BY DEF Legal
  <1>3. PICK q : /\ q[0] = h /\ q[Len(t)] = k
                 /\ \A i \in 0 .. Len(t) : Told(q[i])
                 /\ \A i \in 1 .. Len(t) : Allowed(q[i - 1], t[i]) /\ q[i] = After(q[i - 1], t[i])
    BY DEF Legal
  <1> DEFINE m == Len(s)
             n == Len(t)
             u == s \o t
             w == [i \in 0 .. (m + n) |-> IF i <= m THEN r[i] ELSE q[i - m]]
  <1>4. u \in Seq(Event) /\ Len(u) = m + n
    BY <1>1
  <1>5. w[0] = g
    BY <1>1, <1>2
  <1>6. w[m + n] = k
    BY <1>1, <1>2, <1>3
  <1>7. \A i \in 0 .. (m + n) : Told(w[i])
    <2> SUFFICES ASSUME NEW i \in 0 .. (m + n) PROVE Told(w[i])
      OBVIOUS
    <2>1. CASE i <= m
      BY <2>1, <1>1, <1>2
    <2>2. CASE i > m
      <3>1. i - m \in 0 .. n
        BY <2>2, <1>1
      <3> QED
        BY <3>1, <2>2, <1>1, <1>3
    <2> QED
      BY <2>1, <2>2, <1>1
  <1>8. \A i \in 1 .. (m + n) : Allowed(w[i - 1], u[i]) /\ w[i] = After(w[i - 1], u[i])
    <2> SUFFICES ASSUME NEW i \in 1 .. (m + n)
                 PROVE  Allowed(w[i - 1], u[i]) /\ w[i] = After(w[i - 1], u[i])
      OBVIOUS
    <2>1. CASE i <= m
      <3>1. u[i] = s[i] /\ w[i] = r[i] /\ w[i - 1] = r[i - 1] /\ i \in 1 .. m
        BY <2>1, <1>1
      <3> QED
        BY <3>1, <1>2
    <2>2. CASE i > m
      <3>1. u[i] = t[i - m] /\ w[i] = q[i - m] /\ i - m \in 1 .. n
        BY <2>2, <1>1
      <3>2. w[i - 1] = q[(i - m) - 1]
        <4>1. CASE i = m + 1
          BY <4>1, <1>1, <1>2, <1>3
        <4>2. CASE i # m + 1
          <5>1. i - 1 \in 0 .. (m + n) /\ ~ (i - 1 <= m) /\ (i - 1) - m = (i - m) - 1
            BY <4>2, <2>2, <1>1
          <5>2. w[i - 1] = q[(i - 1) - m]
            BY <5>1
          <5> QED
            BY <5>1, <5>2
        <4> QED
          BY <4>1, <4>2
      <3> DEFINE j == i - m
      <3> HIDE DEF j
      <3>3. Allowed(q[j - 1], t[j]) /\ q[j] = After(q[j - 1], t[j])
        BY <3>1, <1>3 DEF j
      <3> QED
        BY <3>1, <3>2, <3>3 DEF j
    <2> QED
      BY <2>1, <2>2, <1>1
  <1> HIDE DEF w, u
  <1> QED
    BY <1>4, <1>5, <1>6, <1>7, <1>8 DEF Legal, u

\* The fields of a story, and when a tale is one that is told.
LEMMA StoryFields ==
    ASSUME NEW g, g \in Story
    PROVE  /\ g.open \subseteq Int \X Kinds /\ g.used \subseteq Int /\ g.phase \in Phases
           /\ g.start \in {NoUsage, Begun} /\ g.last \in {NoUsage, Zero, Final}
           /\ g = [open |-> g.open, used |-> g.used, phase |-> g.phase,
                   start |-> g.start, last |-> g.last]
  BY DEF Story

(* A story from its parts. *)
Tale(open, used, phase, start, last) ==
    [open |-> open, used |-> used, phase |-> phase, start |-> start, last |-> last]

LEMMA ToldTale ==
    ASSUME NEW open, NEW used, NEW phase, NEW start, NEW last,
           open \subseteq Int \X Kinds, used \subseteq Int, phase \in Phases,
           start \in {NoUsage, Begun}, last \in {NoUsage, Zero, Final},
           \A p, q \in open : p[1] = q[1] => p = q,
           Idx(open) \subseteq used, IsFiniteSet(used),
           phase = "body" => last = NoUsage,
           phase # "body" => open = {},
           phase \in {"terminal", "final"} => last # NoUsage
    PROVE  LET h == Tale(open, used, phase, start, last)
           IN  /\ Told(h)
               /\ h.open = open /\ h.used = used /\ h.phase = phase
               /\ h.start = start /\ h.last = last
  BY DEF Tale, Told, Story

\* A story of one event, for each kind of event.
LEMMA LegalOne ==
    ASSUME NEW g, NEW e \in Event, NEW h, Told(g), Allowed(g, e), h = After(g, e), Told(h)
    PROVE  Legal(g, <<e>>, h)
  <1> DEFINE s == <<e>>
             r == [i \in 0 .. 1 |-> IF i = 0 THEN g ELSE h]
  <1>1. s \in Seq(Event) /\ Len(s) = 1 /\ s[1] = e
    OBVIOUS
  <1>2. r[0] = g /\ r[1] = h
    OBVIOUS
  <1> HIDE DEF s, r
  <1>3. \A i \in 0 .. 1 : Told(r[i])
    <2>1. \A i \in 0 .. 1 : i = 0 \/ i = 1
      OBVIOUS
    <2> QED
      BY <1>2, <2>1
  <1>4. \A i \in 1 .. 1 : i = 1 /\ i - 1 = 0
    OBVIOUS
  <1>5. \A i \in 1 .. 1 : Allowed(r[i - 1], s[i]) /\ r[i] = After(r[i - 1], s[i])
    BY <1>1, <1>2, <1>4
  <1> QED
    BY <1>1, <1>2, <1>3, <1>5 DEF Legal, s

(* h continues g, with these blocks open and these indices used. *)
Same(g, h) == h.start = g.start /\ h.phase = g.phase /\ h.last = g.last

LEMMA TellMessageStart ==
    ASSUME NEW g, Told(g), g.phase = "body", NEW u \in {NoUsage, Begun}
    PROVE  \E h : /\ Legal(g, <<MessageStart(u)>>, h)
                  /\ h.open = g.open /\ h.used = g.used /\ h.phase = "body"
                  /\ h.start = IF u = NoUsage THEN g.start ELSE u
                  /\ h.last = g.last
  <1> DEFINE st == IF u = NoUsage THEN g.start ELSE u
             h == Tale(g.open, g.used, g.phase, st, g.last)
             e == MessageStart(u)
  <1>0. g \in Story
    BY DEF Told
  <1>1. st \in {NoUsage, Begun}
    BY <1>0, StoryFields
  <1> HIDE DEF st
  <1>2. Told(h) /\ h.open = g.open /\ h.used = g.used /\ h.phase = g.phase /\ h.start = st /\ h.last = g.last
    BY <1>0, <1>1, StoryFields, ToldTale DEF Told
  <1>3. e \in Event /\ e.ev = "MessageStart" /\ e.usage = u
    BY DEF Event, MessageStart
  <1>4. After(g, e) = h
    <2>1. After(g, e) = [g EXCEPT !.start = IF e.usage = NoUsage THEN @ ELSE e.usage]
      BY <1>3 DEF After
    <2> HIDE DEF e
    <2>2. After(g, e) = [g EXCEPT !.start = st]
      BY <2>1, <1>3 DEF st
    <2> QED
      BY <1>0, <2>2 DEF Story, Tale
  <1>5. Allowed(g, e)
    BY <1>3 DEF Allowed
  <1> HIDE DEF e, h
  <1>6. Legal(g, <<e>>, h)
    BY <1>2, <1>3, <1>4, <1>5, LegalOne
  <1> QED
    BY <1>2, <1>6 DEF e, st

LEMMA TellMessageStarts ==
    ASSUME NEW g, Told(g), g.phase = "body"
    PROVE  Legal(g, <<MessageStart(NoUsage)>>, g)
  <1> DEFINE e == MessageStart(NoUsage)
  <1>1. e \in Event /\ e.ev = "MessageStart" /\ e.usage = NoUsage
    BY DEF Event, MessageStart
  <1>2. After(g, e) = [g EXCEPT !.start = IF e.usage = NoUsage THEN @ ELSE e.usage]
    BY <1>1 DEF After
  <1>3. Allowed(g, e)
    BY <1>1 DEF Allowed
  <1> HIDE DEF e
  <1>4. After(g, e) = g
    BY <1>1, <1>2 DEF Told, Story
  <1>5. Legal(g, <<e>>, g)
    BY <1>1, <1>3, <1>4, LegalOne
  <1> QED
    BY <1>5 DEF e

LEMMA TellBlockStart ==
    ASSUME NEW g, Told(g), g.phase = "body", NEW i \in Int, NEW k \in Kinds,
           i \notin g.used,
           k = "tool" \/ egress = "responses" \/ \A p \in g.open : p[2] # k
    PROVE  \E h : /\ Legal(g, <<BlockStart(i, k)>>, h)
                  /\ h.open = g.open \cup {<<i, k>>} /\ h.used = g.used \cup {i}
                  /\ Same(g, h)
  <1> DEFINE op == g.open \cup {<<i, k>>}
             us == g.used \cup {i}
             h == Tale(op, us, g.phase, g.start, g.last)
             e == BlockStart(i, k)
  <1>0. g \in Story /\ g.open \subseteq Int \X Kinds /\ g.used \subseteq Int
    BY StoryFields DEF Told
  <1>1. /\ op \subseteq Int \X Kinds /\ us \subseteq Int /\ Idx(op) \subseteq us
        /\ \A p, q \in op : p[1] = q[1] => p = q
    BY <1>0 DEF Idx, Told
  <1>f. IsFiniteSet(us)
    BY FS_AddElement DEF Told
  <1> HIDE DEF op, us
  <1>2. Told(h) /\ h.open = op /\ h.used = us /\ h.phase = g.phase /\ h.start = g.start /\ h.last = g.last
    BY <1>0, <1>1, <1>f, StoryFields, ToldTale DEF Told
  <1>3. e \in Event /\ e.ev = "BlockStart" /\ e.index = i /\ e.kind = k
    BY DEF Event, BlockStart
  <1>4. After(g, e) = h
    <2>1. After(g, e) = [g EXCEPT !.open = @ \cup {<<e.index, e.kind>>}, !.used = @ \cup {e.index}]
      BY <1>3 DEF After
    <2> HIDE DEF e
    <2>2. After(g, e) = [g EXCEPT !.open = op, !.used = us]
      BY <2>1, <1>3, <1>0 DEF op, us, Story
    <2> QED
      BY <1>0, <2>2 DEF Story, Tale
  <1>5. Allowed(g, e)
    BY <1>3 DEF Allowed
  <1> HIDE DEF e, h
  <1>6. Legal(g, <<e>>, h)
    BY <1>2, <1>3, <1>4, <1>5, LegalOne
  <1> QED
    BY <1>2, <1>6 DEF e, op, us, Same

LEMMA TellBlockDelta ==
    ASSUME NEW g, Told(g), g.phase = "body", NEW i \in Int, NEW k \in Kinds,
           <<i, k>> \in g.open
    PROVE  Legal(g, <<BlockDelta(i, k)>>, g)
  <1> DEFINE e == BlockDelta(i, k)
  <1>3. e \in Event /\ e.ev = "BlockDelta" /\ e.index = i /\ e.kind = k
    BY DEF Event, BlockDelta
  <1>4. After(g, e) = g
    BY <1>3 DEF After
  <1>5. Allowed(g, e)
    BY <1>3 DEF Allowed
  <1> HIDE DEF e
  <1>6. Legal(g, <<e>>, g)
    BY <1>3, <1>4, <1>5, LegalOne
  <1> QED
    BY <1>6 DEF e

LEMMA TellBlockStop ==
    ASSUME NEW g, Told(g), g.phase = "body", NEW i \in Int, i \in Idx(g.open)
    PROVE  \E h : /\ Legal(g, <<BlockStop(i)>>, h)
                  /\ h.open = {p \in g.open : p[1] # i} /\ h.used = g.used
                  /\ Same(g, h)
  <1> DEFINE op == {p \in g.open : p[1] # i}
             h == Tale(op, g.used, g.phase, g.start, g.last)
             e == BlockStop(i)
  <1>0. g \in Story /\ g.open \subseteq Int \X Kinds /\ g.used \subseteq Int
    BY StoryFields DEF Told
  <1>1. /\ op \subseteq Int \X Kinds /\ Idx(op) \subseteq g.used
        /\ \A p, q \in op : p[1] = q[1] => p = q
    BY <1>0 DEF Idx, Told
  <1> HIDE DEF op
  <1>2. Told(h) /\ h.open = op /\ h.used = g.used /\ h.phase = g.phase /\ h.start = g.start /\ h.last = g.last
    BY <1>0, <1>1, StoryFields, ToldTale DEF Told
  <1>3. e \in Event /\ e.ev = "BlockStop" /\ e.index = i
    BY DEF Event, BlockStop
  <1>4. After(g, e) = h
    <2>1. After(g, e) = [g EXCEPT !.open = {p \in @ : p[1] # e.index}]
      BY <1>3 DEF After
    <2> HIDE DEF e
    <2>2. After(g, e) = [g EXCEPT !.open = op]
      BY <2>1, <1>3, <1>0 DEF op, Story
    <2> QED
      BY <1>0, <2>2 DEF Story, Tale
  <1>5. Allowed(g, e)
    BY <1>3 DEF Allowed
  <1> HIDE DEF e, h
  <1>6. Legal(g, <<e>>, h)
    BY <1>2, <1>3, <1>4, <1>5, LegalOne
  <1> QED
    BY <1>2, <1>6 DEF e, op, Same

LEMMA TellMessageDelta ==
    ASSUME NEW g, Told(g), NEW b \in BOOLEAN, NEW u \in [in : Int, out : Int],
           Whole(g, u) \in {Zero, Final},
           \/ g.phase = "body" /\ (b \/ g.open = {})
           \/ g.phase = "terminal" /\ b /\ Whole(g, u) = Zero
           \/ g.phase = "terminal" /\ ~b /\ Whole(g, u) = Final /\ egress = "openai"
    PROVE  \E h : /\ Legal(g, <<MessageDelta(b, u)>>, h)
                  /\ h.open = {} /\ h.used = g.used /\ h.start = g.start
                  /\ h.phase = IF b \/ g.phase = "terminal" THEN "terminal" ELSE "final"
                  /\ h.last = LastOf(g, Whole(g, u))
  <1> DEFINE ph == IF b \/ g.phase = "terminal" THEN "terminal" ELSE "final"
             la == LastOf(g, Whole(g, u))
             h == Tale({}, g.used, ph, g.start, la)
             e == MessageDelta(b, u)
  <1>0. g \in Story /\ g.open \subseteq Int \X Kinds /\ g.used \subseteq Int
        /\ g.last \in {NoUsage, Zero, Final} /\ g.start \in {NoUsage, Begun}
    BY StoryFields DEF Told
  <1>1. ph \in Phases /\ ph # "body" /\ la \in {Zero, Final}
    BY <1>0 DEF Phases, LastOf
  <1>2. Zero # NoUsage /\ Final # NoUsage
    BY DEF Zero, NoUsage, Final
  <1> HIDE DEF ph, la
  <1>3. Told(h) /\ h.open = {} /\ h.used = g.used /\ h.phase = ph /\ h.start = g.start /\ h.last = la
    <2>1. Idx({}) \subseteq g.used /\ IsFiniteSet(g.used)
      BY DEF Idx, Told
    <2> QED
      BY <1>0, <1>1, <1>2, <2>1, ToldTale
  <1>4. e \in Event /\ e.ev = "MessageDelta" /\ e.stop = b /\ e.usage = u
    BY DEF Event, MessageDelta
  <1>5. After(g, e) = h
    <2>1. After(g, e) = [g EXCEPT !.open = {},
                     !.phase = IF e.stop \/ @ = "terminal" THEN "terminal" ELSE "final",
                     !.last = LastOf(g, Whole(g, e.usage))]
      BY <1>4 DEF After
    <2> HIDE DEF e
    <2>2. After(g, e) = [g EXCEPT !.open = {}, !.phase = ph, !.last = la]
      BY <2>1, <1>4, <1>0 DEF ph, la, Story
    <2> QED
      BY <1>0, <2>2 DEF Story, Tale
  <1>6. Allowed(g, e)
    BY <1>4 DEF Allowed
  <1> HIDE DEF e, h
  <1>7. Legal(g, <<e>>, h)
    BY <1>3, <1>4, <1>5, <1>6, LegalOne
  <1> QED
    BY <1>3, <1>7 DEF e, ph, la

LEMMA TellMessageStop ==
    ASSUME NEW g, Told(g), g.phase # "end"
    PROVE  \E h : /\ Legal(g, <<MessageStop>>, h)
                  /\ h.open = {} /\ h.used = g.used /\ h.start = g.start
                  /\ h.phase = IF g.phase = "terminal" THEN "terminal" ELSE "end"
                  /\ h.last = g.last
  <1> DEFINE ph == IF g.phase = "terminal" THEN "terminal" ELSE "end"
             h == Tale({}, g.used, ph, g.start, g.last)
             e == MessageStop
  <1>0. g \in Story /\ g.open \subseteq Int \X Kinds /\ g.used \subseteq Int
        /\ g.last \in {NoUsage, Zero, Final} /\ g.start \in {NoUsage, Begun}
    BY StoryFields DEF Told
  <1>1. ph \in Phases /\ ph # "body" /\ ph # "final" /\ (ph = "terminal" => g.last # NoUsage)
    BY <1>0 DEF Phases, Told
  <1> HIDE DEF ph
  <1>3. Told(h) /\ h.open = {} /\ h.used = g.used /\ h.phase = ph /\ h.start = g.start /\ h.last = g.last
    <2>1. Idx({}) \subseteq g.used /\ IsFiniteSet(g.used)
      BY DEF Idx, Told
    <2> QED
      BY <1>0, <1>1, <2>1, ToldTale
  <1>4. e \in Event /\ e.ev = "MessageStop"
    BY DEF Event, MessageStop
  <1>5. After(g, e) = h
    <2>1. After(g, e) = [g EXCEPT !.open = {}, !.phase = IF @ = "terminal" THEN @ ELSE "end"]
      BY <1>4 DEF After
    <2> HIDE DEF e
    <2>2. After(g, e) = [g EXCEPT !.open = {}, !.phase = ph]
      BY <2>1, <1>0 DEF ph, Story
    <2> QED
      BY <1>0, <2>2 DEF Story, Tale
  <1>6. Allowed(g, e)
    BY <1>4 DEF Allowed
  <1> HIDE DEF e, h
  <1>7. Legal(g, <<e>>, h)
    BY <1>3, <1>4, <1>5, <1>6, LegalOne
  <1> QED
    BY <1>3, <1>7 DEF e, ph

LEMMA TellError ==
    ASSUME NEW g, Told(g)
    PROVE  Legal(g, <<Error>>, g)
  <1> DEFINE e == Error
  <1>3. e \in Event /\ e.ev = "Error"
    BY DEF Event, Error
  <1>4. After(g, e) = g
    BY <1>3 DEF After
  <1>5. Allowed(g, e)
    BY <1>3 DEF Allowed
  <1> HIDE DEF e
  <1>6. Legal(g, <<e>>, g)
    BY <1>3, <1>4, <1>5, LegalOne
  <1> QED
    BY <1>6 DEF e

\* Several blocks are closed one after the other.
LEMMA TellStops ==
    ASSUME NEW g, Told(g), g.phase = "body", NEW q \in Seq(Int),
           \A n \in 1 .. Len(q) : q[n] \in Idx(g.open),
           \A m, n \in 1 .. Len(q) : q[m] = q[n] => m = n
    PROVE  \E h : /\ Legal(g, [n \in 1 .. Len(q) |-> BlockStop(q[n])], h)
                  /\ h.open = {p \in g.open : \A n \in 1 .. Len(q) : p[1] # q[n]}
                  /\ h.used = g.used /\ Same(g, h)
  <1> DEFINE left(m) == {p \in g.open : \A n \in 1 .. m : p[1] # q[n]}
             stops(m) == [n \in 1 .. m |-> BlockStop(q[n])]
             tells(m) == \E h : /\ Legal(g, stops(m), h) /\ h.open = left(m)
                                /\ h.used = g.used /\ Same(g, h)
             T == {m \in 0 .. Len(q) : ~ tells(m)}
  <1>0. Len(q) \in Nat
    OBVIOUS
  <1>1. tells(0)
    <2>1. Legal(g, <<>>, g)
      BY LegalNone
    <2>2. stops(0) = <<>> /\ left(0) = g.open
      OBVIOUS
    <2> QED
      BY <2>1, <2>2 DEF Same
  <1>2. ASSUME NEW m \in 0 .. Len(q), m + 1 \in 0 .. Len(q), tells(m)
        PROVE  tells(m + 1)
    <2>1. PICK h : /\ Legal(g, stops(m), h) /\ h.open = left(m)
                   /\ h.used = g.used /\ Same(g, h)
      BY <1>2
    <2>2. Told(h) /\ h.phase = "body" /\ m + 1 \in 1 .. Len(q) /\ q[m + 1] \in Int
      BY <2>1, <1>2, LegalEnds DEF Same
    <2>3. q[m + 1] \in Idx(h.open)
      <3>1. PICK p \in g.open : p[1] = q[m + 1]
        BY <2>2 DEF Idx
      <3>2. p \in left(m)
        BY <3>1, <2>2
      <3> QED
        BY <3>1, <3>2, <2>1 DEF Idx
    <2>4. PICK k : /\ Legal(h, <<BlockStop(q[m + 1])>>, k)
                   /\ k.open = {p \in h.open : p[1] # q[m + 1]} /\ k.used = h.used
                   /\ Same(h, k)
      BY <2>2, <2>3, TellBlockStop
    <2>5. Legal(g, stops(m) \o <<BlockStop(q[m + 1])>>, k)
      <3> HIDE DEF stops
      <3> QED
        BY <2>1, <2>4, LegalCat
    <2>6. stops(m) \o <<BlockStop(q[m + 1])>> = stops(m + 1)
      <3>1. \A n \in 1 .. (m + 1) : n \in 1 .. m \/ n = m + 1
        OBVIOUS
      <3> QED
        BY <3>1
    <2>7. k.open = left(m + 1)
      <3>1. \A n \in 1 .. (m + 1) : n \in 1 .. m \/ n = m + 1
        OBVIOUS
      <3>2. \A n \in 1 .. m : n \in 1 .. (m + 1)
        OBVIOUS
      <3>3. m + 1 \in 1 .. (m + 1)
        OBVIOUS
      <3> QED
        BY <2>1, <2>4, <3>1, <3>2, <3>3
    <2> HIDE DEF stops, left
    <2> QED
      BY <2>1, <2>4, <2>5, <2>6, <2>7 DEF Same
  <1>3. T = {}
    <2> SUFFICES ASSUME T # {} PROVE FALSE
      OBVIOUS
    <2> HIDE DEF tells
    <2>0. T \subseteq Nat
      OBVIOUS
    <2> HIDE DEF T
    <2>1. PICK m \in T : \A x \in T : m <= x
      BY <2>0, LeastIn
    <2> USE DEF T
    <2>2. m # 0
      BY <1>1, <2>1
    <2> DEFINE j == m - 1
    <2>3. j \in 0 .. Len(q) /\ j + 1 \in 0 .. Len(q) /\ ~ (m <= j) /\ j + 1 = m
      BY <2>1, <2>2, <1>0
    <2> HIDE DEF j
    <2>4. tells(j)
      BY <2>1, <2>3
    <2>5. tells(j + 1)
      BY <2>3, <2>4, <1>2
    <2> QED
      BY <2>1, <2>3, <2>5
  <1>4. tells(Len(q))
    <2> HIDE DEF tells
    <2> QED
      BY <1>0, <1>3
  <1> QED
    BY <1>4

-----------------------------------------------------------------------------
(* The readers' decode state. *)
IrMaps == UNION {[S -> Int] : S \in SUBSET Int}

Decode == [started : BOOLEAN, textOpen : BOOLEAN, textIndex : Int,
           textClosed : BOOLEAN, textSeen : BOOLEAN, openTools : SUBSET Int,
           reasoningSeen : BOOLEAN, thinkingOpen : BOOLEAN, pendingStop : BOOLEAN,
           toolIr : IrMaps, nextIr : Int]

\* Maps is an insertion.
LEMMA MapsIs ==
    ASSUME NEW f, NEW i, NEW x, NEW m, f \in IrMaps, i \in Int, x \in Int,
           m = Maps(f, i, x)
    PROVE  /\ m \in IrMaps
           /\ DOMAIN m = DOMAIN f \cup {i}
           /\ m[i] = x
  <1>1. PICK S \in SUBSET Int : f \in [S -> Int]
    BY DEF IrMaps
  <1>2. m \in [S \cup {i} -> Int]
    BY <1>1 DEF Maps
  <1>3. S \cup {i} \in SUBSET Int
    BY <1>1
  <1> QED
    BY <1>1, <1>2, <1>3 DEF Maps, IrMaps

LEMMA MapsElse ==
    ASSUME NEW f, NEW i, NEW x, NEW m, m = Maps(f, i, x), NEW j \in DOMAIN f, j # i
    PROVE  m[j] = f[j]
  BY DEF Maps

LEMMA MapsEmpty == [i \in {} |-> 0] \in IrMaps /\ DOMAIN [i \in {} |-> 0] = {}
  <1>1. [i \in {} |-> 0] \in [{} -> Int]
    OBVIOUS
  <1> QED
    BY <1>1 DEF IrMaps

LEMMA IrMapsIn ==
    ASSUME NEW f \in IrMaps
    PROVE  DOMAIN f \subseteq Int /\ \A i \in DOMAIN f : f[i] \in Int
  BY DEF IrMaps

\* The fields of the decode state.
LEMMA DecodeFields ==
    ASSUME NEW d \in Decode
    PROVE  /\ d.started \in BOOLEAN /\ d.textOpen \in BOOLEAN /\ d.textIndex \in Int
           /\ d.textClosed \in BOOLEAN /\ d.textSeen \in BOOLEAN
           /\ d.openTools \subseteq Int /\ d.reasoningSeen \in BOOLEAN
           /\ d.thinkingOpen \in BOOLEAN /\ d.pendingStop \in BOOLEAN
           /\ d.toolIr \in IrMaps /\ d.nextIr \in Int
  BY DEF Decode

(* What a part of a reader leaves: a decode state, and the story so far. *)
Tells(g0, r, g) == r.d \in Decode /\ Legal(g0, r.evs, g)

\* Push appends an event to what a reader leaves.
LEMMA PushIs ==
    ASSUME NEW r, NEW d, NEW evs
    PROVE  Push(r, d, evs).d = d /\ Push(r, d, evs).evs = r.evs \o evs
  BY DEF Push, Result

LEMMA PushTells ==
    ASSUME NEW g0, NEW r, NEW g, NEW d \in Decode, NEW evs, NEW h,
           Tells(g0, r, g), Legal(g, evs, h)
    PROVE  Tells(g0, Push(r, d, evs), h) /\ Push(r, d, evs).d = d
  <1> DEFINE p == Push(r, d, evs)
             w == r.evs
  <1>1. p.d = d /\ p.evs = w \o evs
    BY PushIs
  <1>2. Legal(g0, w, g)
    BY DEF Tells
  <1> HIDE DEF p, w
  <1>3. Legal(g0, w \o evs, h)
    BY <1>2, LegalCat
  <1>4. Tells(g0, p, h) /\ p.d = d
    BY <1>1, <1>3 DEF Tells
  <1> QED
    BY <1>4 DEF p

LEMMA PushNone ==
    ASSUME NEW g0, NEW r, NEW g, NEW d \in Decode, Tells(g0, r, g)
    PROVE  Tells(g0, Push(r, d, <<>>), g) /\ Push(r, d, <<>>).d = d
  <1>1. Legal(g, <<>>, g)
    BY LegalEnds, LegalNone DEF Tells
  <1> QED
    BY <1>1, PushTells

\* message_start, once.
LEMMA StartTells ==
    ASSUME NEW g0, NEW r, NEW g, Tells(g0, r, g), g.phase = "body"
    PROVE  Tells(g0, OaStart(r), g) /\ OaStart(r).d = [r.d EXCEPT !.started = TRUE]
  <1> DEFINE d == [r.d EXCEPT !.started = TRUE]
  <1>1. r.d \in Decode /\ Told(g)
    BY LegalEnds DEF Tells
  <1>2. CASE r.d.started
    <2>1. d = r.d
      BY <1>1, <1>2 DEF Decode
    <2> QED
      BY <1>2, <2>1 DEF OaStart
  <1>3. CASE ~ r.d.started
    <2>1. d \in Decode
      BY <1>1 DEF Decode
    <2>2. Legal(g, <<MessageStart(NoUsage)>>, g)
      BY <1>1, TellMessageStarts
    <2>3. OaStart(r) = Push(r, d, <<MessageStart(NoUsage)>>)
      BY <1>3 DEF OaStart
    <2> HIDE DEF d
    <2>4. Tells(g0, OaStart(r), g) /\ OaStart(r).d = d
      BY <2>1, <2>2, <2>3, PushTells
    <2> QED
      BY <2>4 DEF d
  <1> QED
    BY <1>2, <1>3

-----------------------------------------------------------------------------
(* openai and gemini: reasoning, one text block, tool calls. *)
Tools(T) == {<<i, "tool">> : i \in T}

\* The open blocks of a chat and their indices.
LEMMA ChatOpen ==
    ASSUME NEW d, NEW g, NEW T, Chat(d, g, T)
    PROVE  /\ g.open = Think(d) \cup TextOf(d) \cup Tools(T)
           /\ \A i \in T : i \in Idx(g.open) /\ <<i, "tool">> \in g.open
  <1>1. g.open = Think(d) \cup TextOf(d) \cup Tools(T)
    BY DEF Chat, Tools
  <1>2. \A i \in T : <<i, "tool">> \in Tools(T)
    BY DEF Tools
  <1> QED
    BY <1>1, <1>2 DEF Idx

\* Chat speaks of five fields of the decode state.
LEMMA ChatSame ==
    ASSUME NEW d, NEW e, NEW g, NEW T, Chat(d, g, T),
           e.thinkingOpen = d.thinkingOpen, e.textOpen = d.textOpen,
           e.textIndex = d.textIndex, e.reasoningSeen = d.reasoningSeen,
           e.nextIr = d.nextIr
    PROVE  Chat(e, g, T) /\ (Thinks(d) => Thinks(e))
  BY DEF Chat, Think, TextOf, Thinks

\* The three parts that openai and gemini share go on with the story.
LEMMA CloseThinkingTells ==
    ASSUME NEW g0, NEW r, NEW g, NEW T, Tells(g0, r, g), Chat(r.d, g, T)
    PROVE  /\ CloseThinking(r).d = [r.d EXCEPT !.thinkingOpen = FALSE]
           /\ \E h : /\ Tells(g0, CloseThinking(r), h) /\ Chat(CloseThinking(r).d, h, T)
  <1> DEFINE d == [r.d EXCEPT !.thinkingOpen = FALSE]
  <1>1. r.d \in Decode /\ Told(g) /\ g.phase = "body"
    BY LegalEnds DEF Tells, Chat
  <1>2. CASE ~ r.d.thinkingOpen
    <2>1. d = r.d
      BY <1>1, <1>2 DEF Decode
    <2> QED
      BY <1>2, <2>1 DEF CloseThinking
  <1>3. CASE r.d.thinkingOpen
    <2>1. d \in Decode /\ d.thinkingOpen = FALSE /\ d.textOpen = r.d.textOpen
          /\ d.textIndex = r.d.textIndex /\ d.reasoningSeen = r.d.reasoningSeen
          /\ d.nextIr = r.d.nextIr
      BY <1>1 DEF Decode
    <2>2. g.open = {<<0, "thinking">>} /\ T = {} /\ ~ r.d.textOpen
      BY <1>3 DEF Chat, Think, TextOf
    <2>3. 0 \in Idx(g.open) /\ 0 \in Int
      BY <2>2 DEF Idx
    <2>4. PICK h : /\ Legal(g, <<BlockStop(0)>>, h)
                   /\ h.open = {p \in g.open : p[1] # 0} /\ h.used = g.used
                   /\ Same(g, h)
      BY <1>1, <2>3, TellBlockStop
    <2>5. CloseThinking(r) = Push(r, d, <<BlockStop(0)>>)
      BY <1>3 DEF CloseThinking
    <2>6. h.open = {}
      BY <2>2, <2>4
    <2>7. Chat(d, h, T)
      <3> HIDE DEF d
      <3>1. h.open = Think(d) \cup TextOf(d) \cup {<<i, "tool">> : i \in T}
        BY <2>1, <2>2, <2>6 DEF Think, TextOf
      <3> QED
        BY <2>1, <2>2, <2>4, <3>1 DEF Chat, Same
    <2> HIDE DEF d
    <2>8. Tells(g0, CloseThinking(r), h) /\ CloseThinking(r).d = d
      BY <2>1, <2>4, <2>5, PushTells
    <2> QED
      BY <2>7, <2>8 DEF d
  <1> QED
    BY <1>1, <1>2, <1>3 DEF Decode

LEMMA AddReasoningTells ==
    ASSUME NEW g0, NEW r, NEW g, NEW T, Tells(g0, r, g), Chat(r.d, g, T), Thinks(r.d),
           T = {} <=> r.d.openTools = {}
    PROVE  /\ AddReasoning(r).d.openTools = r.d.openTools
           /\ AddReasoning(r).d.toolIr = r.d.toolIr
           /\ AddReasoning(r).d.started = r.d.started
           /\ \E h : /\ Tells(g0, AddReasoning(r), h) /\ Chat(AddReasoning(r).d, h, T)
                     /\ Thinks(AddReasoning(r).d)
  <1> DEFINE d == [r.d EXCEPT !.reasoningSeen = TRUE, !.thinkingOpen = TRUE]
             st == IF r.d.thinkingOpen THEN <<>> ELSE <<BlockStart(0, "thinking")>>
             de == <<BlockDelta(0, "thinking")>>
  <1>1. r.d \in Decode /\ Told(g) /\ g.phase = "body"
    BY LegalEnds DEF Tells, Chat
  <1>2. CASE ~ (~r.d.textOpen /\ r.d.openTools = {})
    BY <1>2 DEF AddReasoning
  <1>3. CASE ~r.d.textOpen /\ r.d.openTools = {}
    <2>1. d \in Decode /\ d.thinkingOpen = TRUE /\ d.textOpen = r.d.textOpen
          /\ d.textIndex = r.d.textIndex /\ d.reasoningSeen = TRUE
          /\ d.nextIr = r.d.nextIr /\ d.openTools = r.d.openTools
          /\ d.toolIr = r.d.toolIr /\ d.started = r.d.started
      BY <1>1 DEF Decode
    <2>2. T = {} /\ r.d.nextIr = 0 /\ TextOf(r.d) = {}
      BY <1>3 DEF Chat, TextOf
    <2>3. AddReasoning(r) = Push(r, d, st \o de)
      BY <1>3 DEF AddReasoning
    <2>4. \E h : /\ Legal(g, st, h) /\ h.open = {<<0, "thinking">>}
                 /\ h.used \subseteq g.used \cup {0} /\ Same(g, h)
      <3>1. CASE r.d.thinkingOpen
        <4>1. g.open = {<<0, "thinking">>}
          BY <3>1, <2>2 DEF Chat, Think
        <4>2. Legal(g, st, g)
          BY <3>1, <1>1, LegalNone
        <4> QED
          BY <4>1, <4>2 DEF Same
      <3>2. CASE ~ r.d.thinkingOpen
        <4>a. g.open = {}
          <5>1. Tools(T) = {} /\ Think(r.d) = {}
            BY <2>2, <3>2 DEF Tools, Think
          <5> QED
            BY <5>1, <2>2, ChatOpen
        <4>b. 0 \notin g.used
          BY <2>2, <3>2 DEF Chat, Thinks
        <4>1. g.open = {} /\ 0 \notin g.used
          BY <4>a, <4>b
        <4>2. 0 \notin g.used /\ 0 \in Int /\ "thinking" \in Kinds
              /\ \A p \in g.open : p[2] # "thinking"
          BY <4>1 DEF Kinds
        <4>3. PICK h : /\ Legal(g, <<BlockStart(0, "thinking")>>, h)
                       /\ h.open = g.open \cup {<<0, "thinking">>}
                       /\ h.used = g.used \cup {0} /\ Same(g, h)
          BY <1>1, <4>2, TellBlockStart
        <4> QED
          BY <3>2, <4>1, <4>3
      <3> QED
        BY <3>1, <3>2
    <2>5. PICK h : /\ Legal(g, st, h) /\ h.open = {<<0, "thinking">>}
                 /\ h.used \subseteq g.used \cup {0} /\ Same(g, h)
      BY <2>4
    <2>6. Legal(h, de, h)
      <3>1. Told(h) /\ h.phase = "body"
        BY <1>1, <2>5, LegalEnds DEF Same
      <3>2. <<0, "thinking">> \in h.open /\ 0 \in Int /\ "thinking" \in Kinds
        BY <2>5 DEF Kinds
      <3> QED
        BY <3>1, <3>2, TellBlockDelta
    <2> HIDE DEF st, de, d
    <2>7. Legal(g, st \o de, h)
      BY <2>5, <2>6, LegalCat
    <2> DEFINE ev == st \o de
    <2> HIDE DEF ev
    <2>8. Tells(g0, Push(r, d, ev), h) /\ Push(r, d, ev).d = d
      BY <2>1, <2>7, PushTells DEF ev
    <2>9. Chat(d, h, T) /\ Thinks(d)
      <3>1. h.open = Think(d) \cup TextOf(d) \cup {<<i, "tool">> : i \in T}
        BY <1>3, <2>1, <2>2, <2>5 DEF Think, TextOf
      <3>2. \A i \in h.used : i < d.nextIr \/ (i = 0 /\ d.reasoningSeen)
        BY <2>1, <2>5 DEF Chat
      <3>3. d.nextIr \in Nat /\ (d.nextIr = 0 <=> ~d.textOpen /\ T = {})
            /\ (d.textOpen <=> d.textIndex # None) /\ h.phase = "body" /\ h.start = NoUsage
        BY <2>1, <2>5 DEF Chat, Same
      <3> QED
        BY <1>3, <2>1, <2>2, <3>1, <3>2, <3>3 DEF Chat, Thinks
    <2> QED
      BY <2>1, <2>3, <2>8, <2>9 DEF ev
  <1> QED
    BY <1>2, <1>3

\* The index that claim_ir_index gives has not been used.
LEMMA ClaimIsFresh ==
    ASSUME NEW d, NEW g, NEW T, Chat(d, g, T), Told(g)
    PROVE  /\ ClaimIrIndex(d) \in Nat /\ ClaimIrIndex(d) \notin g.used
           /\ ClaimIrIndex(d) >= d.nextIr
           /\ d.reasoningSeen => ClaimIrIndex(d) # 0
  BY DEF Chat, ClaimIrIndex, Told, Story

LEMMA AddTextTells ==
    ASSUME NEW g0, NEW r, NEW g, NEW T, Tells(g0, r, g), Chat(r.d, g, T)
    PROVE  /\ AddText(r).d.openTools = r.d.openTools
           /\ AddText(r).d.toolIr = r.d.toolIr
           /\ AddText(r).d.started = r.d.started
           /\ \E h : /\ Tells(g0, AddText(r), h) /\ Chat(AddText(r).d, h, T)
                     /\ Thinks(AddText(r).d)
  <1> DEFINE q == CloseThinking(r)
             ti == IF q.d.textIndex # None THEN q.d.textIndex ELSE ClaimIrIndex(q.d)
             nx == IF q.d.textIndex # None THEN q.d.nextIr ELSE ti + 1
             d == [q.d EXCEPT !.textOpen = TRUE, !.textIndex = ti, !.nextIr = nx]
             st == IF q.d.textOpen THEN <<>> ELSE <<BlockStart(ti, "text")>>
             de == <<BlockDelta(ti, "text")>>
  <1>1. r.d \in Decode /\ q.d = [r.d EXCEPT !.thinkingOpen = FALSE]
    BY CloseThinkingTells DEF Tells
  <1>2. PICK k : Tells(g0, q, k) /\ Chat(q.d, k, T)
    BY CloseThinkingTells
  <1>3. AddText(r) = Push(q, d, st \o de)
    <2>1. q.d \in Decode
      BY <1>2 DEF Tells
    <2>2. d = [q.d EXCEPT !.textOpen = TRUE, !.textIndex = ti,
                          !.nextIr = IF q.d.textIndex # None THEN @ ELSE ti + 1]
      <3> HIDE DEF q, ti
      <3> QED
        BY <2>1 DEF Decode
    <2> HIDE DEF d
    <2> QED
      BY <2>2 DEF AddText
  <1>4. q.d.thinkingOpen = FALSE /\ q.d.openTools = r.d.openTools /\ q.d.toolIr = r.d.toolIr
        /\ q.d.started = r.d.started
    <2> HIDE DEF q
    <2> QED
      BY <1>1 DEF Decode
  <1> HIDE DEF q
  <1>5. q.d \in Decode /\ Told(k) /\ k.phase = "body"
    BY <1>2, LegalEnds DEF Tells, Chat
  <1>6. ti \in Int /\ nx \in Nat /\ nx # 0 /\ ti # None /\ nx >= q.d.nextIr
        /\ (~ q.d.textOpen => ti \notin k.used /\ nx = ti + 1)
        /\ (q.d.textOpen => ti = q.d.textIndex /\ nx = q.d.nextIr)
    <2>1. /\ ClaimIrIndex(q.d) \in Nat /\ ClaimIrIndex(q.d) \notin k.used
          /\ ClaimIrIndex(q.d) >= q.d.nextIr
      BY <1>2, <1>5, ClaimIsFresh
    <2>2. q.d.textIndex \in Int /\ q.d.nextIr \in Nat
          /\ (q.d.nextIr = 0 <=> ~q.d.textOpen /\ T = {})
          /\ (q.d.textOpen <=> q.d.textIndex # None)
      BY <1>2, <1>5, DecodeFields DEF Chat
    <2>3. CASE q.d.textOpen
      BY <2>2, <2>3
    <2>4. CASE ~ q.d.textOpen
      BY <2>1, <2>2, <2>4 DEF None
    <2> QED
      BY <2>3, <2>4
  <1> HIDE DEF ti, nx
  <1>7. /\ d \in Decode /\ d.textOpen = TRUE /\ d.textIndex = ti /\ d.nextIr = nx
        /\ d.thinkingOpen = FALSE /\ d.reasoningSeen = q.d.reasoningSeen
        /\ d.openTools = q.d.openTools /\ d.toolIr = q.d.toolIr /\ d.started = q.d.started
    <2> DEFINE y == q.d
    <2>1. y \in Decode /\ y.thinkingOpen = FALSE
      BY <1>4, <1>5
    <2>2. d = [y EXCEPT !.textOpen = TRUE, !.textIndex = ti, !.nextIr = nx]
      OBVIOUS
    <2>3. ti \in Int /\ nx \in Int
      BY <1>6
    <2> HIDE DEF y, d
    <2>4. d \in Decode
      BY <2>1, <2>2, <2>3 DEF Decode
    <2>5. /\ d.textOpen = TRUE /\ d.textIndex = ti /\ d.nextIr = nx
          /\ d.thinkingOpen = FALSE /\ d.reasoningSeen = y.reasoningSeen
          /\ d.openTools = y.openTools /\ d.toolIr = y.toolIr /\ d.started = y.started
      BY <2>1, <2>2 DEF Decode
    <2> QED
      BY <2>4, <2>5 DEF y
  <1>8. Think(q.d) = {} /\ Think(d) = {} /\ TextOf(d) = {<<ti, "text">>}
    BY <1>4, <1>7 DEF Think, TextOf
  <1> HIDE DEF d
  <1>9. \E h : /\ Legal(k, st, h) /\ h.open = {<<ti, "text">>} \cup Tools(T)
               /\ h.used \subseteq (IF q.d.textOpen THEN k.used ELSE k.used \cup {ti})
               /\ Same(k, h)
    <2>1. CASE q.d.textOpen
      <3>1. k.open = {<<ti, "text">>} \cup Tools(T)
        BY <2>1, <1>2, <1>6, <1>8, ChatOpen DEF TextOf
      <3>2. Legal(k, st, k)
        BY <2>1, <1>5, LegalNone
      <3> QED
        BY <3>1, <3>2, <2>1 DEF Same
    <2>2. CASE ~ q.d.textOpen
      <3>1. k.open = Tools(T)
        BY <2>2, <1>2, <1>8, ChatOpen DEF TextOf
      <3>2. \A p \in k.open : p[2] # "text"
        BY <3>1 DEF Tools
      <3>3. PICK h : /\ Legal(k, <<BlockStart(ti, "text")>>, h)
                     /\ h.open = k.open \cup {<<ti, "text">>}
                     /\ h.used = k.used \cup {ti} /\ Same(k, h)
        BY <1>5, <1>6, <2>2, <3>2, TellBlockStart DEF Kinds
      <3> QED
        BY <2>2, <3>1, <3>3
    <2> QED
      BY <2>1, <2>2
  <1>10. PICK h : /\ Legal(k, st, h) /\ h.open = {<<ti, "text">>} \cup Tools(T)
                  /\ h.used \subseteq (IF q.d.textOpen THEN k.used ELSE k.used \cup {ti})
                  /\ Same(k, h)
    BY <1>9
  <1>11. Legal(h, de, h)
    <2>1. Told(h) /\ h.phase = "body" /\ <<ti, "text">> \in h.open
      BY <1>5, <1>10, LegalEnds DEF Same
    <2> QED
      BY <2>1, <1>6, TellBlockDelta DEF Kinds
  <1> HIDE DEF st, de
  <1> DEFINE ev == st \o de
  <1>12. Legal(k, ev, h)
    BY <1>10, <1>11, LegalCat
  <1> HIDE DEF ev
  <1>13. Tells(g0, Push(q, d, ev), h) /\ Push(q, d, ev).d = d
    BY <1>2, <1>7, <1>12, PushTells
  <1>14. Chat(d, h, T) /\ Thinks(d)
    <2>1. h.open = Think(d) \cup TextOf(d) \cup {<<i, "tool">> : i \in T}
      BY <1>8, <1>10 DEF Tools
    <2>2. \A i \in h.used : i < d.nextIr \/ (i = 0 /\ d.reasoningSeen)
      <3>1. h.used \subseteq Int
        BY <1>10, LegalEnds, StoryFields DEF Told
      <3>2. \A i \in k.used : i < q.d.nextIr \/ (i = 0 /\ q.d.reasoningSeen)
        BY <1>2 DEF Chat
      <3>3. q.d.nextIr \in Nat
        BY <1>2 DEF Chat
      <3> QED
        BY <1>6, <1>7, <1>10, <3>1, <3>2, <3>3
    <2>3. h.phase = "body" /\ h.start = NoUsage
      BY <1>2, <1>10 DEF Chat, Same
    <2> QED
      BY <1>6, <1>7, <2>1, <2>2, <2>3 DEF Chat, Thinks
  <1> QED
    BY <1>3, <1>4, <1>7, <1>13, <1>14 DEF ev

\* A tool call opens a block on the index it claims.
LEMMA ClaimTells ==
    ASSUME NEW d, NEW g, NEW T, Chat(d, g, T), Told(g), ~ d.thinkingOpen
    PROVE  /\ ClaimIrIndex(d) \notin T
           /\ \E h : /\ Legal(g, <<BlockStart(ClaimIrIndex(d), "tool")>>, h)
                     /\ <<ClaimIrIndex(d), "tool">> \in h.open /\ h.phase = "body"
                     /\ \A e : /\ e.thinkingOpen = d.thinkingOpen /\ e.textOpen = d.textOpen
                               /\ e.textIndex = d.textIndex
                               /\ e.reasoningSeen = d.reasoningSeen
                               /\ e.nextIr = ClaimIrIndex(d) + 1
                               => Chat(e, h, T \cup {ClaimIrIndex(d)}) /\ Thinks(e)
  <1> DEFINE ix == ClaimIrIndex(d)
  <1>1. /\ ix \in Nat /\ ix \notin g.used /\ ix >= d.nextIr
        /\ d.reasoningSeen => ix # 0
    BY ClaimIsFresh
  <1> HIDE DEF ix
  <1>2. ix \notin T
    BY <1>1, ChatOpen DEF Told
  <1>3. g.phase = "body"
    BY DEF Chat
  <1>4. PICK h : /\ Legal(g, <<BlockStart(ix, "tool")>>, h)
                 /\ h.open = g.open \cup {<<ix, "tool">>}
                 /\ h.used = g.used \cup {ix} /\ Same(g, h)
    <2>1. ix \in Int /\ "tool" \in Kinds
      BY <1>1 DEF Kinds
    <2> QED
      BY <1>1, <1>3, <2>1, TellBlockStart
  <1>5. ASSUME NEW e, e.thinkingOpen = d.thinkingOpen, e.textOpen = d.textOpen,
               e.textIndex = d.textIndex, e.reasoningSeen = d.reasoningSeen,
               e.nextIr = ix + 1
        PROVE  Chat(e, h, T \cup {ix}) /\ Thinks(e)
    <2>1. h.open = Think(e) \cup TextOf(e) \cup {<<i, "tool">> : i \in T \cup {ix}}
      <3>1. g.open = Think(d) \cup TextOf(d) \cup {<<i, "tool">> : i \in T}
        BY DEF Chat
      <3>2. Think(e) = Think(d) /\ TextOf(e) = TextOf(d)
        BY <1>5 DEF Think, TextOf
      <3> QED
        BY <1>4, <3>1, <3>2
    <2>2. \A i \in h.used : i < e.nextIr \/ (i = 0 /\ e.reasoningSeen)
      <3>1. g.used \subseteq Int /\ d.nextIr \in Nat
        BY StoryFields DEF Told, Chat
      <3>2. \A i \in g.used : i < d.nextIr \/ (i = 0 /\ d.reasoningSeen)
        BY DEF Chat
      <3> QED
        BY <1>1, <1>4, <1>5, <3>1, <3>2
    <2>3. h.phase = "body" /\ h.start = NoUsage
      BY <1>4 DEF Chat, Same
    <2>4. e.nextIr \in Nat /\ e.nextIr # 0
      BY <1>1, <1>5
    <2>5. e.textOpen <=> e.textIndex # None
      BY <1>5 DEF Chat
    <2> QED
      BY <1>5, <2>1, <2>2, <2>3, <2>4, <2>5 DEF Chat, Thinks
  <1> QED
    BY <1>2, <1>3, <1>4, <1>5 DEF ix, Same

-----------------------------------------------------------------------------
(* The openai reader. *)
ToolSet(d) == {d.toolIr[i] : i \in d.openTools}

OaCore(d, g) ==
    /\ Chat(d, g, ToolSet(d))
    /\ DOMAIN d.toolIr = d.openTools
    /\ \A i, j \in d.openTools : d.toolIr[i] = d.toolIr[j] => i = j
    /\ IsFiniteSet(d.openTools)

LEMMA ToolSetNone ==
    ASSUME NEW d
    PROVE  ToolSet(d) = {} <=> d.openTools = {}
  BY DEF ToolSet

\* What OaTool looks at is all that it depends on.
LEMMA OaCoreSame ==
    ASSUME NEW d, NEW e, NEW g, OaCore(d, g), e.openTools = d.openTools,
           e.toolIr = d.toolIr, Chat(e, g, ToolSet(d))
    PROVE  OaCore(e, g)
  BY DEF OaCore, ToolSet

\* A fragment of a call opens it, goes on with it, or does both.
LEMMA OaToolTells ==
    ASSUME NEW g0, NEW r, NEW g, NEW t, Tells(g0, r, g), OaCore(r.d, g),
           ~ r.d.thinkingOpen, t.index \in Int, t.named \in BOOLEAN,
           t.args \in BOOLEAN, t.named \/ r.d.openTools # {}
    PROVE  /\ OaTool(r, t).d.started = r.d.started
           /\ ~ OaTool(r, t).d.thinkingOpen /\ OaTool(r, t).d.openTools # {}
           /\ \E h : /\ Tells(g0, OaTool(r, t), h) /\ OaCore(OaTool(r, t).d, h)
                     /\ Thinks(OaTool(r, t).d)
  <1> DEFINE opens == /\ t.named
                      /\ t.index \notin r.d.openTools
                      /\ Cardinality(r.d.openTools) < MaxOpenTools
             ix == ClaimIrIndex(r.d)
             mp == Maps(r.d.toolIr, t.index, ix)
             ot == r.d.openTools \cup {t.index}
             d2 == [r.d EXCEPT !.openTools = ot, !.toolIr = mp, !.nextIr = ix + 1]
             d == IF opens THEN d2 ELSE r.d
             st == IF opens THEN <<BlockStart(ix, "tool")>> ELSE <<>>
             de == IF t.args /\ t.index \in DOMAIN d.toolIr
                   THEN <<BlockDelta(d.toolIr[t.index], "tool")>> ELSE <<>>
  <1>1. r.d \in Decode /\ Told(g) /\ Legal(g0, r.evs, g) /\ g.phase = "body"
    BY LegalEnds DEF Tells, OaCore, Chat
  <1>2. OaTool(r, t) = Push(r, d, st \o de)
    <2>1. d2 = [r.d EXCEPT !.openTools = @ \cup {t.index},
                           !.toolIr = Maps(@, t.index, ix), !.nextIr = ix + 1]
      <3> HIDE DEF ix
      <3> QED
        BY <1>1 DEF Decode
    <2> HIDE DEF d2
    <2> QED
      BY <2>1 DEF OaTool
  <1>3. /\ d \in Decode /\ d.thinkingOpen = FALSE /\ d.started = r.d.started
        /\ d.openTools # {}
        /\ \E h : Legal(g, st, h) /\ OaCore(d, h) /\ Thinks(d)
    <2>1. CASE opens
      <3>1. /\ ix \notin ToolSet(r.d)
            /\ \E h : /\ Legal(g, <<BlockStart(ix, "tool")>>, h)
                      /\ <<ix, "tool">> \in h.open /\ h.phase = "body"
                      /\ \A e : /\ e.thinkingOpen = r.d.thinkingOpen
                                /\ e.textOpen = r.d.textOpen
                                /\ e.textIndex = r.d.textIndex
                                /\ e.reasoningSeen = r.d.reasoningSeen
                                /\ e.nextIr = ix + 1
                                => Chat(e, h, ToolSet(r.d) \cup {ix}) /\ Thinks(e)
        BY <1>1, ClaimTells DEF OaCore
      <3>2. ix \in Int
        BY <1>1, ClaimIsFresh DEF OaCore
      <3> HIDE DEF ix
      <3>3. PICK h : /\ Legal(g, <<BlockStart(ix, "tool")>>, h)
                     /\ \A e : /\ e.thinkingOpen = r.d.thinkingOpen
                               /\ e.textOpen = r.d.textOpen
                               /\ e.textIndex = r.d.textIndex
                               /\ e.reasoningSeen = r.d.reasoningSeen
                               /\ e.nextIr = ix + 1
                               => Chat(e, h, ToolSet(r.d) \cup {ix}) /\ Thinks(e)
        BY <3>1
      <3>4. /\ mp \in IrMaps /\ DOMAIN mp = DOMAIN r.d.toolIr \cup {t.index}
            /\ mp[t.index] = ix
            /\ \A j \in DOMAIN r.d.toolIr : j # t.index => mp[j] = r.d.toolIr[j]
        <4> DEFINE f == r.d.toolIr
                   k == t.index
        <4>1. f \in IrMaps /\ k \in Int /\ ix \in Int /\ mp = Maps(f, k, ix)
          BY <1>1, <3>2, DecodeFields
        <4> HIDE DEF f, k, mp
        <4>2. mp \in IrMaps
          BY <4>1, MapsIs
        <4>3. DOMAIN mp = DOMAIN f \cup {k}
          BY <4>1 DEF Maps
        <4>4. mp[k] = ix
          BY <4>1 DEF Maps
        <4>5. ASSUME NEW j \in DOMAIN f, j # k
              PROVE  mp[j] = f[j]
          BY <4>1, <4>5, MapsElse
        <4> QED
          BY <4>2, <4>3, <4>4, <4>5 DEF f, k
      <3>5. ot \subseteq Int /\ IsFiniteSet(ot) /\ ot # {} /\ DOMAIN mp = ot
        BY <3>4, <1>1, DecodeFields, FS_AddElement DEF OaCore
      <3>5a. t.index \notin r.d.openTools /\ DOMAIN r.d.toolIr = r.d.openTools
             /\ ot = r.d.openTools \cup {t.index}
        BY <2>1 DEF OaCore
      <3> HIDE DEF mp, ot
      <3>6. d2 \in Decode
        <4>1. r.d \in Decode /\ ot \in SUBSET Int /\ mp \in IrMaps /\ ix + 1 \in Int
          BY <1>1, <3>2, <3>4, <3>5
        <4> DEFINE y == r.d
                   z == ix + 1
        <4> HIDE DEF y, z
        <4>2. y \in Decode /\ z \in Int
          BY <4>1 DEF y, z
        <4>3. [y EXCEPT !.openTools = ot, !.toolIr = mp, !.nextIr = z] \in Decode
          BY <4>1, <4>2 DEF Decode
        <4> QED
          BY <4>3 DEF y, z
      <3>7. /\ d2.openTools = ot /\ d2.toolIr = mp /\ d2.nextIr = ix + 1
            /\ d2.thinkingOpen = r.d.thinkingOpen /\ d2.textOpen = r.d.textOpen
            /\ d2.textIndex = r.d.textIndex /\ d2.reasoningSeen = r.d.reasoningSeen
            /\ d2.started = r.d.started
        BY <1>1 DEF Decode
      <3>8. d = d2 /\ st = <<BlockStart(ix, "tool")>>
        BY <2>1
      <3> HIDE DEF d2, st
      <3>9. Chat(d2, h, ToolSet(r.d) \cup {ix}) /\ Thinks(d2)
        BY <3>3, <3>7
      <3>10. ToolSet(d2) = ToolSet(r.d) \cup {ix}
        BY <3>4, <3>5a, <3>7 DEF ToolSet
      <3>11. \A i, j \in ot : mp[i] = mp[j] => i = j
        <4>1. \A i \in r.d.openTools : mp[i] = r.d.toolIr[i] /\ mp[i] # ix
          BY <3>1, <3>4, <3>5a DEF ToolSet
        <4> QED
          BY <4>1, <3>4, <3>5a DEF OaCore
      <3>12. OaCore(d2, h)
        BY <3>5, <3>7, <3>9, <3>10, <3>11 DEF OaCore
      <3> QED
        BY <3>3, <3>5, <3>6, <3>7, <3>8, <3>9, <3>12
    <2>2. CASE ~ opens
      <3>1. Legal(g, <<>>, g)
        BY <1>1, LegalNone
      <3>2. r.d.openTools # {}
        <4>1. CASE r.d.openTools = {}
          <5>1. Cardinality(r.d.openTools) = 0
            BY <4>1, FS_EmptySet
          <5>2. t.named /\ t.index \notin r.d.openTools
            BY <4>1
          <5>3. Cardinality(r.d.openTools) < MaxOpenTools
            BY <5>1, ReadersAssumption, KeysAssumption
          <5> QED
            BY <2>2, <5>2, <5>3
        <4> QED
          BY <4>1
      <3>3. Thinks(r.d)
        BY <3>2, ToolSetNone DEF OaCore, Chat, Thinks
      <3> QED
        BY <2>2, <1>1, <3>1, <3>2, <3>3
    <2> QED
      BY <2>1, <2>2
  <1>4. PICK h : Legal(g, st, h) /\ OaCore(d, h) /\ Thinks(d)
    BY <1>3
  <1> HIDE DEF st, d
  <1>5. Legal(h, de, h)
    <2>1. CASE t.args /\ t.index \in DOMAIN d.toolIr
      <3>1. Told(h) /\ h.phase = "body"
        BY <1>4, LegalEnds DEF OaCore, Chat
      <3> DEFINE x == d.toolIr[t.index]
      <3>2. x \in ToolSet(d)
        BY <2>1, <1>4 DEF ToolSet, OaCore
      <3>3. x \in Int
        BY <2>1, <1>3, DecodeFields, IrMapsIn
      <3>4. de = <<BlockDelta(x, "tool")>>
        BY <2>1
      <3> HIDE DEF x, de
      <3>5. <<x, "tool">> \in h.open /\ "tool" \in Kinds
        BY <3>2, <1>4, ChatOpen DEF OaCore, Kinds
      <3> QED
        BY <3>1, <3>3, <3>4, <3>5, TellBlockDelta
    <2>2. CASE ~ (t.args /\ t.index \in DOMAIN d.toolIr)
      <3>1. Legal(h, <<>>, h)
        BY <1>4, LegalEnds, LegalNone
      <3> QED
        BY <2>2, <3>1
    <2> QED
      BY <2>1, <2>2
  <1> HIDE DEF de
  <1> DEFINE ev == st \o de
  <1>6. Legal(g, ev, h)
    BY <1>4, <1>5, LegalCat
  <1> HIDE DEF ev
  <1>7. Tells(g0, Push(r, d, ev), h) /\ Push(r, d, ev).d = d
    BY <1>3, <1>6, PushTells
  <1> QED
    BY <1>2, <1>3, <1>4, <1>7 DEF ev

\* What the two parts before the tool calls leave.
LEMMA OaTextTells ==
    ASSUME NEW g0, NEW r, NEW g, NEW c, Tells(g0, r, g), OaCore(r.d, g), Thinks(r.d)
    PROVE  LET q == OaContent(OaReasoning(r, c), c)
           IN  /\ q.d.openTools = r.d.openTools /\ q.d.started = r.d.started
               /\ \E h : Tells(g0, q, h) /\ OaCore(q.d, h) /\ Thinks(q.d)
  <1> DEFINE p == OaReasoning(r, c)
             q == OaContent(p, c)
  <1>1. /\ p.d.openTools = r.d.openTools /\ p.d.started = r.d.started
        /\ \E h : Tells(g0, p, h) /\ OaCore(p.d, h) /\ Thinks(p.d)
    <2>1. CASE c.reasoning
      <3>1. p = AddReasoning(r)
        BY <2>1 DEF OaReasoning
      <3> HIDE DEF p
      <3>2. Chat(r.d, g, ToolSet(r.d)) /\ (ToolSet(r.d) = {} <=> r.d.openTools = {})
        BY ToolSetNone DEF OaCore
      <3>3. /\ p.d.openTools = r.d.openTools /\ p.d.toolIr = r.d.toolIr
            /\ p.d.started = r.d.started
            /\ \E h : Tells(g0, p, h) /\ Chat(p.d, h, ToolSet(r.d)) /\ Thinks(p.d)
        BY <3>1, <3>2, AddReasoningTells
      <3>4. PICK h : Tells(g0, p, h) /\ Chat(p.d, h, ToolSet(r.d)) /\ Thinks(p.d)
        BY <3>3
      <3>5. OaCore(p.d, h)
        BY <3>3, <3>4 DEF OaCore, ToolSet
      <3> QED
        BY <3>3, <3>4, <3>5
    <2>2. CASE ~ c.reasoning
      BY <2>2 DEF OaReasoning
    <2> QED
      BY <2>1, <2>2
  <1>2. PICK k : Tells(g0, p, k) /\ OaCore(p.d, k) /\ Thinks(p.d)
    BY <1>1
  <1> HIDE DEF p
  <1>3. /\ q.d.openTools = p.d.openTools /\ q.d.started = p.d.started
        /\ \E h : Tells(g0, q, h) /\ OaCore(q.d, h) /\ Thinks(q.d)
    <2>1. CASE c.content
      <3>1. q = AddText(p)
        BY <2>1 DEF OaContent
      <3> HIDE DEF q
      <3>2. Chat(p.d, k, ToolSet(p.d))
        BY <1>2 DEF OaCore
      <3>3. /\ q.d.openTools = p.d.openTools /\ q.d.toolIr = p.d.toolIr
            /\ q.d.started = p.d.started
            /\ \E h : Tells(g0, q, h) /\ Chat(q.d, h, ToolSet(p.d)) /\ Thinks(q.d)
        BY <1>2, <3>1, <3>2, AddTextTells
      <3>4. PICK h : Tells(g0, q, h) /\ Chat(q.d, h, ToolSet(p.d)) /\ Thinks(q.d)
        BY <3>3
      <3>5. OaCore(q.d, h)
        BY <1>2, <3>3, <3>4 DEF OaCore, ToolSet
      <3> QED
        BY <3>3, <3>4, <3>5
    <2>2. CASE ~ c.content
      BY <1>2, <2>2 DEF OaContent
    <2> QED
      BY <2>1, <2>2
  <1> QED
    BY <1>1, <1>3 DEF p

\* The blocks that the finish chunk closes.
LEMMA OaCloseTells ==
    ASSUME NEW g0, NEW r, NEW g, Tells(g0, r, g), OaCore(r.d, g)
    PROVE  LET q == CloseThinking(r)
           IN  /\ q.d = [r.d EXCEPT !.thinkingOpen = FALSE]
               /\ q.d.openTools = r.d.openTools /\ q.d.started = r.d.started
               /\ ~ q.d.thinkingOpen
               /\ \E h : Tells(g0, q, h) /\ OaCore(q.d, h)
  <1> DEFINE q == CloseThinking(r)
  <1>1. Chat(r.d, g, ToolSet(r.d)) /\ r.d \in Decode
    BY DEF OaCore, Tells
  <1>2. /\ q.d = [r.d EXCEPT !.thinkingOpen = FALSE]
        /\ \E h : Tells(g0, q, h) /\ Chat(q.d, h, ToolSet(r.d))
    BY <1>1, CloseThinkingTells
  <1> HIDE DEF q
  <1>3. PICK h : Tells(g0, q, h) /\ Chat(q.d, h, ToolSet(r.d))
    BY <1>2
  <1>4. /\ q.d.openTools = r.d.openTools /\ q.d.started = r.d.started
        /\ q.d.thinkingOpen = FALSE /\ q.d.toolIr = r.d.toolIr
    BY <1>1, <1>2 DEF Decode
  <1>5. OaCore(q.d, h)
    BY <1>3, <1>4 DEF OaCore, ToolSet
  <1> QED
    BY <1>2, <1>3, <1>4, <1>5 DEF q

LEMMA WholeIs ==
    ASSUME NEW g, NEW u, g.start = NoUsage
    PROVE  Whole(g, u) = u
  BY DEF Whole

LEMMA UsageIs == /\ Zero \in [in : Int, out : Int] /\ Final \in [in : Int, out : Int]
                 /\ Begun \in [in : Int, out : Int] /\ NoUsage \in [in : Int, out : Int]
                 /\ Zero # NoUsage /\ Final # NoUsage /\ Begun # NoUsage
                 /\ Zero # Final /\ Zero # Begun /\ Final # Begun
  BY DEF Zero, Final, Begun, NoUsage

LEMMA CatAt ==
    ASSUME NEW S, NEW x \in Seq(S), NEW y \in Seq(S), NEW i \in Int,
           i > Len(x), i <= Len(x) + Len(y)
    PROVE  (x \o y)[i] = y[i - Len(x)]
  <1>1. Len(x) \in Nat /\ Len(y) \in Nat
    OBVIOUS
  <1> QED
    BY <1>1

LEMMA CatSecond ==
    ASSUME NEW S, NEW x \in Seq(S), NEW y \in Seq(S), Len(x) = 1, Len(y) = 1
    PROVE  (x \o y)[2] = y[1]
  <1>1. 2 \in Int /\ 2 > Len(x) /\ 2 <= Len(x) + Len(y) /\ 2 - Len(x) = 1
    OBVIOUS
  <1>2. (x \o y)[2] = y[2 - Len(x)]
    BY <1>1, CatAt
  <1> QED
    BY <1>1, <1>2

LEMMA CatOne ==
    ASSUME NEW S, NEW x \in Seq(S), NEW y \in Seq(S), Len(x) = 1, Len(y) = 1
    PROVE  /\ x \o y \in Seq(S) /\ Len(x \o y) = 2
           /\ (x \o y)[1] = x[1] /\ (x \o y)[2] = y[1]
  <1>1. x \o y \in Seq(S)
    OBVIOUS
  <1>2. Len(x \o y) = 2
    OBVIOUS
  <1>3. (x \o y)[1] = x[1]
    <2>1. 1 \in 1 .. Len(x)
      OBVIOUS
    <2> QED
      BY <2>1
  <1> QED
    BY <1>1, <1>2, <1>3, CatSecond

LEMMA SeqTwo ==
    ASSUME NEW S, NEW s \in Seq(S), NEW w \in Seq(S), Len(s) = 2, Len(w) = 2,
           s[1] = w[1], s[2] = w[2]
    PROVE  s = w
  <1>1. \A i \in 1 .. 2 : i = 1 \/ i = 2
    OBVIOUS
  <1>2. \A i \in 1 .. 2 : s[i] = w[i]
    BY <1>1
  <1> QED
    BY <1>2

LEMMA PairCat ==
    ASSUME NEW a, NEW b
    PROVE  <<a, b>> = <<a>> \o <<b>>
  <1> DEFINE S == {a, b}
             x == <<a>>
             y == <<b>>
             w == <<a, b>>
  <1>1. x \in Seq(S) /\ y \in Seq(S) /\ w \in Seq(S)
    OBVIOUS
  <1>2. Len(x) = 1 /\ Len(y) = 1 /\ Len(w) = 2
    OBVIOUS
  <1>3. x[1] = a /\ y[1] = b /\ w[1] = a /\ w[2] = b
    OBVIOUS
  <1> HIDE DEF x, y, w, S
  <1>4. /\ x \o y \in Seq(S) /\ Len(x \o y) = 2
        /\ (x \o y)[1] = x[1] /\ (x \o y)[2] = y[1]
    BY <1>1, <1>2, CatOne
  <1> DEFINE s == x \o y
  <1>5. /\ s \in Seq(S) /\ Len(s) = 2 /\ s[1] = w[1] /\ s[2] = w[2]
    BY <1>3, <1>4
  <1> HIDE DEF s
  <1>6. s = w
    BY <1>1, <1>2, <1>5, SeqTwo
  <1> QED
    BY <1>6 DEF x, y, w, s

\* One event; a usage; the deltas that end a message or only report; the end.
Just(e)       == <<e>>
Tokens        == [in : Int, out : Int]
Wholes        == {Zero, Final}
UsageDelta(u) == MessageDelta(FALSE, u)
FinalDelta(u) == MessageDelta(TRUE, u)
EndOf(u)      == <<FinalDelta(u), MessageStop>>

\* From g, evs end the message in h.
Ending(g, evs, h, ph, la) ==
    /\ Legal(g, evs, h) /\ h.open = {} /\ h.used = g.used /\ h.start = g.start
    /\ h.phase = ph /\ h.last = la

LEMMA TokensAre == Zero \in Tokens /\ Final \in Tokens /\ Begun \in Tokens
  BY UsageIs DEF Tokens

\* What a delta after the terminal one may say.
TerminalOk(b, v) == (b /\ v = Zero) \/ (~b /\ v = Final /\ egress = "openai")

\* A message delta whose stop flag and whole usage are known.
LEMMA TellDelta ==
    ASSUME NEW g, Told(g), NEW b \in BOOLEAN, NEW u \in [in : Int, out : Int],
           NEW v \in {Zero, Final}, Whole(g, u) = v, NEW ph \in {"terminal", "final"},
           g.phase = "body" => (b \/ g.open = {}),
           g.phase # "body" => g.phase = "terminal" /\ TerminalOk(b, v),
           b => ph = "terminal", g.phase = "terminal" => ph = "terminal",
           ph = "terminal" => b \/ g.phase = "terminal"
    PROVE  \E h : Ending(g, Just(MessageDelta(b, u)), h, ph, LastOf(g, v))
  <1> DEFINE la == LastOf(g, v)
             h == Tale({}, g.used, ph, g.start, la)
             e == MessageDelta(b, u)
  <1>0. g \in Story /\ g.open \subseteq Int \X Kinds /\ g.used \subseteq Int
        /\ g.last \in {NoUsage, Zero, Final} /\ g.start \in {NoUsage, Begun}
    BY StoryFields DEF Told
  <1>1. ph \in Phases /\ ph # "body" /\ la \in {Zero, Final}
    BY <1>0 DEF Phases, LastOf
  <1>2. Zero # NoUsage /\ Final # NoUsage
    BY UsageIs
  <1> HIDE DEF la
  <1>3. Told(h) /\ h.open = {} /\ h.used = g.used /\ h.phase = ph /\ h.start = g.start /\ h.last = la
    <2>1. Idx({}) \subseteq g.used /\ IsFiniteSet(g.used)
      BY DEF Idx, Told
    <2> QED
      BY <1>0, <1>1, <1>2, <2>1, ToldTale
  <1>4. e \in Event /\ e.ev = "MessageDelta" /\ e.stop = b /\ e.usage = u
    BY DEF Event, MessageDelta
  <1>5. After(g, e) = h
    <2>1. After(g, e) = [g EXCEPT !.open = {},
                     !.phase = IF e.stop \/ @ = "terminal" THEN "terminal" ELSE "final",
                     !.last = LastOf(g, Whole(g, e.usage))]
      BY <1>4 DEF After
    <2> HIDE DEF e
    <2>2. After(g, e) = [g EXCEPT !.open = {}, !.phase = ph, !.last = la]
      BY <2>1, <1>4, <1>0 DEF la, Story
    <2> QED
      BY <1>0, <2>2 DEF Story, Tale
  <1>6. Allowed(g, e)
    BY <1>4 DEF Allowed, TerminalOk
  <1> HIDE DEF e, h
  <1>7. Legal(g, <<e>>, h)
    BY <1>3, <1>4, <1>5, <1>6, LegalOne
  <1>8. Ending(g, <<e>>, h, ph, la)
    BY <1>3, <1>7 DEF Ending
  <1> QED
    BY <1>8 DEF e, la, Just

\* What a message delta may say, by where the story stands.
LEMMA TellEnds ==
    ASSUME NEW g, Told(g), NEW u, u \in Tokens, NEW v, v \in Wholes, Whole(g, u) = v,
           g.phase # "body" => g.phase = "terminal" /\ v = Zero
    PROVE  \E h : Ending(g, Just(FinalDelta(u)), h, "terminal", LastOf(g, v))
  <1> DEFINE la == LastOf(g, v)
             ph == "terminal"
             h == Tale({}, g.used, ph, g.start, la)
             e == MessageDelta(TRUE, u)
  <1>0. g \in Story /\ g.open \subseteq Int \X Kinds /\ g.used \subseteq Int
        /\ g.last \in {NoUsage, Zero, Final} /\ g.start \in {NoUsage, Begun}
    BY StoryFields DEF Told
  <1>1. ph \in Phases /\ ph # "body" /\ la \in {Zero, Final}
    BY <1>0 DEF Phases, LastOf, Wholes
  <1>2. Zero # NoUsage /\ Final # NoUsage
    BY UsageIs
  <1> HIDE DEF la, ph
  <1>3. Told(h) /\ h.open = {} /\ h.used = g.used /\ h.phase = ph /\ h.start = g.start /\ h.last = la
    <2>1. Idx({}) \subseteq g.used /\ IsFiniteSet(g.used)
      BY DEF Idx, Told
    <2> QED
      BY <1>0, <1>1, <1>2, <2>1, ToldTale
  <1>4. e \in Event /\ e.ev = "MessageDelta" /\ e.stop = TRUE /\ e.usage = u
    BY DEF Event, MessageDelta, Tokens
  <1>5. After(g, e) = h
    <2>1. After(g, e) = [g EXCEPT !.open = {},
                     !.phase = IF e.stop \/ @ = "terminal" THEN "terminal" ELSE "final",
                     !.last = LastOf(g, Whole(g, e.usage))]
      BY <1>4 DEF After
    <2> HIDE DEF e
    <2>2. After(g, e) = [g EXCEPT !.open = {}, !.phase = ph, !.last = la]
      BY <2>1, <1>4, <1>0 DEF la, ph, Story
    <2> QED
      BY <1>0, <2>2 DEF Story, Tale
  <1>6. Allowed(g, e)
    BY <1>4 DEF Allowed, Wholes
  <1> HIDE DEF e, h
  <1>7. Legal(g, <<e>>, h)
    BY <1>3, <1>4, <1>5, <1>6, LegalOne
  <1>8. Ending(g, <<e>>, h, ph, la)
    BY <1>3, <1>7 DEF Ending
  <1> QED
    BY <1>8 DEF e, la, ph, Just, FinalDelta

LEMMA TellUsage ==
    ASSUME NEW g, Told(g), NEW u, u \in Tokens, NEW v, v \in Wholes, Whole(g, u) = v,
           NEW ph, g.phase = "body" => g.open = {} /\ ph = "final",
           g.phase # "body" => g.phase = "terminal" /\ egress = "openai" /\ v = Final /\ ph = "terminal"
    PROVE  \E h : Ending(g, Just(UsageDelta(u)), h, ph, LastOf(g, v))
  <1> DEFINE b == FALSE
  <1>1. /\ b \in BOOLEAN /\ ph \in {"terminal", "final"}
        /\ (g.phase = "terminal" => ph = "terminal")
        /\ (ph = "terminal" => b \/ g.phase = "terminal")
        /\ (b => ph = "terminal")
        /\ (g.phase # "body" => g.phase = "terminal" /\ TerminalOk(b, v))
        /\ (g.phase = "body" => (b \/ g.open = {}))
        /\ u \in [in : Int, out : Int] /\ v \in {Zero, Final}
    BY DEF Tokens, Wholes, TerminalOk
  <1> HIDE DEF b
  <1>2. \E h : Ending(g, Just(MessageDelta(b, u)), h, ph, LastOf(g, v))
    BY <1>1, TellDelta
  <1> QED
    BY <1>2 DEF b, UsageDelta

LEMMA TellStop ==
    ASSUME NEW g, Told(g), NEW ph, g.phase = "terminal" => ph = "terminal",
           g.phase # "terminal" => ph = "end", g.phase # "end"
    PROVE  \E h : Ending(g, Just(MessageStop), h, ph, g.last)
  BY TellMessageStop DEF Ending, Just

LEMMA EndingTold ==
    ASSUME NEW g, NEW evs, NEW h, NEW ph, NEW la, Ending(g, evs, h, ph, la)
    PROVE  Told(h) /\ h.phase = ph /\ h.last = la /\ h.start = g.start /\ h.open = {}
  BY LegalEnds DEF Ending

LEMMA EndingCat ==
    ASSUME NEW g, NEW s, NEW h, NEW ph, NEW la, Ending(g, s, h, ph, la),
           NEW t, NEW k, NEW pk, NEW lk, Ending(h, t, k, pk, lk)
    PROVE  Ending(g, s \o t, k, pk, lk)
  <1>1. Legal(g, s \o t, k)
    BY LegalCat DEF Ending
  <1> QED
    BY <1>1 DEF Ending

\* The end of a message: its delta, and the stop.
LEMMA TellEnd ==
    ASSUME NEW g, Told(g), NEW u, u \in Tokens, NEW v, v \in Wholes, Whole(g, u) = v,
           g.phase # "body" => g.phase = "terminal" /\ v = Zero
    PROVE  \E h : Ending(g, EndOf(u), h, "terminal", LastOf(g, v))
  <1>1. PICK h : Ending(g, Just(FinalDelta(u)), h, "terminal", LastOf(g, v))
    BY TellEnds
  <1>2. Told(h) /\ h.phase = "terminal" /\ h.last = LastOf(g, v)
    BY <1>1, EndingTold
  <1>3. PICK k : Ending(h, Just(MessageStop), k, "terminal", h.last)
    <2>1. h.phase # "end"
      BY <1>2
    <2> QED
      BY <1>2, <2>1, TellStop
  <1>4. Ending(g, Just(FinalDelta(u)) \o Just(MessageStop), k, "terminal", h.last)
    BY <1>1, <1>3, EndingCat
  <1>5. EndOf(u) = Just(FinalDelta(u)) \o Just(MessageStop)
    BY PairCat DEF EndOf, Just
  <1> QED
    BY <1>2, <1>4, <1>5

LEMMA AscendingNone == Ascending({}) = <<>> /\ Len(Ascending({})) = 0
  <1>1. Cardinality({}) = 0
    BY FS_EmptySet
  <1>2. {} \subseteq Int /\ IsFiniteSet({})
    BY FS_EmptySet
  <1>3. Ascending({}) \in Seq({}) /\ Len(Ascending({})) = Cardinality({})
    BY <1>2, AscendingLists
  <1> QED
    BY <1>1, <1>3

Stops(q) == [n \in 1 .. Len(q) |-> BlockStop(q[n])]

\* Closing the text block and then the tool calls.
LEMMA ChatCloses ==
    ASSUME NEW d, NEW g, NEW T, Chat(d, g, T), Told(g), ~ d.thinkingOpen,
           d.textIndex \in Int, NEW q \in Seq(Int),
           \A n \in 1 .. Len(q) : q[n] \in T,
           \A m, n \in 1 .. Len(q) : q[m] = q[n] => m = n,
           NEW st, st = IF d.textOpen THEN <<BlockStop(d.textIndex)>> ELSE <<>>,
           NEW ss, ss = Stops(q)
    PROVE  \E h : /\ Legal(g, st \o ss, h)
                  /\ h.phase = "body" /\ h.start = NoUsage /\ Told(h)
  <1>1. g.phase = "body" /\ g.start = NoUsage
    BY DEF Chat
  <1>2. \E k : /\ Legal(g, st, k) /\ Same(g, k)
               /\ \A i \in T : <<i, "tool">> \in k.open
    <2>1. CASE d.textOpen
      <3>1. <<d.textIndex, "text">> \in g.open
        BY <2>1, ChatOpen DEF TextOf
      <3>2. d.textIndex \in Idx(g.open)
        BY <3>1 DEF Idx
      <3>3. PICK k : /\ Legal(g, <<BlockStop(d.textIndex)>>, k)
                     /\ k.open = {p \in g.open : p[1] # d.textIndex}
                     /\ Same(g, k)
        BY <1>1, <3>2, TellBlockStop
      <3>4. ASSUME NEW i \in T
            PROVE  <<i, "tool">> \in k.open
        <4>1. <<i, "tool">> \in g.open
          BY ChatOpen
        <4>2. i # d.textIndex
          <5>1. <<i, "tool">> # <<d.textIndex, "text">>
            OBVIOUS
          <5> QED
            BY <3>1, <4>1, <5>1 DEF Told
        <4> QED
          BY <3>3, <4>1, <4>2
      <3> QED
        BY <2>1, <3>3, <3>4
    <2>2. CASE ~ d.textOpen
      <3>1. Legal(g, st, g)
        BY <2>2, LegalNone
      <3> QED
        BY <3>1, ChatOpen DEF Same
    <2> QED
      BY <2>1, <2>2
  <1>3. PICK k : /\ Legal(g, st, k) /\ Same(g, k)
                 /\ \A i \in T : <<i, "tool">> \in k.open
    BY <1>2
  <1>4. Told(k) /\ k.phase = "body" /\ k.start = NoUsage
    BY <1>1, <1>3, LegalEnds DEF Same
  <1>5. \A n \in 1 .. Len(q) : q[n] \in Idx(k.open)
    BY <1>3 DEF Idx
  <1>6. PICK h : Legal(k, ss, h) /\ Same(k, h)
    BY <1>4, <1>5, TellStops DEF Stops
  <1>7. Legal(g, st \o ss, h)
    BY <1>3, <1>6, LegalCat
  <1>8. Told(h) /\ h.phase = "body" /\ h.start = NoUsage
    BY <1>4, <1>6, LegalEnds DEF Same
  <1> QED
    BY <1>7, <1>8

LEMMA ToolsOne ==
    ASSUME NEW r, NEW t
    PROVE  FoldLeft(OaTool, r, <<t>>) = OaTool(r, t)
  <1> DEFINE s == <<t>>
  <1>1. DOMAIN s = 1 .. Len(s) /\ Len(s) = 1 /\ s[1] = t
    OBVIOUS
  <1> HIDE DEF s
  <1>2. FoldLeft(OaTool, r, s) = FoldTo("tool", r, s, 1)
    BY <1>1, ToolFold
  <1>3. FoldTo("tool", r, s, 0 + 1) = Do("tool", FoldTo("tool", r, s, 0), s[0 + 1])
    BY FoldNext
  <1>4. FoldTo("tool", r, s, 0) = r
    BY FoldZero
  <1>5. 0 + 1 = 1
    OBVIOUS
  <1>6. Do("tool", r, t) = OaTool(r, t)
    BY DEF Do
  <1> QED
    BY <1>1, <1>2, <1>3, <1>4, <1>5, <1>6 DEF s

OaFold(r, s) == FoldLeft(OaTool, r, s)

LEMMA ToolsTwo ==
    ASSUME NEW r, NEW t, NEW v, NEW s, s = <<t, v>>, NEW x, x = OaTool(r, t)
    PROVE  OaFold(r, s) = OaTool(x, v)
  <1>1. DOMAIN s = 1 .. Len(s) /\ Len(s) = 2 /\ s[1] = t /\ s[2] = v
    OBVIOUS
  <1>2. OaFold(r, s) = FoldTo("tool", r, s, 2)
    BY <1>1, ToolFold DEF OaFold
  <1>3. FoldTo("tool", r, s, 0 + 1) = Do("tool", FoldTo("tool", r, s, 0), s[0 + 1])
    BY FoldNext
  <1>4. FoldTo("tool", r, s, 1 + 1) = Do("tool", FoldTo("tool", r, s, 1), s[1 + 1])
    BY FoldNext
  <1>5. FoldTo("tool", r, s, 0) = r
    BY FoldZero
  <1>6. 0 + 1 = 1 /\ 1 + 1 = 2
    OBVIOUS
  <1>7. Do("tool", r, t) = x
    BY DEF Do
  <1>8. Do("tool", x, v) = OaTool(x, v)
    BY DEF Do
  <1> QED
    BY <1>1, <1>2, <1>3, <1>4, <1>5, <1>6, <1>7, <1>8

\* One entry of tool_calls that the upstream may send, and several.
CallOk(t, d) == /\ t.index \in Int /\ t.named \in BOOLEAN /\ t.args \in BOOLEAN
                /\ (t.named \/ d.openTools # {})
Calls(c, d) == \/ c.tools = <<>>
               \/ \E t : c.tools = <<t>> /\ CallOk(t, d)
               \/ \E t, v : c.tools = <<t, v>> /\ CallOk(t, d) /\ CallOk(v, d)

\* What a reader that has taken r to q told, and how it left the tool calls.
Talks(g0, q) == \E h : Tells(g0, q, h) /\ OaCore(q.d, h) /\ Thinks(q.d)
Called(g0, r, q) ==
    /\ q.d.started = r.d.started /\ ~ q.d.thinkingOpen /\ q.d.openTools # {}
    /\ Talks(g0, q)

\* A chunk with one call and with two.
LEMMA OaCallTells ==
    ASSUME NEW g0, NEW r, NEW g, NEW t, Tells(g0, r, g), OaCore(r.d, g),
           ~ r.d.thinkingOpen, CallOk(t, r.d), NEW q, q = OaTool(r, t)
    PROVE  Called(g0, r, q)
  BY OaToolTells DEF CallOk, Called, Talks

LEMMA OaNextCall ==
    ASSUME NEW g0, NEW r, NEW p, Called(g0, p, r), NEW t, NEW d, CallOk(t, d),
           NEW q, q = OaTool(r, t)
    PROVE  Called(g0, p, q)
  <1>1. ~ r.d.thinkingOpen /\ CallOk(t, r.d) /\ r.d.started = p.d.started
    BY DEF Called, CallOk
  <1>2. PICK h : Tells(g0, r, h) /\ OaCore(r.d, h)
    BY DEF Called, Talks
  <1>3. Called(g0, r, q)
    BY <1>1, <1>2, OaCallTells
  <1> QED
    BY <1>1, <1>3 DEF Called

LEMMA OaToolsTwo ==
    ASSUME NEW r, NEW c, NEW t, NEW v, c.tools = <<t, v>>,
           NEW p, p = CloseThinking(r), NEW x, x = OaTool(p, t)
    PROVE  OaTools(r, c) = OaTool(x, v)
  <1>1. c.tools # <<>>
    OBVIOUS
  <1>2. OaTools(r, c) = OaFold(p, c.tools)
    BY <1>1 DEF OaTools, OaFold
  <1> DEFINE s == c.tools
  <1>3. s = <<t, v>> /\ x = OaTool(p, t)
    OBVIOUS
  <1> HIDE DEF s
  <1>4. OaFold(p, s) = OaTool(x, v)
    BY <1>3, ToolsTwo
  <1> QED
    BY <1>2, <1>4 DEF s

LEMMA OaToolsOne ==
    ASSUME NEW r, NEW c, NEW t, c.tools = <<t>>, NEW p, p = CloseThinking(r)
    PROVE  OaTools(r, c) = OaTool(p, t)
  <1>1. c.tools # <<>>
    OBVIOUS
  <1> QED
    BY <1>1, ToolsOne DEF OaTools

LEMMA OaToolsTells ==
    ASSUME NEW g0, NEW r, NEW g, NEW c, Tells(g0, r, g), OaCore(r.d, g), Thinks(r.d),
           Calls(c, r.d), NEW q, q = OaTools(r, c)
    PROVE  /\ q.d.started = r.d.started
           /\ (c.tools # <<>> \/ r.d.openTools # {} => q.d.openTools # {})
           /\ Talks(g0, q)
  <1> DEFINE p == CloseThinking(r)
  <1>0. p = CloseThinking(r)
    OBVIOUS
  <1>1. CASE c.tools = <<>>
    BY <1>1 DEF OaTools, Talks
  <1>2. /\ p.d.openTools = r.d.openTools /\ p.d.started = r.d.started
        /\ ~ p.d.thinkingOpen
        /\ \E h : Tells(g0, p, h) /\ OaCore(p.d, h)
    BY OaCloseTells
  <1>3. PICK k : Tells(g0, p, k) /\ OaCore(p.d, k)
    BY <1>2
  <1> HIDE DEF p
  <1>4. ASSUME NEW t, c.tools = <<t>>, CallOk(t, r.d)
        PROVE  Called(g0, p, q)
    <2>1. q = OaTool(p, t)
      BY <1>0, <1>4, OaToolsOne
    <2>2. CallOk(t, p.d)
      BY <1>2, <1>4 DEF CallOk
    <2> QED
      BY <1>2, <1>3, <2>1, <2>2, OaCallTells
  <1>5. ASSUME NEW t, NEW v, c.tools = <<t, v>>, CallOk(t, r.d), CallOk(v, r.d)
        PROVE  Called(g0, p, q)
    <2> DEFINE x == OaTool(p, t)
    <2>1. x = OaTool(p, t)
      OBVIOUS
    <2> HIDE DEF x
    <2>2. q = OaTool(x, v)
      BY <1>0, <1>5, <2>1, OaToolsTwo
    <2>3. CallOk(t, p.d)
      BY <1>2, <1>5 DEF CallOk
    <2>4. Called(g0, p, x)
      BY <1>2, <1>3, <2>1, <2>3, OaCallTells
    <2> QED
      BY <1>5, <2>2, <2>4, OaNextCall
  <1>6. CASE c.tools # <<>>
    <2>1. Called(g0, p, q)
      BY <1>4, <1>5, <1>6 DEF Calls
    <2> QED
      BY <1>2, <2>1 DEF Called
  <1> QED
    BY <1>1, <1>6

\* The decode state with everything closed.
OaCleared(d) == [d EXCEPT !.textOpen = FALSE, !.openTools = {}, !.toolIr = [i \in {} |-> 0]]

LEMMA FinishDecode ==
    ASSUME NEW d \in Decode, NEW e, e = OaCleared(d)
    PROVE  /\ e \in Decode /\ e.started = d.started /\ e.thinkingOpen = d.thinkingOpen
           /\ ~ e.textOpen /\ e.openTools = {}
  <1> DEFINE m == [i \in {} |-> 0]
             w == [d EXCEPT !.textOpen = FALSE, !.openTools = {}, !.toolIr = m]
  <1>1. m \in IrMaps
    BY MapsEmpty
  <1>0. e = w
    BY DEF OaCleared
  <1> HIDE DEF m
  <1>2. w \in Decode
    BY <1>1 DEF Decode
  <1>3. w.started = d.started /\ w.thinkingOpen = d.thinkingOpen
        /\ ~ w.textOpen /\ w.openTools = {}
    BY DEF Decode
  <1> HIDE DEF w
  <1> QED
    BY <1>0, <1>2, <1>3

\* The stops of the open tool calls, and of the text block before them.
OaCloses(d) ==
    LET tools == Ascending(d.openTools \cap DOMAIN d.toolIr)
    IN  (IF d.textOpen THEN <<BlockStop(d.textIndex)>> ELSE <<>>)
        \o [n \in 1..Len(tools) |-> BlockStop(d.toolIr[tools[n]])]

LEMMA OaClosesTells ==
    ASSUME NEW d \in Decode, NEW g, Told(g), OaCore(d, g), ~ d.thinkingOpen
    PROVE  \E h : Legal(g, OaCloses(d), h) /\ h.phase = "body" /\ h.start = NoUsage /\ Told(h)
  <1> DEFINE S == d.openTools \cap DOMAIN d.toolIr
             tools == Ascending(S)
  <1>1. S = d.openTools /\ S \subseteq Int /\ IsFiniteSet(S) /\ d.textIndex \in Int
    BY DecodeFields DEF OaCore
  <1> HIDE DEF S
  <1>2. /\ tools \in Seq(S) /\ Len(tools) = Cardinality(S)
        /\ \A m, n \in 1 .. Len(tools) : tools[m] = tools[n] => m = n
    BY <1>1, AscendingLists
  <1> HIDE DEF tools
  <1>3. \A n \in 1 .. Len(tools) : tools[n] \in S
    BY <1>2
  <1> DEFINE q == [n \in 1 .. Len(tools) |-> d.toolIr[tools[n]]]
  <1>4. \A i \in S : d.toolIr[i] \in Int /\ d.toolIr[i] \in ToolSet(d)
    <2>1. d.toolIr \in IrMaps /\ DOMAIN d.toolIr = S
      BY <1>1, DecodeFields DEF OaCore
    <2>2. \A i \in DOMAIN d.toolIr : d.toolIr[i] \in Int
      BY <2>1, IrMapsIn
    <2> QED
      BY <1>1, <2>1, <2>2 DEF ToolSet
  <1>5. Len(tools) \in Nat
    BY <1>2
  <1>6. q \in Seq(Int) /\ Len(q) = Len(tools)
    BY <1>3, <1>4, <1>5
  <1>7. \A n \in 1 .. Len(q) : q[n] \in ToolSet(d)
    BY <1>3, <1>4, <1>6
  <1>8. \A m, n \in 1 .. Len(q) : q[m] = q[n] => m = n
    <2>1. \A i, j \in S : d.toolIr[i] = d.toolIr[j] => i = j
      BY <1>1 DEF OaCore
    <2>2. \A n \in 1 .. Len(q) : q[n] = d.toolIr[tools[n]] /\ tools[n] \in S
      BY <1>3, <1>6
    <2>3. \A m, n \in 1 .. Len(q) : tools[m] = tools[n] => m = n
      BY <1>2, <1>6
    <2> HIDE DEF q
    <2> QED
      BY <2>1, <2>2, <2>3
  <1>9. [n \in 1 .. Len(q) |-> BlockStop(q[n])]
           = [n \in 1 .. Len(tools) |-> BlockStop(d.toolIr[tools[n]])]
    BY <1>6
  <1>10. Chat(d, g, ToolSet(d))
    BY DEF OaCore
  <1> DEFINE st == IF d.textOpen THEN <<BlockStop(d.textIndex)>> ELSE <<>>
             ss == Stops(q)
  <1>11. /\ st = IF d.textOpen THEN <<BlockStop(d.textIndex)>> ELSE <<>>
         /\ ss = Stops(q)
    OBVIOUS
  <1>12. OaCloses(d) = st \o ss
    BY <1>9 DEF OaCloses, tools, S, Stops
  <1> HIDE DEF q, st, ss
  <1>13. \E h : Legal(g, st \o ss, h) /\ h.phase = "body" /\ h.start = NoUsage /\ Told(h)
    BY <1>1, <1>6, <1>7, <1>8, <1>10, <1>11, ChatCloses
  <1> QED
    BY <1>12, <1>13

\* What the finish chunk leaves: everything closed, and the message ended.
OaDone(q, g0, r, la) ==
    /\ q.d.started = r.d.started /\ ~ q.d.thinkingOpen /\ ~ q.d.textOpen
    /\ q.d.openTools = {}
    /\ \E h : Tells(g0, q, h) /\ h.phase = "terminal" /\ h.start = NoUsage
              /\ h.last = la

\* Where it may come: in the body, or again after the end with nothing to add.
OaMayEnd(d, g, u) ==
    \/ OaCore(d, g)
    \/ /\ g.phase = "terminal" /\ g.start = NoUsage /\ u = Zero
       /\ ~ d.thinkingOpen /\ ~ d.textOpen /\ d.openTools = {}

\* The usage of a chunk that finishes.
UsageOf(c, u) == IF c.usage = NoUsage THEN u = Zero ELSE u = c.usage

LEMMA OaFinishIs ==
    ASSUME NEW r, NEW c, c.finish, NEW u, UsageOf(c, u), NEW p, p = CloseThinking(r),
           NEW e, e = OaCleared(p.d),
           NEW x, x = OaCloses(p.d)
    PROVE  OaFinish(r, c) = Push(p, e, x \o EndOf(u))
  <1> DEFINE w == IF c.usage = NoUsage THEN Zero ELSE c.usage
  <1>1. w = u
    BY DEF UsageOf
  <1>2. OaFinish(r, c) = Push(p, e, OaCloses(p.d) \o <<MessageDelta(TRUE, w), MessageStop>>)
    BY DEF OaFinish, OaCloses, OaCleared
  <1> HIDE DEF w
  <1> QED
    BY <1>1, <1>2 DEF EndOf, FinalDelta

\* p closed what r left open, by x.
OaClosed(p, g0, r, g, u, x) ==
    /\ ~ p.d.thinkingOpen /\ p.d.started = r.d.started /\ p.d \in Decode
    /\ \E k, h : /\ Tells(g0, p, k) /\ Legal(k, x, h) /\ Told(h)
                 /\ h.start = NoUsage /\ LastOf(h, u) = LastOf(g, u)
                 /\ (h.phase = "body" \/ (h.phase = "terminal" /\ u = Zero))

LEMMA OaFinishCloses ==
    ASSUME NEW g0, NEW r, NEW g, Tells(g0, r, g), NEW u, OaMayEnd(r.d, g, u),
           NEW p, p = CloseThinking(r), NEW x, x = OaCloses(p.d)
    PROVE  OaClosed(p, g0, r, g, u, x)
  <1>1. CASE OaCore(r.d, g)
    <2>1. /\ p.d.started = r.d.started /\ ~ p.d.thinkingOpen
          /\ \E k : Tells(g0, p, k) /\ OaCore(p.d, k)
      BY <1>1, OaCloseTells
    <2>2. PICK k : Tells(g0, p, k) /\ OaCore(p.d, k)
      BY <2>1
    <2>3. Told(k) /\ p.d \in Decode /\ Told(g)
      BY <2>2, LegalEnds DEF Tells
    <2> DEFINE d == p.d
    <2>a. d \in Decode /\ OaCore(d, k) /\ ~ d.thinkingOpen /\ x = OaCloses(d)
      BY <2>1, <2>2, <2>3
    <2> HIDE DEF d
    <2>4. PICK h : Legal(k, x, h) /\ h.phase = "body" /\ h.start = NoUsage /\ Told(h)
      BY <2>3, <2>a, OaClosesTells
    <2>5. h.last = NoUsage /\ g.last = NoUsage
      BY <2>3, <2>4, <1>1 DEF Told, OaCore, Chat
    <2>6. LastOf(h, u) = LastOf(g, u)
      BY <2>5 DEF LastOf
    <2> QED
      BY <2>1, <2>2, <2>3, <2>4, <2>6 DEF OaClosed
  <1>2. CASE /\ g.phase = "terminal" /\ g.start = NoUsage /\ u = Zero
             /\ ~ r.d.thinkingOpen /\ ~ r.d.textOpen /\ r.d.openTools = {}
    <2>1. p = r
      BY <1>2 DEF CloseThinking
    <2>2. r.d.openTools \cap DOMAIN r.d.toolIr = {}
      BY <1>2
    <2>3. OaCloses(r.d) = <<>> \o [n \in 1 .. Len(Ascending({})) |-> BlockStop(r.d.toolIr[Ascending({})[n]])]
      BY <1>2, <2>2 DEF OaCloses
    <2>4. OaCloses(r.d) = <<>>
      BY <2>3, AscendingNone
    <2>5. Told(g) /\ r.d \in Decode
      BY LegalEnds DEF Tells
    <2>6. Legal(g, x, g)
      BY <2>1, <2>4, <2>5, LegalNone
    <2> QED
      BY <1>2, <2>1, <2>5, <2>6 DEF OaClosed
  <1> QED
    BY <1>1, <1>2 DEF OaMayEnd

\* The finish chunk closes the blocks and ends the message.
LEMMA OaFinishTells ==
    ASSUME NEW g0, NEW r, NEW g, NEW c, Tells(g0, r, g), c.finish,
           NEW u, u \in Wholes, UsageOf(c, u), NEW q, q = OaFinish(r, c),
           OaMayEnd(r.d, g, u)
    PROVE  OaDone(q, g0, r, LastOf(g, u))
  <1> DEFINE p == CloseThinking(r)
             e == OaCleared(p.d)
             x == OaCloses(p.d)
             evs == x \o EndOf(u)
  <1>a. /\ p = CloseThinking(r) /\ x = OaCloses(p.d) /\ evs = x \o EndOf(u)
        /\ e = OaCleared(p.d)
    OBVIOUS
  <1> HIDE DEF p, e, x, evs
  <1>0. q = Push(p, e, evs)
    BY <1>a, OaFinishIs
  <1>1. /\ ~ p.d.thinkingOpen /\ p.d.started = r.d.started /\ p.d \in Decode
        /\ \E k, h : /\ Tells(g0, p, k) /\ Legal(k, x, h) /\ Told(h)
                     /\ h.start = NoUsage /\ LastOf(h, u) = LastOf(g, u)
                     /\ (h.phase = "body" \/ (h.phase = "terminal" /\ u = Zero))
    <2>1. OaClosed(p, g0, r, g, u, x)
      BY <1>a, OaFinishCloses
    <2> QED
      BY <2>1 DEF OaClosed
  <1>2. PICK k, h : /\ Tells(g0, p, k) /\ Legal(k, x, h) /\ Told(h)
                    /\ h.start = NoUsage /\ LastOf(h, u) = LastOf(g, u)
                    /\ (h.phase = "body" \/ (h.phase = "terminal" /\ u = Zero))
    BY <1>1
  <1>3. PICK w : Ending(h, EndOf(u), w, "terminal", LastOf(h, u))
    <2>1. u \in Tokens /\ Whole(h, u) = u
      BY <1>2, TokensAre, WholeIs DEF Wholes
    <2>2. h.phase # "body" => h.phase = "terminal" /\ u = Zero
      BY <1>2
    <2> QED
      BY <1>2, <2>1, <2>2, TellEnd
  <1>3a. Legal(h, EndOf(u), w) /\ w.phase = "terminal" /\ w.start = NoUsage /\ w.last = LastOf(g, u)
    BY <1>2, <1>3 DEF Ending
  <1>4. Legal(k, evs, w)
    BY <1>2, <1>3a, <1>a, LegalCat
  <1> DEFINE pd == p.d
  <1>b. pd \in Decode /\ e = OaCleared(pd)
    BY <1>1, <1>a
  <1> HIDE DEF pd
  <1>5. /\ e \in Decode /\ e.started = pd.started
        /\ ~ e.textOpen /\ e.openTools = {} /\ e.thinkingOpen = pd.thinkingOpen
    BY <1>b, FinishDecode
  <1>6. Tells(g0, q, w) /\ q.d = e
    BY <1>0, <1>2, <1>4, <1>5, PushTells
  <1> QED
    BY <1>1, <1>3a, <1>5, <1>6 DEF OaDone, pd

LEMMA StartDecode ==
    ASSUME NEW d \in Decode, NEW e, e = [d EXCEPT !.started = TRUE]
    PROVE  /\ e \in Decode /\ e.started /\ e.openTools = d.openTools
           /\ e.toolIr = d.toolIr /\ e.thinkingOpen = d.thinkingOpen
           /\ e.textOpen = d.textOpen /\ e.textIndex = d.textIndex
           /\ e.reasoningSeen = d.reasoningSeen /\ e.nextIr = d.nextIr
           /\ e.textClosed = d.textClosed /\ e.textSeen = d.textSeen
           /\ e.pendingStop = d.pendingStop
           /\ (d.started => e = d)
  <1>1. e \in Decode
    BY DEF Decode
  <1>2. /\ e.started /\ e.openTools = d.openTools
        /\ e.toolIr = d.toolIr /\ e.thinkingOpen = d.thinkingOpen
        /\ e.textOpen = d.textOpen /\ e.textIndex = d.textIndex
        /\ e.reasoningSeen = d.reasoningSeen /\ e.nextIr = d.nextIr
        /\ e.textClosed = d.textClosed /\ e.textSeen = d.textSeen
        /\ e.pendingStop = d.pendingStop
    BY DEF Decode
  <1>3. d.started => e = d
    BY DEF Decode
  <1> QED
    BY <1>1, <1>2, <1>3

LEMMA ResultIs ==
    ASSUME NEW d, NEW evs
    PROVE  Result(d, evs).d = d /\ Result(d, evs).evs = evs
  BY DEF Result

LEMMA ResultNone ==
    ASSUME NEW d \in Decode, NEW g, Told(g)
    PROVE  Tells(g, Result(d, <<>>), g)
  BY ResultIs, LegalNone DEF Tells

\* The parts of the openai reader before the finish, applied to d.
OaBody(d, c) == OaTools(OaContent(OaReasoning(OaStart(Result(d, <<>>)), c), c), c)

\* A chunk of the body goes on with the story.
LEMMA OaBodyTells ==
    ASSUME NEW d \in Decode, NEW g, Told(g), OaCore(d, g), Thinks(d), NEW c, Calls(c, d),
           NEW q, q = OaBody(d, c)
    PROVE  /\ q.d.started
           /\ (c.tools # <<>> \/ d.openTools # {} => q.d.openTools # {})
           /\ Talks(g, q)
  <1> DEFINE r0 == Result(d, <<>>)
             r1 == OaStart(r0)
             r2 == OaContent(OaReasoning(r1, c), c)
  <1>0. q = OaTools(r2, c)
    BY DEF OaBody
  <1>1. Tells(g, r0, g) /\ r0.d = d
    BY ResultNone, ResultIs
  <1> HIDE DEF r0
  <1>2. g.phase = "body"
    BY DEF OaCore, Chat
  <1>3. Tells(g, r1, g) /\ r1.d = [d EXCEPT !.started = TRUE]
    BY <1>1, <1>2, StartTells
  <1> DEFINE e == r1.d
  <1>4. e = [d EXCEPT !.started = TRUE]
    BY <1>3
  <1> HIDE DEF r1, e
  <1>5. /\ e.started /\ e.openTools = d.openTools
        /\ e.toolIr = d.toolIr /\ e.thinkingOpen = d.thinkingOpen
        /\ e.textOpen = d.textOpen /\ e.textIndex = d.textIndex
        /\ e.reasoningSeen = d.reasoningSeen /\ e.nextIr = d.nextIr
    BY <1>4, StartDecode
  <1>6. OaCore(e, g) /\ Thinks(e)
    <2>1. Chat(d, g, ToolSet(d))
      BY DEF OaCore
    <2>2. Chat(e, g, ToolSet(d)) /\ Thinks(e)
      BY <2>1, <1>5, ChatSame
    <2> QED
      BY <2>2, <1>5, OaCoreSame
  <1>7. /\ r2.d.openTools = d.openTools /\ r2.d.started
        /\ \E h : Tells(g, r2, h) /\ OaCore(r2.d, h) /\ Thinks(r2.d)
    <2>1. OaCore(r1.d, g) /\ Thinks(r1.d)
      BY <1>6 DEF e
    <2> QED
      BY <1>3, <1>5, <2>1, OaTextTells DEF e
  <1>8. PICK h : Tells(g, r2, h) /\ OaCore(r2.d, h) /\ Thinks(r2.d)
    BY <1>7
  <1> HIDE DEF r2
  <1>9. Calls(c, r2.d)
    BY <1>7 DEF Calls, CallOk
  <1> QED
    BY <1>0, <1>7, <1>8, <1>9, OaToolsTells

\* The fields of an upstream.
LEMMA UpFields ==
    ASSUME NEW u \in UpType
    PROVE  /\ u.phase \in {"head", "body", "stopped", "tail", "closed"}
           /\ u.used \subseteq Int /\ u.sent \in {NoUsage, Zero, Final}
           /\ u.fault \in BOOLEAN /\ u.frames \in Nat
           /\ u.open \subseteq UpBlocks
  BY DEF UpType

LEMMA SendsIs ==
    ASSUME NEW f, NEW u \in UpType, NEW s, s = Sends(f, u)
    PROVE  /\ s.frame = f /\ s.next \in UpType /\ s.next.frames = u.frames + 1
           /\ s.next.phase = u.phase /\ s.next.open = u.open /\ s.next.used = u.used
           /\ s.next.sent = u.sent /\ s.next.kind = u.kind /\ s.next.fault = u.fault
  <1> DEFINE n == [u EXCEPT !.frames = @ + 1]
  <1>1. s.frame = f /\ s.next = n
    BY DEF Sends
  <1>2. n \in UpType
    BY DEF UpType
  <1>3. /\ n.frames = u.frames + 1 /\ n.phase = u.phase /\ n.open = u.open
        /\ n.used = u.used /\ n.sent = u.sent /\ n.kind = u.kind /\ n.fault = u.fault
    BY DEF UpType
  <1> HIDE DEF n
  <1> QED
    BY <1>1, <1>2, <1>3

\* Two states of the upstream that differ in their frames only.
Alike(n, v) ==
    /\ n \in UpType /\ n.frames = v.frames + 1
    /\ n.phase = v.phase /\ n.open = v.open /\ n.used = v.used
    /\ n.sent = v.sent /\ n.kind = v.kind /\ n.fault = v.fault

LEMMA SendsAlike ==
    ASSUME NEW f, NEW v \in UpType, NEW s, s = Sends(f, v)
    PROVE  s.frame = f /\ Alike(s.next, v)
  BY SendsIs DEF Alike

LEMMA GoesIs ==
    ASSUME NEW u \in UpType, NEW p \in {"head", "body", "stopped", "tail", "closed"},
           NEW v, v = Goes(u, p)
    PROVE  /\ v \in UpType /\ v.frames = u.frames /\ v.phase = p /\ v.open = u.open
           /\ v.used = u.used /\ v.sent = u.sent /\ v.kind = u.kind /\ v.fault = u.fault
  <1> DEFINE w == [u EXCEPT !.phase = p]
  <1>1. w \in UpType
    BY DEF UpType
  <1>2. /\ w.frames = u.frames /\ w.phase = p /\ w.open = u.open
        /\ w.used = u.used /\ w.sent = u.sent /\ w.kind = u.kind /\ w.fault = u.fault
    BY DEF UpType
  <1>3. v = w
    BY DEF Goes
  <1> HIDE DEF w
  <1> QED
    BY <1>1, <1>2, <1>3

LEMMA EndedIs ==
    ASSUME NEW u \in UpType, NEW p \in {"head", "body", "stopped", "tail", "closed"},
           NEW x \in {NoUsage, Zero, Final}, NEW v, v = Ended(u, p, x)
    PROVE  /\ v \in UpType /\ v.frames = u.frames /\ v.phase = p /\ v.open = u.open
           /\ v.used = u.used /\ v.sent = x /\ v.kind = u.kind /\ v.fault = u.fault
  <1> DEFINE w == [u EXCEPT !.phase = p, !.sent = x]
  <1>1. w \in UpType
    BY DEF UpType
  <1>2. /\ w.frames = u.frames /\ w.phase = p /\ w.open = u.open
        /\ w.used = u.used /\ w.sent = x /\ w.kind = u.kind /\ w.fault = u.fault
    BY DEF UpType
  <1>3. v = w
    BY DEF Ended
  <1> HIDE DEF w
  <1> QED
    BY <1>1, <1>2, <1>3

LEMMA FaultedIs ==
    ASSUME NEW u \in UpType, NEW v, v = Faulted(u)
    PROVE  /\ v \in UpType /\ v.frames = u.frames /\ v.phase = "closed"
           /\ v.open = u.open /\ v.used = u.used /\ v.sent = u.sent /\ v.kind = u.kind
  <1> DEFINE w == [u EXCEPT !.fault = TRUE, !.phase = "closed"]
  <1>1. w \in UpType
    BY DEF UpType
  <1>2. /\ w.frames = u.frames /\ w.phase = "closed"
        /\ w.open = u.open /\ w.used = u.used /\ w.sent = u.sent /\ w.kind = u.kind
    BY DEF UpType
  <1>3. v = w
    BY DEF Faulted
  <1> HIDE DEF w
  <1> QED
    BY <1>1, <1>2, <1>3

LEMMA OpensIs ==
    ASSUME NEW u \in UpType, NEW k \in Kinds, NextIndex(u) \in Int, NEW v, v = Opens(u, k)
    PROVE  /\ v \in UpType /\ v.frames = u.frames /\ v.phase = u.phase
           /\ v.open = {NextIndex(u)} /\ v.used = u.used \cup {NextIndex(u)}
           /\ v.sent = u.sent /\ v.kind = k /\ v.fault = u.fault
  <1> DEFINE i == NextIndex(u)
             w == [u EXCEPT !.open = {i}, !.used = @ \cup {i}, !.kind = k]
  <1>3. v = w
    BY DEF Opens
  <1> HIDE DEF i
  <1>0. i \in Int /\ i \in UpBlocks /\ k \in UpKinds
    BY DEF i, UpBlocks, UpKinds
  <1>1. w \in UpType
    BY <1>0 DEF UpType
  <1>2. /\ w.frames = u.frames /\ w.phase = u.phase
        /\ w.open = {i} /\ w.used = u.used \cup {i}
        /\ w.sent = u.sent /\ w.kind = k /\ w.fault = u.fault
    BY DEF UpType
  <1> HIDE DEF w
  <1> QED
    BY <1>1, <1>2, <1>3 DEF i

LEMMA ShutsIs ==
    ASSUME NEW u \in UpType, NEW v, v = Shuts(u)
    PROVE  /\ v \in UpType /\ v.frames = u.frames /\ v.phase = u.phase /\ v.open = {}
           /\ v.used = u.used /\ v.sent = u.sent /\ v.kind = u.kind /\ v.fault = u.fault
  <1> DEFINE w == [u EXCEPT !.open = {}]
  <1>1. w \in UpType
    BY DEF UpType
  <1>2. /\ w.frames = u.frames /\ w.phase = u.phase /\ w.open = {}
        /\ w.used = u.used /\ w.sent = u.sent /\ w.kind = u.kind /\ w.fault = u.fault
    BY DEF UpType
  <1>3. v = w
    BY DEF Shuts
  <1> HIDE DEF w
  <1> QED
    BY <1>1, <1>2, <1>3

\* A call that goes on is the continuation of one that is open.
OaReady(d, u) == u.phase = "head" /\ u.used # {} => d.openTools # {}

\* A chunk after the finish chunk, one before it, and the finish chunk.
OaLate(u, c, n) ==
    /\ u.phase = "tail" /\ n.phase = "tail" /\ n.fault = u.fault
    /\ ~ c.reasoning /\ ~ c.content /\ c.tools = <<>>
    /\ \/ ~ c.finish /\ ~ c.choice /\ c.usage = Final /\ n.sent = Final
       \/ c.finish /\ c.usage = NoUsage /\ n.sent = u.sent
OaEarly(u, d, c, n) ==
    /\ u.phase = "head" /\ ~ c.finish /\ c.usage = NoUsage /\ Calls(c, d)
    /\ \/ n.phase = "head" /\ n.sent = u.sent /\ n.fault = u.fault
          /\ (n.used = u.used \/ c.tools # <<>>)
       \/ n.phase = "closed"
OaLast(u, d, c, n) ==
    /\ u.phase = "head" /\ c.finish /\ c.usage \in {NoUsage, Final}
    /\ Calls(c, d) /\ n.phase = "tail" /\ n.fault = u.fault
    /\ (c.usage = NoUsage => n.sent = u.sent)
    /\ (c.usage # NoUsage => n.sent = c.usage)

\* What a chunk of the openai upstream carries, and where it leaves it.
LEMMA OpenAiSendsIs ==
    ASSUME NEW u \in UpType, u.phase \in {"head", "tail"}, NEW s \in OpenAiSends(u),
           NEW d, OaReady(d, u), NEW c, c = s.frame, NEW n, n = s.next
    PROVE  /\ n \in UpType /\ n.frames = u.frames + 1
           /\ OaLate(u, c, n) \/ OaEarly(u, d, c, n) \/ OaLast(u, d, c, n)
  <1>0. u.used \subseteq Int /\ u.sent \in {NoUsage, Zero, Final} /\ ToolIdx \subseteq Int
    BY ReadersAssumption, UpFields
  <1>a. /\ ~ OaChunk.reasoning /\ ~ OaChunk.content /\ OaChunk.tools = <<>>
        /\ ~ OaChunk.finish /\ OaChunk.choice /\ OaChunk.usage = NoUsage
    BY DEF OaChunk
  <1>1. CASE u.phase = "tail"
    <2>1. \/ s = Sends([OaChunk EXCEPT !.choice = FALSE, !.usage = Final], Ended(u, "tail", Final))
          \/ s = Sends([OaChunk EXCEPT !.finish = TRUE], u)
      BY <1>1 DEF OpenAiSends
    <2>2. CASE s = Sends([OaChunk EXCEPT !.choice = FALSE, !.usage = Final], Ended(u, "tail", Final))
      <3> DEFINE v == Ended(u, "tail", Final)
                 f == [OaChunk EXCEPT !.choice = FALSE, !.usage = Final]
      <3>1. v \in UpType /\ v.phase = u.phase /\ v.fault = u.fault /\ v.sent = Final /\ v.frames = u.frames
        BY <1>1, EndedIs
      <3>2. /\ ~ f.reasoning /\ ~ f.content /\ f.tools = <<>>
            /\ ~ f.finish /\ ~ f.choice /\ f.usage = Final
        BY DEF OaChunk
      <3> HIDE DEF v, f
      <3>3. s = Sends(f, v)
        BY <2>2 DEF f, v
      <3> QED
        BY <1>1, <3>1, <3>2, <3>3, SendsIs DEF OaLate
    <2>3. CASE s = Sends([OaChunk EXCEPT !.finish = TRUE], u)
      <3> DEFINE f == [OaChunk EXCEPT !.finish = TRUE]
      <3>2. /\ ~ f.reasoning /\ ~ f.content /\ f.tools = <<>>
            /\ f.finish /\ f.choice /\ f.usage = NoUsage
        BY DEF OaChunk
      <3> HIDE DEF f
      <3>3. s = Sends(f, u)
        BY <2>3 DEF f
      <3> QED
        BY <1>1, <3>2, <3>3, SendsIs DEF OaLate
    <2> QED
      BY <2>1, <2>2, <2>3
  <1>2. CASE u.phase = "head"
    <2> DEFINE fresh == ToolIdx \ u.used
    <2>1. \/ s = Sends([OaChunk EXCEPT !.reasoning = TRUE], u)
          \/ s = Sends([OaChunk EXCEPT !.content = TRUE], u)
          \/ s = Sends([OaChunk EXCEPT !.reasoning = TRUE, !.content = TRUE], u)
          \/ s = Sends([OaChunk EXCEPT !.choice = FALSE], Faulted(u))
          \/ \E i \in fresh, a \in BOOLEAN : s = OaNamed(u, i, a)
          \/ \E i \in u.used : s = OaArgs(u, i)
          \/ \E i \in fresh, j \in fresh : s = OaPair(u, i, j)
          \/ \E x \in BOOLEAN, v \in {NoUsage, Final} : s = OaEnds(u, x, v)
      BY <1>2 DEF OpenAiSends
    <2>2. ASSUME NEW f, s = Sends(f, u), f.tools = <<>>, ~ f.finish, f.usage = NoUsage
          PROVE  /\ n \in UpType /\ n.frames = u.frames + 1
                 /\ ~ c.finish /\ c.usage = NoUsage /\ Calls(c, d)
                 /\ n.phase = "head" /\ n.sent = u.sent /\ n.fault = u.fault /\ n.used = u.used
      <3>1. c = f /\ n \in UpType /\ n.frames = u.frames + 1 /\ n.phase = u.phase /\ n.used = u.used
            /\ n.sent = u.sent /\ n.fault = u.fault
        BY <2>2, SendsIs
      <3> QED
        BY <1>2, <2>2, <3>1 DEF Calls
    <2>3. CASE s = Sends([OaChunk EXCEPT !.reasoning = TRUE], u)
      <3> DEFINE f == [OaChunk EXCEPT !.reasoning = TRUE]
      <3>1. f.tools = <<>> /\ ~ f.finish /\ f.usage = NoUsage
        BY DEF OaChunk
      <3>2. s = Sends(f, u)
        BY <2>3
      <3> HIDE DEF f
      <3> QED
        BY <1>2, <3>1, <3>2, <2>2 DEF OaEarly
    <2>4. CASE s = Sends([OaChunk EXCEPT !.content = TRUE], u)
      <3> DEFINE f == [OaChunk EXCEPT !.content = TRUE]
      <3>1. f.tools = <<>> /\ ~ f.finish /\ f.usage = NoUsage
        BY DEF OaChunk
      <3>2. s = Sends(f, u)
        BY <2>4
      <3> HIDE DEF f
      <3> QED
        BY <1>2, <3>1, <3>2, <2>2 DEF OaEarly
    <2>5. CASE s = Sends([OaChunk EXCEPT !.reasoning = TRUE, !.content = TRUE], u)
      <3> DEFINE f == [OaChunk EXCEPT !.reasoning = TRUE, !.content = TRUE]
      <3>1. f.tools = <<>> /\ ~ f.finish /\ f.usage = NoUsage
        BY DEF OaChunk
      <3>2. s = Sends(f, u)
        BY <2>5
      <3> HIDE DEF f
      <3> QED
        BY <1>2, <3>1, <3>2, <2>2 DEF OaEarly
    <2>6. CASE s = Sends([OaChunk EXCEPT !.choice = FALSE], Faulted(u))
      <3> DEFINE f == [OaChunk EXCEPT !.choice = FALSE]
                 v == Faulted(u)
      <3>1. f.tools = <<>> /\ ~ f.finish /\ f.usage = NoUsage
        BY DEF OaChunk
      <3>2. v \in UpType /\ v.phase = "closed" /\ v.frames = u.frames
        BY FaultedIs
      <3>3. s = Sends(f, v)
        BY <2>6
      <3> HIDE DEF f, v
      <3>4. c = f /\ n \in UpType /\ n.frames = u.frames + 1 /\ n.phase = "closed"
        BY <3>2, <3>3, SendsIs
      <3> QED
        BY <1>2, <3>1, <3>4 DEF Calls, OaEarly
    <2>7. ASSUME NEW i \in fresh, NEW a \in BOOLEAN,
                s = OaNamed(u, i, a)
          PROVE  /\ n \in UpType /\ n.frames = u.frames + 1
                 /\ ~ c.finish /\ c.usage = NoUsage /\ Calls(c, d) /\ c.tools # <<>>
                 /\ n.phase = "head" /\ n.sent = u.sent /\ n.fault = u.fault
      <3> DEFINE t == OaCall(i, TRUE, a)
                 f == [OaChunk EXCEPT !.tools = <<t>>]
                 v == [u EXCEPT !.used = @ \cup {i}]
      <3>0. i \in Int
        BY <1>0
      <3>1. f.tools = <<t>> /\ ~ f.finish /\ f.usage = NoUsage /\ f.tools # <<>>
        BY DEF OaChunk
      <3>2. v \in UpType /\ v.phase = u.phase /\ v.frames = u.frames /\ v.sent = u.sent /\ v.fault = u.fault
        BY <1>0, <3>0 DEF UpType
      <3>3. s = Sends(f, v)
        BY <2>7 DEF OaNamed
      <3>5. t.index \in Int /\ t.named /\ t.named \in BOOLEAN /\ t.args \in BOOLEAN
        BY <3>0 DEF OaCall
      <3> HIDE DEF f, v, t
      <3>4. c = f /\ n \in UpType /\ n.frames = u.frames + 1 /\ n.phase = "head" /\ n.sent = u.sent /\ n.fault = u.fault
        BY <1>2, <3>2, <3>3, SendsIs
      <3>6. Calls(c, d)
        BY <3>1, <3>4, <3>5 DEF Calls, CallOk
      <3> QED
        BY <3>1, <3>4, <3>6
    <2>8. ASSUME NEW i \in u.used,
                s = OaArgs(u, i)
          PROVE  /\ n \in UpType /\ n.frames = u.frames + 1
                 /\ ~ c.finish /\ c.usage = NoUsage /\ Calls(c, d) /\ c.tools # <<>>
                 /\ n.phase = "head" /\ n.sent = u.sent /\ n.fault = u.fault
      <3> DEFINE t == OaCall(i, FALSE, TRUE)
                 f == [OaChunk EXCEPT !.tools = <<t>>]
      <3>0. i \in Int
        BY <1>0
      <3>1. f.tools = <<t>> /\ ~ f.finish /\ f.usage = NoUsage /\ f.tools # <<>>
        BY DEF OaChunk
      <3>3. s = Sends(f, u)
        BY <2>8 DEF OaArgs
      <3>5. t.index \in Int /\ t.named \in BOOLEAN /\ t.args \in BOOLEAN /\ d.openTools # {}
        BY <3>0, <1>2 DEF OaCall, OaReady
      <3> HIDE DEF f, t
      <3>4. c = f /\ n \in UpType /\ n.frames = u.frames + 1 /\ n.phase = "head" /\ n.sent = u.sent /\ n.fault = u.fault
        BY <1>2, <3>3, SendsIs
      <3>6. Calls(c, d)
        BY <3>1, <3>4, <3>5 DEF Calls, CallOk
      <3> QED
        BY <3>1, <3>4, <3>6
    <2>9. ASSUME NEW i \in fresh, NEW j \in fresh,
                s = OaPair(u, i, j)
          PROVE  /\ n \in UpType /\ n.frames = u.frames + 1
                 /\ ~ c.finish /\ c.usage = NoUsage /\ Calls(c, d) /\ c.tools # <<>>
                 /\ n.phase = "head" /\ n.sent = u.sent /\ n.fault = u.fault
      <3> DEFINE t == OaCall(i, TRUE, TRUE)
                 w == OaCall(j, TRUE, TRUE)
                 f == [OaChunk EXCEPT !.tools = <<t, w>>]
                 v == [u EXCEPT !.used = @ \cup {i, j}]
      <3>0. i \in Int /\ j \in Int
        BY <1>0
      <3>1. f.tools = <<t, w>> /\ ~ f.finish /\ f.usage = NoUsage /\ f.tools # <<>>
        BY DEF OaChunk
      <3>2. v \in UpType /\ v.phase = u.phase /\ v.frames = u.frames /\ v.sent = u.sent /\ v.fault = u.fault
        BY <1>0, <3>0 DEF UpType
      <3>3. s = Sends(f, v)
        BY <2>9 DEF OaPair
      <3>5. t.index \in Int /\ t.named /\ t.args \in BOOLEAN
        BY <3>0 DEF OaCall
      <3>6. w.index \in Int /\ w.named /\ w.args \in BOOLEAN
        BY <3>0 DEF OaCall
      <3> HIDE DEF f, v, t, w
      <3>4. c = f /\ n \in UpType /\ n.frames = u.frames + 1 /\ n.phase = "head" /\ n.sent = u.sent /\ n.fault = u.fault
        BY <1>2, <3>2, <3>3, SendsIs
      <3>7. Calls(c, d)
        BY <3>1, <3>4, <3>5, <3>6 DEF Calls, CallOk
      <3> QED
        BY <3>1, <3>4, <3>7
    <2>10. ASSUME NEW x \in BOOLEAN, NEW v \in {NoUsage, Final},
                s = OaEnds(u, x, v)
           PROVE  /\ n \in UpType /\ n.frames = u.frames + 1
                  /\ c.finish /\ c.usage \in {NoUsage, Final}
                  /\ Calls(c, d) /\ n.phase = "tail" /\ n.fault = u.fault
                  /\ (c.usage = NoUsage => n.sent = u.sent)
                  /\ (c.usage # NoUsage => n.sent = c.usage)
      <3> DEFINE f == [OaChunk EXCEPT !.finish = TRUE, !.content = x, !.usage = v]
                 y == Goes(u, "tail")
                 z == Ended(u, "tail", v)
                 w == IF v = NoUsage THEN y ELSE z
      <3>1. f.tools = <<>> /\ f.finish /\ f.usage = v
        BY DEF OaChunk
      <3>2. y \in UpType /\ y.phase = "tail" /\ y.frames = u.frames /\ y.sent = u.sent /\ y.fault = u.fault
        BY GoesIs
      <3>3. s = Sends(f, w)
        BY <2>10 DEF OaEnds
      <3>4. z \in UpType /\ z.phase = "tail" /\ z.frames = u.frames /\ z.fault = u.fault /\ z.sent = v
        BY EndedIs
      <3>5. w = IF v = NoUsage THEN y ELSE z
        OBVIOUS
      <3> HIDE DEF f, y, z, w
      <3>6. w \in UpType /\ w.phase = "tail" /\ w.frames = u.frames /\ w.fault = u.fault
        BY <3>2, <3>4, <3>5
      <3>7. w.sent = IF v = NoUsage THEN u.sent ELSE v
        BY <3>2, <3>4, <3>5
      <3>8. /\ c = f /\ n \in UpType /\ n.frames = u.frames + 1 /\ n.phase = "tail"
            /\ n.fault = u.fault /\ n.sent = w.sent
        BY <3>3, <3>6, SendsIs
      <3> QED
        BY <3>1, <3>7, <3>8 DEF Calls
    <2> HIDE DEF fresh
    <2> QED
      BY <1>2, <2>1, <2>3, <2>4, <2>5, <2>6, <2>7, <2>8, <2>9, <2>10 DEF fresh, OaEarly, OaLast
  <1> QED
    BY <1>1, <1>2

LEMMA CallsNone ==
    ASSUME NEW c, NEW d, c.tools = <<>>
    PROVE  Calls(c, d)
  BY DEF Calls

\* What the openai reader makes of a chunk after the finish chunk.
LEMMA OaTailReads ==
    ASSUME egress = "openai", NEW d \in Decode, NEW g, Told(g),
           g.phase = "terminal", g.start = NoUsage, d.started,
           ~ d.thinkingOpen, ~ d.textOpen, d.openTools = {},
           NEW c, NEW u, NEW n, OaLate(u, c, n), NEW q, q = ReadOpenAi(d, c)
    PROVE  /\ q.d.started /\ ~ q.d.thinkingOpen /\ ~ q.d.textOpen /\ q.d.openTools = {}
           /\ \E h : /\ Tells(g, q, h) /\ h.phase = "terminal" /\ h.start = NoUsage
                     /\ (c.finish => h.last = g.last)
                     /\ (~ c.finish => h.last = Final)
  <1> DEFINE r == Result(d, <<>>)
  <1>1. Tells(g, r, g) /\ r.d = d
    BY ResultNone, ResultIs
  <1>2. q = OaFinish(r, c)
    BY <1>1 DEF ReadOpenAi, OaStart, OaReasoning, OaContent, OaTools, OaLate
  <1> HIDE DEF r
  <1>3. CASE c.finish /\ c.usage = NoUsage
    <2> DEFINE v == Zero
    <2>1. v \in Wholes /\ UsageOf(c, v) /\ OaMayEnd(r.d, g, v)
      BY <1>1, <1>3 DEF Wholes, UsageOf, OaMayEnd
    <2>2. LastOf(g, v) = g.last
      BY UsageIs DEF LastOf, Told
    <2> HIDE DEF v
    <2>3. OaDone(q, g, r, LastOf(g, v))
      BY <1>1, <1>2, <1>3, <2>1, OaFinishTells
    <2> QED
      BY <1>1, <1>3, <2>2, <2>3 DEF OaDone
  <1>4. CASE ~ c.finish /\ ~ c.choice /\ c.usage = Final
    <2> DEFINE v == Final
    <2>1. q = Push(r, d, Just(UsageDelta(v)))
      BY <1>1, <1>2, <1>4, UsageIs DEF OaFinish, UsageDelta, Just
    <2>2. v \in Tokens /\ v \in Wholes /\ Whole(g, v) = v
      BY TokensAre, WholeIs DEF Wholes
    <2>2a. LastOf(g, v) = Final
      BY DEF LastOf
    <2> HIDE DEF v
    <2> DEFINE ph == "terminal"
    <2>3. /\ (g.phase = "body" => g.open = {} /\ ph = "final")
          /\ (g.phase # "body" => g.phase = "terminal" /\ egress = "openai" /\ v = Final /\ ph = "terminal")
      BY DEF v
    <2> HIDE DEF ph
    <2>4. PICK h : Ending(g, Just(UsageDelta(v)), h, ph, LastOf(g, v))
      BY <2>2, <2>3, TellUsage
    <2>5. Legal(g, Just(UsageDelta(v)), h) /\ h.phase = "terminal" /\ h.start = NoUsage /\ h.last = Final
      BY <2>2a, <2>4 DEF Ending, ph
    <2>6. Tells(g, q, h) /\ q.d = d
      BY <1>1, <2>1, <2>5, PushTells
    <2> QED
      BY <1>4, <2>5, <2>6
  <1> QED
    BY <1>3, <1>4 DEF OaLate

\* A chunk before the finish chunk, and the finish chunk itself.
LEMMA OaHeadReads ==
    ASSUME NEW d \in Decode, NEW g, Told(g), OaCore(d, g), Thinks(d), NEW c, Calls(c, d),
           ~ c.finish, c.usage = NoUsage, NEW q, q = ReadOpenAi(d, c)
    PROVE  /\ (c.tools # <<>> \/ d.openTools # {} => q.d.openTools # {})
           /\ Talks(g, q)
  <1>1. q = OaBody(d, c)
    BY DEF ReadOpenAi, OaFinish, OaBody
  <1> QED
    BY <1>1, OaBodyTells

LEMMA OaEndReads ==
    ASSUME NEW d \in Decode, NEW g, Told(g), OaCore(d, g), Thinks(d), NEW c, Calls(c, d),
           c.finish, NEW u, u \in Wholes, UsageOf(c, u), NEW q, q = ReadOpenAi(d, c)
    PROVE  /\ q.d.started /\ ~ q.d.thinkingOpen /\ ~ q.d.textOpen /\ q.d.openTools = {}
           /\ \E h : /\ Tells(g, q, h) /\ h.phase = "terminal" /\ h.start = NoUsage
                     /\ h.last = u
  <1> DEFINE r == OaBody(d, c)
  <1>1. q = OaFinish(r, c) /\ r = OaBody(d, c)
    BY DEF ReadOpenAi, OaBody
  <1> HIDE DEF r
  <1>2. r.d.started /\ Talks(g, r)
    BY <1>1, OaBodyTells
  <1>3. PICK h : Tells(g, r, h) /\ OaCore(r.d, h)
    BY <1>2 DEF Talks
  <1>3a. OaMayEnd(r.d, h, u)
    BY <1>3 DEF OaMayEnd
  <1>4. OaDone(q, g, r, LastOf(h, u))
    BY <1>1, <1>3, <1>3a, OaFinishTells
  <1>5. LastOf(h, u) = u
    <2>1. Told(h) /\ h.phase = "body"
      BY <1>3, LegalEnds DEF Tells, OaCore, Chat
    <2>2. h.last = NoUsage
      BY <2>1 DEF Told
    <2> QED
      BY <2>2 DEF LastOf, Wholes
  <1> QED
    BY <1>2, <1>4, <1>5 DEF OaDone

\* What a dialect's reader must keep: the story goes on, and so does the invariant.
Reads(g, r, n) == \E h : Tells(g, r, h) /\ ReaderInv(r.d, n, h)

\* The openai reader goes on with the story, whatever chunk comes next.
LEMMA OpenAiReads ==
    ASSUME egress = "openai", NEW d \in Decode, NEW u \in UpType, u.phase # "closed",
           NEW g, ReaderInv(d, u, g), NEW s \in OpenAiSends(u),
           NEW r, r = ReadOpenAi(d, s.frame)
    PROVE  /\ s.next \in UpType /\ s.next.frames = u.frames + 1
           /\ Reads(g, r, s.next)
  <1> DEFINE c == s.frame
             n == s.next
  <1>1. /\ Told(g) /\ OaInv(d, u, g) /\ u.phase \in {"head", "tail"} /\ ~ u.fault
        /\ (u.phase = "tail" => g.last = ReportedBy(u))
    BY DEF ReaderInv, OaInv
  <1>2. u.phase = "head" => OaCore(d, g) /\ Thinks(d) /\ (u.used # {} => d.openTools # {})
                            /\ u.sent = NoUsage
    BY <1>1 DEF OaInv, OaCore, ToolSet
  <1>2a. OaReady(d, u)
    BY <1>2 DEF OaReady
  <1>w. r = ReadOpenAi(d, c) /\ c = s.frame /\ n = s.next
    OBVIOUS
  <1> HIDE DEF c, n
  <1>3. /\ n \in UpType /\ n.frames = u.frames + 1
        /\ OaLate(u, c, n) \/ OaEarly(u, d, c, n) \/ OaLast(u, d, c, n)
    BY <1>1, <1>2a, <1>w, OpenAiSendsIs
  <1>0. n.fault \in BOOLEAN
    BY <1>3, UpFields
  <1>4. CASE OaLate(u, c, n)
    <2>1. /\ u.phase = "tail" /\ n.phase = "tail" /\ n.fault = u.fault
          /\ \/ ~ c.finish /\ n.sent = Final
             \/ c.finish /\ n.sent = u.sent
      BY <1>4 DEF OaLate
    <2>2. /\ r.d.started /\ ~ r.d.thinkingOpen /\ ~ r.d.textOpen /\ r.d.openTools = {}
          /\ \E h : /\ Tells(g, r, h) /\ h.phase = "terminal" /\ h.start = NoUsage
                    /\ (c.finish => h.last = g.last)
                    /\ (~ c.finish => h.last = Final)
      <3>1. /\ g.phase = "terminal" /\ g.start = NoUsage /\ d.started
            /\ ~ d.thinkingOpen /\ ~ d.textOpen /\ d.openTools = {}
        BY <1>1, <2>1 DEF OaInv
      <3> QED
        BY <1>1, <1>w, <1>4, <3>1, OaTailReads
    <2>3. PICK h : /\ Tells(g, r, h) /\ h.phase = "terminal" /\ h.start = NoUsage
                   /\ (c.finish => h.last = g.last)
                   /\ (~ c.finish => h.last = Final)
      BY <2>2
    <2>4. Told(h)
      BY <2>3, LegalEnds DEF Tells
    <2>5. OaInv(r.d, n, h)
      BY <2>1, <2>2, <2>3 DEF OaInv
    <2>6. h.last = ReportedBy(n)
      BY <1>1, <2>1, <2>3, UsageIs DEF ReportedBy
    <2>7. ReaderInv(r.d, n, h)
      BY <1>1, <2>1, <2>4, <2>5, <2>6 DEF ReaderInv
    <2> QED
      BY <1>3, <1>w, <2>3, <2>7 DEF Reads
  <1>5. CASE OaEarly(u, d, c, n)
    <2>1. /\ u.phase = "head" /\ ~ c.finish /\ c.usage = NoUsage /\ Calls(c, d)
          /\ \/ n.phase = "head" /\ n.sent = u.sent /\ n.fault = u.fault
                /\ (n.used = u.used \/ c.tools # <<>>)
             \/ n.phase = "closed"
      BY <1>5 DEF OaEarly
    <2>2. /\ (c.tools # <<>> \/ d.openTools # {} => r.d.openTools # {})
          /\ Talks(g, r)
      BY <1>1, <1>2, <1>w, <2>1, OaHeadReads
    <2>3. PICK h : Tells(g, r, h) /\ OaCore(r.d, h) /\ Thinks(r.d)
      BY <2>2 DEF Talks
    <2>4. Told(h)
      BY <2>3, LegalEnds DEF Tells
    <2>5. OaInv(r.d, n, h)
      BY <1>2, <2>1, <2>2, <2>3 DEF OaInv, OaCore, ToolSet
    <2>7. ReaderInv(r.d, n, h)
      BY <1>1, <2>1, <2>4, <2>5 DEF ReaderInv
    <2> QED
      BY <1>3, <1>w, <2>3, <2>7 DEF Reads
  <1>6. CASE OaLast(u, d, c, n)
    <2>1. /\ u.phase = "head" /\ c.finish /\ c.usage \in {NoUsage, Final} /\ Calls(c, d)
          /\ n.phase = "tail" /\ n.fault = u.fault
          /\ (c.usage = NoUsage => n.sent = u.sent)
          /\ (c.usage # NoUsage => n.sent = c.usage)
      BY <1>6 DEF OaLast
    <2> DEFINE v == IF c.usage = NoUsage THEN Zero ELSE c.usage
    <2>v. v \in Wholes /\ UsageOf(c, v)
      BY <2>1 DEF Wholes, UsageOf
    <2>2. /\ r.d.started /\ ~ r.d.thinkingOpen /\ ~ r.d.textOpen /\ r.d.openTools = {}
          /\ \E h : /\ Tells(g, r, h) /\ h.phase = "terminal" /\ h.start = NoUsage
                    /\ h.last = v
      <3> HIDE DEF v
      <3> QED
        BY <1>1, <1>2, <1>w, <2>1, <2>v, OaEndReads
    <2>3. PICK h : /\ Tells(g, r, h) /\ h.phase = "terminal" /\ h.start = NoUsage
                   /\ h.last = v
      BY <2>2
    <2>4. Told(h)
      BY <2>3, LegalEnds DEF Tells
    <2>5. OaInv(r.d, n, h)
      BY <2>1, <2>2, <2>3 DEF OaInv
    <2>6. h.last = ReportedBy(n)
      BY <1>2, <2>1, <2>3, UsageIs DEF ReportedBy
    <2>7. ReaderInv(r.d, n, h)
      BY <1>1, <2>1, <2>4, <2>5, <2>6 DEF ReaderInv
    <2> QED
      BY <1>3, <1>w, <2>3, <2>7 DEF Reads
  <1> QED
    BY <1>3, <1>4, <1>5, <1>6, <1>w

LEMMA ResultTells ==
    ASSUME NEW d \in Decode, NEW g, NEW evs, NEW h, Legal(g, evs, h),
           NEW r, r = Result(d, evs)
    PROVE  Tells(g, r, h) /\ r.d = d
  BY DEF Tells, Result

\* The fields of a frame of anthropic or bedrock.
LEMMA BlockFrameIs ==
    ASSUME NEW t, NEW i, NEW k, NEW v, NEW f, f = BlockFrame(t, i, k, v)
    PROVE  f.type = t /\ f.index = i /\ f.kind = k /\ f.usage = v
  BY DEF BlockFrame

\* An upstream that opens one block at a time: what One says while it is read.
LEMMA OneFacts ==
    ASSUME NEW u \in UpType, NEW g, One(u, g), Told(g),
           u.phase \in {"head", "body", "stopped"}
    PROVE  /\ (u.open = {} <=> g.open = {})
           /\ NextIndex(u) \in Nat /\ NextIndex(u) \notin g.used
           /\ \A j \in u.open : <<j, u.kind>> \in g.open /\ j \in Int /\ u.kind \in Kinds
           /\ \A j \in u.open : u.open = {j} /\ g.open = {<<j, u.kind>>}
  <1>1. g.used = u.used /\ u.used = 0 .. (NextIndex(u) - 1) /\ IsFiniteSet(u.used)
    BY DEF One, Told, NextIndex
  <1>2. NextIndex(u) \in Nat
    BY <1>1, FS_CardinalityType DEF NextIndex
  <1>3. g.open = {<<i, u.kind>> : i \in u.open} /\ g.open \subseteq Int \X Kinds
    BY StoryFields DEF One, Told
  <1>4. \A j \in u.open : <<j, u.kind>> \in g.open
    BY <1>3
  <1>5. \A j \in u.open : j \in Int /\ u.kind \in Kinds
    BY <1>3, <1>4
  <1>6. \A j \in u.open : u.open = {j}
    BY DEF One
  <1>7. \A j \in u.open : g.open = {<<j, u.kind>>}
    BY <1>3, <1>6
  <1>8. u.open = {} <=> g.open = {}
    BY <1>3
  <1>9. NextIndex(u) \notin g.used
    BY <1>1, <1>2
  <1> QED
    BY <1>2, <1>4, <1>5, <1>6, <1>7, <1>8, <1>9

\* An upstream that opens one block at a time opens the next index.
LEMMA OneOpens ==
    ASSUME NEW u \in UpType, NEW g, One(u, g), Told(g), u.phase = "body",
           NEW k \in Kinds, NEW v, v = Opens(u, k), NEW n, Alike(n, v), NEW h,
           h.open = {<<NextIndex(u), k>>}, h.used = g.used \cup {NextIndex(u)}
    PROVE  One(n, h) /\ n.phase = "body" /\ n.fault = u.fault /\ n.sent = u.sent
           /\ n.kind = k /\ n.open = {NextIndex(u)}
  <1> DEFINE i == NextIndex(u)
  <1>1. i \in Nat /\ i \notin g.used
    BY OneFacts
  <1>2. g.used = u.used /\ u.used = 0 .. (i - 1) /\ IsFiniteSet(u.used) /\ i = Cardinality(u.used)
    BY DEF One, Told, NextIndex
  <1>3. /\ v.phase = u.phase /\ v.open = {i} /\ v.used = u.used \cup {i}
        /\ v.sent = u.sent /\ v.kind = k /\ v.fault = u.fault
    <2>b. NextIndex(u) \in Int
      BY <1>1
    <2> QED
      BY <2>b, OpensIs
  <1>4. h.open = {<<i, k>>} /\ h.used = u.used \cup {i}
    BY <1>2
  <1> HIDE DEF i
  <1>5. Cardinality(u.used \cup {i}) = i + 1
    BY <1>1, <1>2, FS_AddElement
  <1>6. u.used \cup {i} = 0 .. ((i + 1) - 1)
    BY <1>1, <1>2
  <1>7. /\ n.open = {i} /\ n.used = u.used \cup {i} /\ n.kind = k /\ n.phase = "body"
        /\ n.fault = u.fault /\ n.sent = u.sent
    BY <1>3 DEF Alike
  <1>8. One(n, h)
    BY <1>4, <1>5, <1>6, <1>7 DEF One
  <1> QED
    BY <1>7, <1>8 DEF i

LEMMA OneShuts ==
    ASSUME NEW u \in UpType, NEW g, One(u, g), u.phase = "body",
           NEW v, v = Shuts(u), NEW n, Alike(n, v), NEW h, h.open = {}, h.used = g.used
    PROVE  One(n, h) /\ n.phase = "body" /\ n.fault = u.fault /\ n.sent = u.sent
           /\ n.kind = u.kind /\ n.open = {}
  <1>1. /\ n.phase = u.phase /\ n.open = {} /\ n.used = u.used /\ n.sent = u.sent
        /\ n.kind = u.kind /\ n.fault = u.fault
    BY ShutsIs DEF Alike
  <1> QED
    BY <1>1 DEF One

\* It moves on with its block, if it has one.
LEMMA OneSame ==
    ASSUME NEW u, NEW g, One(u, g), NEW n, NEW h,
           n.open = u.open, n.used = u.used, n.kind = u.kind,
           u.phase \in {"head", "body", "stopped"}, h.open = g.open, h.used = g.used,
           n.phase \in {"head", "stopped"} => u.open = {}
    PROVE  One(n, h)
  BY DEF One

LEMMA OneLeaves ==
    ASSUME NEW u, NEW g, One(u, g), NEW n, NEW h, n.open = u.open, n.kind = u.kind,
           n.phase \in {"tail", "closed"}
    PROVE  One(n, h)
  BY DEF One

\* A first block is opened, a block goes on, the block is closed.
LEMMA TellOpens ==
    ASSUME NEW g, Told(g), g.phase = "body", NEW i \in Int, NEW k \in Kinds,
           i \notin g.used, g.open = {}
    PROVE  \E h : /\ Legal(g, Just(BlockStart(i, k)), h) /\ h.open = {<<i, k>>}
                  /\ h.used = g.used \cup {i} /\ Same(g, h)
  <1>1. \A p \in g.open : p[2] # k
    OBVIOUS
  <1>2. PICK h : /\ Legal(g, <<BlockStart(i, k)>>, h)
                 /\ h.open = g.open \cup {<<i, k>>} /\ h.used = g.used \cup {i}
                 /\ Same(g, h)
    BY <1>1, TellBlockStart
  <1>3. h.open = {<<i, k>>}
    BY <1>2
  <1> QED
    BY <1>2, <1>3 DEF Just

\* A story that goes on while its upstream does.
LEMMA TellGoesOn ==
    ASSUME NEW g, Told(g), g.phase = "body", NEW i \in Int, NEW k \in Kinds,
           <<i, k>> \in g.open
    PROVE  Legal(g, Just(BlockDelta(i, k)), g)
  BY TellBlockDelta DEF Just

LEMMA TellShuts ==
    ASSUME NEW g, Told(g), g.phase = "body", NEW i \in Int, NEW k, g.open = {<<i, k>>}
    PROVE  \E h : /\ Legal(g, Just(BlockStop(i)), h) /\ h.open = {}
                  /\ h.used = g.used /\ Same(g, h)
  <1>1. i \in Idx(g.open)
    BY DEF Idx
  <1>2. PICK h : /\ Legal(g, <<BlockStop(i)>>, h)
                 /\ h.open = {p \in g.open : p[1] # i} /\ h.used = g.used
                 /\ Same(g, h)
    BY <1>1, TellBlockStop
  <1>3. h.open = {}
    BY <1>2
  <1> QED
    BY <1>2, <1>3 DEF Just

LEMMA TellFails ==
    ASSUME NEW g, Told(g)
    PROVE  Legal(g, Just(Error), g)
  BY TellError DEF Just

LEMMA TellBegins ==
    ASSUME NEW g, Told(g), g.phase = "body"
    PROVE  \E h : /\ Legal(g, Just(MessageStart(Begun)), h)
                  /\ h.open = g.open /\ h.used = g.used /\ h.phase = "body"
                  /\ h.start = Begun /\ h.last = g.last
  <1>1. Begun \in {NoUsage, Begun} /\ Begun # NoUsage
    BY UsageIs
  <1> QED
    BY <1>1, TellMessageStart DEF Just

\* A step of the upstream and of the reader that tells evs and keeps the invariant.
Advances(d, u, g, s, r) ==
    /\ s.next \in UpType /\ s.next.frames = u.frames + 1
    /\ Reads(g, r, s.next)

\* A step from its parts.
LEMMA StepIs ==
    ASSUME NEW d \in Decode, NEW u, NEW g, NEW s, NEW v, v.frames = u.frames,
           u.frames \in Nat, Alike(s.next, v), NEW e \in Decode, NEW evs, NEW h, Legal(g, evs, h),
           NEW r, r = Result(e, evs), ReaderInv(e, s.next, h)
    PROVE  Advances(d, u, g, s, r)
  <1>1. Tells(g, r, h) /\ r.d = e
    BY ResultTells
  <1> QED
    BY <1>1 DEF Advances, Reads, Alike

\* An upstream that fails.
LEMMA FailsIs ==
    ASSUME NEW u \in UpType, NEW t, NEW s, s = Fails(u, t)
    PROVE  /\ s.frame.type = t
           /\ \E v : /\ v.frames = u.frames /\ Alike(s.next, v)
                     /\ v.phase = "closed" /\ v.open = u.open /\ v.kind = u.kind
  <1> DEFINE f == Says(t)
             v == Faulted(u)
  <1>1. s = Sends(f, v)
    BY DEF Fails
  <1>2. f.type = t
    BY DEF Says, BlockFrame
  <1>3. /\ v \in UpType /\ v.frames = u.frames /\ v.phase = "closed"
        /\ v.open = u.open /\ v.used = u.used /\ v.sent = u.sent /\ v.kind = u.kind
    BY FaultedIs
  <1> HIDE DEF f, v
  <1>4. s.frame = f /\ Alike(s.next, v)
    BY <1>1, <1>3, SendsAlike
  <1> QED
    BY <1>2, <1>3, <1>4

-----------------------------------------------------------------------------
(* The anthropic reader keeps no state. *)
LEMMA AnKeeps ==
    ASSUME egress = "anthropic", NEW d, NEW n, NEW h, Told(h), AnInv(d, n, h),
           n.phase = "tail" => h.last = ReportedBy(n), n.phase # "closed" => ~ n.fault
    PROVE  ReaderInv(d, n, h)
  BY DEF ReaderInv

\* The anthropic reader, frame by frame.
LEMMA AnFails ==
    ASSUME egress = "anthropic", NEW d \in Decode, NEW u \in UpType, NEW g,
           Told(g), AnInv(d, u, g), NEW s, s = Fails(u, "error"),
           NEW r, r = ReadAnthropic(d, s.frame)
    PROVE  Advances(d, u, g, s, r)
  <1>1. PICK v : /\ v.frames = u.frames /\ Alike(s.next, v)
                 /\ v.phase = "closed" /\ v.open = u.open /\ v.kind = u.kind
    BY FailsIs
  <1>2. r = Result(d, Just(Error))
    BY FailsIs DEF ReadAnthropic, Just
  <1>3. Legal(g, Just(Error), g)
    BY TellFails
  <1> DEFINE n == s.next
  <1>4. n.phase = "closed" /\ n.open = u.open /\ n.kind = u.kind
    BY <1>1 DEF Alike
  <1>5. One(u, g)
    BY DEF AnInv
  <1>9. u.frames \in Nat
    BY UpFields
  <1> HIDE DEF n
  <1>6. One(n, g)
    BY <1>4, <1>5, OneLeaves
  <1>7. AnInv(d, n, g)
    BY <1>4, <1>6 DEF AnInv
  <1>8. ReaderInv(d, n, g)
    BY <1>4, <1>7, AnKeeps
  <1> QED
    BY <1>1, <1>2, <1>3, <1>8, <1>9, StepIs DEF n

\* message_start, message_delta and message_stop
LEMMA AnStarts ==
    ASSUME egress = "anthropic", NEW d \in Decode, NEW u \in UpType, u.phase = "head",
           NEW g, Told(g), AnInv(d, u, g), ~ u.fault,
           NEW f, f.type = "message_start", f.usage = Begun,
           NEW s, s = Sends(f, Goes(u, "body")),
           NEW r, r = ReadAnthropic(d, s.frame)
    PROVE  Advances(d, u, g, s, r)
  <1> DEFINE v == Goes(u, "body")
             n == s.next
  <1>1. /\ v \in UpType /\ v.frames = u.frames /\ v.phase = "body" /\ v.open = u.open
        /\ v.used = u.used /\ v.sent = u.sent /\ v.kind = u.kind /\ v.fault = u.fault
    BY GoesIs
  <1>2. s = Sends(f, v)
    OBVIOUS
  <1> HIDE DEF v
  <1>3. s.frame = f /\ Alike(n, v)
    BY <1>1, <1>2, SendsAlike
  <1>4. r = Result(d, Just(MessageStart(Begun)))
    BY <1>3 DEF ReadAnthropic, Just
  <1>5. One(u, g) /\ g.phase = "body" /\ u.open = {} /\ u.sent = NoUsage
    BY DEF AnInv, One
  <1>6. PICK h : /\ Legal(g, Just(MessageStart(Begun)), h)
                 /\ h.open = g.open /\ h.used = g.used /\ h.phase = "body"
                 /\ h.start = Begun /\ h.last = g.last
    BY <1>5, TellBegins
  <1>7. /\ n.phase = "body" /\ n.open = u.open /\ n.used = u.used /\ n.kind = u.kind
        /\ n.sent = u.sent /\ ~ n.fault
    BY <1>1, <1>3 DEF Alike
  <1>11. u.frames \in Nat /\ Told(h)
    BY UpFields, <1>6, LegalEnds
  <1> HIDE DEF n
  <1>8. One(n, h)
    BY <1>5, <1>6, <1>7, OneSame
  <1>9. AnInv(d, n, h)
    BY <1>5, <1>6, <1>7, <1>8 DEF AnInv
  <1>10. ReaderInv(d, n, h)
    BY <1>7, <1>9, <1>11, AnKeeps
  <1> QED
    BY <1>1, <1>3, <1>4, <1>6, <1>10, <1>11, StepIs DEF n

\* A block is opened, goes on, and is closed.
LEMMA AnOpens ==
    ASSUME egress = "anthropic", NEW d \in Decode, NEW u \in UpType, u.phase = "body",
           u.open = {}, NEW g, Told(g), AnInv(d, u, g), ~ u.fault, NEW k \in Kinds,
           NEW f, f.index = NextIndex(u), f.kind = k,
           f.type = "content_block_start" \/ f.type = "redacted_thinking",
           NEW s, s = Sends(f, Opens(u, k)),
           NEW r, r = ReadAnthropic(d, s.frame)
    PROVE  Advances(d, u, g, s, r)
  <1> DEFINE v == Opens(u, k)
             n == s.next
             i == NextIndex(u)
             evs == IF f.type = "redacted_thinking"
                    THEN Just(BlockStart(i, k)) \o Just(BlockDelta(i, k))
                    ELSE Just(BlockStart(i, k))
  <1>5. One(u, g) /\ g.phase = "body" /\ u.sent = NoUsage /\ g.start = Begun
    BY DEF AnInv
  <1>0. i \in Nat /\ i \notin g.used /\ g.open = {} /\ i = NextIndex(u)
    BY <1>5, OneFacts
  <1>1. v \in UpType /\ v.frames = u.frames /\ v = Opens(u, k)
    BY <1>0, OpensIs
  <1>2. s = Sends(f, v)
    OBVIOUS
  <1> HIDE DEF v
  <1>3. s.frame = f /\ Alike(n, v)
    BY <1>1, <1>2, SendsAlike
  <1>4. r = Result(d, evs)
    <2>1. CASE f.type = "content_block_start"
      BY <1>3, <2>1 DEF ReadAnthropic, Just
    <2>2. CASE f.type = "redacted_thinking"
      <3>1. r = Result(d, <<BlockStart(i, k), BlockDelta(i, k)>>)
        BY <1>3, <2>2 DEF ReadAnthropic
      <3>2. evs = <<BlockStart(i, k), BlockDelta(i, k)>>
        BY <2>2, PairCat DEF Just
      <3> QED
        BY <3>1, <3>2
    <2> QED
      BY <2>1, <2>2
  <1> HIDE DEF i
  <1>6. PICK h : /\ Legal(g, Just(BlockStart(i, k)), h) /\ h.open = {<<i, k>>}
                 /\ h.used = g.used \cup {i} /\ Same(g, h)
    BY <1>0, <1>5, TellOpens
  <1>7. Told(h) /\ h.phase = "body" /\ h.start = Begun
    BY <1>5, <1>6, LegalEnds DEF Same
  <1>8. Legal(h, Just(BlockDelta(i, k)), h)
    <2>1. <<i, k>> \in h.open /\ i \in Int
      BY <1>0, <1>6
    <2> QED
      BY <1>7, <2>1, TellGoesOn
  <1>9. Legal(g, evs, h)
    <2>1. Legal(g, Just(BlockStart(i, k)) \o Just(BlockDelta(i, k)), h)
      BY <1>6, <1>8, LegalCat
    <2> QED
      BY <2>1, <1>6
  <1>10. /\ One(n, h) /\ n.phase = "body" /\ n.fault = u.fault /\ n.sent = u.sent
         /\ n.kind = k /\ n.open = {i}
    BY <1>0, <1>1, <1>3, <1>5, <1>6, OneOpens
  <1>11. u.frames \in Nat
    BY UpFields
  <1> HIDE DEF n, evs
  <1>12. AnInv(d, n, h)
    BY <1>5, <1>7, <1>10 DEF AnInv
  <1>13. ReaderInv(d, n, h)
    BY <1>7, <1>10, <1>12, AnKeeps
  <1> QED
    BY <1>1, <1>3, <1>4, <1>9, <1>11, <1>13, StepIs DEF n

LEMMA AnGoesOn ==
    ASSUME egress = "anthropic", NEW d \in Decode, NEW u \in UpType, u.phase = "body",
           NEW j \in u.open, NEW g, Told(g), AnInv(d, u, g), ~ u.fault,
           NEW f, f.type = "content_block_delta", f.index = j, f.kind = u.kind,
           NEW s, s = Sends(f, u), NEW r, r = ReadAnthropic(d, s.frame)
    PROVE  Advances(d, u, g, s, r)
  <1> DEFINE n == s.next
             k == u.kind
  <1>5. One(u, g) /\ g.phase = "body" /\ u.sent = NoUsage /\ g.start = Begun
    BY DEF AnInv
  <1>0. j \in Int /\ k \in Kinds /\ <<j, k>> \in g.open
    BY <1>5, OneFacts
  <1>3. s.frame = f /\ Alike(n, u)
    BY SendsAlike
  <1>4. r = Result(d, Just(BlockDelta(j, k)))
    BY <1>3 DEF ReadAnthropic, Just
  <1> HIDE DEF k
  <1>6. Legal(g, Just(BlockDelta(j, k)), g)
    BY <1>0, <1>5, TellGoesOn
  <1>7. /\ n.phase = "body" /\ n.open = u.open /\ n.used = u.used /\ n.kind = u.kind
        /\ n.sent = u.sent /\ ~ n.fault
    BY <1>3 DEF Alike
  <1>11. u.frames \in Nat
    BY UpFields
  <1> HIDE DEF n
  <1>8. One(n, g)
    BY <1>5, <1>7, OneSame
  <1>12. AnInv(d, n, g)
    BY <1>5, <1>7, <1>8 DEF AnInv
  <1>13. ReaderInv(d, n, g)
    BY <1>7, <1>12, AnKeeps
  <1> QED
    BY <1>3, <1>4, <1>6, <1>11, <1>13, StepIs DEF n

LEMMA AnShuts ==
    ASSUME egress = "anthropic", NEW d \in Decode, NEW u \in UpType, u.phase = "body",
           NEW j \in u.open, NEW g, Told(g), AnInv(d, u, g), ~ u.fault,
           NEW f, f.type = "content_block_stop", f.index = j,
           NEW s, s = Sends(f, Shuts(u)), NEW r, r = ReadAnthropic(d, s.frame)
    PROVE  Advances(d, u, g, s, r)
  <1> DEFINE n == s.next
             v == Shuts(u)
             k == u.kind
  <1>5. One(u, g) /\ g.phase = "body" /\ u.sent = NoUsage /\ g.start = Begun
    BY DEF AnInv
  <1>0. j \in Int /\ g.open = {<<j, k>>}
    BY <1>5, OneFacts
  <1>1. v \in UpType /\ v.frames = u.frames /\ v = Shuts(u) /\ s = Sends(f, v)
    BY ShutsIs
  <1> HIDE DEF v
  <1>3. s.frame = f /\ Alike(n, v)
    BY <1>1, SendsAlike
  <1>4. r = Result(d, Just(BlockStop(j)))
    BY <1>3 DEF ReadAnthropic, Just
  <1> HIDE DEF k
  <1>6. PICK h : /\ Legal(g, Just(BlockStop(j)), h) /\ h.open = {} /\ h.used = g.used /\ Same(g, h)
    BY <1>0, <1>5, TellShuts
  <1>7. Told(h) /\ h.phase = "body" /\ h.start = Begun
    BY <1>5, <1>6, LegalEnds DEF Same
  <1>10. /\ One(n, h) /\ n.phase = "body" /\ n.fault = u.fault /\ n.sent = u.sent
         /\ n.kind = u.kind /\ n.open = {}
    BY <1>1, <1>3, <1>5, <1>6, OneShuts
  <1>11. u.frames \in Nat
    BY UpFields
  <1> HIDE DEF n
  <1>12. AnInv(d, n, h)
    BY <1>5, <1>7, <1>10 DEF AnInv
  <1>13. ReaderInv(d, n, h)
    BY <1>7, <1>10, <1>12, AnKeeps
  <1> QED
    BY <1>1, <1>3, <1>4, <1>6, <1>11, <1>13, StepIs DEF n

\* message_delta: its usage has no input tokens, which came at the start.
Late == [in |-> 0, out |-> 2]

LEMMA AnEnds ==
    ASSUME egress = "anthropic", NEW d \in Decode, NEW u \in UpType, u.phase = "body",
           u.open = {}, NEW g, Told(g), AnInv(d, u, g), ~ u.fault,
           NEW f, f.type = "message_delta", f.usage = Late,
           NEW s, s = Sends(f, Ended(u, "stopped", Final)),
           NEW r, r = ReadAnthropic(d, s.frame)
    PROVE  Advances(d, u, g, s, r)
  <1> DEFINE n == s.next
             v == Ended(u, "stopped", Final)
  <1>5. One(u, g) /\ g.phase = "body" /\ u.sent = NoUsage /\ g.start = Begun
    BY DEF AnInv
  <1>1. /\ v \in UpType /\ v.frames = u.frames /\ v.phase = "stopped" /\ v.open = u.open
        /\ v.used = u.used /\ v.sent = Final /\ v.kind = u.kind /\ v.fault = u.fault
    BY EndedIs
  <1>2. s = Sends(f, v)
    OBVIOUS
  <1> HIDE DEF v
  <1>3. s.frame = f /\ Alike(n, v)
    BY <1>1, <1>2, SendsAlike
  <1>4. r = Result(d, Just(FinalDelta(Late)))
    BY <1>3 DEF ReadAnthropic, Just, FinalDelta
  <1>0. Late \in Tokens /\ Final \in Wholes /\ Whole(g, Late) = Final
    <2>1. Begun # NoUsage
      BY UsageIs
    <2> QED
      BY <1>5, <2>1 DEF Late, Tokens, Wholes, Whole, Final, Begun
  <1> DEFINE w == Final
             l == Late
             la == LastOf(g, w)
  <1>0a. l \in Tokens /\ w \in Wholes /\ Whole(g, l) = w /\ la = LastOf(g, w) /\ la = Final
    BY <1>0 DEF LastOf
  <1>6. PICK h : Ending(g, Just(FinalDelta(l)), h, "terminal", la)
    <2> HIDE DEF w, l, la
    <2> QED
      BY <1>0a, <1>5, TellEnds
  <1>7. /\ Told(h) /\ h.phase = "terminal" /\ h.last = Final /\ h.start = Begun /\ h.open = {}
        /\ h.used = g.used /\ Legal(g, Just(FinalDelta(Late)), h)
    BY <1>0a, <1>5, <1>6, LegalEnds DEF Ending
  <1>8. /\ n.phase = "stopped" /\ n.open = u.open /\ n.used = u.used /\ n.kind = u.kind
        /\ n.sent = Final /\ ~ n.fault
    BY <1>1, <1>3 DEF Alike
  <1>11. u.frames \in Nat /\ g.open = {}
    BY UpFields, <1>5 DEF One
  <1> HIDE DEF n
  <1>9. One(n, h)
    BY <1>5, <1>7, <1>8, <1>11, OneSame
  <1>12. AnInv(d, n, h)
    BY <1>7, <1>8, <1>9 DEF AnInv
  <1>13. ReaderInv(d, n, h)
    BY <1>7, <1>8, <1>12, AnKeeps
  <1> QED
    BY <1>1, <1>3, <1>4, <1>7, <1>11, <1>13, StepIs DEF n

LEMMA AnStops ==
    ASSUME egress = "anthropic", NEW d \in Decode, NEW u \in UpType, u.phase = "stopped",
           NEW g, Told(g), AnInv(d, u, g), ~ u.fault,
           NEW f, f.type = "message_stop", NEW s, s = Sends(f, Goes(u, "tail")),
           NEW r, r = ReadAnthropic(d, s.frame)
    PROVE  Advances(d, u, g, s, r)
  <1> DEFINE n == s.next
             v == Goes(u, "tail")
  <1>5. One(u, g) /\ g.phase = "terminal" /\ u.sent = Final /\ g.last = Final
    BY DEF AnInv
  <1>1. /\ v \in UpType /\ v.frames = u.frames /\ v.phase = "tail" /\ v.open = u.open
        /\ v.used = u.used /\ v.sent = u.sent /\ v.kind = u.kind /\ v.fault = u.fault
    BY GoesIs
  <1>2. s = Sends(f, v)
    OBVIOUS
  <1> HIDE DEF v
  <1>3. s.frame = f /\ Alike(n, v)
    BY <1>1, <1>2, SendsAlike
  <1>4. r = Result(d, Just(MessageStop))
    BY <1>3 DEF ReadAnthropic, Just
  <1>6. PICK h : Ending(g, Just(MessageStop), h, "terminal", g.last)
    <2>1. g.phase # "end"
      BY <1>5
    <2> QED
      BY <1>5, <2>1, TellStop
  <1>7. /\ Told(h) /\ h.phase = "terminal" /\ h.last = Final /\ Legal(g, Just(MessageStop), h)
    BY <1>5, <1>6, LegalEnds DEF Ending
  <1>8. /\ n.phase = "tail" /\ n.open = u.open /\ n.kind = u.kind
        /\ n.sent = Final /\ ~ n.fault
    BY <1>1, <1>3, <1>5 DEF Alike
  <1>11. u.frames \in Nat /\ Final # NoUsage
    BY UpFields, UsageIs
  <1> HIDE DEF n
  <1>9. One(n, h)
    BY <1>5, <1>8, OneLeaves
  <1>12. AnInv(d, n, h)
    BY <1>7, <1>8, <1>9 DEF AnInv
  <1>13. ReaderInv(d, n, h)
    BY <1>7, <1>8, <1>11, <1>12, AnKeeps DEF ReportedBy
  <1> QED
    BY <1>1, <1>3, <1>4, <1>7, <1>11, <1>13, StepIs DEF n

\* What the anthropic upstream sends.
AnSent(u, X, s) ==
    \/ s = Fails(u, "error")
    \/ /\ u.phase = "head"
       /\ s = Sends(BlockFrame("message_start", 0, "", Begun), Goes(u, "body"))
    \/ /\ u.phase = "body" /\ X = {}
       /\ \/ \E k \in Kinds : s = Sends(BlockFrame("content_block_start", NextIndex(u), k, Zero), Opens(u, k))
          \/ s = Sends(BlockFrame("redacted_thinking", NextIndex(u), "thinking", Zero), Opens(u, "thinking"))
          \/ s = Sends(BlockFrame("message_delta", 0, "", Late), Ended(u, "stopped", Final))
    \/ /\ u.phase = "body"
       /\ \E j \in X : \/ s = Sends(BlockFrame("content_block_delta", j, u.kind, Zero), u)
                       \/ s = Sends(BlockFrame("content_block_stop", j, "", Zero), Shuts(u))
    \/ /\ u.phase = "stopped"
       /\ s = Sends(Says("message_stop"), Goes(u, "tail"))

LEMMA AnSends ==
    ASSUME NEW u, u.phase \in {"head", "body", "stopped", "tail", "closed"},
           NEW s \in AnthropicSends(u), NEW X, X = u.open
    PROVE  AnSent(u, X, s)
  <1>1. Begun = [in |-> 1, out |-> 1] /\ Late = [in |-> 0, out |-> 2]
    BY DEF Begun, Late
  <1>2. CASE u.phase = "head"
    BY <1>1, <1>2 DEF AnthropicSends, AnSent
  <1>3. CASE u.phase = "body" /\ u.open = {}
    BY <1>1, <1>3 DEF AnthropicSends, AnSent
  <1>4. CASE u.phase = "body" /\ u.open # {}
    BY <1>4 DEF AnthropicSends, AnSent
  <1>5. CASE u.phase = "stopped"
    BY <1>5 DEF AnthropicSends, AnSent
  <1>6. CASE u.phase \in {"tail", "closed"}
    BY <1>6 DEF AnthropicSends, AnSent
  <1> QED
    BY <1>2, <1>3, <1>4, <1>5, <1>6

\* The anthropic reader goes on with the story.
LEMMA AnthropicReads ==
    ASSUME egress = "anthropic", NEW d \in Decode, NEW u \in UpType, u.phase # "closed",
           NEW g, ReaderInv(d, u, g), NEW s \in AnthropicSends(u),
           NEW r, r = ReadAnthropic(d, s.frame)
    PROVE  Advances(d, u, g, s, r)
  <1>1. Told(g) /\ AnInv(d, u, g) /\ ~ u.fault
    BY DEF ReaderInv
  <1> DEFINE X == u.open
  <1>2. X = u.open /\ u.phase \in {"head", "body", "stopped", "tail", "closed"}
    BY UpFields
  <1> HIDE DEF X
  <1>3. AnSent(u, X, s)
    BY <1>2, AnSends
  <1>4. CASE s = Fails(u, "error")
    BY <1>1, <1>4, AnFails
  <1>5. CASE u.phase = "head" /\ s = Sends(BlockFrame("message_start", 0, "", Begun), Goes(u, "body"))
    <2> DEFINE f == BlockFrame("message_start", 0, "", Begun)
    <2>1. f.type = "message_start" /\ f.usage = Begun
      BY DEF BlockFrame
    <2> HIDE DEF f
    <2>2. s = Sends(f, Goes(u, "body"))
      BY <1>5 DEF f
    <2> QED
      BY <1>1, <1>5, <2>1, <2>2, AnStarts
  <1>6. ASSUME u.phase = "body", X = {}, NEW k \in Kinds,
               NEW t, t = "content_block_start" \/ t = "redacted_thinking",
               s = Sends(BlockFrame(t, NextIndex(u), k, Zero), Opens(u, k))
        PROVE  Advances(d, u, g, s, r)
    <2> DEFINE f == BlockFrame(t, NextIndex(u), k, Zero)
    <2>1. f.type = t /\ f.index = NextIndex(u) /\ f.kind = k
      BY DEF BlockFrame
    <2> HIDE DEF f
    <2>2. s = Sends(f, Opens(u, k)) /\ u.open = {}
      BY <1>2, <1>6 DEF f
    <2>3. f.type = "content_block_start" \/ f.type = "redacted_thinking"
      BY <1>6, <2>1
    <2> QED
      BY <1>1, <1>6, <2>1, <2>2, <2>3, AnOpens
  <1>7. CASE u.phase = "body" /\ X = {} /\ s = Sends(BlockFrame("message_delta", 0, "", Late), Ended(u, "stopped", Final))
    <2> DEFINE f == BlockFrame("message_delta", 0, "", Late)
    <2>1. f.type = "message_delta" /\ f.usage = Late
      BY DEF BlockFrame
    <2> HIDE DEF f
    <2>2. s = Sends(f, Ended(u, "stopped", Final)) /\ u.open = {}
      BY <1>2, <1>7 DEF f
    <2> QED
      BY <1>1, <1>7, <2>1, <2>2, AnEnds
  <1>8. ASSUME u.phase = "body", NEW j \in X, s = Sends(BlockFrame("content_block_delta", j, u.kind, Zero), u)
        PROVE  Advances(d, u, g, s, r)
    <2> DEFINE f == BlockFrame("content_block_delta", j, u.kind, Zero)
    <2>1. f.type = "content_block_delta" /\ f.index = j /\ f.kind = u.kind
      BY DEF BlockFrame
    <2> HIDE DEF f
    <2>2. s = Sends(f, u) /\ j \in u.open
      BY <1>2, <1>8 DEF f
    <2> QED
      BY <1>1, <1>8, <2>1, <2>2, AnGoesOn
  <1>9. ASSUME u.phase = "body", NEW j \in X, s = Sends(BlockFrame("content_block_stop", j, "", Zero), Shuts(u))
        PROVE  Advances(d, u, g, s, r)
    <2> DEFINE f == BlockFrame("content_block_stop", j, "", Zero)
    <2>1. f.type = "content_block_stop" /\ f.index = j
      BY DEF BlockFrame
    <2> HIDE DEF f
    <2>2. s = Sends(f, Shuts(u)) /\ j \in u.open
      BY <1>2, <1>9 DEF f
    <2> QED
      BY <1>1, <1>9, <2>1, <2>2, AnShuts
  <1>10. CASE u.phase = "stopped" /\ s = Sends(Says("message_stop"), Goes(u, "tail"))
    <2> DEFINE f == Says("message_stop")
    <2>1. f.type = "message_stop"
      BY DEF Says, BlockFrame
    <2> HIDE DEF f
    <2>2. s = Sends(f, Goes(u, "tail"))
      BY <1>10 DEF f
    <2> QED
      BY <1>1, <1>10, <2>1, <2>2, AnStops
  <1>11. "thinking" \in Kinds
    BY DEF Kinds
  <1> QED
    BY <1>3, <1>4, <1>5, <1>6, <1>7, <1>8, <1>9, <1>10, <1>11 DEF AnSent

LEMMA StepTells ==
    ASSUME NEW d, NEW u, NEW g, NEW s, NEW v, v.frames = u.frames, Alike(s.next, v),
           NEW r, NEW h, Tells(g, r, h), ReaderInv(r.d, s.next, h)
    PROVE  Advances(d, u, g, s, r)
  BY DEF Advances, Reads, Alike

-----------------------------------------------------------------------------
(* The bedrock reader knows which kind of block is open. *)
BeState(d, X, k, ph) ==
    /\ d.started <=> ph # "head"
    /\ d.openTools = {i \in X : k = "tool"}
    /\ d.textOpen <=> X # {} /\ k = "text"
    /\ d.thinkingOpen <=> X # {} /\ k = "thinking"
    /\ d.pendingStop <=> ph = "stopped"

\* What bedrock's invariant gives, and what it takes.
LEMMA BeKnows ==
    ASSUME egress = "bedrock", NEW d, NEW u, NEW g, ReaderInv(d, u, g), u.phase # "closed"
    PROVE  /\ Told(g) /\ One(u, g) /\ g.start = NoUsage /\ ~ u.fault
           /\ u.phase \in {"head", "body", "stopped"} =>
                 g.phase = "body" /\ u.sent = NoUsage /\ BeState(d, u.open, u.kind, u.phase)
  BY DEF ReaderInv, BeInv, BeState

LEMMA BeKeeps ==
    ASSUME egress = "bedrock", NEW d, NEW n, NEW h, Told(h), One(n, h), h.start = NoUsage,
           n.phase \in {"head", "body", "stopped"} =>
                 h.phase = "body" /\ n.sent = NoUsage /\ BeState(d, n.open, n.kind, n.phase),
           n.phase = "tail" => h.phase = "terminal" /\ h.last = ReportedBy(n),
           n.phase # "closed" => ~ n.fault
    PROVE  ReaderInv(d, n, h)
  BY DEF ReaderInv, BeInv, BeState

\* The bedrock reader, frame by frame.
LEMMA BeFails ==
    ASSUME egress = "bedrock", NEW d \in Decode, NEW u \in UpType, u.phase # "closed", NEW g,
           ReaderInv(d, u, g), NEW s, s = Fails(u, "exception"),
           NEW r, r = ReadBedrock(d, s.frame)
    PROVE  Advances(d, u, g, s, r)
  <1>1. PICK v : /\ v.frames = u.frames /\ Alike(s.next, v)
                 /\ v.phase = "closed" /\ v.open = u.open /\ v.kind = u.kind
    BY FailsIs
  <1> DEFINE r0 == Result(d, <<>>)
             n == s.next
  <1>0. Told(g) /\ One(u, g) /\ g.start = NoUsage
    BY BeKnows
  <1>2. r = Push(r0, d, Just(Error))
    BY FailsIs DEF ReadBedrock, Just
  <1>3. Legal(g, Just(Error), g)
    BY <1>0, TellFails
  <1>4. Tells(g, r0, g)
    BY <1>0, ResultNone
  <1> HIDE DEF r0
  <1>5. Tells(g, r, g) /\ r.d = d
    BY <1>2, <1>3, <1>4, PushTells
  <1>6. n.phase = "closed" /\ n.open = u.open /\ n.kind = u.kind
    BY <1>1 DEF Alike
  <1> HIDE DEF n
  <1>7. One(n, g)
    BY <1>0, <1>6, OneLeaves
  <1>8. ReaderInv(d, n, g)
    BY <1>0, <1>6, <1>7, BeKeeps
  <1> QED
    BY <1>1, <1>5, <1>8, StepTells DEF n

LEMMA BeStarts ==
    ASSUME egress = "bedrock", NEW d \in Decode, NEW u \in UpType, u.phase = "head",
           NEW g, ReaderInv(d, u, g), NEW f, f.type = "messageStart",
           NEW s, s = Sends(f, Goes(u, "body")),
           NEW r, r = ReadBedrock(d, s.frame)
    PROVE  Advances(d, u, g, s, r)
  <1> DEFINE v == Goes(u, "body")
             n == s.next
             r0 == Result(d, <<>>)
  <1>1. /\ v \in UpType /\ v.frames = u.frames /\ v.phase = "body" /\ v.open = u.open
        /\ v.used = u.used /\ v.sent = u.sent /\ v.kind = u.kind /\ v.fault = u.fault
    BY GoesIs
  <1>2. s = Sends(f, v)
    OBVIOUS
  <1> HIDE DEF v
  <1>3. s.frame = f /\ Alike(n, v)
    BY <1>1, <1>2, SendsAlike
  <1>0. /\ Told(g) /\ One(u, g) /\ g.start = NoUsage /\ ~ u.fault /\ g.phase = "body"
        /\ u.sent = NoUsage /\ BeState(d, u.open, u.kind, u.phase)
    BY BeKnows
  <1>4. r = OaStart(r0)
    BY <1>3 DEF ReadBedrock
  <1>5. Tells(g, r0, g) /\ r0.d = d
    BY <1>0, ResultNone, ResultIs
  <1> HIDE DEF r0
  <1>6. Tells(g, r, g) /\ r.d = [d EXCEPT !.started = TRUE]
    BY <1>0, <1>4, <1>5, StartTells
  <1> DEFINE e == r.d
  <1>6a. e = [d EXCEPT !.started = TRUE]
    BY <1>6
  <1> HIDE DEF e
  <1>7. /\ e.started /\ e.openTools = d.openTools /\ e.textOpen = d.textOpen
        /\ e.thinkingOpen = d.thinkingOpen /\ e.pendingStop = d.pendingStop
    BY <1>6a, StartDecode
  <1>8. /\ n.phase = "body" /\ n.open = u.open /\ n.used = u.used /\ n.kind = u.kind
        /\ n.sent = u.sent /\ ~ n.fault
    BY <1>0, <1>1, <1>3 DEF Alike
  <1> HIDE DEF n
  <1>9. One(n, g)
    BY <1>0, <1>8, OneSame
  <1>10. BeState(e, n.open, n.kind, n.phase)
    BY <1>0, <1>7, <1>8 DEF BeState
  <1>11. ReaderInv(e, n, g)
    BY <1>0, <1>8, <1>9, <1>10, BeKeeps
  <1> QED
    BY <1>1, <1>3, <1>6, <1>11, StepTells DEF n, e

BeOpened(q, r, i, k) ==
    \E e \in Decode : /\ q = Push(r, e, Just(BlockStart(i, k)))
                      /\ BeState(e, {i}, k, "body")

\* A block is opened in a reader that has none open.
LEMMA BeOpenIs ==
    ASSUME NEW d \in Decode, d.started, ~ d.textOpen, ~ d.thinkingOpen, d.openTools = {},
           NEW f, NEW i \in Int, NEW k \in Kinds, f.kind = k, f.index = i,
           NEW r, r.d = d, NEW q, q = BeOpen(r, f), ~ d.pendingStop
    PROVE  BeOpened(q, r, i, k)
  <1>0. SUFFICES \E e \in Decode : /\ q = Push(r, e, Just(BlockStart(i, k)))
                                   /\ BeState(e, {i}, k, "body")
    BY DEF BeOpened
  <1>1. CASE k = "tool"
    <2> DEFINE e == [d EXCEPT !.openTools = @ \cup {i}]
    <2>1. e \in Decode
      BY DEF Decode
    <2>2. /\ e.started /\ e.openTools = {i} /\ ~ e.textOpen /\ ~ e.thinkingOpen
          /\ ~ e.pendingStop
      BY DEF Decode
    <2>3. q = Push(r, e, Just(BlockStart(i, k)))
      BY <1>1 DEF BeOpen, Just
    <2> HIDE DEF e
    <2>4. BeState(e, {i}, k, "body")
      BY <1>1, <2>2 DEF BeState
    <2> QED
      BY <2>1, <2>3, <2>4
  <1>2. CASE k = "thinking"
    <2> DEFINE e == [d EXCEPT !.thinkingOpen = TRUE]
    <2>1. e \in Decode
      BY DEF Decode
    <2>2. /\ e.started /\ e.openTools = {} /\ ~ e.textOpen /\ e.thinkingOpen
          /\ ~ e.pendingStop
      BY DEF Decode
    <2>3. q = Push(r, e, Just(BlockStart(i, k)))
      BY <1>2 DEF BeOpen, Just
    <2> HIDE DEF e
    <2>4. BeState(e, {i}, k, "body")
      BY <1>2, <2>2 DEF BeState
    <2> QED
      BY <2>1, <2>3, <2>4
  <1>3. CASE k = "text"
    <2> DEFINE e == [d EXCEPT !.textOpen = TRUE]
    <2>1. e \in Decode
      BY DEF Decode
    <2>2. /\ e.started /\ e.openTools = {} /\ e.textOpen /\ ~ e.thinkingOpen
          /\ ~ e.pendingStop
      BY DEF Decode
    <2>3. q = Push(r, e, Just(BlockStart(i, k)))
      BY <1>3 DEF BeOpen, Just
    <2> HIDE DEF e
    <2>4. BeState(e, {i}, k, "body")
      BY <1>3, <2>2 DEF BeState
    <2> QED
      BY <2>1, <2>3, <2>4
  <1> QED
    BY <1>1, <1>2, <1>3 DEF Kinds

\* The delta of an open block, and one that finds its text block not opened.
LEMMA BeDeltaIs ==
    ASSUME NEW f, NEW k \in Kinds, f.kind = k, NEW r, NEW q, q = BeDelta(r, f),
           NEW p, (k = "tool" /\ p = r) \/ (k # "tool" /\ p = BeOpen(r, f)),
           k = "thinking" => p.d.thinkingOpen, NEW i, f.index = i, NEW e, p.d = e
    PROVE  q = Push(p, e, Just(BlockDelta(i, k)))
  BY DEF BeDelta, Just, Kinds

LEMMA BeOpens ==
    ASSUME egress = "bedrock", NEW d \in Decode, NEW u \in UpType, u.phase = "body",
           u.open = {}, NEW g, ReaderInv(d, u, g), NEW k \in Kinds,
           NEW f, f.index = NextIndex(u), f.kind = k,
           f.type = "contentBlockStart" \/ (f.type = "contentBlockDelta" /\ k = "text"),
           NEW s, s = Sends(f, Opens(u, k)),
           NEW r, r = ReadBedrock(d, s.frame)
    PROVE  Advances(d, u, g, s, r)
  <1> DEFINE v == Opens(u, k)
             n == s.next
             i == NextIndex(u)
             r0 == Result(d, <<>>)
             q == BeOpen(r0, f)
  <1>5. /\ Told(g) /\ One(u, g) /\ g.start = NoUsage /\ ~ u.fault /\ g.phase = "body"
        /\ u.sent = NoUsage /\ BeState(d, u.open, u.kind, u.phase)
    BY BeKnows
  <1>0. i \in Nat /\ i \notin g.used /\ g.open = {} /\ i = NextIndex(u)
    BY <1>5, OneFacts
  <1>1. v \in UpType /\ v.frames = u.frames /\ v = Opens(u, k)
    BY <1>0, OpensIs
  <1>2. s = Sends(f, v)
    OBVIOUS
  <1> HIDE DEF v
  <1>3. s.frame = f /\ Alike(n, v)
    BY <1>1, <1>2, SendsAlike
  <1>4. /\ f.type = "contentBlockStart" => r = q
        /\ f.type = "contentBlockDelta" => r = BeDelta(r0, f) /\ k = "text"
    BY <1>3 DEF ReadBedrock
  <1>4a. r0.d = d /\ Tells(g, r0, g) /\ q = BeOpen(r0, f)
    BY <1>5, ResultIs, ResultNone
  <1> HIDE DEF i, r0, q
  <1>6. PICK h : /\ Legal(g, Just(BlockStart(i, k)), h) /\ h.open = {<<i, k>>}
                 /\ h.used = g.used \cup {i} /\ Same(g, h)
    BY <1>0, <1>5, TellOpens
  <1>7. Told(h) /\ h.phase = "body" /\ h.start = NoUsage /\ i \in Int /\ <<i, k>> \in h.open
    BY <1>0, <1>5, <1>6, LegalEnds DEF Same
  <1>8. /\ d.started /\ ~ d.textOpen /\ ~ d.thinkingOpen /\ d.openTools = {} /\ ~ d.pendingStop
    BY <1>5 DEF BeState
  <1>9. PICK e \in Decode : /\ q = Push(r0, e, Just(BlockStart(i, k)))
                            /\ BeState(e, {i}, k, "body")
    <2>1. f.index = i
      BY <1>0
    <2>2. BeOpened(q, r0, i, k)
      BY <1>4a, <1>7, <1>8, <2>1, BeOpenIs
    <2> QED
      BY <2>2 DEF BeOpened
  <1>10. Tells(g, q, h) /\ q.d = e
    BY <1>4a, <1>6, <1>9, PushTells
  <1>11. Tells(g, r, h) /\ r.d = e
    <2>1. CASE f.type = "contentBlockStart"
      BY <1>4, <1>10, <2>1
    <2>2. CASE f.type = "contentBlockDelta"
      <3>1. r = BeDelta(r0, f) /\ k = "text"
        BY <1>4, <2>2
      <3>2. r = Push(q, e, Just(BlockDelta(i, k)))
        <4>1. f.index = i /\ (k = "thinking" => q.d.thinkingOpen)
              /\ ((k = "tool" /\ q = r0) \/ (k # "tool" /\ q = BeOpen(r0, f)))
          BY <1>0, <1>4a, <3>1
        <4> QED
          BY <1>10, <3>1, <4>1, BeDeltaIs
      <3>3. Legal(h, Just(BlockDelta(i, k)), h)
        BY <1>7, TellGoesOn
      <3> QED
        BY <1>10, <3>2, <3>3, PushTells
    <2> QED
      BY <2>1, <2>2
  <1>12. /\ One(n, h) /\ n.phase = "body" /\ n.fault = u.fault /\ n.sent = u.sent
         /\ n.kind = k /\ n.open = {i}
    BY <1>0, <1>1, <1>3, <1>5, <1>6, OneOpens
  <1> HIDE DEF n
  <1>13. BeState(e, n.open, n.kind, n.phase) /\ ~ n.fault /\ n.sent = NoUsage
    BY <1>5, <1>9, <1>12
  <1>14. ReaderInv(e, n, h)
    BY <1>7, <1>12, <1>13, BeKeeps
  <1> QED
    BY <1>1, <1>3, <1>11, <1>14, StepTells DEF n

LEMMA BeGoesOn ==
    ASSUME egress = "bedrock", NEW d \in Decode, NEW u \in UpType, u.phase = "body",
           NEW j \in u.open, NEW g, ReaderInv(d, u, g),
           NEW f, f.type = "contentBlockDelta", f.index = j, f.kind = u.kind,
           NEW s, s = Sends(f, u), NEW r, r = ReadBedrock(d, s.frame)
    PROVE  Advances(d, u, g, s, r)
  <1> DEFINE n == s.next
             k == u.kind
             r0 == Result(d, <<>>)
  <1>5. /\ Told(g) /\ One(u, g) /\ g.start = NoUsage /\ ~ u.fault /\ g.phase = "body"
        /\ u.sent = NoUsage /\ BeState(d, u.open, u.kind, u.phase)
    BY BeKnows
  <1>0. j \in Int /\ k \in Kinds /\ <<j, k>> \in g.open /\ k = u.kind
    BY <1>5, OneFacts
  <1>3. s.frame = f /\ Alike(n, u)
    BY SendsAlike
  <1>4. r = BeDelta(r0, f)
    BY <1>3 DEF ReadBedrock
  <1>4a. r0.d = d /\ Tells(g, r0, g)
    BY <1>5, ResultIs, ResultNone
  <1> HIDE DEF k, r0
  <1>4b. /\ d.started /\ (k = "text" => d.textOpen) /\ (k = "thinking" => d.thinkingOpen)
    BY <1>0, <1>5 DEF BeState
  <1>4c. k # "tool" => BeOpen(r0, f) = r0
    BY <1>0, <1>4a, <1>4b DEF BeOpen, Kinds
  <1>6. r = Push(r0, d, Just(BlockDelta(j, k)))
    <2>1. (k = "tool" /\ r0 = r0) \/ (k # "tool" /\ r0 = BeOpen(r0, f))
      BY <1>4c
    <2>2. k = "thinking" => r0.d.thinkingOpen
      BY <1>4a, <1>4b
    <2> QED
      BY <1>0, <1>4, <1>4a, <2>1, <2>2, BeDeltaIs
  <1>6a. Legal(g, Just(BlockDelta(j, k)), g)
    BY <1>0, <1>5, TellGoesOn
  <1>6b. Tells(g, r, g) /\ r.d = d
    BY <1>4a, <1>6, <1>6a, PushTells
  <1>7. /\ n.phase = "body" /\ n.open = u.open /\ n.used = u.used /\ n.kind = u.kind
        /\ n.sent = u.sent /\ ~ n.fault
    BY <1>3, <1>5 DEF Alike
  <1> HIDE DEF n
  <1>8. One(n, g)
    BY <1>5, <1>7, OneSame
  <1>8a. BeState(d, n.open, n.kind, n.phase)
    BY <1>5, <1>7
  <1>13. ReaderInv(d, n, g)
    BY <1>5, <1>7, <1>8, <1>8a, BeKeeps
  <1> QED
    BY <1>3, <1>6b, <1>13, StepTells DEF n

\* The open block is closed, whichever it is.
LEMMA BeStopIs ==
    ASSUME NEW d \in Decode, NEW j \in Int, NEW k \in Kinds, NEW X, X = {j},
           BeState(d, X, k, "body"), NEW f, f.index = j,
           NEW r, r.d = d, NEW q, q = BeStop(r, f)
    PROVE  \E e \in Decode : /\ q = Push(r, e, Just(BlockStop(j)))
                             /\ BeState(e, {}, k, "body")
  <1>0. /\ d.started /\ ~ d.pendingStop /\ (k = "tool" => j \in d.openTools)
        /\ (k # "tool" => d.openTools = {})
        /\ (d.textOpen <=> k = "text") /\ (d.thinkingOpen <=> k = "thinking")
        /\ (k = "tool" => d.openTools = {j})
    BY DEF BeState
  <1>1. CASE k = "tool"
    <2> DEFINE e == [d EXCEPT !.openTools = @ \ {j}]
    <2>1. e \in Decode
      BY DEF Decode
    <2>2. /\ e.started = d.started /\ e.openTools = d.openTools \ {j} /\ e.textOpen = d.textOpen
          /\ e.thinkingOpen = d.thinkingOpen /\ e.pendingStop = d.pendingStop
      BY DEF Decode
    <2>3. q = Push(r, e, Just(BlockStop(j)))
      BY <1>0, <1>1 DEF BeStop, Just
    <2> HIDE DEF e
    <2>4. BeState(e, {}, k, "body")
      BY <1>0, <1>1, <2>2 DEF BeState
    <2> QED
      BY <2>1, <2>3, <2>4
  <1>2. CASE k = "thinking"
    <2> DEFINE e == [d EXCEPT !.thinkingOpen = FALSE]
    <2>1. e \in Decode
      BY DEF Decode
    <2>2. /\ e.started = d.started /\ e.openTools = d.openTools /\ e.textOpen = d.textOpen
          /\ ~ e.thinkingOpen /\ e.pendingStop = d.pendingStop
      BY DEF Decode
    <2>3. q = Push(r, e, Just(BlockStop(j)))
      BY <1>0, <1>2 DEF BeStop, Just
    <2> HIDE DEF e
    <2>4. BeState(e, {}, k, "body")
      BY <1>0, <1>2, <2>2 DEF BeState
    <2> QED
      BY <2>1, <2>3, <2>4
  <1>3. CASE k = "text"
    <2> DEFINE e == [d EXCEPT !.textOpen = FALSE]
    <2>1. e \in Decode
      BY DEF Decode
    <2>2. /\ e.started = d.started /\ e.openTools = d.openTools /\ ~ e.textOpen
          /\ e.thinkingOpen = d.thinkingOpen /\ e.pendingStop = d.pendingStop
      BY DEF Decode
    <2>3. q = Push(r, e, Just(BlockStop(j)))
      BY <1>0, <1>3 DEF BeStop, Just
    <2> HIDE DEF e
    <2>4. BeState(e, {}, k, "body")
      BY <1>0, <1>3, <2>2 DEF BeState
    <2> QED
      BY <2>1, <2>3, <2>4
  <1> QED
    BY <1>1, <1>2, <1>3 DEF Kinds

LEMMA BeShuts ==
    ASSUME egress = "bedrock", NEW d \in Decode, NEW u \in UpType, u.phase = "body",
           NEW j \in u.open, NEW g, ReaderInv(d, u, g),
           NEW f, f.type = "contentBlockStop", f.index = j,
           NEW s, s = Sends(f, Shuts(u)), NEW r, r = ReadBedrock(d, s.frame)
    PROVE  Advances(d, u, g, s, r)
  <1> DEFINE n == s.next
             v == Shuts(u)
             k == u.kind
             r0 == Result(d, <<>>)
  <1>5. /\ Told(g) /\ One(u, g) /\ g.start = NoUsage /\ ~ u.fault /\ g.phase = "body"
        /\ u.sent = NoUsage /\ BeState(d, u.open, k, "body")
    BY BeKnows
  <1>0. j \in Int /\ g.open = {<<j, k>>} /\ u.open = {j} /\ k \in Kinds
    BY <1>5, OneFacts
  <1>1. v \in UpType /\ v.frames = u.frames /\ v = Shuts(u) /\ s = Sends(f, v)
    BY ShutsIs
  <1> HIDE DEF v
  <1>3. s.frame = f /\ Alike(n, v)
    BY <1>1, SendsAlike
  <1>4. r = BeStop(r0, f)
    BY <1>3 DEF ReadBedrock
  <1>4a. r0.d = d /\ Tells(g, r0, g)
    BY <1>5, ResultIs, ResultNone
  <1>4b. k = u.kind
    OBVIOUS
  <1> HIDE DEF k, r0
  <1>6. PICK h : /\ Legal(g, Just(BlockStop(j)), h) /\ h.open = {} /\ h.used = g.used /\ Same(g, h)
    BY <1>0, <1>5, TellShuts
  <1>7. Told(h) /\ h.phase = "body" /\ h.start = NoUsage
    BY <1>5, <1>6, LegalEnds DEF Same
  <1>8. PICK e \in Decode : /\ r = Push(r0, e, Just(BlockStop(j))) /\ BeState(e, {}, k, "body")
    <2> DEFINE X == u.open
    <2>1. X = {j} /\ BeState(d, X, k, "body")
      BY <1>0, <1>5
    <2> HIDE DEF X
    <2> QED
      BY <1>0, <1>4, <1>4a, <2>1, BeStopIs
  <1>9. Tells(g, r, h) /\ r.d = e
    BY <1>4a, <1>6, <1>8, PushTells
  <1>10. /\ One(n, h) /\ n.phase = "body" /\ n.fault = u.fault /\ n.sent = u.sent
         /\ n.kind = u.kind /\ n.open = {}
    BY <1>1, <1>3, <1>5, <1>6, OneShuts
  <1> HIDE DEF n
  <1>11. BeState(e, n.open, n.kind, n.phase) /\ ~ n.fault /\ n.sent = NoUsage
    BY <1>4b, <1>5, <1>8, <1>10
  <1>13. ReaderInv(e, n, h)
    BY <1>7, <1>10, <1>11, BeKeeps
  <1> QED
    BY <1>1, <1>3, <1>9, <1>13, StepTells DEF n

\* messageStop only marks the reason; metadata ends the message.
LEMMA BeStops ==
    ASSUME egress = "bedrock", NEW d \in Decode, NEW u \in UpType, u.phase = "body",
           u.open = {}, NEW g, ReaderInv(d, u, g), NEW f, f.type = "messageStop",
           NEW s, s = Sends(f, Goes(u, "stopped")),
           NEW r, r = ReadBedrock(d, s.frame)
    PROVE  Advances(d, u, g, s, r)
  <1> DEFINE v == Goes(u, "stopped")
             n == s.next
             r0 == Result(d, <<>>)
             e == [d EXCEPT !.pendingStop = TRUE]
  <1>1. /\ v \in UpType /\ v.frames = u.frames /\ v.phase = "stopped" /\ v.open = u.open
        /\ v.used = u.used /\ v.sent = u.sent /\ v.kind = u.kind /\ v.fault = u.fault
    BY GoesIs
  <1>2. s = Sends(f, v)
    OBVIOUS
  <1> HIDE DEF v
  <1>3. s.frame = f /\ Alike(n, v)
    BY <1>1, <1>2, SendsAlike
  <1>0. /\ Told(g) /\ One(u, g) /\ g.start = NoUsage /\ ~ u.fault /\ g.phase = "body"
        /\ u.sent = NoUsage /\ BeState(d, u.open, u.kind, u.phase)
    BY BeKnows
  <1>4. r = Push(r0, e, <<>>)
    BY <1>3 DEF ReadBedrock
  <1>5. Tells(g, r0, g)
    BY <1>0, ResultNone
  <1>6. e \in Decode
    BY DEF Decode
  <1>7. /\ e.started = d.started /\ e.openTools = d.openTools /\ e.textOpen = d.textOpen
        /\ e.thinkingOpen = d.thinkingOpen /\ e.pendingStop
    BY DEF Decode
  <1> HIDE DEF r0, e
  <1>8. Tells(g, r, g) /\ r.d = e
    BY <1>4, <1>5, <1>6, PushNone
  <1>9. /\ n.phase = "stopped" /\ n.open = u.open /\ n.used = u.used /\ n.kind = u.kind
        /\ n.sent = u.sent /\ ~ n.fault
    BY <1>0, <1>1, <1>3 DEF Alike
  <1> HIDE DEF n
  <1>10. One(n, g)
    BY <1>0, <1>9, OneSame
  <1>11. BeState(e, n.open, n.kind, n.phase)
    BY <1>0, <1>7, <1>9 DEF BeState
  <1>12. ReaderInv(e, n, g)
    BY <1>0, <1>9, <1>10, <1>11, BeKeeps
  <1> QED
    BY <1>1, <1>3, <1>8, <1>12, StepTells DEF n

LEMMA BeEnds ==
    ASSUME egress = "bedrock", NEW d \in Decode, NEW u \in UpType, u.phase = "stopped",
           NEW g, ReaderInv(d, u, g), NEW f, f.type = "metadata", f.usage = Final,
           NEW s, s = Sends(f, Ended(u, "tail", Final)),
           NEW r, r = ReadBedrock(d, s.frame)
    PROVE  Advances(d, u, g, s, r)
  <1> DEFINE v == Ended(u, "tail", Final)
             n == s.next
             r0 == Result(d, <<>>)
             e == [d EXCEPT !.pendingStop = FALSE]
  <1>1. /\ v \in UpType /\ v.frames = u.frames /\ v.phase = "tail" /\ v.open = u.open
        /\ v.used = u.used /\ v.sent = Final /\ v.kind = u.kind /\ v.fault = u.fault
    BY EndedIs
  <1>2. s = Sends(f, v)
    OBVIOUS
  <1> HIDE DEF v
  <1>3. s.frame = f /\ Alike(n, v)
    BY <1>1, <1>2, SendsAlike
  <1>0. /\ Told(g) /\ One(u, g) /\ g.start = NoUsage /\ ~ u.fault /\ g.phase = "body"
        /\ u.sent = NoUsage /\ BeState(d, u.open, u.kind, u.phase)
    BY BeKnows
  <1>4. r = Push(r0, e, EndOf(Final))
    <2>1. d.pendingStop = TRUE
      BY <1>0, DecodeFields DEF BeState
    <2>2. r = Push(r0, e, <<MessageDelta(d.pendingStop, Final), MessageStop>>)
      BY <1>3 DEF ReadBedrock
    <2> QED
      BY <2>1, <2>2 DEF EndOf, FinalDelta
  <1>5. Tells(g, r0, g)
    BY <1>0, ResultNone
  <1>6. e \in Decode
    BY DEF Decode
  <1> DEFINE w == Final
             la == LastOf(g, w)
  <1>7. w \in Tokens /\ w \in Wholes /\ Whole(g, w) = w /\ la = LastOf(g, w) /\ la = Final /\ w = Final
    BY <1>0, TokensAre, WholeIs DEF LastOf, Wholes
  <1> HIDE DEF r0, e, w, la
  <1>8. PICK h : Ending(g, EndOf(w), h, "terminal", la)
    BY <1>0, <1>7, TellEnd
  <1>9. /\ Told(h) /\ h.phase = "terminal" /\ h.last = Final /\ h.start = NoUsage
        /\ Legal(g, EndOf(Final), h)
    BY <1>0, <1>7, <1>8, LegalEnds DEF Ending
  <1>10. Tells(g, r, h) /\ r.d = e
    BY <1>4, <1>5, <1>6, <1>9, PushTells
  <1>11. /\ n.phase = "tail" /\ n.open = u.open /\ n.kind = u.kind
         /\ n.sent = Final /\ ~ n.fault
    BY <1>0, <1>1, <1>3 DEF Alike
  <1> HIDE DEF n
  <1>12. One(n, h)
    BY <1>0, <1>11, OneLeaves
  <1>13. h.last = ReportedBy(n)
    BY <1>9, <1>11, UsageIs DEF ReportedBy
  <1>14. ReaderInv(e, n, h)
    BY <1>9, <1>11, <1>12, <1>13, BeKeeps
  <1> QED
    BY <1>1, <1>3, <1>10, <1>14, StepTells DEF n

\* What the bedrock upstream sends.
BeSent(u, X, s) ==
    \/ s = Fails(u, "exception")
    \/ u.phase = "head" /\ s = Sends(Says("messageStart"), Goes(u, "body"))
    \/ /\ u.phase = "body" /\ X = {}
       /\ \/ \E k \in Kinds : s = Sends(BlockFrame("contentBlockStart", NextIndex(u), k, Zero), Opens(u, k))
          \/ s = Sends(BlockFrame("contentBlockDelta", NextIndex(u), "text", Zero), Opens(u, "text"))
          \/ s = Sends(Says("messageStop"), Goes(u, "stopped"))
    \/ /\ u.phase = "body"
       /\ \E j \in X : \/ s = Sends(BlockFrame("contentBlockDelta", j, u.kind, Zero), u)
                       \/ s = Sends(BlockFrame("contentBlockStop", j, u.kind, Zero), Shuts(u))
    \/ /\ u.phase = "stopped"
       /\ s = Sends(BlockFrame("metadata", 0, "", Final), Ended(u, "tail", Final))

LEMMA BeSends ==
    ASSUME NEW u, u.phase \in {"head", "body", "stopped", "tail", "closed"},
           NEW s \in BedrockSends(u), NEW X, X = u.open
    PROVE  BeSent(u, X, s)
  <1>2. CASE u.phase = "head"
    BY <1>2 DEF BedrockSends, BeSent
  <1>3. CASE u.phase = "body" /\ u.open = {}
    BY <1>3 DEF BedrockSends, BeSent
  <1>4. CASE u.phase = "body" /\ u.open # {}
    BY <1>4 DEF BedrockSends, BeSent
  <1>5. CASE u.phase = "stopped"
    BY <1>5 DEF BedrockSends, BeSent
  <1>6. CASE u.phase \in {"tail", "closed"}
    BY <1>6 DEF BedrockSends, BeSent
  <1> QED
    BY <1>2, <1>3, <1>4, <1>5, <1>6

\* The bedrock reader goes on with the story.
LEMMA BedrockReads ==
    ASSUME egress = "bedrock", NEW d \in Decode, NEW u \in UpType, u.phase # "closed",
           NEW g, ReaderInv(d, u, g), NEW s \in BedrockSends(u),
           NEW r, r = ReadBedrock(d, s.frame)
    PROVE  Advances(d, u, g, s, r)
  <1> DEFINE X == u.open
  <1>2. X = u.open /\ u.phase \in {"head", "body", "stopped", "tail", "closed"}
    BY UpFields
  <1> HIDE DEF X
  <1>3. BeSent(u, X, s)
    BY <1>2, BeSends
  <1>4. CASE s = Fails(u, "exception")
    BY <1>4, BeFails
  <1>5. CASE u.phase = "head" /\ s = Sends(Says("messageStart"), Goes(u, "body"))
    <2> DEFINE f == Says("messageStart")
    <2>1. f.type = "messageStart"
      BY DEF BlockFrame, Says
    <2> HIDE DEF f
    <2>2. s = Sends(f, Goes(u, "body"))
      BY <1>5 DEF f
    <2> QED
      BY <1>5, <2>1, <2>2, BeStarts
  <1>6. ASSUME u.phase = "body", X = {}, NEW k \in Kinds,
               NEW t, t = "contentBlockStart" \/ (t = "contentBlockDelta" /\ k = "text"),
               s = Sends(BlockFrame(t, NextIndex(u), k, Zero), Opens(u, k))
        PROVE  Advances(d, u, g, s, r)
    <2> DEFINE f == BlockFrame(t, NextIndex(u), k, Zero)
    <2>1. f.type = t /\ f.index = NextIndex(u) /\ f.kind = k
      BY DEF BlockFrame
    <2> HIDE DEF f
    <2>2. s = Sends(f, Opens(u, k)) /\ u.open = {}
      BY <1>2, <1>6 DEF f
    <2>3. f.type = "contentBlockStart" \/ (f.type = "contentBlockDelta" /\ k = "text")
      BY <1>6, <2>1
    <2> QED
      BY <1>6, <2>1, <2>2, <2>3, BeOpens
  <1>7. CASE u.phase = "body" /\ X = {} /\ s = Sends(Says("messageStop"), Goes(u, "stopped"))
    <2> DEFINE f == Says("messageStop")
    <2>1. f.type = "messageStop"
      BY DEF BlockFrame, Says
    <2> HIDE DEF f
    <2>2. s = Sends(f, Goes(u, "stopped")) /\ u.open = {}
      BY <1>2, <1>7 DEF f
    <2> QED
      BY <1>7, <2>1, <2>2, BeStops
  <1>8. ASSUME u.phase = "body", NEW j \in X, s = Sends(BlockFrame("contentBlockDelta", j, u.kind, Zero), u)
        PROVE  Advances(d, u, g, s, r)
    <2> DEFINE f == BlockFrame("contentBlockDelta", j, u.kind, Zero)
    <2>1. f.type = "contentBlockDelta" /\ f.index = j /\ f.kind = u.kind
      BY DEF BlockFrame
    <2> HIDE DEF f
    <2>2. s = Sends(f, u) /\ j \in u.open
      BY <1>2, <1>8 DEF f
    <2> QED
      BY <1>8, <2>1, <2>2, BeGoesOn
  <1>9. ASSUME u.phase = "body", NEW j \in X, s = Sends(BlockFrame("contentBlockStop", j, u.kind, Zero), Shuts(u))
        PROVE  Advances(d, u, g, s, r)
    <2> DEFINE f == BlockFrame("contentBlockStop", j, u.kind, Zero)
    <2>1. f.type = "contentBlockStop" /\ f.index = j
      BY DEF BlockFrame
    <2> HIDE DEF f
    <2>2. s = Sends(f, Shuts(u)) /\ j \in u.open
      BY <1>2, <1>9 DEF f
    <2> QED
      BY <1>9, <2>1, <2>2, BeShuts
  <1>10. CASE u.phase = "stopped" /\ s = Sends(BlockFrame("metadata", 0, "", Final), Ended(u, "tail", Final))
    <2> DEFINE f == BlockFrame("metadata", 0, "", Final)
    <2>1. f.type = "metadata" /\ f.usage = Final
      BY DEF BlockFrame
    <2> HIDE DEF f
    <2>2. s = Sends(f, Ended(u, "tail", Final))
      BY <1>10 DEF f
    <2> QED
      BY <1>10, <2>1, <2>2, BeEnds
  <1>11. "text" \in Kinds
    BY DEF Kinds
  <1> QED
    BY <1>3, <1>4, <1>5, <1>6, <1>7, <1>8, <1>9, <1>10, <1>11 DEF BeSent

(* The gemini reader. *)
PartKinds == {"thought", "text", "call"}
GeTalks(g0, q) ==
    \E h : Tells(g0, q, h) /\ Chat(q.d, h, q.d.openTools) /\ Thinks(q.d)

GeFold(r, s) == FoldLeft(GePart, r, s)

\* The parts of a gemini chunk are at most two.
LEMMA GeFoldNone ==
    ASSUME NEW r, NEW s, s = <<>>
    PROVE  GeFold(r, s) = r
  <1>1. DOMAIN s = 1 .. Len(s) /\ Len(s) = 0
    OBVIOUS
  <1>2. GeFold(r, s) = FoldTo("part", r, s, 0)
    BY <1>1, PartFold DEF GeFold
  <1> QED
    BY <1>2, FoldZero

LEMMA GeFoldOne ==
    ASSUME NEW r, NEW t, NEW s, s = <<t>>
    PROVE  GeFold(r, s) = GePart(r, t)
  <1>1. DOMAIN s = 1 .. Len(s) /\ Len(s) = 1 /\ s[1] = t
    OBVIOUS
  <1>2. GeFold(r, s) = FoldTo("part", r, s, 1)
    BY <1>1, PartFold DEF GeFold
  <1>3. FoldTo("part", r, s, 0 + 1) = Do("part", FoldTo("part", r, s, 0), s[0 + 1])
    BY FoldNext
  <1>4. FoldTo("part", r, s, 0) = r
    BY FoldZero
  <1>5. 0 + 1 = 1
    OBVIOUS
  <1>6. Do("part", r, t) = GePart(r, t)
    BY DEF Do
  <1> QED
    BY <1>1, <1>2, <1>3, <1>4, <1>5, <1>6

LEMMA GeFoldTwo ==
    ASSUME NEW r, NEW t, NEW v, NEW s, s = <<t, v>>, NEW x, x = GePart(r, t)
    PROVE  GeFold(r, s) = GePart(x, v)
  <1>1. DOMAIN s = 1 .. Len(s) /\ Len(s) = 2 /\ s[1] = t /\ s[2] = v
    OBVIOUS
  <1>2. GeFold(r, s) = FoldTo("part", r, s, 2)
    BY <1>1, PartFold DEF GeFold
  <1>3. FoldTo("part", r, s, 0 + 1) = Do("part", FoldTo("part", r, s, 0), s[0 + 1])
    BY FoldNext
  <1>4. FoldTo("part", r, s, 1 + 1) = Do("part", FoldTo("part", r, s, 1), s[1 + 1])
    BY FoldNext
  <1>5. FoldTo("part", r, s, 0) = r
    BY FoldZero
  <1>6. 0 + 1 = 1 /\ 1 + 1 = 2
    OBVIOUS
  <1>7. Do("part", r, t) = x
    BY DEF Do
  <1>8. Do("part", x, v) = GePart(x, v)
    BY DEF Do
  <1> QED
    BY <1>1, <1>2, <1>3, <1>4, <1>5, <1>6, <1>7, <1>8

\* The decode state after a call has opened.
GeCalled(d, ix) == [d EXCEPT !.openTools = @ \cup {ix}, !.nextIr = ix + 1]

GeCalledAs(e, d, ix) ==
    /\ e \in Decode /\ e.openTools = d.openTools \cup {ix} /\ e.nextIr = ix + 1
    /\ e.thinkingOpen = d.thinkingOpen /\ e.textOpen = d.textOpen
    /\ e.textIndex = d.textIndex /\ e.reasoningSeen = d.reasoningSeen
    /\ e.started = d.started

LEMMA GeCalledIs ==
    ASSUME NEW d \in Decode, NEW ix \in Nat
    PROVE  GeCalledAs(GeCalled(d, ix), d, ix)
  <1> DEFINE e == GeCalled(d, ix)
  <1>1. d.openTools \cup {ix} \subseteq Int /\ ix + 1 \in Int
    BY DecodeFields
  <1> DEFINE T == d.openTools \cup {ix}
             n == ix + 1
  <1>2. e = [d EXCEPT !.openTools = T, !.nextIr = n] /\ T \subseteq Int /\ n \in Int
    BY <1>1 DEF GeCalled
  <1> HIDE DEF T, n, e
  <1>3. e \in Decode
    BY <1>2 DEF Decode
  <1>4. /\ e.openTools = T /\ e.nextIr = n
        /\ e.thinkingOpen = d.thinkingOpen /\ e.textOpen = d.textOpen
        /\ e.textIndex = d.textIndex /\ e.reasoningSeen = d.reasoningSeen
        /\ e.started = d.started
    BY <1>2 DEF Decode
  <1> QED
    BY <1>3, <1>4 DEF T, n, e, GeCalledAs

\* A function call opens a block of its own and closes it.
LEMMA GeCallTells ==
    ASSUME NEW g0, NEW r, GeTalks(g0, r), NEW q, q = GeCall(r)
    PROVE  GeTalks(g0, q) /\ q.d.started = r.d.started
  <1>1. PICK g : Tells(g0, r, g) /\ Chat(r.d, g, r.d.openTools) /\ Thinks(r.d)
    BY DEF GeTalks
  <1> DEFINE p == CloseThinking(r)
             T == r.d.openTools
             ix == ClaimIrIndex(r.d)
             d == p.d
             e == GeCalled(d, ix)
  <1>2. CASE Cardinality(r.d.openTools) >= MaxToolFrames
    <2>1. q = r
      BY <1>2 DEF GeCall
    <2> QED
      BY <2>1
  <1>3. CASE ~ (Cardinality(r.d.openTools) >= MaxToolFrames)
    <2>1. q = Push(p, e, <<BlockStart(ix, "tool"), BlockDelta(ix, "tool")>>)
      BY <1>3 DEF GeCall, GeCalled
    <2>2. d = [r.d EXCEPT !.thinkingOpen = FALSE]
      BY <1>1, CloseThinkingTells
    <2>3. PICK h : Tells(g0, p, h) /\ Chat(d, h, T)
      BY <1>1, CloseThinkingTells
    <2>4. r.d \in Decode
      BY <1>1 DEF Tells
    <2>5. d.openTools = T /\ d.started = r.d.started /\ ~ d.thinkingOpen
          /\ d.nextIr = r.d.nextIr /\ d.reasoningSeen = r.d.reasoningSeen
      BY <2>2, <2>4 DEF Decode
    <2>6. ix = ClaimIrIndex(d)
      BY <2>5 DEF ClaimIrIndex
    <2>7. d \in Decode /\ Told(h)
      BY <2>3, LegalEnds DEF Tells
    <2>w. e = GeCalled(d, ix) /\ d = p.d
      OBVIOUS
    <2> HIDE DEF p, T, ix, d, e
    <2>8. /\ ix \in Nat
      BY <2>3, <2>6, <2>7, ClaimIsFresh
    <2>9. PICK k : /\ Legal(h, <<BlockStart(ix, "tool")>>, k)
                   /\ <<ix, "tool">> \in k.open /\ k.phase = "body"
                   /\ \A x : /\ x.thinkingOpen = d.thinkingOpen /\ x.textOpen = d.textOpen
                             /\ x.textIndex = d.textIndex
                             /\ x.reasoningSeen = d.reasoningSeen
                             /\ x.nextIr = ix + 1
                             => Chat(x, k, T \cup {ix}) /\ Thinks(x)
      BY <2>3, <2>5, <2>6, <2>7, ClaimTells
    <2>10. /\ e \in Decode /\ e.openTools = d.openTools \cup {ix} /\ e.nextIr = ix + 1
           /\ e.thinkingOpen = d.thinkingOpen /\ e.textOpen = d.textOpen
           /\ e.textIndex = d.textIndex /\ e.reasoningSeen = d.reasoningSeen
           /\ e.started = d.started
      <3>1. GeCalledAs(GeCalled(d, ix), d, ix)
        BY <2>7, <2>8, GeCalledIs
      <3> QED
        BY <2>w, <3>1 DEF GeCalledAs
    <2>11. Chat(e, k, T \cup {ix}) /\ Thinks(e)
      BY <2>9, <2>10
    <2>12. Legal(k, <<BlockDelta(ix, "tool")>>, k)
      <3>1. Told(k) /\ "tool" \in Kinds /\ ix \in Int
        BY <2>8, <2>9, LegalEnds DEF Kinds
      <3> QED
        BY <2>9, <3>1, TellBlockDelta
    <2> DEFINE a == <<BlockStart(ix, "tool")>>
               b == <<BlockDelta(ix, "tool")>>
               evs == a \o b
    <2>13. Legal(h, evs, k)
      <3>1. Legal(h, a, k) /\ Legal(k, b, k)
        BY <2>9, <2>12
      <3> HIDE DEF a, b
      <3> QED
        BY <3>1, LegalCat
    <2>14. q = Push(p, e, evs)
      BY <2>1, PairCat
    <2> HIDE DEF evs
    <2>15. Tells(g0, q, k) /\ q.d = e
      BY <2>3, <2>10, <2>13, <2>14, PushTells
    <2> QED
      BY <2>5, <2>10, <2>11, <2>15 DEF GeTalks
  <1> QED
    BY <1>2, <1>3

LEMMA GePartTells ==
    ASSUME NEW g0, NEW r, GeTalks(g0, r), NEW t \in PartKinds, NEW q, q = GePart(r, t)
    PROVE  GeTalks(g0, q) /\ q.d.started = r.d.started
  <1>1. PICK g : Tells(g0, r, g) /\ Chat(r.d, g, r.d.openTools) /\ Thinks(r.d)
    BY DEF GeTalks
  <1>2. CASE t = "thought"
    <2>1. q = AddReasoning(r)
      BY <1>2 DEF GePart
    <2> QED
      BY <1>1, <2>1, AddReasoningTells DEF GeTalks
  <1>3. CASE t = "text"
    <2>1. q = AddText(r)
      BY <1>3 DEF GePart
    <2> QED
      BY <1>1, <2>1, AddTextTells DEF GeTalks
  <1>4. CASE t = "call"
    <2>1. q = GeCall(r)
      BY <1>4 DEF GePart
    <2> QED
      BY <2>1, GeCallTells
  <1> QED
    BY <1>2, <1>3, <1>4 DEF PartKinds

\* The parts of a chunk: none, one or two.
GePartsOk(s) ==
    \/ s = <<>>
    \/ \E t \in PartKinds : s = <<t>>
    \/ \E t, v \in PartKinds : s = <<t, v>>

\* The parts of a chunk, one after the other.
LEMMA GePartsTell ==
    ASSUME NEW g0, NEW r, GeTalks(g0, r), NEW s, GePartsOk(s), NEW q, q = GeFold(r, s)
    PROVE  GeTalks(g0, q) /\ q.d.started = r.d.started
  <1>1. CASE s = <<>>
    BY <1>1, GeFoldNone
  <1>2. ASSUME NEW t \in PartKinds, s = <<t>>
        PROVE  GeTalks(g0, q) /\ q.d.started = r.d.started
    BY <1>2, GeFoldOne, GePartTells
  <1>3. ASSUME NEW t \in PartKinds, NEW v \in PartKinds, s = <<t, v>>
        PROVE  GeTalks(g0, q) /\ q.d.started = r.d.started
    <2> DEFINE x == GePart(r, t)
    <2>1. GeTalks(g0, x) /\ x.d.started = r.d.started
      BY GePartTells
    <2>2. x = GePart(r, t)
      OBVIOUS
    <2> HIDE DEF x
    <2>3. q = GePart(x, v)
      BY <1>3, <2>2, GeFoldTwo
    <2> QED
      BY <2>1, <2>3, GePartTells
  <1> QED
    BY <1>1, <1>2, <1>3 DEF GePartsOk

LEMMA SeqWiden ==
    ASSUME NEW S, NEW T, S \subseteq T, NEW q \in Seq(S)
    PROVE  q \in Seq(T)
  <1>1. Len(q) \in Nat /\ \A n \in 1 .. Len(q) : q[n] \in T
    OBVIOUS
  <1>2. q = [n \in 1 .. Len(q) |-> q[n]]
    OBVIOUS
  <1> DEFINE l == Len(q)
  <1>3. q \in [1 .. l -> T] /\ l \in Nat
    BY <1>1, <1>2
  <1> QED
    BY <1>3

\* What gemini's two ends leave of the decode state, and the stops they write.
GeDone(d) == [d EXCEPT !.textOpen = FALSE, !.openTools = {},
                       !.textIndex = IF d.textOpen THEN None ELSE @]
GeCloses(d) == (IF d.textOpen THEN <<BlockStop(d.textIndex)>> ELSE <<>>)
               \o Stops(Ascending(d.openTools))

LEMMA GeDoneIs ==
    ASSUME NEW d \in Decode, NEW e, e = GeDone(d)
    PROVE  /\ e \in Decode /\ e.started = d.started /\ e.thinkingOpen = d.thinkingOpen
           /\ ~ e.textOpen /\ e.openTools = {}
  <1> DEFINE ti == IF d.textOpen THEN None ELSE d.textIndex
  <1>1. ti \in Int
    BY DecodeFields DEF None
  <1>2. e = [d EXCEPT !.textOpen = FALSE, !.openTools = {}, !.textIndex = ti]
    BY DEF GeDone, Decode
  <1> HIDE DEF ti
  <1>3. e \in Decode
    BY <1>1, <1>2 DEF Decode
  <1> QED
    BY <1>2, <1>3 DEF Decode

LEMMA GeFinishIs ==
    ASSUME NEW r, NEW c, NEW u, c.usage = u, NEW p, p = CloseThinking(r),
           NEW e, e = GeDone(p.d), NEW x, x = GeCloses(p.d)
    PROVE  GeFinish(r, c) = Push(p, e, x \o EndOf(u))
  <1>1. GeFinish(r, c) = Push(p, e, GeCloses(p.d) \o <<MessageDelta(TRUE, c.usage), MessageStop>>)
    BY DEF GeFinish, GeCloses, GeDone, Stops
  <1> QED
    BY <1>1 DEF EndOf, FinalDelta

LEMMA GeClosesTells ==
    ASSUME NEW d \in Decode, NEW g, Told(g), Chat(d, g, d.openTools), ~ d.thinkingOpen,
           NEW x, x = GeCloses(d)
    PROVE  \E h : Legal(g, x, h) /\ h.phase = "body" /\ h.start = NoUsage /\ Told(h)
  <1> DEFINE S == d.openTools
             q == Ascending(S)
  <1>1. S \subseteq Int /\ d.textIndex \in Int
    BY DecodeFields
  <1>2. IsFiniteSet(S)
    <2>1. S \subseteq g.used /\ IsFiniteSet(g.used)
      BY ChatOpen DEF Told
    <2> QED
      BY <2>1, FS_Subset
  <1>c. Chat(d, g, S)
    OBVIOUS
  <1> DEFINE st == IF d.textOpen THEN <<BlockStop(d.textIndex)>> ELSE <<>>
             ss == Stops(q)
  <1>w. x = st \o ss /\ st = (IF d.textOpen THEN <<BlockStop(d.textIndex)>> ELSE <<>>)
        /\ ss = Stops(q)
    BY DEF GeCloses
  <1> HIDE DEF S, st, ss
  <1>3. /\ q \in Seq(S) /\ Len(q) = Cardinality(S)
        /\ \A m, n \in 1 .. Len(q) : q[m] = q[n] => m = n
    BY <1>1, <1>2, AscendingLists
  <1> HIDE DEF q
  <1>4. \A n \in 1 .. Len(q) : q[n] \in S
    BY <1>3
  <1>5. q \in Seq(Int)
    BY <1>1, <1>3, SeqWiden
  <1>6. /\ \A n \in 1 .. Len(q) : q[n] \in S
        /\ \A m, n \in 1 .. Len(q) : q[m] = q[n] => m = n
    BY <1>3, <1>4
  <1>7. \E h : /\ Legal(g, st \o ss, h)
              /\ h.phase = "body" /\ h.start = NoUsage /\ Told(h)
    BY <1>1, <1>5, <1>6, <1>c, <1>w, ChatCloses
  <1> QED
    BY <1>7, <1>w

GeMayEnd(d, g, u) ==
    \/ Chat(d, g, d.openTools)
    \/ /\ g.phase = "terminal" /\ g.start = NoUsage /\ u = Zero
       /\ ~ d.thinkingOpen /\ ~ d.textOpen /\ d.openTools = {}

LEMMA GeFinishCloses ==
    ASSUME NEW g0, NEW r, NEW g, Tells(g0, r, g), NEW u, GeMayEnd(r.d, g, u),
           NEW p, p = CloseThinking(r), NEW x, x = GeCloses(p.d)
    PROVE  OaClosed(p, g0, r, g, u, x)
  <1>0. r.d \in Decode /\ Told(g)
    BY LegalEnds DEF Tells
  <1>1. CASE Chat(r.d, g, r.d.openTools)
    <2>1. p.d = [r.d EXCEPT !.thinkingOpen = FALSE]
      BY <1>1, CloseThinkingTells
    <2>2. PICK k : Tells(g0, p, k) /\ Chat(p.d, k, r.d.openTools)
      BY <1>1, CloseThinkingTells
    <2>a. p.d.openTools = r.d.openTools /\ p.d.started = r.d.started /\ ~ p.d.thinkingOpen
      BY <1>0, <2>1 DEF Decode
    <2>3. Told(k) /\ p.d \in Decode
      BY <2>2, LegalEnds DEF Tells
    <2> DEFINE d == p.d
    <2>b. d \in Decode /\ Chat(d, k, d.openTools) /\ ~ d.thinkingOpen /\ x = GeCloses(d)
      BY <2>2, <2>3, <2>a
    <2> HIDE DEF d
    <2>4. PICK h : Legal(k, x, h) /\ h.phase = "body" /\ h.start = NoUsage /\ Told(h)
      BY <2>3, <2>b, GeClosesTells
    <2>5. h.last = NoUsage /\ g.last = NoUsage
      BY <1>0, <2>4, <1>1 DEF Told, Chat
    <2>6. LastOf(h, u) = LastOf(g, u)
      BY <2>5 DEF LastOf
    <2> QED
      BY <2>2, <2>3, <2>4, <2>6, <2>a DEF OaClosed
  <1>2. CASE /\ g.phase = "terminal" /\ g.start = NoUsage /\ u = Zero
             /\ ~ r.d.thinkingOpen /\ ~ r.d.textOpen /\ r.d.openTools = {}
    <2>1. p = r
      BY <1>2 DEF CloseThinking
    <2>3. GeCloses(r.d) = <<>> \o Stops(Ascending({}))
      BY <1>2 DEF GeCloses
    <2>4. GeCloses(r.d) = <<>>
      BY <2>3, AscendingNone DEF Stops
    <2>6. Legal(g, x, g)
      BY <1>0, <2>1, <2>4, LegalNone
    <2> QED
      BY <1>0, <1>2, <2>1, <2>6 DEF OaClosed
  <1> QED
    BY <1>1, <1>2 DEF GeMayEnd

\* The finish reason closes the blocks and ends the message.
LEMMA GeFinishTells ==
    ASSUME NEW g0, NEW r, NEW g, NEW c, Tells(g0, r, g),
           NEW u, u \in Wholes, c.usage = u, NEW q, q = GeFinish(r, c),
           GeMayEnd(r.d, g, u)
    PROVE  OaDone(q, g0, r, LastOf(g, u))
  <1> DEFINE p == CloseThinking(r)
             e == GeDone(p.d)
             x == GeCloses(p.d)
             evs == x \o EndOf(u)
  <1>a. /\ p = CloseThinking(r) /\ x = GeCloses(p.d) /\ evs = x \o EndOf(u)
        /\ e = GeDone(p.d)
    OBVIOUS
  <1> HIDE DEF p, e, x, evs
  <1>0. q = Push(p, e, evs)
    BY <1>a, GeFinishIs
  <1>1. OaClosed(p, g0, r, g, u, x)
    BY <1>a, GeFinishCloses
  <1>1a. ~ p.d.thinkingOpen /\ p.d.started = r.d.started /\ p.d \in Decode
    BY <1>1 DEF OaClosed
  <1>2. PICK k, h : /\ Tells(g0, p, k) /\ Legal(k, x, h) /\ Told(h)
                    /\ h.start = NoUsage /\ LastOf(h, u) = LastOf(g, u)
                    /\ (h.phase = "body" \/ (h.phase = "terminal" /\ u = Zero))
    BY <1>1 DEF OaClosed
  <1>3. PICK w : Ending(h, EndOf(u), w, "terminal", LastOf(h, u))
    <2>1. u \in Tokens /\ Whole(h, u) = u
      BY <1>2, TokensAre, WholeIs DEF Wholes
    <2>2. h.phase # "body" => h.phase = "terminal" /\ u = Zero
      BY <1>2
    <2> QED
      BY <1>2, <2>1, <2>2, TellEnd
  <1>3a. Legal(h, EndOf(u), w) /\ w.phase = "terminal" /\ w.start = NoUsage /\ w.last = LastOf(g, u)
    BY <1>2, <1>3 DEF Ending
  <1>4. Legal(k, evs, w)
    BY <1>2, <1>3a, <1>a, LegalCat
  <1> DEFINE pd == p.d
  <1>b. pd \in Decode /\ e = GeDone(pd)
    BY <1>1a, <1>a
  <1> HIDE DEF pd
  <1>5. /\ e \in Decode /\ e.started = pd.started
        /\ ~ e.textOpen /\ e.openTools = {} /\ e.thinkingOpen = pd.thinkingOpen
    BY <1>b, GeDoneIs
  <1>6. Tells(g0, q, w) /\ q.d = e
    BY <1>0, <1>2, <1>4, <1>5, PushTells
  <1> QED
    BY <1>1a, <1>3a, <1>5, <1>6 DEF OaDone, pd

-----------------------------------------------------------------------------
\* The start of a chunk's reading, and what comes before the finish.
GeStart(d) == OaStart(Result(d, <<>>))
GeBody(d, c) == IF c.extra THEN AddText(GeFold(GeStart(d), c.parts))
                ELSE GeFold(GeStart(d), c.parts)

LEMMA GeStartTells ==
    ASSUME NEW d \in Decode, NEW g, Told(g), g.phase = "body", NEW q, q = GeStart(d)
    PROVE  Tells(g, q, g) /\ q.d = [d EXCEPT !.started = TRUE]
  <1> DEFINE r == Result(d, <<>>)
  <1>1. Tells(g, r, g) /\ r.d = d
    BY ResultNone, ResultIs
  <1>2. q = OaStart(r)
    BY DEF GeStart
  <1> HIDE DEF r
  <1> QED
    BY <1>1, <1>2, StartTells

LEMMA GeBodyTells ==
    ASSUME NEW d \in Decode, NEW g, Told(g), Chat(d, g, d.openTools), Thinks(d), NEW c,
           GePartsOk(c.parts), NEW q, q = GeBody(d, c)
    PROVE  GeTalks(g, q) /\ q.d.started
  <1> DEFINE r == GeStart(d)
             e == r.d
             p == GeFold(r, c.parts)
  <1>1. Tells(g, r, g) /\ e = [d EXCEPT !.started = TRUE] /\ e = r.d
    BY GeStartTells DEF Chat
  <1>w. /\ p = GeFold(r, c.parts)
        /\ (c.extra => q = AddText(p)) /\ (~ c.extra => q = p)
    BY DEF GeBody
  <1> HIDE DEF r, e, p
  <1>2. /\ e.started /\ e.openTools = d.openTools /\ e.thinkingOpen = d.thinkingOpen
        /\ e.textOpen = d.textOpen /\ e.textIndex = d.textIndex
        /\ e.reasoningSeen = d.reasoningSeen /\ e.nextIr = d.nextIr
    BY <1>1, StartDecode
  <1>3. Chat(e, g, e.openTools) /\ Thinks(e)
    BY <1>2, ChatSame
  <1>4. GeTalks(g, r)
    BY <1>1, <1>3 DEF GeTalks
  <1>5. GeTalks(g, p) /\ p.d.started = r.d.started
    BY <1>4, <1>w, GePartsTell
  <1>6. CASE c.extra
    <2>1. PICK h : Tells(g, p, h) /\ Chat(p.d, h, p.d.openTools)
      BY <1>5 DEF GeTalks
    <2>2. /\ q.d.openTools = p.d.openTools /\ q.d.started = p.d.started
          /\ \E k : Tells(g, q, k) /\ Chat(q.d, k, p.d.openTools) /\ Thinks(q.d)
      BY <1>6, <1>w, <2>1, AddTextTells
    <2> QED
      BY <1>1, <1>2, <1>5, <2>2 DEF GeTalks
  <1> QED
    BY <1>1, <1>2, <1>5, <1>6, <1>w

\* A chunk after the end; parts; an error; a blocked prompt; the finish.
GeLate(u, c, n) ==
    /\ u.phase = "tail" /\ n.phase = "tail" /\ n.fault = u.fault /\ n.sent = u.sent
    /\ c.parts = <<>> /\ ~ c.extra /\ ~ c.error /\ ~ c.block /\ c.finish /\ c.usage = Zero
GeEarly(u, c, n) ==
    /\ u.phase = "head" /\ n.phase = "head" /\ n.fault = u.fault /\ n.sent = u.sent
    /\ GePartsOk(c.parts) /\ ~ c.error /\ ~ c.block /\ ~ c.finish
GeBad(u, c, n) == n.phase = "closed" /\ c.error
GeNo(u, c, n) ==
    /\ u.phase = "head" /\ n.phase = "tail" /\ n.fault = u.fault /\ n.sent = c.usage
    /\ ~ c.error /\ c.block /\ c.usage \in Wholes
GeEnd(u, c, n) ==
    /\ u.phase = "head" /\ n.phase = "tail" /\ n.fault = u.fault /\ n.sent = c.usage
    /\ ~ c.error /\ ~ c.block /\ c.finish /\ c.usage \in Wholes /\ GePartsOk(c.parts)
GeSent(u, c, n) ==
    GeLate(u, c, n) \/ GeEarly(u, c, n) \/ GeBad(u, c, n) \/ GeNo(u, c, n) \/ GeEnd(u, c, n)

LEMMA GeChunkIs ==
    ASSUME NEW p, NEW f, f = GeChunk(p)
    PROVE  /\ f.parts = p /\ ~ f.extra /\ ~ f.finish /\ ~ f.block /\ ~ f.error
           /\ f.usage = Zero
  BY DEF GeChunk

LEMMA GeLastIs ==
    ASSUME NEW p, NEW x, NEW v, NEW f, f = GeLast(p, x, v)
    PROVE  /\ f.parts = p /\ f.extra = x /\ f.finish /\ ~ f.block /\ ~ f.error
           /\ f.usage = v
  BY DEF GeLast, GeChunk

LEMMA GePartsAre ==
    /\ \A p \in GeParts : GePartsOk(p)
    /\ GePartsOk(<<>>) /\ GePartsOk(<<"text">>) /\ GePartsOk(<<"call">>)
  BY DEF GeParts, GePartsOk, PartKinds

\* The frames of the upstream, told apart.
GeSome(u, s) ==
    \/ u.phase = "tail" /\ s = Sends(GeLast(<<>>, FALSE, Zero), u)
    \/ u.phase = "head" /\ \E p \in GeParts : s = Sends(GeChunk(p), u)
    \/ u.phase = "head" /\ s = Sends(GeExtra, u)
    \/ s = Sends(GeError, Faulted(u))
    \/ u.phase = "head" /\ \E v \in Wholes : s = Sends(GeBlocked(v), Ended(u, "tail", v))
    \/ u.phase = "head" /\ \E p \in {<<>>, <<"text">>, <<"call">>}, x \in BOOLEAN, v \in Wholes :
          s = Sends(GeLast(p, x, v), Ended(u, "tail", v))

LEMMA GeSomeIs ==
    ASSUME NEW u, u.phase \in {"head", "tail"}, NEW s \in GeminiSends(u)
    PROVE  GeSome(u, s)
  <1>1. CASE u.phase = "tail"
    BY <1>1 DEF GeminiSends, GeSome
  <1>2. CASE u.phase = "head"
    BY <1>2 DEF GeminiSends, GeSome, Wholes
  <1> QED
    BY <1>1, <1>2

\* What a gemini upstream sends.
LEMMA GeminiSendsIs ==
    ASSUME NEW u \in UpType, u.phase \in {"head", "tail"}, NEW s \in GeminiSends(u),
           NEW c, c = s.frame, NEW n, n = s.next
    PROVE  n \in UpType /\ n.frames = u.frames + 1 /\ GeSent(u, c, n)
  <1>0. GeSome(u, s)
    BY GeSomeIs
  <1>s. u.sent \in {NoUsage, Zero, Final}
    BY UpFields
  <1>e. ASSUME NEW v \in Wholes
        PROVE  LET w == Ended(u, "tail", v)
               IN  w \in UpType /\ w.frames = u.frames /\ w.phase = "tail"
                   /\ w.sent = v /\ w.fault = u.fault
    BY EndedIs DEF Wholes
  <1>1. CASE u.phase = "tail" /\ s = Sends(GeLast(<<>>, FALSE, Zero), u)
    <2> DEFINE f == GeLast(<<>>, FALSE, Zero)
    <2>1. /\ f.parts = <<>> /\ ~ f.extra /\ f.finish /\ ~ f.block /\ ~ f.error
          /\ f.usage = Zero
      BY DEF GeLast, GeChunk
    <2>2. s = Sends(f, u)
      BY <1>1
    <2> HIDE DEF f
    <2>3. s.frame = f /\ Alike(n, u)
      BY <2>2, SendsAlike
    <2> QED
      BY <1>1, <2>1, <2>3 DEF GeSent, GeLate, Alike
  <1>2. CASE u.phase = "head" /\ \E p \in GeParts : s = Sends(GeChunk(p), u)
    <2>1. PICK p \in GeParts : s = Sends(GeChunk(p), u)
      BY <1>2
    <2> DEFINE f == GeChunk(p)
    <2>2. s = Sends(f, u) /\ f = GeChunk(p)
      BY <2>1
    <2> HIDE DEF f
    <2>3. s.frame = f /\ Alike(n, u)
      BY <2>2, SendsAlike
    <2>4. f.parts = p /\ ~ f.finish /\ ~ f.block /\ ~ f.error
      BY <2>2, GeChunkIs
    <2>5. GePartsOk(p)
      BY GePartsAre
    <2> QED
      BY <1>2, <2>3, <2>4, <2>5 DEF GeSent, GeEarly, Alike
  <1>3. CASE u.phase = "head" /\ s = Sends(GeExtra, u)
    <2> DEFINE f == GeExtra
    <2>1. f.parts = <<>> /\ ~ f.finish /\ ~ f.block /\ ~ f.error
      BY DEF GeExtra, GeChunk
    <2>2. s = Sends(f, u)
      BY <1>3
    <2> HIDE DEF f
    <2>3. s.frame = f /\ Alike(n, u)
      BY <2>2, SendsAlike
    <2> QED
      BY <1>3, <2>1, <2>3, GePartsAre DEF GeSent, GeEarly, Alike
  <1>4. CASE s = Sends(GeError, Faulted(u))
    <2> DEFINE f == GeError
               v == Faulted(u)
    <2>1. f.error
      BY DEF GeError, GeChunk
    <2>2. s = Sends(f, v) /\ v = Faulted(u)
      BY <1>4
    <2> HIDE DEF f, v
    <2>4. v \in UpType /\ v.frames = u.frames /\ v.phase = "closed"
      BY <2>2, FaultedIs
    <2>3. s.frame = f /\ Alike(n, v)
      BY <2>2, <2>4, SendsAlike
    <2> QED
      BY <2>1, <2>3, <2>4 DEF GeSent, GeBad, Alike
  <1>5. CASE u.phase = "head" /\ \E v \in Wholes : s = Sends(GeBlocked(v), Ended(u, "tail", v))
    <2>1. PICK v \in Wholes : s = Sends(GeBlocked(v), Ended(u, "tail", v))
      BY <1>5
    <2> DEFINE f == GeBlocked(v)
               w == Ended(u, "tail", v)
    <2>2. s = Sends(f, w)
      BY <2>1
    <2>3. ~ f.error /\ f.block /\ f.usage = v
      BY DEF GeBlocked, GeChunk
    <2>4. w \in UpType /\ w.frames = u.frames /\ w.phase = "tail"
                   /\ w.sent = v /\ w.fault = u.fault
      BY <1>e
    <2> HIDE DEF f, w
    <2>5. s.frame = f /\ Alike(n, w)
      BY <2>2, <2>4, SendsAlike
    <2> QED
      BY <1>5, <2>3, <2>4, <2>5 DEF GeSent, GeNo, Alike
  <1>6. CASE u.phase = "head" /\ \E p \in {<<>>, <<"text">>, <<"call">>}, x \in BOOLEAN, v \in Wholes :
                s = Sends(GeLast(p, x, v), Ended(u, "tail", v))
    <2>1. PICK p \in {<<>>, <<"text">>, <<"call">>}, x \in BOOLEAN, v \in Wholes :
                s = Sends(GeLast(p, x, v), Ended(u, "tail", v))
      BY <1>6
    <2> DEFINE f == GeLast(p, x, v)
               w == Ended(u, "tail", v)
    <2>2. s = Sends(f, w) /\ f = GeLast(p, x, v)
      BY <2>1
    <2>4. w \in UpType /\ w.frames = u.frames /\ w.phase = "tail"
                   /\ w.sent = v /\ w.fault = u.fault
      BY <1>e
    <2>7. GePartsOk(p)
      BY GePartsAre
    <2> HIDE DEF f, w
    <2>3. ~ f.error /\ ~ f.block /\ f.finish /\ f.usage = v /\ f.parts = p
      BY <2>2, GeLastIs
    <2>5. s.frame = f /\ Alike(n, w)
      BY <2>2, <2>4, SendsAlike
    <2> QED
      BY <1>6, <2>3, <2>4, <2>5, <2>7 DEF GeSent, GeEnd, Alike
  <1> QED
    BY <1>0, <1>1, <1>2, <1>3, <1>4, <1>5, <1>6 DEF GeSome

-----------------------------------------------------------------------------
LEMMA ReadGeminiIs ==
    ASSUME NEW d, NEW c, NEW q, q = ReadGemini(d, c)
    PROVE  /\ c.error => q = Result(d, Just(Error))
           /\ ~ c.error /\ c.block => q = GeFinish(GeStart(d), c)
           /\ ~ c.error /\ ~ c.block /\ c.finish => q = GeFinish(GeBody(d, c), c)
           /\ ~ c.error /\ ~ c.block /\ ~ c.finish => q = GeBody(d, c)
  BY DEF ReadGemini, GeStart, GeBody, GeFold, Just

\* After the end, and at it.
LEMMA GeEndReads ==
    ASSUME NEW d, NEW g, Told(g), NEW r, NEW k, Tells(g, r, k), r.d.started, NEW c, NEW u,
           u \in Wholes, c.usage = u, GeMayEnd(r.d, k, u), NEW q, q = GeFinish(r, c)
    PROVE  /\ q.d.started /\ ~ q.d.thinkingOpen /\ ~ q.d.textOpen /\ q.d.openTools = {}
           /\ \E h : /\ Tells(g, q, h) /\ h.phase = "terminal" /\ h.start = NoUsage
                     /\ h.last = LastOf(k, u)
  <1>1. OaDone(q, g, r, LastOf(k, u))
    BY GeFinishTells
  <1> QED
    BY <1>1 DEF OaDone

\* What gemini's invariant gives, and what it takes.
LEMMA GeKnows ==
    ASSUME egress = "gemini", NEW d, NEW u, NEW g, ReaderInv(d, u, g), u.phase # "closed"
    PROVE  /\ Told(g) /\ u.phase \in {"head", "tail"} /\ ~ u.fault
           /\ (u.phase = "tail" => g.last = ReportedBy(u))
           /\ u.phase = "head" => Chat(d, g, d.openTools) /\ Thinks(d) /\ u.sent = NoUsage
           /\ u.phase = "tail" =>
                /\ g.phase = "terminal" /\ g.start = NoUsage /\ d.started
                /\ ~ d.thinkingOpen /\ ~ d.textOpen /\ d.openTools = {}
  BY DEF ReaderInv, GeInv

LEMMA GeKeeps ==
    ASSUME egress = "gemini", NEW d, NEW n, NEW h, Told(h),
           n.phase \in {"head", "tail", "closed"}, n.phase # "closed" => ~ n.fault,
           n.phase = "head" => Chat(d, h, d.openTools) /\ Thinks(d) /\ n.sent = NoUsage,
           n.phase = "tail" =>
             /\ h.phase = "terminal" /\ h.start = NoUsage /\ d.started /\ h.last = ReportedBy(n)
             /\ ~ d.thinkingOpen /\ ~ d.textOpen /\ d.openTools = {}
    PROVE  ReaderInv(d, n, h)
  BY DEF ReaderInv, GeInv

LEMMA BodyLast ==
    ASSUME NEW d, NEW g, NEW T, Told(g), Chat(d, g, T), NEW v \in Wholes
    PROVE  LastOf(g, v) = v
  <1>1. g.last = NoUsage
    BY DEF Told, Chat
  <1> QED
    BY <1>1 DEF LastOf, Wholes

\* From the end of a message to the reader's invariant.
LEMMA GeEnded ==
    ASSUME egress = "gemini", NEW q, NEW n, NEW g, NEW h, Tells(g, q, h), h.phase = "terminal",
           h.start = NoUsage, h.last = ReportedBy(n), n.phase = "tail", ~ n.fault,
           q.d.started, ~ q.d.thinkingOpen, ~ q.d.textOpen, q.d.openTools = {}
    PROVE  Reads(g, q, n)
  <1>1. Told(h)
    BY LegalEnds DEF Tells
  <1>2. ReaderInv(q.d, n, h)
    BY <1>1, GeKeeps
  <1> QED
    BY <1>2 DEF Reads

\* The gemini reader, chunk by chunk.
LEMMA GeLateReads ==
    ASSUME egress = "gemini", NEW d \in Decode, NEW u, NEW g, ReaderInv(d, u, g),
           NEW c, NEW n, GeLate(u, c, n), NEW r, r = ReadGemini(d, c)
    PROVE  Reads(g, r, n)
  <1>0. /\ u.phase = "tail" /\ n.phase = "tail" /\ n.fault = u.fault /\ n.sent = u.sent
        /\ c.parts = <<>> /\ ~ c.extra /\ ~ c.error /\ ~ c.block /\ c.finish /\ c.usage = Zero
    BY DEF GeLate
  <1>1. /\ Told(g) /\ ~ u.fault /\ g.last = ReportedBy(u)
        /\ g.phase = "terminal" /\ g.start = NoUsage /\ d.started
        /\ ~ d.thinkingOpen /\ ~ d.textOpen /\ d.openTools = {}
    BY <1>0, GeKnows
  <1> DEFINE p == GeBody(d, c)
             r0 == Result(d, <<>>)
  <1>2. r = GeFinish(p, c)
    BY <1>0, ReadGeminiIs
  <1>3. p = r0
    <2>1. r0.d = d
      BY ResultIs
    <2>2. GeStart(d) = r0
      BY <1>1, <2>1 DEF GeStart, OaStart
    <2>3. p = GeFold(r0, c.parts)
      BY <1>0, <2>2 DEF GeBody
    <2> QED
      BY <1>0, <2>3, GeFoldNone
  <1>4. Tells(g, r0, g) /\ r0.d = d
    BY <1>1, ResultNone, ResultIs
  <1> HIDE DEF p, r0
  <1>5. GeMayEnd(r0.d, g, Zero)
    BY <1>1, <1>4 DEF GeMayEnd
  <1>6. /\ r.d.started /\ ~ r.d.thinkingOpen /\ ~ r.d.textOpen /\ r.d.openTools = {}
        /\ \E h : /\ Tells(g, r, h) /\ h.phase = "terminal" /\ h.start = NoUsage
                  /\ h.last = LastOf(g, Zero)
    <2>1. Zero \in Wholes /\ r0.d.started /\ r = GeFinish(r0, c)
      BY <1>1, <1>2, <1>3, <1>4 DEF Wholes
    <2> QED
      BY <1>0, <1>1, <1>4, <1>5, <2>1, GeEndReads
  <1>7. LastOf(g, Zero) = g.last
    BY <1>1, UsageIs DEF LastOf, Told
  <1>8. ReportedBy(n) = ReportedBy(u)
    BY <1>0 DEF ReportedBy
  <1>9. PICK h : /\ Tells(g, r, h) /\ h.phase = "terminal" /\ h.start = NoUsage
                 /\ h.last = LastOf(g, Zero)
    BY <1>6
  <1> QED
    BY <1>0, <1>1, <1>6, <1>7, <1>8, <1>9, GeEnded

LEMMA GeEarlyReads ==
    ASSUME egress = "gemini", NEW d \in Decode, NEW u, NEW g, ReaderInv(d, u, g),
           NEW c, NEW n, GeEarly(u, c, n), NEW r, r = ReadGemini(d, c)
    PROVE  Reads(g, r, n)
  <1>0. /\ u.phase = "head" /\ n.phase = "head" /\ n.fault = u.fault /\ n.sent = u.sent
        /\ GePartsOk(c.parts) /\ ~ c.error /\ ~ c.block /\ ~ c.finish
    BY DEF GeEarly
  <1>1. Told(g) /\ ~ u.fault /\ Chat(d, g, d.openTools) /\ Thinks(d) /\ u.sent = NoUsage
    BY <1>0, GeKnows
  <1>2. r = GeBody(d, c)
    BY <1>0, ReadGeminiIs
  <1>3. GeTalks(g, r)
    BY <1>0, <1>1, <1>2, GeBodyTells
  <1>4. PICK h : Tells(g, r, h) /\ Chat(r.d, h, r.d.openTools) /\ Thinks(r.d)
    BY <1>3 DEF GeTalks
  <1>5. Told(h)
    BY <1>4, LegalEnds DEF Tells
  <1> DEFINE e == r.d
  <1>6. Chat(e, h, e.openTools) /\ Thinks(e)
    BY <1>4
  <1> HIDE DEF e
  <1>7. ReaderInv(e, n, h)
    BY <1>0, <1>1, <1>5, <1>6, GeKeeps
  <1> QED
    BY <1>4, <1>7 DEF Reads, e

LEMMA GeBadReads ==
    ASSUME egress = "gemini", NEW d \in Decode, NEW u, NEW g, ReaderInv(d, u, g),
           u.phase # "closed",
           NEW c, NEW n, GeBad(u, c, n), NEW r, r = ReadGemini(d, c)
    PROVE  Reads(g, r, n)
  <1>0. n.phase = "closed" /\ c.error
    BY DEF GeBad
  <1>1. Told(g)
    BY GeKnows
  <1>2. r = Result(d, Just(Error))
    BY <1>0, ReadGeminiIs
  <1>3. r.d = d /\ r.evs = Just(Error)
    BY <1>2, ResultIs
  <1>4. Tells(g, r, g)
    BY <1>1, <1>3, TellFails DEF Tells
  <1>5. ReaderInv(d, n, g)
    BY <1>0, <1>1, GeKeeps
  <1> QED
    BY <1>3, <1>4, <1>5 DEF Reads

LEMMA GeNoReads ==
    ASSUME egress = "gemini", NEW d \in Decode, NEW u, NEW g, ReaderInv(d, u, g),
           NEW c, NEW n, GeNo(u, c, n), NEW r, r = ReadGemini(d, c)
    PROVE  Reads(g, r, n)
  <1>0. /\ u.phase = "head" /\ n.phase = "tail" /\ n.fault = u.fault /\ n.sent = c.usage
        /\ ~ c.error /\ c.block /\ c.usage \in Wholes
    BY DEF GeNo
  <1>1. Told(g) /\ ~ u.fault /\ Chat(d, g, d.openTools) /\ Thinks(d)
    BY <1>0, GeKnows
  <1> DEFINE p == GeStart(d)
             e == p.d
             v == c.usage
  <1>2. r = GeFinish(p, c) /\ e = p.d /\ v = c.usage
    BY <1>0, ReadGeminiIs
  <1>3. Tells(g, p, g) /\ e = [d EXCEPT !.started = TRUE]
    BY <1>1, GeStartTells DEF Chat
  <1> HIDE DEF p, e, v
  <1>4. /\ e.started /\ e.openTools = d.openTools /\ e.thinkingOpen = d.thinkingOpen
        /\ e.textOpen = d.textOpen /\ e.textIndex = d.textIndex
        /\ e.reasoningSeen = d.reasoningSeen /\ e.nextIr = d.nextIr
    BY <1>3, StartDecode
  <1>5. Chat(e, g, e.openTools)
    BY <1>1, <1>4, ChatSame
  <1>6. GeMayEnd(p.d, g, v) /\ p.d.started
    BY <1>2, <1>4, <1>5 DEF GeMayEnd
  <1>7. v \in Wholes
    BY <1>0, <1>2
  <1>8. /\ r.d.started /\ ~ r.d.thinkingOpen /\ ~ r.d.textOpen /\ r.d.openTools = {}
        /\ \E h : /\ Tells(g, r, h) /\ h.phase = "terminal" /\ h.start = NoUsage
                  /\ h.last = LastOf(g, v)
    <2>1. Told(g) /\ Tells(g, p, g) /\ p.d.started /\ r = GeFinish(p, c) /\ c.usage = v
      BY <1>1, <1>2, <1>3, <1>6
    <2> QED
      BY <2>1, <1>6, <1>7, GeEndReads
  <1>9. LastOf(g, v) = v
    BY <1>1, <1>7, BodyLast
  <1>10. ReportedBy(n) = v
    BY <1>0, <1>2, UsageIs DEF ReportedBy, Wholes
  <1>11. PICK h : /\ Tells(g, r, h) /\ h.phase = "terminal" /\ h.start = NoUsage
                  /\ h.last = LastOf(g, v)
    BY <1>8
  <1> QED
    BY <1>0, <1>1, <1>8, <1>9, <1>10, <1>11, GeEnded

LEMMA GeEndSentReads ==
    ASSUME egress = "gemini", NEW d \in Decode, NEW u, NEW g, ReaderInv(d, u, g),
           NEW c, NEW n, GeEnd(u, c, n), NEW r, r = ReadGemini(d, c)
    PROVE  Reads(g, r, n)
  <1>0. /\ u.phase = "head" /\ n.phase = "tail" /\ n.fault = u.fault /\ n.sent = c.usage
        /\ ~ c.error /\ ~ c.block /\ c.finish /\ c.usage \in Wholes /\ GePartsOk(c.parts)
    BY DEF GeEnd
  <1>1. Told(g) /\ ~ u.fault /\ Chat(d, g, d.openTools) /\ Thinks(d)
    BY <1>0, GeKnows
  <1> DEFINE p == GeBody(d, c)
             v == c.usage
  <1>2. r = GeFinish(p, c) /\ v = c.usage /\ p = GeBody(d, c)
    BY <1>0, ReadGeminiIs
  <1> HIDE DEF p, v
  <1>3. GeTalks(g, p) /\ p.d.started
    BY <1>0, <1>1, <1>2, GeBodyTells
  <1>4. PICK k : Tells(g, p, k) /\ Chat(p.d, k, p.d.openTools)
    BY <1>3 DEF GeTalks
  <1>5. Told(k)
    BY <1>4, LegalEnds DEF Tells
  <1>6. GeMayEnd(p.d, k, v)
    BY <1>4 DEF GeMayEnd
  <1>7. v \in Wholes
    BY <1>0, <1>2
  <1>8. /\ r.d.started /\ ~ r.d.thinkingOpen /\ ~ r.d.textOpen /\ r.d.openTools = {}
        /\ \E h : /\ Tells(g, r, h) /\ h.phase = "terminal" /\ h.start = NoUsage
                  /\ h.last = LastOf(k, v)
    BY <1>1, <1>2, <1>3, <1>4, <1>6, <1>7, GeEndReads
  <1>9. LastOf(k, v) = v
    BY <1>4, <1>5, <1>7, BodyLast
  <1>10. ReportedBy(n) = v
    BY <1>0, <1>2, UsageIs DEF ReportedBy, Wholes
  <1>11. PICK h : /\ Tells(g, r, h) /\ h.phase = "terminal" /\ h.start = NoUsage
                  /\ h.last = LastOf(k, v)
    BY <1>8
  <1> QED
    BY <1>0, <1>1, <1>8, <1>9, <1>10, <1>11, GeEnded

\* The gemini reader goes on with the story.
LEMMA GeminiReads ==
    ASSUME egress = "gemini", NEW d \in Decode, NEW u \in UpType, u.phase # "closed",
           NEW g, ReaderInv(d, u, g), NEW s \in GeminiSends(u),
           NEW r, r = ReadGemini(d, s.frame)
    PROVE  Advances(d, u, g, s, r)
  <1> DEFINE c == s.frame
             n == s.next
  <1>1. u.phase \in {"head", "tail"}
    BY GeKnows
  <1>w. r = ReadGemini(d, c) /\ c = s.frame /\ n = s.next
    OBVIOUS
  <1> HIDE DEF c, n
  <1>2. n \in UpType /\ n.frames = u.frames + 1 /\ GeSent(u, c, n)
    BY <1>1, <1>w, GeminiSendsIs
  <1>3. Reads(g, r, n)
    BY <1>2, <1>w, GeLateReads, GeEarlyReads, GeBadReads, GeNoReads, GeEndSentReads
       DEF GeSent
  <1> QED
    BY <1>2, <1>3, <1>w DEF Advances

(* The cohere reader. *)
CoMap(d, U) ==
    /\ \A j \in DOMAIN d.toolIr : d.toolIr[j] < CoCount(d)
    /\ \A i, j \in DOMAIN d.toolIr : d.toolIr[i] = d.toolIr[j] => i = j
    /\ DOMAIN d.toolIr \subseteq U /\ IsFiniteSet(DOMAIN d.toolIr)
CoLive(d, O, U, g) ==
    /\ \A j \in O \cap DOMAIN d.toolIr : <<d.toolIr[j], "tool">> \in g.open
    /\ O \subseteq U
CoTexts(d, g) ==
    /\ \A p \in g.open : p[2] = "text" => d.textOpen /\ p[1] = d.textIndex
    /\ \A p \in g.open : p[2] # "thinking"
    /\ d.textOpen => <<d.textIndex, "text">> \in g.open /\ ~ d.textClosed /\ d.textIndex # None
                   /\ d.textSeen
    /\ ~ d.textOpen /\ ~ d.textClosed => d.textIndex = None /\ ~ d.textSeen
CoState(d, O, U, g) ==
    /\ g.phase = "body" /\ g.start = NoUsage
    /\ \A i \in g.used : i < CoCount(d)
    /\ CoMap(d, U) /\ CoLive(d, O, U, g) /\ CoTexts(d, g)
CoTalks(g0, q, O, U) == \E h : Tells(g0, q, h) /\ CoState(q.d, O, U, h)

\* cohere numbers its blocks by how many it has tracked.
LEMMA CoCountIs ==
    ASSUME NEW d, IsFiniteSet(DOMAIN d.toolIr)
    PROVE  CoCount(d) \in Nat /\ CoTracked(d) \in Nat
           /\ (~ d.textSeen => CoTracked(d) = CoCount(d))
           /\ (d.textSeen => CoTracked(d) + 1 = CoCount(d))
  <1>1. CoTracked(d) \in Nat
    BY FS_CardinalityType DEF CoTracked
  <1> QED
    BY <1>1 DEF CoCount

LEMMA CoCountSame ==
    ASSUME NEW d, NEW e, e.toolIr = d.toolIr, e.textSeen = d.textSeen
    PROVE  CoCount(e) = CoCount(d)
  BY DEF CoCount, CoTracked

LEMMA CoCountTool ==
    ASSUME NEW d, NEW e, IsFiniteSet(DOMAIN d.toolIr), NEW i, i \notin DOMAIN d.toolIr,
           DOMAIN e.toolIr = DOMAIN d.toolIr \cup {i}, e.textSeen = d.textSeen
    PROVE  CoCount(e) = CoCount(d) + 1
  <1>1. CoTracked(e) = CoTracked(d) + 1 /\ CoTracked(d) \in Nat
    BY FS_CardinalityType, FS_AddElement DEF CoTracked
  <1> QED
    BY <1>1 DEF CoCount

LEMMA CoCountText ==
    ASSUME NEW d, NEW e, IsFiniteSet(DOMAIN d.toolIr), ~ d.textSeen, e.textSeen,
           e.toolIr = d.toolIr
    PROVE  CoCount(e) = CoCount(d) + 1
  <1>1. CoTracked(e) = CoTracked(d) /\ CoTracked(d) \in Nat
    BY FS_CardinalityType DEF CoTracked
  <1> QED
    BY <1>1 DEF CoCount

CoShutText(d) == [d EXCEPT !.textOpen = FALSE, !.textClosed = TRUE]

LEMMA CoShutTextIs ==
    ASSUME NEW d \in Decode, NEW e, e = CoShutText(d)
    PROVE  /\ e \in Decode /\ ~ e.textOpen /\ e.textClosed /\ e.toolIr = d.toolIr
           /\ e.textSeen = d.textSeen /\ e.textIndex = d.textIndex /\ e.started = d.started
  BY DEF CoShutText, Decode

\* The text block closes before a call opens.
LEMMA CoCloseTells ==
    ASSUME NEW g0, NEW r, NEW O, NEW U, CoTalks(g0, r, O, U), NEW q, q = CoCloseText(r)
    PROVE  CoTalks(g0, q, O, U) /\ ~ q.d.textOpen
  <1>1. PICK g : Tells(g0, r, g) /\ CoState(r.d, O, U, g)
    BY DEF CoTalks
  <1>2. CASE ~ r.d.textOpen
    BY <1>2 DEF CoCloseText
  <1>3. CASE r.d.textOpen
    <2> DEFINE d == r.d
               e == CoShutText(d)
               i == d.textIndex
    <2>1. d \in Decode /\ Told(g)
      BY <1>1, LegalEnds DEF Tells
    <2>2. q = Push(r, e, <<BlockStop(i)>>)
      BY <1>3 DEF CoCloseText, CoShutText
    <2>3. CoState(d, O, U, g) /\ d.textOpen /\ e = CoShutText(d) /\ i = d.textIndex
      BY <1>1, <1>3
    <2> HIDE DEF d, e, i
    <2>4. /\ e \in Decode /\ ~ e.textOpen /\ e.textClosed /\ e.toolIr = d.toolIr
          /\ e.textSeen = d.textSeen
      BY <2>1, <2>3, CoShutTextIs
    <2>5. <<i, "text">> \in g.open
      BY <2>3 DEF CoState, CoTexts
    <2>6. i \in Int /\ i \in Idx(g.open) /\ g.phase = "body"
      <3>1. i \in Int
        BY <2>1, <2>3, DecodeFields
      <3> QED
        BY <2>3, <2>5, <3>1 DEF CoState, Idx
    <2>7. PICK h : /\ Legal(g, <<BlockStop(i)>>, h)
                   /\ h.open = {p \in g.open : p[1] # i} /\ h.used = g.used /\ Same(g, h)
      BY <2>1, <2>6, TellBlockStop
    <2>8. Tells(g0, q, h) /\ q.d = e
      BY <1>1, <2>2, <2>4, <2>7, PushTells
    <2>9. CoCount(e) = CoCount(d)
      BY <2>4, CoCountSame
    <2>10. CoMap(e, U)
      BY <2>3, <2>4, <2>9 DEF CoState, CoMap
    <2>11. CoLive(e, O, U, h)
      <3>1. \A p, w \in g.open : p[1] = w[1] => p = w
        BY <2>1 DEF Told
      <3>2. SUFFICES ASSUME NEW j \in O \cap DOMAIN e.toolIr
                     PROVE  <<e.toolIr[j], "tool">> \in h.open
        BY <2>3 DEF CoLive, CoState
      <3>3. <<d.toolIr[j], "tool">> \in g.open
        BY <2>3, <2>4, <3>2 DEF CoState, CoLive
      <3>4. d.toolIr[j] # i
        BY <2>5, <3>1, <3>3
      <3> QED
        BY <2>4, <2>7, <3>3, <3>4
    <2>12. CoTexts(e, h)
      <3>1. \A p \in g.open : p[2] = "text" => p[1] = i
        BY <2>3 DEF CoState, CoTexts
      <3>2. \A p \in g.open : p[2] # "thinking"
        BY <2>3 DEF CoState, CoTexts
      <3> QED
        BY <2>4, <2>7, <3>1, <3>2 DEF CoTexts
    <2>13. CoState(e, O, U, h)
      BY <2>3, <2>7, <2>9, <2>10, <2>11, <2>12 DEF CoState, Same
    <2> QED
      BY <2>4, <2>8, <2>13 DEF CoTalks
  <1> QED
    BY <1>2, <1>3

LEMMA CoOpenTextIs ==
    ASSUME NEW d \in Decode, CoTextIndex(d) \in Int, NEW e, e = CoOpenText(d)
    PROVE  /\ e \in Decode /\ e.textOpen /\ e.textSeen /\ e.textIndex = CoTextIndex(d)
           /\ e.textClosed = d.textClosed /\ e.toolIr = d.toolIr
           /\ (d.textOpen /\ d.textSeen /\ d.textIndex = CoTextIndex(d) => e = d)
  <1> DEFINE i == CoTextIndex(d)
  <1>1. e = [d EXCEPT !.textOpen = TRUE, !.textIndex = i, !.textSeen = TRUE] /\ i \in Int
    BY DEF CoOpenText
  <1> HIDE DEF i
  <1>2. /\ e \in Decode /\ e.textOpen /\ e.textSeen /\ e.textIndex = i
        /\ e.textClosed = d.textClosed /\ e.toolIr = d.toolIr
    BY <1>1 DEF Decode
  <1>3. d.textOpen /\ d.textSeen /\ d.textIndex = i => e = d
    BY <1>1 DEF Decode
  <1> QED
    BY <1>2, <1>3 DEF i

\* A text frame while the block may still be open.
LEMMA CoTextTells ==
    ASSUME NEW g0, NEW r, NEW O, NEW U, CoTalks(g0, r, O, U), ~ r.d.textClosed,
           NEW f, NEW q, q = CoText(r, f)
    PROVE  CoTalks(g0, q, O, U)
  <1>1. PICK g : Tells(g0, r, g) /\ CoState(r.d, O, U, g)
    BY DEF CoTalks
  <1> DEFINE d == r.d
             e == CoOpenText(d)
             i == CoTextIndex(d)
             x == IF d.textOpen THEN <<>> ELSE Just(BlockStart(i, "text"))
             y == IF f.type = "content-start" THEN <<>> ELSE Just(BlockDelta(i, "text"))
             evs == x \o y
  <1>2. q = Push(r, e, evs)
    BY DEF CoText, Just
  <1>3. /\ d \in Decode /\ Told(g) /\ CoState(d, O, U, g) /\ ~ d.textClosed
        /\ e = CoOpenText(d) /\ i = CoTextIndex(d) /\ evs = x \o y
    BY <1>1, LegalEnds DEF Tells
  <1>4. /\ (d.textOpen => x = <<>>) /\ (~ d.textOpen => x = Just(BlockStart(i, "text")))
        /\ (y = <<>> \/ y = Just(BlockDelta(i, "text")))
    OBVIOUS
  <1> HIDE DEF d, e, i, x, y, evs
  <1>5. IsFiniteSet(DOMAIN d.toolIr) /\ g.phase = "body" /\ CoTexts(d, g)
    BY <1>3 DEF CoState, CoMap
  <1>6. \E h : /\ Legal(g, x, h) /\ CoState(e, O, U, h) /\ <<i, "text">> \in h.open
               /\ i \in Int /\ e \in Decode
    <2>1. CASE d.textOpen
      <3>1. d.textIndex # None /\ d.textSeen /\ <<d.textIndex, "text">> \in g.open
        BY <1>5, <2>1 DEF CoTexts
      <3>2. i = d.textIndex /\ i \in Int
        BY <1>3, <3>1, DecodeFields DEF CoTextIndex
      <3>3. e = d
        <4>1. CoTextIndex(d) \in Int /\ d.textIndex = CoTextIndex(d)
          BY <1>3, <3>2
        <4> QED
          BY <1>3, <2>1, <3>1, <4>1, CoOpenTextIs
      <3>4. Legal(g, x, g)
        BY <1>3, <1>4, <2>1, LegalNone
      <3> QED
        BY <1>3, <3>1, <3>2, <3>3, <3>4
    <2>2. CASE ~ d.textOpen
      <3>1. d.textIndex = None /\ ~ d.textSeen
        BY <1>3, <1>5, <2>2 DEF CoTexts
      <3>2. i = CoCount(d) /\ i \in Nat
        BY <1>3, <1>5, <3>1, CoCountIs DEF CoTextIndex
      <3>3. /\ e \in Decode /\ e.textOpen /\ e.textSeen /\ e.textIndex = i
            /\ e.textClosed = d.textClosed /\ e.toolIr = d.toolIr
        <4>1. CoTextIndex(d) \in Int
          BY <1>3, <3>2
        <4> QED
          BY <1>3, <4>1, CoOpenTextIs
      <3>4. CoCount(e) = CoCount(d) + 1
        BY <1>5, <3>1, <3>3, CoCountText
      <3>5. \A k \in g.used : k < i
        BY <1>3, <3>2 DEF CoState
      <3>6. g.used \subseteq Int
        BY <1>3, StoryFields DEF Told
      <3>7. i \notin g.used
        BY <3>2, <3>5, <3>6
      <3>8. \A p \in g.open : p[2] # "text" /\ p[2] # "thinking"
        BY <1>5, <2>2 DEF CoTexts
      <3>9. PICK h : /\ Legal(g, Just(BlockStart(i, "text")), h)
                     /\ h.open = g.open \cup {<<i, "text">>} /\ h.used = g.used \cup {i}
                     /\ Same(g, h)
        <4>1. i \in Int /\ "text" \in Kinds
          BY <3>2 DEF Kinds
        <4> QED
          BY <1>3, <1>5, <3>7, <3>8, <4>1, TellBlockStart DEF Just
      <3>10. \A k \in h.used : k < CoCount(e)
        BY <3>2, <3>4, <3>5, <3>6, <3>9
      <3>11. CoMap(e, U)
        <4>1. CoMap(d, U)
          BY <1>3 DEF CoState
        <4>2. d.toolIr \in IrMaps /\ \A j \in DOMAIN d.toolIr : d.toolIr[j] \in Int
          BY <1>3, DecodeFields, IrMapsIn
        <4>3. \A j \in DOMAIN d.toolIr : d.toolIr[j] < i + 1
          BY <3>2, <4>1, <4>2 DEF CoMap
        <4>4. \A j \in DOMAIN e.toolIr : e.toolIr[j] < CoCount(e)
          BY <3>2, <3>3, <3>4, <4>3
        <4> QED
          BY <3>3, <4>1, <4>4 DEF CoMap
      <3>12. CoLive(e, O, U, h)
        BY <1>3, <3>3, <3>9 DEF CoState, CoLive
      <3>13. CoTexts(e, h)
        <4>1. i # None
          BY <3>2 DEF None
        <4>2. \A p \in h.open : (p[2] = "text" => p[1] = i) /\ p[2] # "thinking"
          BY <3>8, <3>9
        <4> QED
          BY <1>3, <3>3, <3>9, <4>1, <4>2 DEF CoTexts
      <3>14. CoState(e, O, U, h)
        BY <1>3, <3>9, <3>10, <3>11, <3>12, <3>13 DEF CoState, Same
      <3> QED
        BY <1>4, <2>2, <3>2, <3>3, <3>9, <3>14
    <2> QED
      BY <2>1, <2>2
  <1>7. PICK h : /\ Legal(g, x, h) /\ CoState(e, O, U, h) /\ <<i, "text">> \in h.open
                 /\ i \in Int /\ e \in Decode
    BY <1>6
  <1>8. Legal(h, y, h)
    <2>1. Told(h) /\ h.phase = "body" /\ "text" \in Kinds
      BY <1>7, LegalEnds DEF CoState, Kinds
    <2> QED
      BY <1>4, <1>7, <2>1, LegalNone, TellBlockDelta DEF Just
  <1>9. Legal(g, evs, h)
    BY <1>3, <1>7, <1>8, LegalCat
  <1>10. Tells(g0, q, h) /\ q.d = e
    BY <1>1, <1>2, <1>7, <1>9, PushTells
  <1> QED
    BY <1>7, <1>10 DEF CoTalks

-----------------------------------------------------------------------------
CoCalled(d, i, ix) == [d EXCEPT !.openTools = @ \cup {i}, !.toolIr = Maps(@, i, ix)]

CoCalledAs(e, d, i, ix) ==
    /\ e \in Decode /\ e.toolIr = Maps(d.toolIr, i, ix) /\ e.textOpen = d.textOpen
    /\ e.textClosed = d.textClosed /\ e.textIndex = d.textIndex /\ e.textSeen = d.textSeen
    /\ e.started = d.started

LEMMA CoCalledIs ==
    ASSUME NEW d \in Decode, NEW i \in Int, NEW ix \in Int
    PROVE  CoCalledAs(CoCalled(d, i, ix), d, i, ix)
  <1> DEFINE e == CoCalled(d, i, ix)
             T == d.openTools \cup {i}
             m == Maps(d.toolIr, i, ix)
             w == d.toolIr
  <1>1. T \subseteq Int /\ m \in IrMaps
    <2>1. w \in IrMaps /\ d.openTools \subseteq Int /\ m = Maps(w, i, ix)
      BY DecodeFields
    <2> HIDE DEF m, w
    <2>2. m \in IrMaps
      BY <2>1, MapsIs
    <2> QED
      BY <2>1, <2>2
  <1>2. e = [d EXCEPT !.openTools = T, !.toolIr = m]
    BY DEF CoCalled
  <1>e. e = CoCalled(d, i, ix) /\ m = Maps(d.toolIr, i, ix)
    OBVIOUS
  <1> HIDE DEF T, m, e
  <1>3. e \in Decode
    BY <1>1, <1>2 DEF Decode
  <1>4. /\ e.toolIr = m /\ e.textOpen = d.textOpen
        /\ e.textClosed = d.textClosed /\ e.textIndex = d.textIndex /\ e.textSeen = d.textSeen
        /\ e.started = d.started
    BY <1>2 DEF Decode
  <1> QED
    BY <1>3, <1>4, <1>e DEF CoCalledAs

LEMMA CoTypes ==
    ASSUME NEW d \in Decode, NEW O, NEW U, NEW g, CoState(d, O, U, g)
    PROVE  /\ IsFiniteSet(DOMAIN d.toolIr) /\ d.toolIr \in IrMaps
           /\ \A j \in DOMAIN d.toolIr : d.toolIr[j] \in Int
           /\ DOMAIN d.toolIr \subseteq U /\ CoCount(d) \in Nat
           /\ g.phase = "body" /\ g.start = NoUsage
  <1>1. IsFiniteSet(DOMAIN d.toolIr) /\ DOMAIN d.toolIr \subseteq U
        /\ g.phase = "body" /\ g.start = NoUsage
    BY DEF CoState, CoMap
  <1>2. d.toolIr \in IrMaps
    BY DecodeFields
  <1> DEFINE w == d.toolIr
  <1>3. w \in IrMaps
    BY <1>2
  <1> HIDE DEF w
  <1>4. \A j \in DOMAIN w : w[j] \in Int
    BY <1>3, IrMapsIn
  <1> QED
    BY <1>1, <1>2, <1>4, CoCountIs DEF w

\* A new call on index ix, the count so far.
LEMMA CoCallKeeps ==
    ASSUME NEW d \in Decode, NEW O, NEW U, NEW g, Told(g), CoState(d, O, U, g),
           ~ d.textOpen, NEW i \in Int, i \notin U, NEW ix, ix = CoCount(d),
           NEW e, CoCalledAs(e, d, i, ix), NEW h, Same(g, h),
           h.open = g.open \cup {<<ix, "tool">>}, h.used = g.used \cup {ix}
    PROVE  CoState(e, O \cup {i}, U \cup {i}, h)
  <1> DEFINE w == d.toolIr
             m == Maps(w, i, ix)
  <1>0. /\ IsFiniteSet(DOMAIN w) /\ w \in IrMaps /\ (\A j \in DOMAIN w : w[j] \in Int)
        /\ DOMAIN w \subseteq U /\ ix \in Nat /\ ix = CoCount(d)
        /\ g.phase = "body" /\ g.start = NoUsage
    BY CoTypes
  <1>1. /\ e.toolIr = m /\ e.textOpen = d.textOpen
        /\ e.textClosed = d.textClosed /\ e.textIndex = d.textIndex /\ e.textSeen = d.textSeen
    BY DEF CoCalledAs
  <1>w. w = d.toolIr /\ m = Maps(w, i, ix)
    OBVIOUS
  <1> HIDE DEF w, m
  <1>2. DOMAIN m = DOMAIN w \cup {i} /\ m[i] = ix
    BY <1>w DEF Maps
  <1>3. \A j \in DOMAIN w : m[j] = w[j]
    <2>1. SUFFICES ASSUME NEW j \in DOMAIN w PROVE m[j] = w[j]
      OBVIOUS
    <2>2. j # i
      BY <1>0
    <2> QED
      BY <1>w, <2>2, MapsElse
  <1>4. i \notin DOMAIN w
    BY <1>0
  <1>5. CoCount(e) = ix + 1
    BY <1>0, <1>1, <1>2, <1>4, <1>w, CoCountTool
  <1>6. \A k \in h.used : k < CoCount(e)
    <2>1. \A k \in g.used : k < ix /\ k \in Int
      BY <1>0, StoryFields DEF CoState, Told
    <2> QED
      BY <1>0, <1>5, <2>1
  <1>7. CoMap(e, U \cup {i})
    <2>1. \A j \in DOMAIN w : w[j] < ix
      BY <1>0, <1>w DEF CoState, CoMap
    <2>2. \A j \in DOMAIN m : m[j] < CoCount(e)
      <3>1. \A j \in DOMAIN w : m[j] < ix + 1
        BY <1>0, <1>3, <2>1
      <3>2. m[i] < ix + 1
        BY <1>0, <1>2
      <3> QED
        BY <1>2, <1>5, <3>1, <3>2
    <2>3. \A k, j \in DOMAIN w : w[k] = w[j] => k = j
      BY <1>w DEF CoState, CoMap
    <2>4. \A k, j \in DOMAIN m : m[k] = m[j] => k = j
      <3>1. \A j \in DOMAIN w : w[j] # ix
        BY <1>0, <2>1
      <3> QED
        BY <1>2, <1>3, <2>3, <3>1
    <2>5. IsFiniteSet(DOMAIN w \cup {i})
      BY <1>0, FS_AddElement
    <2> QED
      BY <1>0, <1>1, <1>2, <2>2, <2>4, <2>5 DEF CoMap
  <1>8. CoLive(e, O \cup {i}, U \cup {i}, h)
    <2>1. CoLive(d, O, U, g)
      BY DEF CoState
    <2>2. SUFFICES ASSUME NEW j \in (O \cup {i}) \cap DOMAIN m
                   PROVE  <<m[j], "tool">> \in h.open
      BY <1>1, <2>1 DEF CoLive
    <2>3. CASE j = i
      BY <1>2, <2>3
    <2>4. CASE j # i
      <3>1. j \in O \cap DOMAIN w
        BY <1>2, <2>2, <2>4
      <3>2. <<w[j], "tool">> \in g.open
        BY <1>w, <2>1, <3>1 DEF CoLive
      <3> QED
        BY <1>3, <3>1, <3>2
    <2> QED
      BY <2>3, <2>4
  <1>9. CoTexts(e, h)
    BY <1>1 DEF CoState, CoTexts
  <1> QED
    BY <1>0, <1>6, <1>7, <1>8, <1>9 DEF CoState, Same

LEMMA CoNoCallKeeps ==
    ASSUME NEW d \in Decode, NEW O, NEW U, NEW g, CoState(d, O, U, g), NEW i, i \notin U
    PROVE  CoState(d, O \cup {i}, U \cup {i}, g)
  <1>1. CoMap(d, U \cup {i})
    BY DEF CoState, CoMap
  <1>2. CoLive(d, O \cup {i}, U \cup {i}, g)
    BY DEF CoState, CoMap, CoLive
  <1> QED
    BY <1>1, <1>2 DEF CoState

\* A call opens at the count, and its index maps to it.
LEMMA CoToolTells ==
    ASSUME NEW g0, NEW r, NEW O, NEW U, CoTalks(g0, r, O, U), NEW f, NEW i \in Int,
           f.index = i, i \notin U, NEW q, q = CoToolStart(r, f)
    PROVE  CoTalks(g0, q, O \cup {i}, U \cup {i})
  <1> DEFINE p == CoCloseText(r)
             d == p.d
             ix == CoCount(d)
             e == CoCalled(d, i, ix)
             x == Just(BlockStart(ix, "tool"))
             y == IF f.args THEN Just(BlockDelta(ix, "tool")) ELSE <<>>
             evs == x \o y
  <1>1. \/ q = p
        \/ q = Push(p, e, evs)
    BY DEF CoToolStart, CoCalled, Just, CoCount
  <1>w. /\ p = CoCloseText(r) /\ d = p.d /\ ix = CoCount(d) /\ e = CoCalled(d, i, ix)
        /\ x = Just(BlockStart(ix, "tool")) /\ evs = x \o y
        /\ (y = <<>> \/ y = Just(BlockDelta(ix, "tool")))
    OBVIOUS
  <1> HIDE DEF p, d, ix, e, x, y, evs
  <1>2. CoTalks(g0, p, O, U) /\ ~ d.textOpen
    BY <1>w, CoCloseTells
  <1>3. PICK g : Tells(g0, p, g) /\ CoState(d, O, U, g)
    BY <1>2, <1>w DEF CoTalks
  <1>4. d \in Decode /\ Told(g)
    BY <1>3, <1>w, LegalEnds DEF Tells
  <1>5. CASE q = p
    <2>1. CoState(d, O \cup {i}, U \cup {i}, g)
      BY <1>3, <1>4, CoNoCallKeeps
    <2> QED
      BY <1>3, <1>5, <1>w, <2>1 DEF CoTalks
  <1>6. CASE q = Push(p, e, evs)
    <2>0. ix \in Nat /\ ix \in Int /\ "tool" \in Kinds
      BY <1>3, <1>4, <1>w, CoTypes DEF Kinds
    <2>1. CoCalledAs(e, d, i, ix)
      BY <1>4, <1>w, <2>0, CoCalledIs
    <2>2. ix \notin g.used /\ g.phase = "body"
      <3>1. \A k \in g.used : k < ix /\ k \in Int
        BY <1>3, <1>4, <1>w, StoryFields DEF CoState, Told
      <3> QED
        BY <1>3, <2>0, <3>1 DEF CoState
    <2>3. PICK h : /\ Legal(g, x, h)
                   /\ h.open = g.open \cup {<<ix, "tool">>} /\ h.used = g.used \cup {ix}
                   /\ Same(g, h)
      BY <1>4, <1>w, <2>0, <2>2, TellBlockStart DEF Just
    <2>4. CoState(e, O \cup {i}, U \cup {i}, h)
      BY <1>2, <1>3, <1>4, <1>w, <2>1, <2>3, CoCallKeeps
    <2>5. Legal(h, y, h)
      <3>1. Told(h) /\ h.phase = "body" /\ <<ix, "tool">> \in h.open
        BY <2>2, <2>3, LegalEnds DEF Same
      <3> QED
        BY <1>w, <2>0, <3>1, LegalNone, TellBlockDelta DEF Just
    <2>6. Legal(g, evs, h)
      BY <1>w, <2>3, <2>5, LegalCat
    <2>7. e \in Decode
      BY <2>1 DEF CoCalledAs
    <2>8. Tells(g0, q, h) /\ q.d = e
      BY <1>3, <1>6, <2>6, <2>7, PushTells
    <2> QED
      BY <2>4, <2>8 DEF CoTalks
  <1> QED
    BY <1>1, <1>5, <1>6

\* The delta and the stop of a call that is open and tracked.
LEMMA CoDeltaTells ==
    ASSUME NEW g0, NEW r, NEW O, NEW U, CoTalks(g0, r, O, U), NEW d, d = r.d,
           NEW j \in O, j \in DOMAIN d.toolIr,
           NEW q, q = Push(r, d, Just(BlockDelta(d.toolIr[j], "tool")))
    PROVE  CoTalks(g0, q, O, U)
  <1>1. PICK g : Tells(g0, r, g) /\ CoState(d, O, U, g)
    BY DEF CoTalks
  <1> DEFINE i == d.toolIr[j]
             x == Just(BlockDelta(i, "tool"))
  <1>2. d \in Decode /\ Told(g)
    BY <1>1, LegalEnds DEF Tells
  <1>3. i \in Int /\ g.phase = "body"
    BY <1>1, <1>2, CoTypes
  <1>4. <<i, "tool">> \in g.open
    BY <1>1 DEF CoState, CoLive
  <1>5. q = Push(r, d, x) /\ x = Just(BlockDelta(i, "tool"))
    OBVIOUS
  <1> HIDE DEF i, x
  <1>6. Legal(g, x, g)
    BY <1>2, <1>3, <1>4, <1>5, TellBlockDelta DEF Just, Kinds
  <1>7. Tells(g0, q, g) /\ q.d = d
    BY <1>1, <1>2, <1>5, <1>6, PushTells
  <1> QED
    BY <1>1, <1>7 DEF CoTalks

LEMMA CoStopTells ==
    ASSUME NEW g0, NEW r, NEW O, NEW U, CoTalks(g0, r, O, U), NEW d, d = r.d,
           NEW j \in O, j \in DOMAIN d.toolIr,
           NEW q, q = Push(r, d, Just(BlockStop(d.toolIr[j])))
    PROVE  CoTalks(g0, q, O \ {j}, U)
  <1>1. PICK g : Tells(g0, r, g) /\ CoState(d, O, U, g)
    BY DEF CoTalks
  <1> DEFINE i == d.toolIr[j]
             x == Just(BlockStop(i))
  <1>2. d \in Decode /\ Told(g)
    BY <1>1, LegalEnds DEF Tells
  <1>3. i \in Int /\ g.phase = "body"
    BY <1>1, <1>2, CoTypes
  <1>4. <<i, "tool">> \in g.open
    BY <1>1 DEF CoState, CoLive
  <1>5. q = Push(r, d, x) /\ x = Just(BlockStop(i)) /\ i = d.toolIr[j]
    OBVIOUS
  <1> HIDE DEF i, x
  <1>6. i \in Idx(g.open)
    BY <1>4 DEF Idx
  <1>7. PICK h : /\ Legal(g, x, h)
                 /\ h.open = {p \in g.open : p[1] # i} /\ h.used = g.used /\ Same(g, h)
    BY <1>2, <1>3, <1>5, <1>6, TellBlockStop DEF Just
  <1>8. Tells(g0, q, h) /\ q.d = d
    BY <1>1, <1>2, <1>5, <1>7, PushTells
  <1>9. CoLive(d, O \ {j}, U, h)
    <2>1. SUFFICES ASSUME NEW k \in (O \ {j}) \cap DOMAIN d.toolIr
                   PROVE  <<d.toolIr[k], "tool">> \in h.open
      BY <1>1 DEF CoLive, CoState
    <2>2. <<d.toolIr[k], "tool">> \in g.open
      BY <1>1, <2>1 DEF CoState, CoLive
    <2>3. d.toolIr[k] # i
      BY <1>1, <1>5, <2>1 DEF CoState, CoMap
    <2> QED
      BY <1>7, <2>2, <2>3
  <1>10. CoTexts(d, h)
    <2>1. \A p, w \in g.open : p[1] = w[1] => p = w
      BY <1>2 DEF Told
    <2>2. CoTexts(d, g)
      BY <1>1 DEF CoState
    <2>3. d.textOpen => d.textIndex # i
      BY <1>4, <2>1, <2>2 DEF CoTexts
    <2> QED
      BY <1>7, <2>2, <2>3 DEF CoTexts
  <1>11. CoState(d, O \ {j}, U, h)
    BY <1>1, <1>7, <1>9, <1>10 DEF CoState, Same
  <1> QED
    BY <1>8, <1>11 DEF CoTalks

CoOf(u) == u.open \ {CoTextBlock}

\* What cohere's invariant gives, and what it takes.
LEMMA CoKnows ==
    ASSUME egress = "cohere", NEW d, NEW u, NEW g, ReaderInv(d, u, g), u.phase # "closed"
    PROVE  /\ Told(g) /\ g.start = NoUsage /\ u.phase \in {"head", "body", "tail"} /\ ~ u.fault
           /\ u.phase # "tail" => CoState(d, CoOf(u), u.used, g) /\ u.sent = NoUsage
           /\ u.phase = "tail" => g.phase = "terminal" /\ ~ d.textOpen /\ g.last = ReportedBy(u)
  <1>1. CoInv(d, u, g)
    BY DEF ReaderInv
  <1>2. /\ Told(g) /\ g.start = NoUsage /\ u.phase \in {"head", "body", "tail"} /\ ~ u.fault
        /\ u.phase = "tail" => g.phase = "terminal" /\ ~ d.textOpen /\ g.last = ReportedBy(u)
    BY <1>1 DEF ReaderInv, CoInv
  <1>3. ASSUME u.phase \in {"head", "body"}
        PROVE  CoState(d, CoOf(u), u.used, g) /\ u.sent = NoUsage
    <2>1. CoMap(d, u.used)
      BY <1>1, <1>3 DEF CoInv, CoMap
    <2>2. CoLive(d, CoOf(u), u.used, g)
      BY <1>1, <1>3 DEF CoInv, CoLive, CoOf
    <2>3. CoTexts(d, g)
      BY <1>1, <1>3 DEF CoInv, CoTexts
    <2> QED
      BY <1>1, <1>3, <2>1, <2>2, <2>3 DEF CoInv, CoState
  <1> QED
    BY <1>2, <1>3

LEMMA CoKeeps ==
    ASSUME egress = "cohere", NEW d, NEW n, NEW g, Told(g), g.start = NoUsage,
           n.phase \in {"body", "tail"}, ~ n.fault,
           n.phase = "body" => CoState(d, CoOf(n), n.used, g) /\ n.sent = NoUsage,
           n.phase = "tail" => g.phase = "terminal" /\ ~ d.textOpen /\ g.last = ReportedBy(n)
    PROVE  ReaderInv(d, n, g)
  <1>1. ASSUME n.phase = "body" PROVE CoInv(d, n, g)
    <2>0. CoState(d, CoOf(n), n.used, g) /\ n.sent = NoUsage
      BY <1>1
    <2>1. CoMap(d, n.used) /\ CoLive(d, CoOf(n), n.used, g) /\ CoTexts(d, g)
      BY <2>0 DEF CoState
    <2> QED
      BY <1>1, <2>0, <2>1 DEF CoInv, CoMap, CoLive, CoTexts, CoState, CoOf
  <1>2. ASSUME n.phase = "tail" PROVE CoInv(d, n, g)
    BY <1>2 DEF CoInv
  <1>3. CoInv(d, n, g)
    BY <1>1, <1>2
  <1> QED
    BY <1>3 DEF ReaderInv

LEMMA CoStep ==
    ASSUME egress = "cohere", NEW d, NEW u, NEW g, NEW r, NEW s, NEW O, NEW U,
           CoTalks(g, r, O, U), NEW v, Alike(s.next, v), v.frames = u.frames,
           v.phase = "body", CoOf(v) = O, v.used = U, v.sent = NoUsage, ~ v.fault
    PROVE  Advances(d, u, g, s, r)
  <1> DEFINE n == s.next
             e == r.d
  <1>1. PICK h : Tells(g, r, h) /\ CoState(e, O, U, h)
    BY DEF CoTalks
  <1>2. Told(h) /\ h.start = NoUsage
    BY <1>1, LegalEnds DEF Tells, CoState
  <1>3. /\ n \in UpType /\ n.frames = u.frames + 1 /\ n.phase = "body" /\ n.open = v.open
        /\ n.used = U /\ n.sent = NoUsage /\ ~ n.fault
    BY DEF Alike
  <1>4. CoOf(n) = O
    BY <1>3 DEF CoOf
  <1>w. e = r.d /\ n = s.next
    OBVIOUS
  <1> HIDE DEF e, n
  <1>5. ReaderInv(e, n, h)
    BY <1>1, <1>2, <1>3, <1>4, CoKeeps
  <1> QED
    BY <1>1, <1>3, <1>5, <1>w DEF Advances, Reads

-----------------------------------------------------------------------------
LEMMA CoOpensIs ==
    ASSUME NEW u \in UpType, NEW v, v = CoOpens(u)
    PROVE  /\ v \in UpType /\ v.frames = u.frames /\ v.phase = u.phase
           /\ CoOf(v) = CoOf(u) /\ v.used = u.used
           /\ v.sent = u.sent /\ v.kind = u.kind /\ v.fault = u.fault
  <1> DEFINE X == u.open \cup {CoTextBlock}
  <1>1. X \subseteq UpBlocks /\ X \ {CoTextBlock} = u.open \ {CoTextBlock}
    BY UpFields DEF UpBlocks, CoTextBlock, None
  <1>2. v = [u EXCEPT !.open = X]
    BY DEF CoOpens
  <1> HIDE DEF X
  <1>3. v \in UpType
    BY <1>1, <1>2 DEF UpType
  <1>4. /\ v.frames = u.frames /\ v.phase = u.phase /\ v.open = X /\ v.used = u.used
        /\ v.sent = u.sent /\ v.kind = u.kind /\ v.fault = u.fault
    BY <1>2 DEF UpType
  <1> QED
    BY <1>1, <1>3, <1>4 DEF CoOf

LEMMA CoShutsIs ==
    ASSUME NEW u \in UpType, NEW i, NEW v, v = CoShuts(u, i)
    PROVE  /\ v \in UpType /\ v.frames = u.frames /\ v.phase = u.phase
           /\ CoOf(v) = CoOf(u) \ {i} /\ v.used = u.used
           /\ v.sent = u.sent /\ v.kind = u.kind /\ v.fault = u.fault
  <1> DEFINE X == u.open \ {i}
  <1>1. X \subseteq UpBlocks /\ X \ {CoTextBlock} = (u.open \ {CoTextBlock}) \ {i}
    BY UpFields
  <1>2. v = [u EXCEPT !.open = X]
    BY DEF CoShuts
  <1> HIDE DEF X
  <1>3. v \in UpType
    BY <1>1, <1>2 DEF UpType
  <1>4. /\ v.frames = u.frames /\ v.phase = u.phase /\ v.open = X /\ v.used = u.used
        /\ v.sent = u.sent /\ v.kind = u.kind /\ v.fault = u.fault
    BY <1>2 DEF UpType
  <1> QED
    BY <1>1, <1>3, <1>4 DEF CoOf

LEMMA CoCallsIs ==
    ASSUME NEW u \in UpType, NEW i, i \in ToolIdx, NEW v, v = CoCalls(u, i)
    PROVE  /\ v \in UpType /\ v.frames = u.frames /\ v.phase = u.phase
           /\ CoOf(v) = CoOf(u) \cup {i} /\ v.used = u.used \cup {i}
           /\ v.sent = u.sent /\ v.kind = u.kind /\ v.fault = u.fault
  <1> DEFINE X == (u.open \ {CoTextBlock}) \cup {i}
             U == u.used \cup {i}
  <1>1. i \in Int /\ i # CoTextBlock
    BY ReadersAssumption DEF CoTextBlock, None
  <1>2. X \subseteq UpBlocks /\ U \subseteq Int
        /\ X \ {CoTextBlock} = (u.open \ {CoTextBlock}) \cup {i}
    BY <1>1, UpFields DEF UpBlocks
  <1>3. v = [u EXCEPT !.open = X, !.used = U]
    BY DEF CoCalls
  <1>w. U = u.used \cup {i}
    OBVIOUS
  <1> HIDE DEF X, U
  <1>4. v \in UpType
    BY <1>2, <1>3 DEF UpType
  <1>5. /\ v.frames = u.frames /\ v.phase = u.phase /\ v.open = X /\ v.used = U
        /\ v.sent = u.sent /\ v.kind = u.kind /\ v.fault = u.fault
    BY <1>3 DEF UpType
  <1> QED
    BY <1>2, <1>4, <1>5, <1>w DEF CoOf

\* The frames of the upstream, told apart.
CoTextTypes == {"content-start", "content-delta", "tool-plan-delta"}
CoSome(u, s) ==
    \/ u.phase = "head" /\ s = Sends(CoSays("message-start"), Goes(u, "body"))
    \/ u.phase = "body" /\ \E t \in CoTextTypes : s = Sends(CoSays(t), CoOpens(u))
    \/ u.phase = "body" /\ s = Sends(CoSays("content-end"), CoShuts(u, CoTextBlock))
    \/ u.phase = "body" /\ \E i \in ToolIdx \ u.used, a \in BOOLEAN :
          s = Sends(CoFrame("tool-call-start", i, a, Zero), CoCalls(u, i))
    \/ u.phase = "body" /\ \E i \in CoOf(u) : s = Sends(CoFrame("tool-call-delta", i, TRUE, Zero), u)
    \/ u.phase = "body" /\ \E i \in CoOf(u) :
          s = Sends(CoFrame("tool-call-end", i, TRUE, Zero), CoShuts(u, i))
    \/ u.phase = "body" /\ \E v \in Wholes :
          s = Sends(CoFrame("message-end", 0, TRUE, v), Ended(u, "tail", v))
    \/ u.phase = "tail" /\ s = Sends(CoSays("message-end"), u)

LEMMA CoSomeIs ==
    ASSUME NEW u, u.phase \in {"head", "body", "tail"}, NEW s \in CohereSends(u)
    PROVE  CoSome(u, s)
  <1>1. CASE u.phase = "head"
    BY <1>1 DEF CohereSends, CoSome
  <1>2. CASE u.phase = "body"
    <2> DEFINE T == {"content-start", "tool-plan-delta"} \cup
                      (IF CoTextBlock \in u.open THEN {"content-delta"} ELSE {})
               calls == u.open \ {CoTextBlock}
               A1 == {Sends(CoSays(t), CoOpens(u)) : t \in T}
               A2 == {Sends(CoSays("content-end"), CoShuts(u, i)) :
                         i \in u.open \cap {CoTextBlock}}
               A3 == {Sends(CoFrame("tool-call-start", i, a, Zero), CoCalls(u, i)) :
                         i \in ToolIdx \ u.used, a \in BOOLEAN}
               A4 == {Sends(CoFrame("tool-call-delta", i, TRUE, Zero), u) : i \in calls}
               A5 == {Sends(CoFrame("tool-call-end", i, TRUE, Zero), CoShuts(u, i)) :
                         i \in calls}
               A6 == {Sends(CoFrame("message-end", 0, TRUE, v), Ended(u, "tail", v)) :
                         v \in {Zero, Final}}
    <2>0. s \in A1 \/ s \in A2 \/ s \in A3 \/ s \in A4 \/ s \in A5 \/ s \in A6
      <3>1. CohereSends(u) = A1 \cup A2 \cup A3 \cup A4 \cup A5 \cup A6
        BY <1>2 DEF CohereSends
      <3> HIDE DEF A1, A2, A3, A4, A5, A6
      <3> QED
        BY <3>1
    <2>1. CASE s \in A1
      <3>1. PICK t \in T : s = Sends(CoSays(t), CoOpens(u))
        BY <2>1
      <3>2. t \in CoTextTypes
        BY DEF CoTextTypes
      <3> QED
        BY <1>2, <3>1, <3>2 DEF CoSome
    <2>2. CASE s \in A2
      <3>1. s = Sends(CoSays("content-end"), CoShuts(u, CoTextBlock))
        BY <2>2
      <3> QED
        BY <1>2, <3>1 DEF CoSome
    <2>3. CASE s \in A3
      <3>1. \E i \in ToolIdx \ u.used, a \in BOOLEAN :
                s = Sends(CoFrame("tool-call-start", i, a, Zero), CoCalls(u, i))
        BY <2>3
      <3> QED
        BY <1>2, <3>1 DEF CoSome
    <2>4. CASE s \in A4
      <3>1. \E i \in calls : s = Sends(CoFrame("tool-call-delta", i, TRUE, Zero), u)
        BY <2>4
      <3> QED
        BY <1>2, <3>1 DEF CoSome, CoOf
    <2>5. CASE s \in A5
      <3>1. \E i \in calls : s = Sends(CoFrame("tool-call-end", i, TRUE, Zero), CoShuts(u, i))
        BY <2>5
      <3> QED
        BY <1>2, <3>1 DEF CoSome, CoOf
    <2>6. CASE s \in A6
      <3>1. \E v \in {Zero, Final} :
                s = Sends(CoFrame("message-end", 0, TRUE, v), Ended(u, "tail", v))
        BY <2>6
      <3> QED
        BY <1>2, <3>1 DEF CoSome, Wholes
    <2> HIDE DEF A1, A2, A3, A4, A5, A6
    <2> QED
      BY <2>0, <2>1, <2>2, <2>3, <2>4, <2>5, <2>6
  <1>3. CASE u.phase = "tail"
    BY <1>3 DEF CohereSends, CoSome
  <1> QED
    BY <1>1, <1>2, <1>3

LEMMA CoBegin ==
    ASSUME NEW d \in Decode, NEW O, NEW U, NEW g, Told(g), CoState(d, O, U, g),
           NEW r0, r0 = Result(d, <<>>)
    PROVE  CoTalks(g, r0, O, U) /\ r0.d = d
  BY ResultNone, ResultIs DEF CoTalks

LEMMA CoFrameIs ==
    ASSUME NEW t, NEW i, NEW a, NEW v, NEW f, f = CoFrame(t, i, a, v)
    PROVE  f.type = t /\ f.index = i /\ f.args = a /\ f.stop /\ f.usage = v
  BY DEF CoFrame

\* What the reader makes of each type of frame.
LEMMA ReadCohereIs ==
    ASSUME NEW d, NEW f, NEW q, q = ReadCohere(d, f), NEW r, r = Result(d, <<>>)
    PROVE  /\ f.type = "message-start" => q = OaStart(r)
           /\ f.type \in CoTextTypes => (d.textClosed /\ q = r) \/ (~ d.textClosed /\ q = CoText(r, f))
           /\ f.type = "content-end" => q = CoCloseText(r)
           /\ f.type = "tool-call-start" => q = CoToolStart(r, f)
           /\ f.type = "tool-call-delta" =>
                 (f.index \notin DOMAIN d.toolIr /\ q = r)
                 \/ (f.index \in DOMAIN d.toolIr
                     /\ q = Push(r, d, Just(BlockDelta(d.toolIr[f.index], "tool"))))
           /\ f.type = "tool-call-end" =>
                 (f.index \notin DOMAIN d.toolIr /\ q = r)
                 \/ (f.index \in DOMAIN d.toolIr
                     /\ q = Push(r, d, Just(BlockStop(d.toolIr[f.index]))))
  BY DEF ReadCohere, CoTextTypes, Just

CoEndFrame(f, v) == f.type = "message-end" /\ f.stop = TRUE /\ f.usage = v
LEMMA ReadCohereEnd ==
    ASSUME NEW d, NEW f, NEW v, CoEndFrame(f, v),
           NEW q, q = ReadCohere(d, f), NEW r0, r0 = Result(d, <<>>),
           NEW p, p = CoCloseText(r0)
    PROVE  q = Push(p, p.d, EndOf(v))
  <1>1. q = Push(p, p.d, <<MessageDelta(f.stop, f.usage), MessageStop>>)
    BY DEF ReadCohere, CoEndFrame
  <1> QED
    BY <1>1 DEF EndOf, FinalDelta, CoEndFrame

LEMMA CoStateSame ==
    ASSUME NEW d, NEW e, NEW O, NEW U, NEW g, CoState(d, O, U, g), e.toolIr = d.toolIr,
           e.textSeen = d.textSeen, e.textOpen = d.textOpen, e.textIndex = d.textIndex,
           e.textClosed = d.textClosed
    PROVE  CoState(e, O, U, g)
  <1>1. CoCount(e) = CoCount(d)
    BY CoCountSame
  <1>2. CoMap(e, U)
    BY <1>1 DEF CoState, CoMap
  <1>3. CoLive(e, O, U, g)
    BY DEF CoState, CoLive
  <1>4. CoTexts(e, g)
    BY DEF CoState, CoTexts
  <1> QED
    BY <1>1, <1>2, <1>3, <1>4 DEF CoState

\* The cohere reader, frame by frame.
LEMMA CoStarts ==
    ASSUME egress = "cohere", NEW d \in Decode, NEW u \in UpType, u.phase = "head",
           NEW g, ReaderInv(d, u, g), NEW s, s = Sends(CoSays("message-start"), Goes(u, "body")),
           NEW r, r = ReadCohere(d, s.frame)
    PROVE  Advances(d, u, g, s, r)
  <1> DEFINE f == CoSays("message-start")
             v == Goes(u, "body")
             r0 == Result(d, <<>>)
  <1>1. /\ v \in UpType /\ v.frames = u.frames /\ v.phase = "body" /\ v.open = u.open
        /\ v.used = u.used /\ v.sent = u.sent /\ v.fault = u.fault
    BY GoesIs
  <1>2. f.type = "message-start"
    BY DEF CoSays, CoFrame
  <1>w. s = Sends(f, v) /\ r0 = Result(d, <<>>)
    OBVIOUS
  <1> HIDE DEF f, v, r0
  <1>3. s.frame = f /\ Alike(s.next, v)
    BY <1>1, <1>w, SendsAlike
  <1>4. /\ Told(g) /\ ~ u.fault /\ CoState(d, CoOf(u), u.used, g) /\ u.sent = NoUsage
        /\ g.phase = "body"
    BY CoKnows DEF CoState
  <1>5. r = OaStart(r0)
    BY <1>2, <1>3, <1>w, ReadCohereIs
  <1>6. Tells(g, r0, g) /\ r0.d = d
    BY <1>4, <1>w, ResultNone, ResultIs
  <1> DEFINE e == r.d
  <1>7. Tells(g, r, g) /\ e = [d EXCEPT !.started = TRUE] /\ e = r.d
    BY <1>4, <1>5, <1>6, StartTells
  <1> HIDE DEF e
  <1>8. /\ e.toolIr = d.toolIr /\ e.textSeen = d.textSeen /\ e.textOpen = d.textOpen
        /\ e.textIndex = d.textIndex /\ e.textClosed = d.textClosed
    BY <1>7, StartDecode
  <1>9. CoState(e, CoOf(u), u.used, g)
    BY <1>4, <1>8, CoStateSame
  <1>10. CoTalks(g, r, CoOf(u), u.used)
    BY <1>7, <1>9 DEF CoTalks
  <1>11. CoOf(v) = CoOf(u)
    BY <1>1 DEF CoOf
  <1> QED
    BY <1>1, <1>3, <1>4, <1>10, <1>11, CoStep

LEMMA CoSaid ==
    ASSUME egress = "cohere", NEW d \in Decode, NEW u \in UpType, u.phase = "body",
           NEW g, ReaderInv(d, u, g), NEW t \in CoTextTypes, NEW s,
           s = Sends(CoSays(t), CoOpens(u)), NEW r, r = ReadCohere(d, s.frame)
    PROVE  Advances(d, u, g, s, r)
  <1> DEFINE f == CoSays(t)
             v == CoOpens(u)
             r0 == Result(d, <<>>)
  <1>1. /\ v \in UpType /\ v.frames = u.frames /\ v.phase = u.phase
        /\ CoOf(v) = CoOf(u) /\ v.used = u.used /\ v.sent = u.sent /\ v.fault = u.fault
    BY CoOpensIs
  <1>2. f.type = t
    BY DEF CoSays, CoFrame
  <1>w. s = Sends(f, v) /\ r0 = Result(d, <<>>)
    OBVIOUS
  <1> HIDE DEF f, v, r0
  <1>3. s.frame = f /\ Alike(s.next, v)
    BY <1>1, <1>w, SendsAlike
  <1>4. Told(g) /\ ~ u.fault /\ CoState(d, CoOf(u), u.used, g) /\ u.sent = NoUsage
    BY CoKnows
  <1>5. (d.textClosed /\ r = r0) \/ (~ d.textClosed /\ r = CoText(r0, f))
    BY <1>2, <1>3, <1>w, ReadCohereIs
  <1>6. CoTalks(g, r0, CoOf(u), u.used) /\ r0.d = d
    BY <1>4, <1>w, CoBegin
  <1>7. CoTalks(g, r, CoOf(u), u.used)
    BY <1>5, <1>6, CoTextTells
  <1> QED
    BY <1>1, <1>3, <1>4, <1>7, CoStep

LEMMA CoTextEnds ==
    ASSUME egress = "cohere", NEW d \in Decode, NEW u \in UpType, u.phase = "body",
           NEW g, ReaderInv(d, u, g), NEW s,
           s = Sends(CoSays("content-end"), CoShuts(u, CoTextBlock)), NEW r, r = ReadCohere(d, s.frame)
    PROVE  Advances(d, u, g, s, r)
  <1> DEFINE f == CoSays("content-end")
             v == CoShuts(u, CoTextBlock)
             r0 == Result(d, <<>>)
  <1>1. /\ v \in UpType /\ v.frames = u.frames /\ v.phase = u.phase
        /\ CoOf(v) = CoOf(u) \ {CoTextBlock} /\ v.used = u.used /\ v.sent = u.sent /\ v.fault = u.fault
    BY CoShutsIs
  <1>1a. CoOf(v) = CoOf(u)
    BY <1>1 DEF CoOf
  <1>2. f.type = "content-end"
    BY DEF CoSays, CoFrame
  <1>w. s = Sends(f, v) /\ r0 = Result(d, <<>>)
    OBVIOUS
  <1> HIDE DEF f, v, r0
  <1>3. s.frame = f /\ Alike(s.next, v)
    BY <1>1, <1>w, SendsAlike
  <1>4. Told(g) /\ ~ u.fault /\ CoState(d, CoOf(u), u.used, g) /\ u.sent = NoUsage
    BY CoKnows
  <1>5. r = CoCloseText(r0)
    BY <1>2, <1>3, <1>w, ReadCohereIs
  <1>6. CoTalks(g, r0, CoOf(u), u.used) /\ r0.d = d
    BY <1>4, <1>w, CoBegin
  <1>7. CoTalks(g, r, CoOf(u), u.used)
    BY <1>5, <1>6, CoCloseTells
  <1> QED
    BY <1>1, <1>1a, <1>3, <1>4, <1>7, CoStep

LEMMA CoToolStarts ==
    ASSUME egress = "cohere", NEW d \in Decode, NEW u \in UpType, u.phase = "body",
           NEW g, ReaderInv(d, u, g), NEW i \in ToolIdx \ u.used, NEW a \in BOOLEAN, NEW s,
           s = Sends(CoFrame("tool-call-start", i, a, Zero), CoCalls(u, i)),
           NEW r, r = ReadCohere(d, s.frame)
    PROVE  Advances(d, u, g, s, r)
  <1> DEFINE f == CoFrame("tool-call-start", i, a, Zero)
             v == CoCalls(u, i)
             r0 == Result(d, <<>>)
  <1>1. /\ v \in UpType /\ v.frames = u.frames /\ v.phase = u.phase
        /\ CoOf(v) = CoOf(u) \cup {i} /\ v.used = u.used \cup {i} /\ v.sent = u.sent
        /\ v.fault = u.fault
    BY CoCallsIs
  <1>2. f.type = "tool-call-start" /\ f.index = i
    BY DEF CoFrame
  <1>w. s = Sends(f, v) /\ r0 = Result(d, <<>>)
    OBVIOUS
  <1> HIDE DEF f, v, r0
  <1>3. s.frame = f /\ Alike(s.next, v)
    BY <1>1, <1>w, SendsAlike
  <1>4. Told(g) /\ ~ u.fault /\ CoState(d, CoOf(u), u.used, g) /\ u.sent = NoUsage
    BY CoKnows
  <1>5. r = CoToolStart(r0, f)
    BY <1>2, <1>3, <1>w, ReadCohereIs
  <1>6. CoTalks(g, r0, CoOf(u), u.used) /\ r0.d = d
    BY <1>4, <1>w, CoBegin
  <1>7. CoTalks(g, r, CoOf(u) \cup {i}, u.used \cup {i})
    <2>1. i \in Int /\ i \notin u.used
      BY ReadersAssumption
    <2> QED
      BY <1>2, <1>5, <1>6, <2>1, CoToolTells
  <1> QED
    BY <1>1, <1>3, <1>4, <1>7, CoStep

LEMMA CoToolGoesOn ==
    ASSUME egress = "cohere", NEW d \in Decode, NEW u \in UpType, u.phase = "body",
           NEW g, ReaderInv(d, u, g), NEW i \in CoOf(u), NEW s,
           s = Sends(CoFrame("tool-call-delta", i, TRUE, Zero), u),
           NEW r, r = ReadCohere(d, s.frame)
    PROVE  Advances(d, u, g, s, r)
  <1> DEFINE f == CoFrame("tool-call-delta", i, TRUE, Zero)
             r0 == Result(d, <<>>)
  <1>2. f.type = "tool-call-delta" /\ f.index = i
    BY DEF CoFrame
  <1>w. s = Sends(f, u) /\ r0 = Result(d, <<>>)
    OBVIOUS
  <1> HIDE DEF f, r0
  <1>3. s.frame = f /\ Alike(s.next, u)
    BY <1>w, SendsAlike
  <1>4. Told(g) /\ ~ u.fault /\ CoState(d, CoOf(u), u.used, g) /\ u.sent = NoUsage
    BY CoKnows
  <1>5. (i \notin DOMAIN d.toolIr /\ r = r0)
        \/ (i \in DOMAIN d.toolIr /\ r = Push(r0, d, Just(BlockDelta(d.toolIr[i], "tool"))))
    <2>1. r = ReadCohere(d, f)
      BY <1>3
    <2> QED
      BY <1>2, <1>w, <2>1 DEF ReadCohere, Just
  <1>6. CoTalks(g, r0, CoOf(u), u.used) /\ r0.d = d
    BY <1>4, <1>w, CoBegin
  <1>7. CoTalks(g, r, CoOf(u), u.used)
    BY <1>5, <1>6, CoDeltaTells
  <1> QED
    BY <1>3, <1>4, <1>7, CoStep

LEMMA CoToolEnds ==
    ASSUME egress = "cohere", NEW d \in Decode, NEW u \in UpType, u.phase = "body",
           NEW g, ReaderInv(d, u, g), NEW i \in CoOf(u), NEW s,
           s = Sends(CoFrame("tool-call-end", i, TRUE, Zero), CoShuts(u, i)),
           NEW r, r = ReadCohere(d, s.frame)
    PROVE  Advances(d, u, g, s, r)
  <1> DEFINE f == CoFrame("tool-call-end", i, TRUE, Zero)
             v == CoShuts(u, i)
             r0 == Result(d, <<>>)
  <1>1. /\ v \in UpType /\ v.frames = u.frames /\ v.phase = u.phase
        /\ CoOf(v) = CoOf(u) \ {i} /\ v.used = u.used /\ v.sent = u.sent /\ v.fault = u.fault
    BY CoShutsIs
  <1>2. f.type = "tool-call-end" /\ f.index = i
    BY DEF CoFrame
  <1>w. s = Sends(f, v) /\ r0 = Result(d, <<>>)
    OBVIOUS
  <1> HIDE DEF f, v, r0
  <1>3. s.frame = f /\ Alike(s.next, v)
    BY <1>1, <1>w, SendsAlike
  <1>4. Told(g) /\ ~ u.fault /\ CoState(d, CoOf(u), u.used, g) /\ u.sent = NoUsage
    BY CoKnows
  <1>5. (i \notin DOMAIN d.toolIr /\ r = r0)
        \/ (i \in DOMAIN d.toolIr /\ r = Push(r0, d, Just(BlockStop(d.toolIr[i]))))
    <2>1. r = ReadCohere(d, f)
      BY <1>3
    <2> QED
      BY <1>2, <1>w, <2>1 DEF ReadCohere, Just
  <1>6. CoTalks(g, r0, CoOf(u), u.used) /\ r0.d = d
    BY <1>4, <1>w, CoBegin
  <1>7. CoTalks(g, r, CoOf(u) \ {i}, u.used)
    <2>1. CASE i \notin DOMAIN d.toolIr
      <3>1. CoState(d, CoOf(u) \ {i}, u.used, g)
        BY <1>4, <2>1 DEF CoState, CoLive
      <3>2. CoTalks(g, r0, CoOf(u) \ {i}, u.used)
        BY <1>4, <1>w, <3>1, CoBegin
      <3> QED
        BY <1>5, <2>1, <3>2
    <2>2. CASE i \in DOMAIN d.toolIr
      BY <1>5, <1>6, <2>2, CoStopTells
    <2> QED
      BY <2>1, <2>2
  <1> QED
    BY <1>1, <1>3, <1>4, <1>7, CoStep

CoEndsBy(s, u, x) == s = Sends(CoFrame("message-end", 0, TRUE, x), Ended(u, "tail", x))

LEMMA CoEnds ==
    ASSUME egress = "cohere", NEW d \in Decode, NEW u \in UpType, u.phase = "body",
           NEW g, ReaderInv(d, u, g), NEW x \in Wholes, NEW s, CoEndsBy(s, u, x),
           NEW r, r = ReadCohere(d, s.frame)
    PROVE  Advances(d, u, g, s, r)
  <1> DEFINE f == CoFrame("message-end", 0, TRUE, x)
             v == Ended(u, "tail", x)
             r0 == Result(d, <<>>)
             p == CoCloseText(r0)
             e == p.d
             n == s.next
  <1>1. v \in UpType /\ v.frames = u.frames /\ v.phase = "tail" /\ v.sent = x /\ v.fault = u.fault
    BY EndedIs DEF Wholes
  <1>2. CoEndFrame(f, x)
    BY DEF CoFrame, CoEndFrame
  <1>w. s = Sends(f, v) /\ r0 = Result(d, <<>>) /\ p = CoCloseText(r0)
        /\ p = CoCloseText(Result(d, <<>>)) /\ e = p.d /\ n = s.next
    BY DEF CoEndsBy
  <1>4. Told(g) /\ ~ u.fault /\ CoState(d, CoOf(u), u.used, g) /\ u.sent = NoUsage
    BY CoKnows
  <1> HIDE DEF f, v, r0, p, e, n
  <1>3. s.frame = f /\ Alike(n, v)
    BY <1>1, <1>w, SendsAlike
  <1>5. r = Push(p, e, EndOf(x))
    <2>1. r = ReadCohere(d, f)
      BY <1>3
    <2>2. r = Push(p, p.d, EndOf(x))
      BY <1>2, <1>w, <2>1, ReadCohereEnd
    <2> QED
      BY <1>w, <2>2
  <1>6. CoTalks(g, p, CoOf(u), u.used) /\ ~ e.textOpen
    <2>1. CoTalks(g, r0, CoOf(u), u.used)
      BY <1>4, <1>w, CoBegin
    <2> QED
      BY <1>w, <2>1, CoCloseTells
  <1>7. PICK k : Tells(g, p, k) /\ CoState(e, CoOf(u), u.used, k)
    BY <1>6, <1>w DEF CoTalks
  <1>8. Told(k) /\ k.phase = "body" /\ k.start = NoUsage /\ e \in Decode /\ k.last = NoUsage
    <2>1. Told(k) /\ k.phase = "body" /\ k.start = NoUsage /\ e \in Decode
      BY <1>7, <1>w, LegalEnds DEF CoState, Tells
    <2> QED
      BY <2>1 DEF Told
  <1>9. PICK h : Ending(k, EndOf(x), h, "terminal", LastOf(k, x))
    <2>1. x \in Tokens /\ Whole(k, x) = x
      BY <1>8, TokensAre, WholeIs DEF Wholes
    <2> QED
      BY <1>8, <2>1, TellEnd
  <1>10. Told(h) /\ h.phase = "terminal" /\ h.last = x /\ h.start = NoUsage
         /\ Legal(k, EndOf(x), h)
    <2>1. LastOf(k, x) = x
      BY <1>8 DEF LastOf, Wholes
    <2> QED
      BY <1>8, <1>9, <2>1, EndingTold DEF Ending
  <1>11. Tells(g, r, h) /\ r.d = e
    <2> DEFINE evs == EndOf(x)
    <2>1. Tells(g, p, k) /\ e \in Decode /\ Legal(k, evs, h) /\ r = Push(p, e, evs)
      BY <1>5, <1>7, <1>8, <1>10
    <2> HIDE DEF evs
    <2> QED
      BY <2>1, PushTells
  <1>12. n \in UpType /\ n.frames = u.frames + 1 /\ n.phase = "tail" /\ n.sent = x /\ ~ n.fault
    BY <1>1, <1>3, <1>4 DEF Alike
  <1>13. ReportedBy(n) = x
    BY <1>12, UsageIs DEF ReportedBy, Wholes
  <1>14. ReaderInv(e, n, h)
    BY <1>6, <1>10, <1>12, <1>13, CoKeeps
  <1> QED
    BY <1>11, <1>12, <1>14, <1>w DEF Advances, Reads

LEMMA CoLate ==
    ASSUME egress = "cohere", NEW d \in Decode, NEW u \in UpType, u.phase = "tail",
           NEW g, ReaderInv(d, u, g), NEW s, s = Sends(CoSays("message-end"), u),
           NEW r, r = ReadCohere(d, s.frame)
    PROVE  Advances(d, u, g, s, r)
  <1> DEFINE f == CoSays("message-end")
             r0 == Result(d, <<>>)
             p == CoCloseText(r0)
             n == s.next
  <1>2. CoEndFrame(f, Zero)
    BY DEF CoFrame, CoEndFrame, CoSays
  <1>4. Told(g) /\ ~ u.fault /\ g.start = NoUsage /\ g.phase = "terminal" /\ ~ d.textOpen
        /\ g.last = ReportedBy(u)
    BY CoKnows
  <1>w. s = Sends(f, u) /\ r0 = Result(d, <<>>) /\ p = CoCloseText(r0) /\ n = s.next
    OBVIOUS
  <1>5. r0.d = d /\ Tells(g, r0, g)
    BY <1>4, ResultIs, ResultNone
  <1>6. p = r0
    BY <1>4, <1>5 DEF CoCloseText
  <1> HIDE DEF f, r0, p, n
  <1>3. s.frame = f /\ Alike(n, u)
    BY <1>w, SendsAlike
  <1>7. r = Push(r0, d, EndOf(Zero))
    <2>1. r = ReadCohere(d, f)
      BY <1>3
    <2>2. r = Push(p, p.d, EndOf(Zero))
      BY <1>2, <1>w, <2>1, ReadCohereEnd
    <2> QED
      BY <1>5, <1>6, <2>2
  <1>9. PICK h : Ending(g, EndOf(Zero), h, "terminal", LastOf(g, Zero))
    <2>1. Zero \in Tokens /\ Zero \in Wholes /\ Whole(g, Zero) = Zero
      BY <1>4, TokensAre, WholeIs DEF Wholes
    <2> QED
      BY <1>4, <2>1, TellEnd
  <1>10. Told(h) /\ h.phase = "terminal" /\ h.last = g.last /\ h.start = NoUsage
         /\ Legal(g, EndOf(Zero), h)
    <2>1. LastOf(g, Zero) = g.last
      BY <1>4, UsageIs DEF LastOf, Told
    <2> QED
      BY <1>4, <1>9, <2>1, EndingTold DEF Ending
  <1>11. Tells(g, r, h) /\ r.d = d
    BY <1>5, <1>7, <1>10, PushTells
  <1>12. n \in UpType /\ n.frames = u.frames + 1 /\ n.phase = "tail" /\ n.sent = u.sent /\ ~ n.fault
    BY <1>3, <1>4 DEF Alike
  <1>13. ReportedBy(n) = ReportedBy(u)
    BY <1>12 DEF ReportedBy
  <1>14. ReaderInv(d, n, h)
    BY <1>4, <1>10, <1>12, <1>13, CoKeeps
  <1> QED
    BY <1>11, <1>12, <1>14, <1>w DEF Advances, Reads

\* The cohere reader goes on with the story.
LEMMA CohereReads ==
    ASSUME egress = "cohere", NEW d \in Decode, NEW u \in UpType, u.phase # "closed",
           NEW g, ReaderInv(d, u, g), NEW s \in CohereSends(u),
           NEW r, r = ReadCohere(d, s.frame)
    PROVE  Advances(d, u, g, s, r)
  <1>1. u.phase \in {"head", "body", "tail"}
    BY CoKnows
  <1>2. CoSome(u, s)
    BY <1>1, CoSomeIs
  <1>3. CASE u.phase = "head" /\ s = Sends(CoSays("message-start"), Goes(u, "body"))
    BY <1>3, CoStarts
  <1>4. CASE u.phase = "body" /\ \E t \in CoTextTypes : s = Sends(CoSays(t), CoOpens(u))
    BY <1>4, CoSaid
  <1>5. CASE u.phase = "body" /\ s = Sends(CoSays("content-end"), CoShuts(u, CoTextBlock))
    BY <1>5, CoTextEnds
  <1>6. CASE u.phase = "body" /\ \E i \in ToolIdx \ u.used, a \in BOOLEAN :
          s = Sends(CoFrame("tool-call-start", i, a, Zero), CoCalls(u, i))
    BY <1>6, CoToolStarts
  <1>7. CASE u.phase = "body" /\ \E i \in CoOf(u) :
          s = Sends(CoFrame("tool-call-delta", i, TRUE, Zero), u)
    BY <1>7, CoToolGoesOn
  <1>8. CASE u.phase = "body" /\ \E i \in CoOf(u) :
          s = Sends(CoFrame("tool-call-end", i, TRUE, Zero), CoShuts(u, i))
    BY <1>8, CoToolEnds
  <1>9. CASE u.phase = "body" /\ \E v \in Wholes :
          s = Sends(CoFrame("message-end", 0, TRUE, v), Ended(u, "tail", v))
    BY <1>9, CoEnds DEF CoEndsBy
  <1>10. CASE u.phase = "tail" /\ s = Sends(CoSays("message-end"), u)
    BY <1>10, CoLate
  <1> QED
    BY <1>2, <1>3, <1>4, <1>5, <1>6, <1>7, <1>8, <1>9, <1>10 DEF CoSome

\* The keys under which the responses reader holds the blocks S open.
RsKeys(S) == {p[1] : p \in {q \in S : q[2] # "text"}}
             \cup {TextKey(p[1]) : p \in {q \in S : q[2] = "text"}}

Low(i) == i \in Nat /\ i < TextKeyOffset

LEMMA TextKeys ==
    ASSUME NEW i, NEW j, Low(i), Low(j)
    PROVE  TextKey(i) # j /\ (TextKey(i) = TextKey(j) => i = j)
  BY DEF Low, TextKey, TextKeyOffset

\* RsOpen opens a block unless the cap is reached or the item is open.
LEMMA RsOpenIs ==
    ASSUME NEW S, \A p \in S : Low(p[1]), NEW d, d.openTools = RsKeys(S), NEW i, Low(i)
    PROVE  /\ RsIsOpen(d, i) <=> i \in Idx(S)
           /\ i \in d.openTools <=> \E p \in S : p[1] = i /\ p[2] # "text"
  <1>1. i \in d.openTools <=> \E p \in S : p[1] = i /\ p[2] # "text"
    <2>1. \A p \in S : TextKey(p[1]) # i
      BY TextKeys
    <2> QED
      BY <2>1 DEF RsKeys
  <1>2. TextKey(i) \in d.openTools <=> \E p \in S : p[1] = i /\ p[2] = "text"
    <2>1. \A p \in S : TextKey(i) # p[1] /\ (TextKey(p[1]) = TextKey(i) => p[1] = i)
      BY TextKeys
    <2> QED
      BY <2>1 DEF RsKeys
  <1> QED
    BY <1>1, <1>2 DEF RsIsOpen, Idx

KeyOf(p) == IF p[2] = "text" THEN TextKey(p[1]) ELSE p[1]

\* The keys of one block more, and of one less.
LEMMA KeysAdd ==
    ASSUME NEW S, NEW o
    PROVE  RsKeys(S \cup {o}) = RsKeys(S) \cup {KeyOf(o)}
  <1>1. CASE o[2] = "text"
    BY <1>1 DEF RsKeys, KeyOf
  <1>2. CASE o[2] # "text"
    BY <1>2 DEF RsKeys, KeyOf
  <1> QED
    BY <1>1, <1>2

LEMMA KeysLess ==
    ASSUME NEW S, \A p \in S : Low(p[1]), \A p, q \in S : p[1] = q[1] => p = q, NEW o \in S
    PROVE  RsKeys(S \ {o}) = RsKeys(S) \ {KeyOf(o)}
  <1> DEFINE R == S \ {o}
  <1>1. \A p \in R : KeyOf(p) # KeyOf(o)
    <2> SUFFICES ASSUME NEW p \in R PROVE KeyOf(p) # KeyOf(o)
      OBVIOUS
    <2>1. p[1] # o[1] /\ Low(p[1]) /\ Low(o[1])
      OBVIOUS
    <2>2. TextKey(p[1]) # o[1] /\ TextKey(o[1]) # p[1] /\ TextKey(p[1]) # TextKey(o[1])
      BY <2>1, TextKeys
    <2> QED
      BY <2>1, <2>2 DEF KeyOf
  <1>2. S = R \cup {o}
    OBVIOUS
  <1>3. \A T : RsKeys(T) = {KeyOf(p) : p \in T}
    BY DEF RsKeys, KeyOf
  <1> QED
    BY <1>1, <1>2, <1>3

(* The blocks O that the upstream has open and the indices U it has used,  *)
(* as the reader and the story hold them.                                  *)
RsLive(O, U, g) ==
    /\ O \subseteq Int \X (Kinds \cup {"part"}) /\ U \subseteq Int
    /\ \A j \in U : Low(j)
    /\ \A o \in O : o[1] \in U
    /\ \A o, p \in O : o[1] = p[1] => o = p
    /\ g.used \subseteq U /\ g.open \subseteq O
    /\ \A o \in O : o[2] \in {"text", "thinking"} /\ o \notin g.open => o[1] \notin g.used

RsState(d, O, U, g) ==
    /\ g.phase = "body" /\ g.start = NoUsage
    /\ RsLive(O, U, g) /\ d.openTools = RsKeys(g.open)

RsSpan(U) == U = 0 .. (Cardinality(U) - 1) /\ Cardinality(U) <= MaxOpenTools + 1

RsTalks(g0, r, O, U) == \E h : Tells(g0, r, h) /\ RsState(r.d, O, U, h)

LEMMA SpanIs ==
    ASSUME NEW U \in SUBSET Int, IsFiniteSet(U), RsSpan(U)
    PROVE  /\ Cardinality(U) \in Nat /\ Cardinality(U) \notin U /\ Low(Cardinality(U))
           /\ \A j \in U : Low(j)
  <1>1. Cardinality(U) \in Nat
    BY FS_CardinalityType
  <1>2. MaxOpenTools + 1 < TextKeyOffset /\ MaxOpenTools \in Nat
    BY KeysAssumption, ReadersAssumption
  <1>3. TextKeyOffset \in Nat
    BY DEF TextKeyOffset
  <1> QED
    BY <1>1, <1>2, <1>3 DEF RsSpan, Low

\* What the responses invariant gives, and what it takes.
LEMMA RsKnows ==
    ASSUME egress = "responses", NEW d, NEW u \in UpType, NEW g, ReaderInv(d, u, g), u.phase # "closed"
    PROVE  /\ Told(g) /\ g.start = NoUsage /\ ~ u.fault
           /\ u.phase \in {"head", "body"} =>
                RsState(d, u.open, u.used, g) /\ RsSpan(u.used) /\ u.sent = NoUsage
                /\ IsFiniteSet(u.used)
  <1>1. RsInv(d, u, g)
    BY DEF ReaderInv
  <1>2. Told(g) /\ g.start = NoUsage /\ ~ u.fault
    BY <1>1 DEF ReaderInv, RsInv
  <1>3. ASSUME u.phase \in {"head", "body"}
        PROVE  RsState(d, u.open, u.used, g) /\ RsSpan(u.used) /\ u.sent = NoUsage
               /\ IsFiniteSet(u.used)
    <2>1. u.used = 0 .. (Cardinality(u.used) - 1) /\ Cardinality(u.used) <= MaxOpenTools + 1
          /\ u.sent = NoUsage /\ g.phase = "body"
      BY <1>1, <1>3 DEF RsInv
    <2>2. RsSpan(u.used)
      BY <2>1 DEF RsSpan
    <2>a. IsFiniteSet(u.used)
      BY <1>1, <1>3 DEF RsInv
    <2>3. RsLive(u.open, u.used, g)
      <3>1. \A j \in u.used : Low(j)
        BY <2>2, <2>a, SpanIs, UpFields
      <3>2. u.used \subseteq Int
        BY UpFields
      <3> QED
        BY <1>1, <1>3, <3>1, <3>2 DEF RsInv, RsLive
    <2>4. d.openTools = RsKeys(g.open)
      BY <1>1, <1>3 DEF RsInv, RsKeys
    <2> QED
      BY <1>2, <2>1, <2>2, <2>3, <2>4, <2>a DEF RsState
  <1> QED
    BY <1>2, <1>3

LEMMA RsKeeps ==
    ASSUME egress = "responses", NEW d, NEW n, NEW g, Told(g), g.start = NoUsage,
           n.phase \in {"body", "tail", "closed"}, n.phase # "closed" => ~ n.fault,
           n.phase = "body" => RsState(d, n.open, n.used, g) /\ RsSpan(n.used)
                               /\ n.sent = NoUsage /\ IsFiniteSet(n.used),
           n.phase = "tail" => g.phase # "body" /\ g.last = ReportedBy(n)
    PROVE  ReaderInv(d, n, g)
  <1>1. ASSUME n.phase = "body" PROVE RsInv(d, n, g)
    <2>0. RsState(d, n.open, n.used, g) /\ RsSpan(n.used) /\ n.sent = NoUsage
          /\ IsFiniteSet(n.used)
      BY <1>1
    <2>1. RsLive(n.open, n.used, g) /\ d.openTools = RsKeys(g.open) /\ g.phase = "body"
      BY <2>0 DEF RsState
    <2> QED
      BY <1>1, <2>0, <2>1 DEF RsInv, RsLive, RsSpan, RsKeys
  <1>2. ASSUME n.phase # "body" PROVE RsInv(d, n, g)
    BY <1>2 DEF RsInv
  <1>3. RsInv(d, n, g)
    BY <1>1, <1>2
  <1> QED
    BY <1>3 DEF ReaderInv

LEMMA LiveIs ==
    ASSUME NEW O, NEW U, NEW g, RsLive(O, U, g)
    PROVE  /\ \A p \in g.open : Low(p[1]) /\ p \in O /\ p[1] \in U
           /\ \A o \in O : o[1] \in U /\ Low(o[1]) /\ o[1] \in Int /\ o = <<o[1], o[2]>>
                           /\ (o[1] \in Idx(g.open) <=> o \in g.open)
  BY DEF RsLive, Idx

LEMMA StateIs ==
    ASSUME NEW d, NEW O, NEW U, NEW g, RsState(d, O, U, g)
    PROVE  /\ RsLive(O, U, g) /\ g.phase = "body" /\ g.start = NoUsage
           /\ \A o \in O : RsIsOpen(d, o[1]) <=> o \in g.open
           /\ \A o \in O : o[1] \in d.openTools <=> o \in g.open /\ o[2] # "text"
  <1>1. /\ RsLive(O, U, g) /\ g.phase = "body" /\ g.start = NoUsage
        /\ d.openTools = RsKeys(g.open)
    BY DEF RsState
  <1>2. \A p \in g.open : Low(p[1])
    BY <1>1, LiveIs
  <1>3. ASSUME NEW o \in O
        PROVE  /\ RsIsOpen(d, o[1]) <=> o \in g.open
               /\ o[1] \in d.openTools <=> o \in g.open /\ o[2] # "text"
    <2> DEFINE i == o[1]
               S == g.open
    <2>1. Low(i) /\ (i \in Idx(S) <=> o \in S)
      BY <1>1, <1>3, LiveIs
    <2>2. \A p \in S : p[1] = i => p = o
      BY <1>1, <1>3 DEF RsLive
    <2>3. \A p \in S : Low(p[1])
      BY <1>2
    <2>4. d.openTools = RsKeys(S)
      BY <1>1
    <2>5. /\ RsIsOpen(d, i) <=> i \in Idx(S)
          /\ i \in d.openTools <=> \E p \in S : p[1] = i /\ p[2] # "text"
      <3> HIDE DEF i, S
      <3> QED
        BY <2>1, <2>3, <2>4, RsOpenIs
    <2> QED
      BY <2>1, <2>2, <2>5
  <1> QED
    BY <1>1, <1>3

\* The upstream opens a block.
LEMMA RsWiden ==
    ASSUME NEW d, NEW O, NEW U, NEW g, RsState(d, O, U, g), NEW i, Low(i), i \notin U,
           NEW k \in Kinds, NEW P, P = O \cup {<<i, k>>}, NEW V, V = U \cup {i}
    PROVE  RsState(d, P, V, g)
  <1>1. RsLive(O, U, g)
    BY DEF RsState
  <1>0. i \in Int
    BY DEF Low
  <1>2. P \subseteq Int \X (Kinds \cup {"part"}) /\ V \subseteq Int
        /\ (\A j \in V : Low(j)) /\ (\A o \in P : o[1] \in V)
    BY <1>0, <1>1 DEF RsLive
  <1>3. \A o, p \in P : o[1] = p[1] => o = p
    BY <1>1 DEF RsLive
  <1>4. g.used \subseteq V /\ g.open \subseteq P
    BY <1>1 DEF RsLive
  <1>5. \A o \in P : o[2] \in {"text", "thinking"} /\ o \notin g.open => o[1] \notin g.used
    BY <1>1 DEF RsLive
  <1>6. RsLive(P, V, g)
    BY <1>2, <1>3, <1>4, <1>5 DEF RsLive
  <1> QED
    BY <1>6 DEF RsState

\* The reader opens it, unless the cap keeps it shut.
LEMMA RsOpenTells ==
    ASSUME egress = "responses", NEW g0, NEW r, NEW g, NEW O, NEW U,
           Tells(g0, r, g), RsState(r.d, O, U, g), NEW o \in O,
           NEW i, i = o[1], NEW k \in Kinds, k = o[2],
           k = "tool" => i \notin g.used, NEW x, x = KeyOf(o),
           NEW q, q = RsOpen(r, i, x, k)
    PROVE  RsTalks(g0, q, O, U)
  <1>1. CASE RsIsOpen(r.d, i) \/ RsFull(r.d)
    <2>1. q = r
      BY <1>1 DEF RsOpen
    <2> QED
      BY <2>1 DEF RsTalks
  <1>2. CASE ~ (RsIsOpen(r.d, i) \/ RsFull(r.d))
    <2> DEFINE X == r.d.openTools \cup {x}
               e == [r.d EXCEPT !.openTools = X]
    <2>0. RsLive(O, U, g) /\ g.phase = "body" /\ g.start = NoUsage
          /\ r.d.openTools = RsKeys(g.open) /\ r.d \in Decode /\ Told(g)
      BY LegalEnds DEF RsState, Tells
    <2>1. o \notin g.open /\ i \in Int /\ i \in U /\ o = <<i, k>> /\ Low(i)
      BY <1>2, <2>0, StateIs, LiveIs
    <2>2. i \notin g.used
      BY <2>0, <2>1 DEF RsLive, Kinds
    <2>3. PICK h : /\ Legal(g, <<BlockStart(i, k)>>, h)
                   /\ h.open = g.open \cup {<<i, k>>} /\ h.used = g.used \cup {i}
                   /\ Same(g, h)
      BY <2>0, <2>1, <2>2, TellBlockStart
    <2>4. X \subseteq Int
      BY <2>0, <2>1, DecodeFields DEF KeyOf, TextKey, TextKeyOffset
    <2>5. q = Push(r, e, <<BlockStart(i, k)>>)
      BY <1>2 DEF RsOpen
    <2> HIDE DEF X
    <2>6. e \in Decode /\ e.openTools = X
      BY <2>0, <2>4 DEF Decode
    <2>w. e = [r.d EXCEPT !.openTools = X]
      OBVIOUS
    <2> HIDE DEF e
    <2>7. Tells(g0, q, h) /\ q.d = e
      BY <2>3, <2>5, <2>6, PushTells
    <2>8. X = RsKeys(h.open)
      BY <2>0, <2>1, <2>3, KeysAdd DEF X
    <2>9. RsLive(O, U, h)
      <3>1. h.used \subseteq U /\ h.open \subseteq O
        BY <2>0, <2>1, <2>3 DEF RsLive
      <3>2. ASSUME NEW p \in O, p[2] \in {"text", "thinking"}, p \notin h.open
            PROVE  p[1] \notin h.used
        <4>1. p # o /\ p \notin g.open
          BY <2>1, <2>3, <3>2
        <4>2. p[1] # i /\ p[1] \notin g.used
          BY <2>0, <3>2, <4>1 DEF RsLive
        <4> QED
          BY <2>3, <4>2
      <3>3. \A p \in O : p[2] \in {"text", "thinking"} /\ p \notin h.open => p[1] \notin h.used
        BY <3>2
      <3> QED
        BY <2>0, <3>1, <3>3 DEF RsLive
    <2>10. RsState(q.d, O, U, h)
      BY <2>0, <2>3, <2>6, <2>7, <2>8, <2>9 DEF RsState, Same
    <2> QED
      BY <2>7, <2>10 DEF RsTalks
  <1> QED
    BY <1>1, <1>2

\* A delta of the block, unless it is shut.
LEMMA RsDeltaTells ==
    ASSUME NEW g0, NEW r, NEW O, NEW U, RsTalks(g0, r, O, U), NEW o \in O,
           NEW i, i = o[1], NEW k \in Kinds, k = o[2],
           NEW q, q = RsDelta(r, i, k)
    PROVE  RsTalks(g0, q, O, U)
  <1>0. PICK g : Tells(g0, r, g) /\ RsState(r.d, O, U, g)
    BY DEF RsTalks
  <1>1. CASE ~ RsIsOpen(r.d, i)
    BY <1>1 DEF RsDelta
  <1>2. CASE RsIsOpen(r.d, i)
    <2>0. RsLive(O, U, g) /\ g.phase = "body" /\ r.d \in Decode /\ Told(g)
      BY <1>0, LegalEnds DEF RsState, Tells
    <2>1. o \in g.open /\ i \in Int /\ o = <<i, k>>
      BY <1>0, <1>2, <2>0, StateIs, LiveIs
    <2>2. Legal(g, <<BlockDelta(i, k)>>, g)
      BY <2>0, <2>1, TellBlockDelta
    <2>3. q = Push(r, r.d, <<BlockDelta(i, k)>>)
      BY <1>2 DEF RsDelta
    <2>4. Tells(g0, q, g) /\ q.d = r.d
      BY <1>0, <2>0, <2>2, <2>3, PushTells
    <2> QED
      BY <1>0, <2>4 DEF RsTalks
  <1> QED
    BY <1>1, <1>2

LEMMA OpenFinite ==
    ASSUME NEW g, Told(g)
    PROVE  Idx(g.open) \subseteq Int /\ IsFiniteSet(Idx(g.open))
  <1>1. g.used \subseteq Int /\ Idx(g.open) \subseteq g.used /\ IsFiniteSet(g.used)
    BY StoryFields DEF Told
  <1> QED
    BY <1>1, FS_Subset

\* The block o is done with.
LEMMA RsDoneTells ==
    ASSUME NEW g0, NEW r, NEW g, NEW O, NEW U,
           Tells(g0, r, g), RsState(r.d, O, U, g), NEW o \in O, NEW i, i = o[1],
           NEW q, q = RsDone(r, i), NEW P, P = O \ {o}
    PROVE  RsTalks(g0, q, P, U)
  <1>0. RsLive(O, U, g) /\ g.phase = "body" /\ g.start = NoUsage
        /\ r.d.openTools = RsKeys(g.open) /\ r.d \in Decode /\ Told(g)
    BY LegalEnds DEF RsState, Tells
  <1>a. i \in Int /\ i \in U /\ Low(i) /\ o = <<i, o[2]>>
    BY <1>0, LiveIs
  <1>1. CASE ~ RsIsOpen(r.d, i)
    <2>1. q = r
      BY <1>1 DEF RsDone
    <2>2. o \notin g.open
      BY <1>1, StateIs
    <2>3. RsLive(P, U, g)
      BY <1>0, <2>2 DEF RsLive
    <2> QED
      BY <1>0, <2>1, <2>3 DEF RsTalks, RsState
  <1>2. CASE RsIsOpen(r.d, i)
    <2> DEFINE X == IF i \in r.d.openTools THEN r.d.openTools \ {i}
                    ELSE r.d.openTools \ {TextKey(i)}
               e == [r.d EXCEPT !.openTools = X]
    <2>1. o \in g.open /\ (i \in r.d.openTools <=> o[2] # "text")
      BY <1>2, StateIs
    <2>2. i \in Idx(g.open)
      BY <2>1 DEF Idx
    <2>3. PICK h : /\ Legal(g, <<BlockStop(i)>>, h)
                   /\ h.open = {p \in g.open : p[1] # i} /\ h.used = g.used
                   /\ Same(g, h)
      BY <1>0, <1>a, <2>2, TellBlockStop
    <2>4. h.open = g.open \ {o}
      BY <1>0, <2>1, <2>3 DEF RsLive
    <2>5. X = RsKeys(g.open) \ {KeyOf(o)}
      BY <1>0, <2>1 DEF KeyOf
    <2>6. X \subseteq Int
      BY <1>0, DecodeFields
    <2>7. q = Push(r, e, <<BlockStop(i)>>)
      BY <1>2 DEF RsDone
    <2> HIDE DEF X
    <2>8. e \in Decode /\ e.openTools = X
      BY <1>0, <2>6 DEF Decode
    <2>w. e = [r.d EXCEPT !.openTools = X]
      OBVIOUS
    <2> HIDE DEF e
    <2>9. Tells(g0, q, h) /\ q.d = e
      BY <2>3, <2>7, <2>8, PushTells
    <2>10. X = RsKeys(h.open)
      <3> DEFINE S == g.open
      <3>1. (\A p \in S : Low(p[1])) /\ (\A p, t \in S : p[1] = t[1] => p = t) /\ o \in S
        BY <1>0, <2>1, LiveIs DEF RsLive
      <3>2. X = RsKeys(S) \ {KeyOf(o)} /\ h.open = S \ {o}
        BY <2>4, <2>5
      <3> HIDE DEF S
      <3> QED
        BY <3>1, <3>2, KeysLess
    <2>11. RsLive(P, U, h)
      BY <1>0, <2>3, <2>4 DEF RsLive
    <2> QED
      BY <1>0, <2>3, <2>8, <2>9, <2>10, <2>11 DEF RsState, Same, RsTalks
  <1> QED
    BY <1>1, <1>2

\* A text item whose part is done stays an item.
LEMMA RsPartTells ==
    ASSUME NEW g0, NEW r, NEW O, NEW U, NEW i \in U, NEW P, RsTalks(g0, r, P, U),
           \A p \in P : p[1] # i, NEW Q, Q = P \cup {<<i, "part">>}
    PROVE  RsTalks(g0, r, Q, U)
  <1>0. PICK g : Tells(g0, r, g) /\ RsState(r.d, P, U, g)
    BY DEF RsTalks
  <1>1. RsLive(P, U, g)
    BY <1>0 DEF RsState
  <1>2. i \in Int
    BY <1>1 DEF RsLive
  <1>3. RsLive(Q, U, g)
    BY <1>1, <1>2 DEF RsLive
  <1> QED
    BY <1>0, <1>3 DEF RsTalks, RsState

\* What is still open is closed.
IrIndex(k) == IF k >= TextKeyOffset THEN k - TextKeyOffset ELSE k

LEMMA IrIndexIs ==
    ASSUME NEW i, Low(i)
    PROVE  IrIndex(i) = i /\ IrIndex(TextKey(i)) = i
  BY DEF IrIndex, Low, TextKey, TextKeyOffset

LEMMA IrIndices ==
    ASSUME NEW S, \A p \in S : Low(p[1])
    PROVE  {IrIndex(k) : k \in RsKeys(S)} = Idx(S)
  <1>1. \A p \in S : IrIndex(p[1]) = p[1] /\ IrIndex(TextKey(p[1])) = p[1]
    BY IrIndexIs
  <1> QED
    BY <1>1 DEF RsKeys, Idx

\* The blocks that are still open are closed, each once.
LEMMA RsCloses ==
    ASSUME NEW g0, NEW r, NEW O, NEW U, RsTalks(g0, r, O, U),
           NEW q, q = RsCloseAll(r)
    PROVE  \E h : /\ Tells(g0, q, h) /\ Told(h) /\ h.phase = "body" /\ h.start = NoUsage
                  /\ h.open = {} /\ h.last = NoUsage
  <1>0. PICK g : Tells(g0, r, g) /\ RsState(r.d, O, U, g)
    BY DEF RsTalks
  <1>1. RsLive(O, U, g) /\ g.phase = "body" /\ g.start = NoUsage /\ r.d.openTools = RsKeys(g.open)
        /\ r.d \in Decode /\ Told(g)
    BY <1>0, LegalEnds DEF RsState, Tells
  <1> DEFINE S == Idx(g.open)
             ixs == Ascending(S)
             e == [r.d EXCEPT !.openTools = {}]
  <1>2. {IrIndex(k) : k \in r.d.openTools} = S
    BY <1>1, LiveIs, IrIndices
  <1>3. q = Push(r, e, Stops(ixs))
    <2>1. {IF k >= TextKeyOffset THEN k - TextKeyOffset ELSE k : k \in r.d.openTools} = S
      BY <1>2 DEF IrIndex
    <2> QED
      BY <2>1 DEF RsCloseAll, Stops
  <1>4. S \subseteq Int /\ IsFiniteSet(S)
    BY <1>1, OpenFinite
  <1>5. e \in Decode
    BY <1>1 DEF Decode
  <1>w. S = Idx(g.open)
    OBVIOUS
  <1> HIDE DEF e, S
  <1>6. /\ Cardinality(S) \in Nat /\ ixs \in Seq(S) /\ Len(ixs) = Cardinality(S)
        /\ \A m, n \in 1 .. Cardinality(S) : ixs[m] = ixs[n] => m = n
        /\ \A x \in S : \E n \in 1 .. Cardinality(S) : ixs[n] = x
    BY <1>4, AscendingLists
  <1> HIDE DEF ixs
  <1>7. ixs \in Seq(Int) /\ \A n \in 1 .. Len(ixs) : ixs[n] \in Idx(g.open)
    BY <1>4, <1>6, <1>w
  <1>8. PICK h : /\ Legal(g, Stops(ixs), h)
                 /\ h.open = {p \in g.open : \A n \in 1 .. Len(ixs) : p[1] # ixs[n]}
                 /\ h.used = g.used /\ Same(g, h)
    <2>1. \A m, n \in 1 .. Len(ixs) : ixs[m] = ixs[n] => m = n
      BY <1>6
    <2> QED
      BY <1>1, <1>7, <2>1, TellStops DEF Stops
  <1>9. h.open = {}
    <2>1. ASSUME NEW p \in g.open PROVE \E n \in 1 .. Len(ixs) : p[1] = ixs[n]
      <3>1. p[1] \in S
        BY <1>w DEF Idx
      <3>2. PICK n \in 1 .. Cardinality(S) : ixs[n] = p[1]
        BY <1>6, <3>1
      <3> QED
        BY <1>6, <3>2
    <2> QED
      BY <1>8, <2>1
  <1>10. Tells(g0, q, h)
    BY <1>0, <1>3, <1>5, <1>8, PushTells
  <1>11. Told(h) /\ h.phase = "body" /\ h.start = NoUsage
    BY <1>1, <1>8, LegalEnds DEF Same
  <1> QED
    BY <1>9, <1>10, <1>11 DEF Told

LEMMA RsStep ==
    ASSUME egress = "responses", NEW d, NEW u, NEW g, NEW r, NEW s, NEW O, NEW U,
           RsTalks(g, r, O, U), NEW v, Alike(s.next, v), v.frames = u.frames,
           v.phase = "body", v.open = O, v.used = U, v.sent = NoUsage, ~ v.fault,
           RsSpan(U), IsFiniteSet(U)
    PROVE  Advances(d, u, g, s, r)
  <1> DEFINE n == s.next
             e == r.d
  <1>1. PICK h : Tells(g, r, h) /\ RsState(e, O, U, h)
    BY DEF RsTalks
  <1>2. Told(h) /\ h.start = NoUsage
    BY <1>1, LegalEnds DEF Tells, RsState
  <1>3. /\ n \in UpType /\ n.frames = u.frames + 1 /\ n.phase = "body" /\ n.open = O
        /\ n.used = U /\ n.sent = NoUsage /\ ~ n.fault
    BY DEF Alike
  <1>w. e = r.d /\ n = s.next
    OBVIOUS
  <1> HIDE DEF e, n
  <1>5. ReaderInv(e, n, h)
    BY <1>1, <1>2, <1>3, RsKeeps
  <1> QED
    BY <1>1, <1>3, <1>5, <1>w DEF Advances, Reads

LEMMA SpanAdd ==
    ASSUME NEW U \in SUBSET Int, IsFiniteSet(U), RsSpan(U), Cardinality(U) <= MaxOpenTools,
           NEW V, V = U \cup {Cardinality(U)}
    PROVE  RsSpan(V) /\ IsFiniteSet(V)
  <1>1. Cardinality(U) \in Nat /\ Cardinality(U) \notin U
    BY SpanIs
  <1>2. IsFiniteSet(V) /\ Cardinality(V) = Cardinality(U) + 1
    BY <1>1, FS_AddElement
  <1>3. MaxOpenTools \in Nat
    BY ReadersAssumption
  <1> QED
    BY <1>1, <1>2, <1>3 DEF RsSpan

LEMMA RsOpensIs ==
    ASSUME NEW u \in UpType, NextIndex(u) \in Int, NEW k \in Kinds, NEW v, v = RsOpens(u, k)
    PROVE  /\ v \in UpType /\ v.frames = u.frames /\ v.phase = u.phase
           /\ v.open = u.open \cup {<<NextIndex(u), k>>} /\ v.used = u.used \cup {NextIndex(u)}
           /\ v.sent = u.sent /\ v.kind = u.kind /\ v.fault = u.fault
  <1> DEFINE X == u.open \cup {<<NextIndex(u), k>>}
             U == u.used \cup {NextIndex(u)}
  <1>1. X \subseteq UpBlocks /\ U \subseteq Int
    BY UpFields DEF UpBlocks
  <1>2. v = [u EXCEPT !.open = X, !.used = U]
    BY DEF RsOpens
  <1> HIDE DEF X, U
  <1>3. v \in UpType
    BY <1>1, <1>2 DEF UpType
  <1>4. /\ v.frames = u.frames /\ v.phase = u.phase /\ v.open = X /\ v.used = U
        /\ v.sent = u.sent /\ v.kind = u.kind /\ v.fault = u.fault
    BY <1>2 DEF UpType
  <1> QED
    BY <1>3, <1>4 DEF X, U

LEMMA RsPartsIs ==
    ASSUME NEW u \in UpType, NEW o, o[1] \in Int, NEW v, v = RsParts(u, o)
    PROVE  /\ v \in UpType /\ v.frames = u.frames /\ v.phase = u.phase
           /\ v.open = (u.open \ {o}) \cup {<<o[1], "part">>} /\ v.used = u.used
           /\ v.sent = u.sent /\ v.kind = u.kind /\ v.fault = u.fault
  <1> DEFINE X == (u.open \ {o}) \cup {<<o[1], "part">>}
  <1>1. X \subseteq UpBlocks
    BY UpFields DEF UpBlocks
  <1>2. v = [u EXCEPT !.open = X]
    BY DEF RsParts
  <1> HIDE DEF X
  <1>3. v \in UpType
    BY <1>1, <1>2 DEF UpType
  <1>4. /\ v.frames = u.frames /\ v.phase = u.phase /\ v.open = X /\ v.used = u.used
        /\ v.sent = u.sent /\ v.kind = u.kind /\ v.fault = u.fault
    BY <1>2 DEF UpType
  <1> QED
    BY <1>3, <1>4 DEF X

LEMMA RsShutsIs ==
    ASSUME NEW u \in UpType, NEW o, NEW v, v = RsShuts(u, o)
    PROVE  /\ v \in UpType /\ v.frames = u.frames /\ v.phase = u.phase
           /\ v.open = u.open \ {o} /\ v.used = u.used
           /\ v.sent = u.sent /\ v.kind = u.kind /\ v.fault = u.fault
  <1> DEFINE X == u.open \ {o}
  <1>1. X \subseteq UpBlocks
    BY UpFields
  <1>2. v = [u EXCEPT !.open = X]
    BY DEF RsShuts
  <1> HIDE DEF X
  <1>3. v \in UpType
    BY <1>1, <1>2 DEF UpType
  <1>4. /\ v.frames = u.frames /\ v.phase = u.phase /\ v.open = X /\ v.used = u.used
        /\ v.sent = u.sent /\ v.kind = u.kind /\ v.fault = u.fault
    BY <1>2 DEF UpType
  <1> QED
    BY <1>3, <1>4 DEF X

\* What the reader makes of each type of frame.
RsStarts(f, k) == f.type = "item.added" /\ f.kind = k
RsGoesOn(f, k) == \/ k = "thinking" /\ f.type = "reasoning.delta"
                  \/ k = "text" /\ f.type = "text.delta"
                  \/ k = "tool" /\ f.type = "args.delta"

\* read_response_events, one type of frame at a time.
LEMMA ReadResponsesIs ==
    ASSUME NEW d, NEW f, NEW q, q = ReadResponses(d, f), NEW r, r = Result(d, <<>>),
           NEW i, i = f.index
    PROVE  /\ f.type = "created" => q = OaStart(r)
           /\ \A k \in {"tool", "thinking"} : RsStarts(f, k) => q = RsOpen(r, i, i, k)
           /\ RsStarts(f, "text") => q = r
           /\ f.type = "done" => q = RsDone(r, i)
           /\ f.type \in {"completed", "failed"} => q = RsTerminal(r, f)
           /\ f.type = "error" => q = r
  BY DEF ReadResponses, RsStarts

LEMMA ReadDeltas ==
    ASSUME NEW d, NEW f, NEW q, q = ReadResponses(d, f), NEW r, r = Result(d, <<>>),
           NEW i, i = f.index
    PROVE  /\ RsGoesOn(f, "thinking") => q = RsDelta(RsOpen(r, i, i, "thinking"), i, "thinking")
           /\ RsGoesOn(f, "text") /\ i \notin d.openTools =>
                q = RsDelta(RsOpen(r, i, TextKey(i), "text"), i, "text")
           /\ RsGoesOn(f, "text") /\ i \in d.openTools => q = r
           /\ RsGoesOn(f, "tool") /\ i \in d.openTools => q = RsDelta(r, i, "tool")
           /\ RsGoesOn(f, "tool") /\ i \notin d.openTools => q = r
  BY DEF ReadResponses, RsGoesOn

LEMMA RsFrameIs ==
    ASSUME NEW t, NEW i, NEW k, NEW f, f = RsFrame(t, i, k)
    PROVE  f.type = t /\ f.index = i /\ f.kind = k
  BY DEF RsFrame

LEMMA RsBegin ==
    ASSUME NEW d \in Decode, NEW O, NEW U, NEW g, Told(g), RsState(d, O, U, g),
           NEW r0, r0 = Result(d, <<>>)
    PROVE  RsTalks(g, r0, O, U) /\ r0.d = d /\ Tells(g, r0, g)
  BY ResultNone, ResultIs DEF RsTalks

LEMMA KeyIs ==
    ASSUME NEW i, NEW k, NEW o, o = <<i, k>>
    PROVE  (k = "text" => KeyOf(o) = TextKey(i)) /\ (k # "text" => KeyOf(o) = i)
  BY DEF KeyOf

\* A delta of a block, which opens a text or a reasoning block first.
LEMMA RsReadDelta ==
    ASSUME egress = "responses", NEW d \in Decode, NEW O, NEW U, NEW g, Told(g),
           RsState(d, O, U, g), NEW o \in O, NEW i, i = o[1], NEW k \in Kinds, k = o[2],
           NEW f, RsGoesOn(f, k), f.index = i, NEW r, r = ReadResponses(d, f)
    PROVE  RsTalks(g, r, O, U)
  <1> DEFINE r0 == Result(d, <<>>)
             x == KeyOf(o)
             p == RsOpen(r0, i, x, k)
  <1>1. o = <<i, k>>
    BY StateIs, LiveIs
  <1>2. (k = "text" => x = TextKey(i)) /\ (k # "text" => x = i)
    BY <1>1, KeyIs
  <1>w. r0 = Result(d, <<>>) /\ p = RsOpen(r0, i, x, k) /\ x = KeyOf(o)
    OBVIOUS
  <1> HIDE DEF r0, x
  <1>3. RsTalks(g, r0, O, U) /\ r0.d = d /\ Tells(g, r0, g)
    BY <1>w, RsBegin
  <1>4. ASSUME k # "tool" PROVE RsTalks(g, p, O, U)
    <2>1. RsState(r0.d, O, U, g) /\ (k = "tool" => i \notin g.used)
      BY <1>3, <1>4
    <2> QED
      BY <1>3, <1>w, <2>1, RsOpenTells
  <1> HIDE DEF p
  <1>5. CASE k = "thinking"
    <2>1. p = RsOpen(r0, i, i, "thinking")
      BY <1>2, <1>5, <1>w
    <2>2. r = RsDelta(p, i, k)
      BY <1>5, <1>w, <2>1, ReadDeltas
    <2> QED
      BY <1>4, <1>5, <2>2, RsDeltaTells
  <1>6. CASE k = "text"
    <2>1. p = RsOpen(r0, i, TextKey(i), "text")
      BY <1>2, <1>6, <1>w
    <2>2. r = RsDelta(p, i, k) \/ r = r0
      BY <1>6, <1>w, <2>1, ReadDeltas
    <2>3. RsTalks(g, p, O, U)
      BY <1>4, <1>6
    <2>4. CASE r = RsDelta(p, i, k)
      BY <2>3, <2>4, RsDeltaTells
    <2> QED
      BY <1>3, <2>2, <2>4
  <1>7. CASE k = "tool"
    <2>2. r = RsDelta(r0, i, k) \/ r = r0
      BY <1>7, <1>w, ReadDeltas
    <2>4. CASE r = RsDelta(r0, i, k)
      BY <1>3, <2>4, RsDeltaTells
    <2> QED
      BY <1>3, <2>2, <2>4
  <1> QED
    BY <1>5, <1>6, <1>7 DEF Kinds

\* The responses reader, frame by frame.
LEMMA RsBegins ==
    ASSUME egress = "responses", NEW d \in Decode, NEW u \in UpType, u.phase = "head",
           NEW g, ReaderInv(d, u, g), NEW f, f.type = "created",
           NEW s, s = Sends(f, Goes(u, "body")),
           NEW r, r = ReadResponses(d, s.frame)
    PROVE  Advances(d, u, g, s, r)
  <1> DEFINE v == Goes(u, "body")
             r0 == Result(d, <<>>)
  <1>1. /\ v \in UpType /\ v.frames = u.frames /\ v.phase = "body" /\ v.open = u.open
        /\ v.used = u.used /\ v.sent = u.sent /\ v.fault = u.fault
    BY GoesIs
  <1>w. s = Sends(f, v) /\ r0 = Result(d, <<>>)
    OBVIOUS
  <1> HIDE DEF v, r0
  <1>3. s.frame = f /\ Alike(s.next, v)
    BY <1>1, <1>w, SendsAlike
  <1>4. /\ Told(g) /\ ~ u.fault /\ RsState(d, u.open, u.used, g) /\ u.sent = NoUsage
        /\ RsSpan(u.used) /\ IsFiniteSet(u.used)
    BY RsKnows
  <1>5. r = OaStart(r0)
    BY <1>3, <1>w, ReadResponsesIs
  <1>6. Tells(g, r0, g) /\ r0.d = d /\ g.phase = "body"
    BY <1>4, <1>w, RsBegin, StateIs
  <1> DEFINE e == r.d
  <1>7. Tells(g, r, g) /\ e = [d EXCEPT !.started = TRUE] /\ e = r.d
    BY <1>5, <1>6, StartTells
  <1> HIDE DEF e
  <1>8. e.openTools = d.openTools
    BY <1>7 DEF Decode
  <1>9. RsState(e, u.open, u.used, g)
    BY <1>4, <1>8 DEF RsState
  <1>10. RsTalks(g, r, u.open, u.used)
    BY <1>7, <1>9 DEF RsTalks
  <1> QED
    BY <1>1, <1>3, <1>4, <1>10, RsStep

\* A new item, announced or not.
LEMMA RsAdded ==
    ASSUME egress = "responses", NEW d \in Decode, NEW u \in UpType, u.phase = "body",
           NEW g, ReaderInv(d, u, g), NEW i, i = NextIndex(u), i <= MaxOpenTools,
           NEW k \in Kinds, NEW f, f.index = i, NEW s, s = Sends(f, RsOpens(u, k)),
           RsStarts(f, k) \/ (RsGoesOn(f, k) /\ k = "thinking"),
           NEW r, r = ReadResponses(d, s.frame)
    PROVE  Advances(d, u, g, s, r)
  <1> DEFINE v == RsOpens(u, k)
             r0 == Result(d, <<>>)
             o == <<i, k>>
             P == u.open \cup {o}
             V == u.used \cup {i}
             x == KeyOf(o)
  <1>4. /\ Told(g) /\ ~ u.fault /\ RsState(d, u.open, u.used, g) /\ u.sent = NoUsage
        /\ RsSpan(u.used) /\ IsFiniteSet(u.used)
    BY RsKnows
  <1>0. i \in Int /\ i \notin u.used /\ Low(i)
    BY <1>4, SpanIs, UpFields DEF NextIndex
  <1>1. /\ v \in UpType /\ v.frames = u.frames /\ v.phase = "body" /\ v.open = P
        /\ v.used = V /\ v.sent = u.sent /\ v.fault = u.fault
    BY <1>0, RsOpensIs
  <1>5. RsSpan(V) /\ IsFiniteSet(V)
    BY <1>4, SpanAdd, UpFields DEF NextIndex
  <1>6. RsState(d, P, V, g)
    BY <1>0, <1>4, RsWiden
  <1>7. o \in P /\ o[1] = i /\ o[2] = k
    OBVIOUS
  <1>8. (k = "text" => x = TextKey(i)) /\ (k # "text" => x = i)
    BY KeyIs
  <1>9. i \notin g.used
    BY <1>0, <1>4, StateIs DEF RsLive
  <1>w. s = Sends(f, v) /\ r0 = Result(d, <<>>) /\ x = KeyOf(o)
    OBVIOUS
  <1> HIDE DEF v, r0, P, V, o, x
  <1>3. s.frame = f /\ Alike(s.next, v)
    BY <1>1, <1>w, SendsAlike
  <1>10. RsTalks(g, r0, P, V) /\ r0.d = d /\ Tells(g, r0, g)
    BY <1>4, <1>6, <1>w, RsBegin
  <1>11. RsTalks(g, r, P, V)
    <2>0. r = ReadResponses(d, f)
      BY <1>3
    <2>1. CASE RsGoesOn(f, k)
      BY <1>4, <1>6, <1>7, <2>0, <2>1, RsReadDelta
    <2>2. CASE RsStarts(f, k) /\ k = "text"
      BY <1>10, <1>w, <2>0, <2>2, ReadResponsesIs
    <2>3. CASE RsStarts(f, k) /\ k # "text"
      <3>1. k \in {"tool", "thinking"} /\ x = i
        BY <1>8, <2>3 DEF Kinds
      <3>2. r = RsOpen(r0, i, x, k)
        BY <1>w, <2>0, <2>3, <3>1, ReadResponsesIs
      <3>3. RsState(r0.d, P, V, g) /\ (k = "tool" => i \notin g.used)
        BY <1>6, <1>9, <1>10
      <3> QED
        BY <1>7, <1>10, <1>w, <3>2, <3>3, RsOpenTells
    <2> QED
      BY <2>1, <2>2, <2>3
  <1> QED
    BY <1>1, <1>3, <1>4, <1>5, <1>11, RsStep

LEMMA RsSaid ==
    ASSUME egress = "responses", NEW d \in Decode, NEW u \in UpType, u.phase = "body",
           NEW g, ReaderInv(d, u, g), NEW o \in u.open, NEW i, i = o[1],
           NEW k \in Kinds, k = o[2], NEW f, f.index = i, RsGoesOn(f, k),
           NEW s, s = Sends(f, u), NEW r, r = ReadResponses(d, s.frame)
    PROVE  Advances(d, u, g, s, r)
  <1> DEFINE O == u.open
             U == u.used
  <1>3. s.frame = f /\ Alike(s.next, u)
    BY SendsAlike
  <1>4. /\ Told(g) /\ ~ u.fault /\ RsState(d, O, U, g) /\ u.sent = NoUsage
        /\ RsSpan(U) /\ IsFiniteSet(U)
    BY RsKnows
  <1>w. u.open = O /\ u.used = U /\ o \in O
    OBVIOUS
  <1> HIDE DEF O, U
  <1>5. RsTalks(g, r, O, U)
    BY <1>3, <1>4, <1>w, RsReadDelta
  <1> QED
    BY <1>3, <1>4, <1>5, <1>w, RsStep

\* A part is done, or an item.
LEMMA RsEndsItem ==
    ASSUME egress = "responses", NEW d \in Decode, NEW u \in UpType, u.phase = "body",
           NEW g, ReaderInv(d, u, g), NEW o \in u.open, NEW i, i = o[1],
           NEW f, f.index = i, f.type = "done",
           NEW v, v = RsParts(u, o) \/ v = RsShuts(u, o),
           NEW s, s = Sends(f, v), NEW r, r = ReadResponses(d, s.frame)
    PROVE  Advances(d, u, g, s, r)
  <1> DEFINE O == u.open
             U == u.used
             P == O \ {o}
             r0 == Result(d, <<>>)
  <1>4. /\ Told(g) /\ ~ u.fault /\ RsState(d, O, U, g) /\ u.sent = NoUsage
        /\ RsSpan(U) /\ IsFiniteSet(U)
    BY RsKnows
  <1>0. i \in Int /\ i \in U /\ \A p \in P : p[1] # i
    BY <1>4, StateIs, LiveIs DEF RsLive
  <1>1. /\ v \in UpType /\ v.frames = u.frames /\ v.phase = "body"
        /\ v.used = U /\ v.sent = u.sent /\ v.fault = u.fault
        /\ v.open = P \/ v.open = P \cup {<<i, "part">>}
    BY <1>0, RsPartsIs, RsShutsIs
  <1>3. s.frame = f /\ Alike(s.next, v)
    BY <1>1, SendsAlike
  <1>w. o \in O /\ P = O \ {o} /\ r0 = Result(d, <<>>)
    OBVIOUS
  <1> HIDE DEF O, U, P, r0
  <1>10. RsState(r0.d, O, U, g) /\ Tells(g, r0, g)
    BY <1>4, <1>w, RsBegin
  <1>5. r = RsDone(r0, i)
    BY <1>3, <1>w, ReadResponsesIs
  <1>6. RsTalks(g, r, P, U)
    BY <1>5, <1>10, <1>w, RsDoneTells
  <1>7. RsTalks(g, r, v.open, U)
    <2> DEFINE Q == P \cup {<<i, "part">>}
    <2>1. Q = P \cup {<<i, "part">>}
      OBVIOUS
    <2> HIDE DEF Q
    <2>2. RsTalks(g, r, Q, U)
      BY <1>0, <1>6, <2>1, RsPartTells
    <2> QED
      BY <1>1, <1>6, <2>1, <2>2
  <1> QED
    BY <1>1, <1>3, <1>4, <1>7, RsStep

DeltaOf(b, v)     == <<MessageDelta(b, v), MessageStop>>
DeltaEnds(g, evs, k, v) ==
    /\ Legal(g, evs, k) /\ Told(k) /\ k.phase # "body" /\ k.last = v /\ k.start = NoUsage

\* The end of a message that is, or is not, given a reason to stop.
LEMMA RsTellEnd ==
    ASSUME NEW g, Told(g), g.phase = "body", g.open = {}, g.start = NoUsage,
           g.last = NoUsage, NEW v, v \in Wholes, NEW b \in BOOLEAN
    PROVE  \E k : DeltaEnds(g, DeltaOf(b, v), k, v)
  <1>1. v \in Tokens /\ Whole(g, v) = v
    BY TokensAre, WholeIs DEF Wholes
  <1>2. LastOf(g, v) = v
    BY DEF LastOf, Wholes
  <1>3. CASE b
    <2>1. DeltaOf(b, v) = EndOf(v)
      BY <1>3 DEF DeltaOf, EndOf, FinalDelta
    <2>2. PICK k : Ending(g, EndOf(v), k, "terminal", LastOf(g, v))
      BY <1>1, TellEnd
    <2>3. Told(k) /\ k.phase = "terminal" /\ k.last = v /\ k.start = NoUsage
          /\ Legal(g, EndOf(v), k)
      BY <1>2, <2>2, EndingTold DEF Ending
    <2> QED
      BY <2>1, <2>3 DEF DeltaEnds
  <1>4. CASE ~ b
    <2>1. DeltaOf(b, v) = Just(UsageDelta(v)) \o Just(MessageStop)
      <3>1. DeltaOf(b, v) = <<UsageDelta(v), MessageStop>>
        BY <1>4 DEF DeltaOf, UsageDelta
      <3> QED
        BY <3>1, PairCat DEF Just
    <2>2. PICK h : Ending(g, Just(UsageDelta(v)), h, "final", LastOf(g, v))
      BY <1>1, TellUsage
    <2>3. Told(h) /\ h.phase = "final" /\ h.last = v /\ h.start = NoUsage
      BY <1>2, <2>2, EndingTold
    <2>4. PICK k : Ending(h, Just(MessageStop), k, "end", h.last)
      BY <2>3, TellStop
    <2>5. Ending(g, Just(UsageDelta(v)) \o Just(MessageStop), k, "end", h.last)
      BY <2>2, <2>4, EndingCat
    <2>6. Told(k) /\ k.phase = "end" /\ k.last = v /\ k.start = NoUsage
          /\ Legal(g, DeltaOf(b, v), k)
      BY <2>1, <2>3, <2>5, EndingTold DEF Ending
    <2> QED
      BY <2>6 DEF DeltaEnds
  <1> QED
    BY <1>3, <1>4

\* A refusal is told in a block of its own.
LEMMA RsRefusalTells ==
    ASSUME egress = "responses", NEW d \in Decode, NEW O, NEW U, NEW g, Told(g),
           RsState(d, O, U, g), NEW i, Low(i), i \notin U,
           NEW f, f.refusal \in {None, i}, NEW r0, r0 = Result(d, <<>>),
           NEW q, q = RsRefusal(r0, f)
    PROVE  \E P, V : RsTalks(g, q, P, V)
  <1>1. RsTalks(g, r0, O, U) /\ r0.d = d /\ Tells(g, r0, g)
    BY RsBegin
  <1>2. CASE q = r0
    BY <1>1, <1>2
  <1>3. CASE q # r0
    <2> DEFINE k == "text"
               o == <<i, k>>
               P == O \cup {o}
               V == U \cup {i}
               x == TextKey(i)
               p == RsOpen(r0, i, x, k)
    <2>1. f.refusal = i
      BY <1>3 DEF RsRefusal
    <2>2. q = RsDelta(p, i, k)
      BY <1>3, <2>1 DEF RsRefusal
    <2>3. RsState(d, P, V, g)
      <3>1. k \in Kinds
        BY DEF Kinds
      <3> HIDE DEF k
      <3> QED
        BY <3>1, RsWiden
    <2>4. o \in P /\ o[1] = i /\ o[2] = k /\ k \in Kinds /\ k # "tool"
      BY DEF Kinds
    <2>5. x = KeyOf(o)
      BY KeyIs
    <2>6. p = RsOpen(r0, i, x, k)
      OBVIOUS
    <2> HIDE DEF P, V, o, x, p, k
    <2>7. RsTalks(g, p, P, V)
      <3>1. RsState(r0.d, P, V, g) /\ (k = "tool" => i \notin g.used)
        BY <1>1, <2>3, <2>4
      <3> QED
        BY <1>1, <2>4, <2>5, <2>6, <3>1, RsOpenTells
    <2>8. RsTalks(g, q, P, V)
      BY <2>2, <2>4, <2>7, RsDeltaTells
    <2> QED
      BY <2>8
  <1> QED
    BY <1>2, <1>3

RsEndFrame(f, b, x, v) ==
    /\ f.type = "completed" /\ f.refusal = x /\ f.stop = b /\ f.usage = v

LEMMA RsTerminalIs ==
    ASSUME NEW f, NEW b, NEW x, NEW v, RsEndFrame(f, b, x, v), NEW r0,
           NEW p, p = RsRefusal(r0, f), NEW q, q = RsCloseAll(p),
           NEW r, r = RsTerminal(r0, f)
    PROVE  r = Push(q, q.d, DeltaOf(b, v))
  BY DEF RsTerminal, RsEndFrame, DeltaOf

LEMMA RsEnds ==
    ASSUME egress = "responses", NEW d \in Decode, NEW u \in UpType, u.phase = "body",
           NEW g, ReaderInv(d, u, g), NEW b \in BOOLEAN, NEW x, x \in {None, NextIndex(u)},
           NEW y \in Wholes, NEW f, RsEndFrame(f, b, x, y),
           NEW s, s = Sends(f, Ended(u, "tail", y)),
           NEW r, r = ReadResponses(d, s.frame)
    PROVE  Advances(d, u, g, s, r)
  <1> DEFINE v == Ended(u, "tail", y)
             r0 == Result(d, <<>>)
             n == s.next
             p == RsRefusal(r0, f)
             q == RsCloseAll(p)
             O == u.open
             U == u.used
             i == NextIndex(u)
             e == q.d
  <1>1. v \in UpType /\ v.frames = u.frames /\ v.phase = "tail" /\ v.sent = y /\ v.fault = u.fault
    BY EndedIs DEF Wholes
  <1>4. /\ Told(g) /\ ~ u.fault /\ RsState(d, O, U, g)
        /\ RsSpan(U) /\ IsFiniteSet(U)
    BY RsKnows
  <1>0. Low(i) /\ i \notin U
    BY <1>4, SpanIs, UpFields DEF NextIndex
  <1>w. s = Sends(f, v) /\ r0 = Result(d, <<>>) /\ n = s.next /\ p = RsRefusal(r0, f)
        /\ q = RsCloseAll(p) /\ x \in {None, i} /\ e = q.d
    OBVIOUS
  <1> HIDE DEF v, r0, n, p, q, O, U, i, e
  <1>3. s.frame = f /\ Alike(n, v)
    BY <1>1, <1>w, SendsAlike
  <1>5. PICK P, V : RsTalks(g, p, P, V)
    <2>1. f.refusal \in {None, i}
      BY <1>w DEF RsEndFrame
    <2> QED
      BY <1>0, <1>4, <1>w, <2>1, RsRefusalTells
  <1>6. PICK h : /\ Tells(g, q, h) /\ Told(h) /\ h.phase = "body" /\ h.start = NoUsage
                 /\ h.open = {} /\ h.last = NoUsage
    BY <1>5, <1>w, RsCloses
  <1>7. r = Push(q, e, DeltaOf(b, y))
    <2>1. r = RsTerminal(r0, f)
      <3>1. f.type \in {"completed", "failed"}
        BY DEF RsEndFrame
      <3> QED
        BY <1>3, <1>w, <3>1, ReadResponsesIs
    <2> QED
      BY <1>w, <2>1, RsTerminalIs
  <1>8. PICK k : DeltaEnds(h, DeltaOf(b, y), k, y)
    BY <1>6, RsTellEnd
  <1>9. e \in Decode
    BY <1>6, <1>w DEF Tells
  <1>10. Tells(g, r, k) /\ r.d = e
    <2> DEFINE evs == DeltaOf(b, y)
    <2>1. Tells(g, q, h) /\ e \in Decode /\ Legal(h, evs, k) /\ r = Push(q, e, evs)
      BY <1>6, <1>7, <1>8, <1>9 DEF DeltaEnds
    <2> HIDE DEF evs
    <2> QED
      BY <2>1, PushTells
  <1>11. Told(k) /\ k.phase # "body" /\ k.last = y /\ k.start = NoUsage
    BY <1>8 DEF DeltaEnds
  <1>12. n \in UpType /\ n.frames = u.frames + 1 /\ n.phase = "tail" /\ n.sent = y /\ ~ n.fault
    BY <1>1, <1>3, <1>4 DEF Alike
  <1>13. ReportedBy(n) = y
    BY <1>12, UsageIs DEF ReportedBy, Wholes
  <1>14. ReaderInv(e, n, k)
    BY <1>11, <1>12, <1>13, RsKeeps
  <1> QED
    BY <1>10, <1>12, <1>14, <1>w DEF Advances, Reads

LEMMA RsFailed ==
    ASSUME egress = "responses", NEW d \in Decode, NEW u \in UpType, u.phase = "body",
           NEW g, ReaderInv(d, u, g), NEW f, f.type \in {"failed", "error"},
           NEW s, s = Sends(f, Faulted(u)),
           NEW r, r = ReadResponses(d, s.frame)
    PROVE  Advances(d, u, g, s, r)
  <1> DEFINE v == Faulted(u)
             r0 == Result(d, <<>>)
             n == s.next
             O == u.open
             U == u.used
  <1>1. v \in UpType /\ v.frames = u.frames /\ v.phase = "closed"
    BY FaultedIs
  <1>4. Told(g) /\ RsState(d, O, U, g)
    BY RsKnows
  <1>w. s = Sends(f, v) /\ r0 = Result(d, <<>>) /\ n = s.next
    OBVIOUS
  <1> HIDE DEF v, r0, n, O, U
  <1>3. s.frame = f /\ Alike(n, v)
    BY <1>1, <1>w, SendsAlike
  <1>5. RsTalks(g, r0, O, U) /\ r0.d = d /\ Tells(g, r0, g)
    BY <1>4, <1>w, RsBegin
  <1>6. n \in UpType /\ n.frames = u.frames + 1 /\ n.phase = "closed"
    BY <1>1, <1>3 DEF Alike
  <1>7. CASE f.type = "error"
    <2>1. r = r0
      BY <1>3, <1>7, <1>w, ReadResponsesIs
    <2>2. g.start = NoUsage
      BY <1>4, StateIs
    <2>3. ReaderInv(d, n, g)
      BY <1>4, <1>6, <2>2, RsKeeps
    <2> QED
      BY <1>5, <1>6, <1>w, <2>1, <2>3 DEF Advances, Reads
  <1>8. CASE f.type = "failed"
    <2> DEFINE p == Push(r0, d, Just(Error))
               q == RsCloseAll(p)
               e == q.d
    <2>1. r = Push(q, e, Just(MessageStop))
      <3>1. r = RsTerminal(r0, f)
        BY <1>3, <1>8, <1>w, ReadResponsesIs
      <3> QED
        BY <1>5, <1>8, <3>1 DEF RsTerminal, Just
    <2>w. p = Push(r0, d, Just(Error)) /\ q = RsCloseAll(p) /\ e = q.d
      OBVIOUS
    <2> HIDE DEF p, q, e
    <2>2. Tells(g, p, g) /\ p.d = d
      <3>1. Legal(g, Just(Error), g)
        BY <1>4, TellFails
      <3> QED
        BY <1>5, <2>w, <3>1, PushTells
    <2>3. RsTalks(g, p, O, U)
      BY <1>4, <2>2 DEF RsTalks
    <2>4. PICK h : /\ Tells(g, q, h) /\ Told(h) /\ h.phase = "body" /\ h.start = NoUsage
                   /\ h.open = {} /\ h.last = NoUsage
      BY <2>3, <2>w, RsCloses
    <2>5. PICK k : Ending(h, Just(MessageStop), k, "end", h.last)
      BY <2>4, TellStop
    <2>6. Told(k) /\ k.start = NoUsage /\ Legal(h, Just(MessageStop), k)
      BY <2>4, <2>5, EndingTold DEF Ending
    <2>7. e \in Decode
      BY <2>4, <2>w DEF Tells
    <2>8. Tells(g, r, k) /\ r.d = e
      BY <2>1, <2>4, <2>6, <2>7, PushTells
    <2>9. ReaderInv(e, n, k)
      BY <1>6, <2>6, RsKeeps
    <2> QED
      BY <1>6, <1>w, <2>8, <2>9 DEF Advances, Reads
  <1> QED
    BY <1>7, <1>8

-----------------------------------------------------------------------------
LEMMA RsSaysIs ==
    ASSUME NEW t, NEW f, f = RsSays(t)
    PROVE  f.type = t
  BY DEF RsSays, RsFrame

LEMMA RsDoneIs ==
    ASSUME NEW o, NEW f, f = RsFinal(o)
    PROVE  f.type = "done" /\ f.index = o[1]
  BY DEF RsFinal, RsFrame

LEMMA RsMoreIs ==
    ASSUME NEW o, o[2] \in Kinds, NEW f, f = RsMore(o)
    PROVE  f.index = o[1] /\ RsGoesOn(f, o[2])
  BY DEF RsMore, RsFrame, RsDeltaOf, RsGoesOn, Kinds

LEMMA RsEndIs ==
    ASSUME NEW b \in BOOLEAN, NEW x, NEW v, NEW f, f = RsEnd(b, x, v)
    PROVE  RsEndFrame(f, b, x, v)
  BY DEF RsEnd, RsEndFrame

\* What the responses upstream sends.
RsHead(u, s)    == s = Sends(RsSays("created"), Goes(u, "body"))
RsAdds(u, s)    == \E i, k : /\ i = NextIndex(u) /\ i \in 0 .. MaxOpenTools /\ k \in Kinds
                             /\ s = Sends(RsFrame("item.added", i, k), RsOpens(u, k))
RsThinks(u, s)  == \E i : /\ i = NextIndex(u) /\ i \in 0 .. MaxOpenTools
                          /\ s = Sends(RsFrame("reasoning.delta", i, "thinking"),
                                       RsOpens(u, "thinking"))
RsTalksOn(u, s) == \E o \in u.open : o[2] \in Kinds /\ s = Sends(RsMore(o), u)
RsLeaves(u, s)  == \E o \in u.open : \/ s = Sends(RsFinal(o), RsParts(u, o))
                                     \/ s = Sends(RsFinal(o), RsShuts(u, o))
RsFinishes(u, s) == \E b \in BOOLEAN, x \in {None, NextIndex(u)}, v \in Wholes :
                       s = Sends(RsEnd(b, x, v), Ended(u, "tail", v))
RsFalls(u, s)   == \E t \in {"failed", "error"} : s = Sends(RsSays(t), Faulted(u))

RsSome(u, s) ==
    \/ u.phase = "head" /\ RsHead(u, s)
    \/ u.phase = "body" /\ (\/ RsAdds(u, s) \/ RsThinks(u, s) \/ RsTalksOn(u, s)
                            \/ RsLeaves(u, s) \/ RsFinishes(u, s) \/ RsFalls(u, s))

LEMMA RsSomeIs ==
    ASSUME NEW u, NEW s \in ResponsesSends(u)
    PROVE  RsSome(u, s)
  <1>1. CASE u.phase = "head"
    BY <1>1 DEF ResponsesSends, RsSome, RsHead
  <1>2. CASE u.phase # "head" /\ u.phase # "body"
    BY <1>2 DEF ResponsesSends
  <1>3. CASE u.phase = "body"
    <2> DEFINE X == {NextIndex(u)} \cap (0..MaxOpenTools)
               A1 == {Sends(RsFrame("item.added", i, k), RsOpens(u, k)) : i \in X, k \in Kinds}
               A2 == {Sends(RsFrame("reasoning.delta", i, "thinking"),
                           RsOpens(u, "thinking")) : i \in X}
               A3 == {Sends(RsMore(o), u) : o \in RsOf(u, Kinds)}
               A4 == {Sends(RsFinal(o), RsParts(u, o)) : o \in RsOf(u, {"text"})}
               A5 == {Sends(RsFinal(o), RsShuts(u, o)) :
                         o \in RsOf(u, {"part", "thinking", "tool"})}
               A6 == {Sends(RsEnd(b, x, v), Ended(u, "tail", v)) :
                         b \in BOOLEAN, x \in {None, NextIndex(u)}, v \in {Zero, Final}}
               A7 == {Sends(RsSays(t), Faulted(u)) : t \in {"failed", "error"}}
    <2>0. ResponsesSends(u) = A1 \cup A2 \cup A3 \cup A4 \cup A5 \cup A6 \cup A7
      BY <1>3 DEF ResponsesSends
    <2>1. s \in A1 => RsAdds(u, s)
      BY DEF RsAdds
    <2>2. s \in A2 => RsThinks(u, s)
      BY DEF RsThinks
    <2>3. s \in A3 => RsTalksOn(u, s)
      BY DEF RsTalksOn, RsOf
    <2>4. s \in A4 => RsLeaves(u, s)
      BY DEF RsLeaves, RsOf
    <2>5. s \in A5 => RsLeaves(u, s)
      BY DEF RsLeaves, RsOf
    <2>6. s \in A6 => RsFinishes(u, s)
      BY DEF RsFinishes, Wholes
    <2>7. s \in A7 => RsFalls(u, s)
      BY DEF RsFalls
    <2> HIDE DEF A1, A2, A3, A4, A5, A6, A7
    <2> QED
      BY <1>3, <2>0, <2>1, <2>2, <2>3, <2>4, <2>5, <2>6, <2>7 DEF RsSome
  <1> QED
    BY <1>1, <1>2, <1>3

\* The responses reader goes on with the story.
LEMMA ResponsesReads ==
    ASSUME egress = "responses", NEW d \in Decode, NEW u \in UpType, u.phase # "closed",
           NEW g, ReaderInv(d, u, g), NEW s \in ResponsesSends(u),
           NEW r, r = ReadResponses(d, s.frame)
    PROVE  Advances(d, u, g, s, r)
  <1>1. RsSome(u, s)
    BY RsSomeIs
  <1>2. CASE u.phase = "head" /\ RsHead(u, s)
    <2>1. PICK f : f = RsSays("created") /\ s = Sends(f, Goes(u, "body"))
      BY <1>2 DEF RsHead
    <2>2. f.type = "created"
      BY <2>1, RsSaysIs
    <2> QED
      BY <1>2, <2>1, <2>2, RsBegins
  <1>3. CASE u.phase = "body" /\ RsAdds(u, s)
    <2>1. PICK i, k : /\ i = NextIndex(u) /\ i \in 0 .. MaxOpenTools /\ k \in Kinds
                      /\ s = Sends(RsFrame("item.added", i, k), RsOpens(u, k))
      BY <1>3 DEF RsAdds
    <2> DEFINE f == RsFrame("item.added", i, k)
    <2>2. f.index = i /\ RsStarts(f, k) /\ s = Sends(f, RsOpens(u, k)) /\ i <= MaxOpenTools
      BY <2>1, ReadersAssumption DEF RsFrame, RsStarts
    <2> HIDE DEF f
    <2> QED
      BY <1>3, <2>1, <2>2, RsAdded
  <1>4. CASE u.phase = "body" /\ RsThinks(u, s)
    <2>1. PICK i : /\ i = NextIndex(u) /\ i \in 0 .. MaxOpenTools
                   /\ s = Sends(RsFrame("reasoning.delta", i, "thinking"),
                                RsOpens(u, "thinking"))
      BY <1>4 DEF RsThinks
    <2> DEFINE f == RsFrame("reasoning.delta", i, "thinking")
               k == "thinking"
    <2>2. /\ f.index = i /\ RsGoesOn(f, k) /\ s = Sends(f, RsOpens(u, k)) /\ i <= MaxOpenTools
          /\ k \in Kinds /\ k = "thinking"
      BY <2>1, ReadersAssumption DEF RsFrame, RsGoesOn, Kinds
    <2> HIDE DEF f, k
    <2> QED
      BY <1>4, <2>1, <2>2, RsAdded
  <1>5. CASE u.phase = "body" /\ RsTalksOn(u, s)
    <2>1. PICK o \in u.open : o[2] \in Kinds /\ s = Sends(RsMore(o), u)
      BY <1>5 DEF RsTalksOn
    <2> DEFINE f == RsMore(o)
    <2>2. f.index = o[1] /\ RsGoesOn(f, o[2]) /\ s = Sends(f, u)
      BY <2>1, RsMoreIs
    <2> HIDE DEF f
    <2> QED
      BY <1>5, <2>1, <2>2, RsSaid
  <1>6. CASE u.phase = "body" /\ RsLeaves(u, s)
    <2>1. PICK o \in u.open : \/ s = Sends(RsFinal(o), RsParts(u, o))
                              \/ s = Sends(RsFinal(o), RsShuts(u, o))
      BY <1>6 DEF RsLeaves
    <2> DEFINE f == RsFinal(o)
    <2>2. f.index = o[1] /\ f.type = "done"
      BY RsDoneIs
    <2>3. PICK v : (v = RsParts(u, o) \/ v = RsShuts(u, o)) /\ s = Sends(f, v)
      BY <2>1
    <2> HIDE DEF f
    <2> QED
      BY <1>6, <2>2, <2>3, RsEndsItem
  <1>7. CASE u.phase = "body" /\ RsFinishes(u, s)
    <2>1. PICK b \in BOOLEAN, x \in {None, NextIndex(u)}, v \in Wholes :
             s = Sends(RsEnd(b, x, v), Ended(u, "tail", v))
      BY <1>7 DEF RsFinishes
    <2> DEFINE f == RsEnd(b, x, v)
    <2>2. RsEndFrame(f, b, x, v) /\ s = Sends(f, Ended(u, "tail", v))
      BY <2>1, RsEndIs
    <2> HIDE DEF f
    <2> QED
      BY <1>7, <2>2, RsEnds
  <1>8. CASE u.phase = "body" /\ RsFalls(u, s)
    <2>1. PICK t \in {"failed", "error"} : s = Sends(RsSays(t), Faulted(u))
      BY <1>8 DEF RsFalls
    <2> DEFINE f == RsSays(t)
    <2>2. f.type \in {"failed", "error"} /\ s = Sends(f, Faulted(u))
      BY <2>1, RsSaysIs
    <2> HIDE DEF f
    <2> QED
      BY <1>8, <2>2, RsFailed
  <1> QED
    BY <1>1, <1>2, <1>3, <1>4, <1>5, <1>6, <1>7, <1>8 DEF RsSome
=============================================================================
