---------------------------- MODULE RequestProofs ---------------------------
(***************************************************************************)
(* A request on its way: the walk that finds a lane for it (FailoverWalk)  *)
(* and the translation of the stream that comes back (StreamTranslate).    *)
(*                                                                         *)
(* The walk, for any pools, any blocklists and tags, any on_exhausted map  *)
(* (rings included) and any max_hops.                                      *)
(*                                                                         *)
(* The stream, for every pair of dialects, any number of frames, any tool  *)
(* indices and any cap on open blocks, wherever an error, an abort, a      *)
(* transport failure or the end of the body falls.  The reader tells a     *)
(* story (StreamReaderProofs); Sync says how the translator's books and    *)
(* what the client has seen stand to it: their blocks (Blocks), and how    *)
(* much of the end of the message has been written (Ends).  One event of a *)
(* story keeps Sync in each of the dialects a client may speak, so the     *)
(* events of a frame do, and StreamInv holds: while the body is open the   *)
(* three agree, and once it has ended all has been closed, told and        *)
(* billed.  The four properties that are checked follow from it.           *)
(***************************************************************************)
EXTENDS FailoverWalk, StreamReaderProofs

(***************************************************************************)
(* The walk.                                                               *)
(***************************************************************************)
-----------------------------------------------------------------------------
(* The inductive invariant, in named parts. *)

Live == pc \notin {"last", "answered"}

(* Nothing has happened before the request arrives; an attempt is logged. *)
Fresh ==
    /\ pc = "new" => /\ pool = Primary /\ at_cap = {}
                     /\ overflowed = {} /\ Len(log) = 0
    /\ pc = "sent" => Len(log) # 0

(* The candidates of the pool walked now respect its blocklist and tags. *)
CandsOK ==
    /\ cands \subseteq Members[pool] \ Exclusions[pool]
    /\ restrict = "required" => cands \subseteq Tagged[pool]

(* The reasons a queue may read are those of the pool walked now: between  *)
(* a spill and the first pick they are stale, and nothing reads them.      *)
ReasonsOK == pc \notin {"fallback", "answered"} => at_cap \subseteq cands

(* Until the last attempt, every lane tried is in the excluded set. *)
TriedOK ==
    Live => \A i \in 1 .. Len(log) :
               /\ log[i].via \in {"loop", "fallback"}
               /\ log[i].lane \in excluded

(* Only the affinity lane can have been both tried and noted as full. *)
FullOK ==
    Live => \A i \in 1 .. Len(log) : log[i].lane \in at_cap => log[i].lane = sticky

(* Every pool a dispatch went through is visited, or is the current one. *)
PoolsSeen == \A i \in 1 .. Len(log) : log[i].pool \in visited \cup {pool}

(* The dispatches through the current pool are the latest ones. *)
PoolIsLatest ==
    \A i, j \in 1 .. Len(log) : i < j /\ log[i].pool = pool => log[j].pool = pool

(* Candidates that cannot hold what already overflowed are excluded. *)
ContextOK ==
    pc \in {"loop", "sent"} =>
        \A o \in overflowed, l \in cands : Undercuts(l, o) => l \in excluded

(* The walk's inductive invariant: Compliant, RepeatOnlyLast and           *)
(* PoolsInOrder speak of the log alone, the other parts of what the        *)
(* RequestCtx must remember for the next dispatch to keep them.            *)
WalkInv ==
    /\ TypeOK /\ Fresh /\ CandsOK /\ ReasonsOK /\ TriedOK /\ FullOK
    /\ PoolsSeen /\ PoolIsLatest /\ ContextOK
    /\ Compliant /\ RepeatOnlyLast /\ PoolsInOrder

-----------------------------------------------------------------------------
(* A dispatch adds one entry to the log and changes no earlier one. *)
LEMMA SendFacts ==
    ASSUME TypeOK, NEW l \in Lanes, NEW via \in Vias, Send(l, via)
    PROVE  /\ log' \in Seq(Dispatch)
           /\ Len(log) \in Nat
           /\ Len(log') = Len(log) + 1
           /\ \A i \in 1 .. Len(log) : log'[i] = log[i]
           /\ log'[Len(log) + 1] = [pool |-> pool, lane |-> l, via |-> via]
<1>1. [pool |-> pool, lane |-> l, via |-> via] \in Dispatch
  BY DEF TypeOK, Dispatch
<1>2. QED
  BY <1>1 DEF Send, TypeOK

(* An entry of the log is a dispatch. *)
LEMMA LogEntry ==
    ASSUME TypeOK, NEW i \in 1 .. Len(log)
    PROVE  log[i] \in Dispatch
BY DEF TypeOK

(* Steps that touch nothing but the clock and where the walk stands. *)
Quiet ==
    /\ UNCHANGED <<on_exhausted, restrict, sticky, pool, cands, excluded, visited,
                   at_cap, hops, overflowed, log>>
    /\ clock' \in Clocks
    /\ \/ pc' = pc
       \/ pc' = "answered"
       \/ pc = "loop" /\ pc' = "exhausted"
       \/ pc = "sent" /\ pc' = "loop"
       \/ pc = "fsent" /\ pc' = "fallback"

(* Timeouts, final answers, failed attempts and the clock are quiet. *)
LEMMA QuietSteps ==
    ASSUME TypeOK,
           \/ LoopLate \/ LoopCap \/ Answered \/ Failed \/ FallbackLate
           \/ FallbackDone \/ LastDone \/ QueueDeadline \/ Tick \/ UNCHANGED vars
    PROVE  Quiet
BY DEF TypeOK, Quiet, LoopLate, LoopCap, Answered, Failed, FallbackLate, FallbackDone,
       LastDone, QueueDeadline, Tick, vars, ctx, config, Clocks

(* They keep the invariant. *)
LEMMA QuietInv ==
    ASSUME WalkInv, Quiet
    PROVE  WalkInv'
<1>1. TypeOK'
  BY DEF WalkInv, TypeOK, Quiet, PCs
<1>2. Fresh' /\ CandsOK' /\ ReasonsOK'
  BY DEF WalkInv, TypeOK, Quiet, Fresh, CandsOK, ReasonsOK
<1>3. TriedOK' /\ FullOK'
  BY DEF WalkInv, Quiet, TriedOK, FullOK, Live
<1>4. PoolsSeen' /\ PoolIsLatest' /\ ContextOK'
  BY DEF WalkInv, Quiet, PoolsSeen, PoolIsLatest, ContextOK, Undercuts
<1>5. Compliant' /\ RepeatOnlyLast' /\ PoolsInOrder'
  BY DEF WalkInv, Quiet, Compliant, RepeatOnlyLast, PoolsInOrder
<1>6. QED
  BY <1>1, <1>2, <1>3, <1>4, <1>5 DEF WalkInv

-----------------------------------------------------------------------------
(* Dispatches: what one more entry in the log does to the properties. *)

(* A candidate of the pool walked now is a compliant choice. *)
LEMMA SendCompliant ==
    ASSUME WalkInv, NEW l \in cands, NEW via \in Vias, Send(l, via),
           UNCHANGED restrict
    PROVE  Compliant'
<1>1. l \in Lanes
  BY DEF WalkInv, TypeOK
<1>2. TypeOK /\ CandsOK /\ Compliant
  BY DEF WalkInv
<1>3. /\ Len(log) \in Nat /\ Len(log') = Len(log) + 1
      /\ \A i \in 1 .. Len(log) : log'[i] = log[i]
      /\ log'[Len(log) + 1] = [pool |-> pool, lane |-> l, via |-> via]
  BY <1>1, <1>2, SendFacts
<1>4. \A i \in 1 .. Len(log') : i \in 1 .. Len(log) \/ i = Len(log) + 1
  BY <1>3
<1>5. QED
  BY <1>2, <1>3, <1>4 DEF Compliant, CandsOK

(* A dispatch through the current pool keeps the pools in order. *)
LEMMA SendInOrder ==
    ASSUME WalkInv, NEW l \in cands, NEW via \in Vias, Send(l, via),
           UNCHANGED pool, visited \subseteq visited'
    PROVE  PoolsSeen' /\ PoolIsLatest' /\ PoolsInOrder'
<1>1. l \in Lanes
  BY DEF WalkInv, TypeOK
<1>2. TypeOK /\ PoolsSeen /\ PoolIsLatest /\ PoolsInOrder
  BY DEF WalkInv
<1>3. /\ Len(log) \in Nat /\ Len(log') = Len(log) + 1
      /\ \A i \in 1 .. Len(log) : log'[i] = log[i]
      /\ log'[Len(log) + 1] = [pool |-> pool, lane |-> l, via |-> via]
  BY <1>1, <1>2, SendFacts
<1>4. \A i \in 1 .. Len(log') : i \in 1 .. Len(log) \/ i = Len(log) + 1
  BY <1>3
<1>5. log'[Len(log) + 1].pool = pool
  BY <1>3
<1>6. PoolsSeen'
  BY <1>2, <1>3, <1>4, <1>5 DEF PoolsSeen
<1>7. PoolIsLatest'
  BY <1>2, <1>3, <1>4, <1>5 DEF PoolIsLatest
<1>8. PoolsInOrder'
  BY <1>2, <1>3, <1>4, <1>5 DEF PoolsInOrder, PoolIsLatest
<1>9. QED
  BY <1>6, <1>7, <1>8

(* A lane not yet excluded is no repetition; one noted as full, or a       *)
(* least-bad one, may be, and then it is the last entry.                   *)
LEMMA SendRepeat ==
    ASSUME WalkInv, Live, NEW l \in cands, NEW via \in Vias, Send(l, via),
           UNCHANGED sticky,
           \/ l \notin excluded
           \/ via = "least_bad"
           \/ via = "queue" /\ l \in at_cap
    PROVE  RepeatOnlyLast'
<1>1. l \in Lanes
  BY DEF WalkInv, TypeOK
<1>2. TypeOK /\ TriedOK /\ FullOK /\ RepeatOnlyLast
  BY DEF WalkInv
<1>3. /\ Len(log) \in Nat /\ Len(log') = Len(log) + 1
      /\ \A i \in 1 .. Len(log) : log'[i] = log[i]
      /\ log'[Len(log) + 1] = [pool |-> pool, lane |-> l, via |-> via]
  BY <1>1, <1>2, SendFacts
<1>4. \A i \in 1 .. Len(log') : i \in 1 .. Len(log) \/ i = Len(log) + 1
  BY <1>3
<1>5. log'[Len(log) + 1].lane = l /\ log'[Len(log) + 1].via = via
  BY <1>3
<1>6. ASSUME NEW i \in 1 .. Len(log'), NEW j \in 1 .. Len(log'), i < j,
             log'[i].lane = log'[j].lane
      PROVE  /\ j = Len(log')
             /\ \/ log'[j].via = "least_bad"
                \/ log'[j].via = "queue" /\ log'[j].lane = sticky
  <2>1. i \in 1 .. Len(log)
    BY <1>3, <1>6
  <2>2. j = Len(log) + 1
    <3>1. SUFFICES ASSUME j \in 1 .. Len(log) PROVE FALSE
      BY <1>4
    <3>2. log[j].via \in {"loop", "fallback"}
      BY <1>2, <3>1 DEF TriedOK
    <3>3. log[i].lane = log[j].lane
      BY <1>3, <1>6, <2>1, <3>1
    <3>4. QED
      BY <1>2, <1>6, <2>1, <3>1, <3>2, <3>3 DEF RepeatOnlyLast
  <2>3. log[i].lane = l
    BY <1>3, <1>5, <1>6, <2>1, <2>2
  <2>4. log[i].lane \in excluded
    BY <1>2, <2>1 DEF TriedOK
  <2>5. l \in at_cap => l = sticky
    BY <1>2, <2>1, <2>3 DEF FullOK
  <2>6. QED
    BY <1>3, <1>5, <2>2, <2>3, <2>4, <2>5
<1>7. QED
  BY <1>6 DEF RepeatOnlyLast

(* A pick excludes the lane picked, so that the log stays within excluded, *)
(* and notes no tried lane as full but the affinity lane.                  *)
LEMMA PickTried ==
    ASSUME WalkInv, Live, NEW l \in Lanes, NEW pin \in {sticky, NoLane}, Picks(l, pin),
           NEW via \in {"loop", "fallback"}, Send(l, via), UNCHANGED sticky
    PROVE  TriedOK' /\ FullOK' /\ l \in cands /\ l \notin excluded
           /\ at_cap' \subseteq cands /\ excluded' \subseteq Lanes
<1>1. TypeOK /\ TriedOK /\ FullOK
  BY DEF WalkInv
<1>2. /\ Len(log) \in Nat /\ Len(log') = Len(log) + 1
      /\ \A i \in 1 .. Len(log) : log'[i] = log[i]
      /\ log'[Len(log) + 1] = [pool |-> pool, lane |-> l, via |-> via]
  BY <1>1, SendFacts DEF Vias
<1>3. \A i \in 1 .. Len(log') : i \in 1 .. Len(log) \/ i = Len(log) + 1
  BY <1>2
<1>4. /\ l \in cands /\ l \notin excluded
      /\ at_cap' \subseteq cands \ excluded
      /\ l \in at_cap' => l = pin
      /\ excluded' = excluded \cup {l}
  BY DEF Picks, Untried
<1>5. TriedOK'
  BY <1>1, <1>2, <1>3, <1>4 DEF TriedOK
<1>6. FullOK'
  <2>1. l \in at_cap' => l = sticky
    BY <1>4, WalkConstants
  <2>2. \A i \in 1 .. Len(log) : log[i].lane \notin at_cap'
    BY <1>1, <1>4 DEF TriedOK
  <2>3. \A i \in 1 .. Len(log') : log'[i].lane \in at_cap' => log'[i].lane = sticky
    BY <1>2, <1>3, <2>1, <2>2
  <2>4. QED
    BY <2>3 DEF FullOK
<1>7. QED
  BY <1>1, <1>4, <1>5, <1>6 DEF TypeOK

-----------------------------------------------------------------------------
(* The actions that dispatch. *)

(* A pick of the primary pool's loop keeps the invariant. *)
LEMMA LoopPickInv ==
    ASSUME WalkInv, NEW l \in Lanes, LoopPick(l)
    PROVE  WalkInv'
<1>0. Live /\ Send(l, "loop") /\ UNCHANGED <<restrict, sticky, pool, cands, visited>>
  BY DEF LoopPick, Live, config, Picks
<1>1. /\ TriedOK' /\ FullOK' /\ l \in cands /\ l \notin excluded
      /\ at_cap' \subseteq cands /\ excluded' \subseteq Lanes
  BY <1>0, PickTried DEF LoopPick
<1>2. Compliant' /\ RepeatOnlyLast' /\ PoolsSeen' /\ PoolIsLatest' /\ PoolsInOrder'
  BY <1>0, <1>1, SendCompliant, SendInOrder, SendRepeat DEF Vias
<1>3. TypeOK'
  <2>1. log' \in Seq(Dispatch)
    BY <1>0, SendFacts DEF WalkInv, Vias
  <2>2. QED
    BY <1>0, <1>1, <2>1, WalkConstants DEF WalkInv, TypeOK, LoopPick, PCs, config
<1>4. Fresh' /\ CandsOK' /\ ReasonsOK'
  <2>0. Len(log) \in Nat /\ Len(log') = Len(log) + 1
    BY <1>0, SendFacts DEF WalkInv, Vias
  <2>1. Len(log') # 0
    BY <2>0
  <2>2. QED
    BY <1>0, <1>1, <2>1 DEF WalkInv, LoopPick, Fresh, CandsOK, ReasonsOK
<1>5. ContextOK'
  BY <1>0 DEF WalkInv, LoopPick, Picks, ContextOK, Undercuts
<1>6. QED
  BY <1>1, <1>2, <1>3, <1>4, <1>5 DEF WalkInv

(* So does a pick of a fallback pool's loop. *)
LEMMA FallbackPickInv ==
    ASSUME WalkInv, NEW l \in Lanes, FallbackPick(l)
    PROVE  WalkInv'
<1>0. Live /\ Send(l, "fallback") /\ UNCHANGED <<restrict, sticky, pool, cands, visited>>
  BY DEF FallbackPick, Live, config, Picks
<1>1. /\ TriedOK' /\ FullOK' /\ l \in cands /\ l \notin excluded
      /\ at_cap' \subseteq cands /\ excluded' \subseteq Lanes
  BY <1>0, PickTried DEF FallbackPick
<1>2. Compliant' /\ RepeatOnlyLast' /\ PoolsSeen' /\ PoolIsLatest' /\ PoolsInOrder'
  BY <1>0, <1>1, SendCompliant, SendInOrder, SendRepeat DEF Vias
<1>3. TypeOK'
  <2>1. log' \in Seq(Dispatch)
    BY <1>0, SendFacts DEF WalkInv, Vias
  <2>2. QED
    BY <1>0, <1>1, <2>1, WalkConstants DEF WalkInv, TypeOK, FallbackPick, PCs, config
<1>4. Fresh' /\ CandsOK' /\ ReasonsOK'
  <2>0. Len(log) \in Nat /\ Len(log') = Len(log) + 1
    BY <1>0, SendFacts DEF WalkInv, Vias
  <2>1. Len(log') # 0
    BY <2>0
  <2>2. QED
    BY <1>0, <1>1, <2>1 DEF WalkInv, FallbackPick, Fresh, CandsOK, ReasonsOK
<1>5. ContextOK'
  BY <1>0 DEF WalkInv, FallbackPick, Picks, ContextOK, Undercuts
<1>6. QED
  BY <1>1, <1>2, <1>3, <1>4, <1>5 DEF WalkInv

(* A pick that finds no lane notes new reasons and moves on. *)
LEMMA NoneInv ==
    ASSUME WalkInv, LoopNone \/ FallbackNone
    PROVE  WalkInv'
<1>0. /\ UNCHANGED <<on_exhausted, restrict, sticky, pool, cands, excluded, visited,
                     hops, clock, overflowed, log>>
      /\ Live /\ pc' \in {"answered", "exhausted"}
      /\ at_cap' \subseteq cands \ excluded
  BY DEF LoopNone, FallbackNone, PicksNone, Untried, Live, config
<1>1. TypeOK'
  BY <1>0 DEF WalkInv, TypeOK, PCs
<1>2. Fresh' /\ CandsOK' /\ ReasonsOK'
  BY <1>0 DEF WalkInv, Fresh, CandsOK, ReasonsOK
<1>3. TriedOK' /\ FullOK'
  BY <1>0 DEF WalkInv, TriedOK, FullOK, Live
<1>4. PoolsSeen' /\ PoolIsLatest' /\ ContextOK'
  BY <1>0 DEF WalkInv, PoolsSeen, PoolIsLatest, ContextOK
<1>5. Compliant' /\ RepeatOnlyLast' /\ PoolsInOrder'
  BY <1>0 DEF WalkInv, Compliant, RepeatOnlyLast, PoolsInOrder
<1>6. QED
  BY <1>1, <1>2, <1>3, <1>4, <1>5 DEF WalkInv

(* least_bad, the queue's win and the modes that end the walk: the pool is *)
(* marked, and if a lane is tried it is a candidate and the last one.      *)
LastAttempt ==
    /\ Live /\ pc # "new"
    /\ UNCHANGED <<on_exhausted, restrict, sticky, pool, cands, excluded,
                   hops, clock, overflowed>>
    /\ visited' \in {visited, visited \cup {pool}}
    /\ at_cap' \subseteq at_cap
    /\ \/ UNCHANGED log /\ pc' \in {"answered", "queued"} /\ pc # "fallback"
       \/ /\ pc' = "last"
          /\ pc # "fallback"
          /\ \E l \in cands :
                Send(l, "least_bad") \/ (l \in at_cap /\ Send(l, "queue"))

(* The actions LastAttempt stands for. *)
LEMMA FinalSteps ==
    ASSUME WalkInv, Reject \/ LeastBad \/ Queue \/ \E l \in Lanes : QueueWon(l)
    PROVE  LastAttempt
<1>1. CASE Reject
  BY <1>1 DEF Reject, Exhausted, LastAttempt, Live, Marked, config
<1>2. CASE LeastBad
  BY <1>2 DEF LeastBad, Exhausted, LastAttempt, Live, Marked, config
<1>3. CASE Queue
  BY <1>3 DEF Queue, Exhausted, LastAttempt, Live, Marked, config
<1>4. ASSUME NEW l \in Lanes, QueueWon(l) PROVE LastAttempt
  <2>1. pc = "queued" /\ at_cap \subseteq cands /\ l \in at_cap
    BY <1>4 DEF WalkInv, QueueWon, ReasonsOK
  <2>2. QED
    BY <1>4, <2>1 DEF QueueWon, LastAttempt, Live, config
<1>5. QED
  BY <1>1, <1>2, <1>3, <1>4

(* They keep the invariant. *)
LEMMA FinalInv ==
    ASSUME WalkInv, LastAttempt
    PROVE  WalkInv'
<1>0. /\ UNCHANGED <<on_exhausted, restrict, sticky, pool, cands, excluded,
                     hops, clock, overflowed>>
      /\ visited \subseteq visited' /\ visited' \subseteq visited \cup {pool}
      /\ at_cap' \subseteq at_cap
      /\ Live /\ pc # "fallback" /\ pc' \in {"answered", "queued", "last"}
  BY DEF LastAttempt
<1>1. CandsOK' /\ ReasonsOK' /\ Fresh' /\ ContextOK'
  BY <1>0 DEF WalkInv, CandsOK, ReasonsOK, Fresh, ContextOK, Live
<1>2. ASSUME UNCHANGED log PROVE WalkInv'
  <2>1. TypeOK'
    BY <1>0, <1>2 DEF WalkInv, TypeOK, PCs
  <2>2. TriedOK' /\ FullOK'
    BY <1>0, <1>2 DEF WalkInv, TriedOK, FullOK
  <2>3. PoolsSeen' /\ PoolIsLatest' /\ PoolsInOrder'
    BY <1>0, <1>2 DEF WalkInv, PoolsSeen, PoolIsLatest, PoolsInOrder
  <2>4. Compliant' /\ RepeatOnlyLast'
    BY <1>0, <1>2 DEF WalkInv, Compliant, RepeatOnlyLast
  <2>5. QED
    BY <1>1, <2>1, <2>2, <2>3, <2>4 DEF WalkInv
<1>3. ASSUME pc' = "last", NEW l \in cands, NEW via \in Vias, Send(l, via),
             via = "least_bad" \/ (via = "queue" /\ l \in at_cap)
      PROVE  WalkInv'
  <2>1. TypeOK'
    <3>1. log' \in Seq(Dispatch)
      BY <1>3, SendFacts DEF WalkInv, TypeOK
    <3>2. QED
      BY <1>0, <3>1 DEF WalkInv, TypeOK, PCs
  <2>2. TriedOK' /\ FullOK'
    BY <1>3 DEF TriedOK, FullOK, Live
  <2>3. PoolsSeen' /\ PoolIsLatest' /\ PoolsInOrder' /\ Compliant' /\ RepeatOnlyLast'
    BY <1>0, <1>3, SendCompliant, SendInOrder, SendRepeat
  <2>4. QED
    BY <1>1, <2>1, <2>2, <2>3 DEF WalkInv
<1>4. QED
  BY <1>2, <1>3 DEF LastAttempt, Vias

-----------------------------------------------------------------------------
(* The actions that change the candidates or the excluded set. *)

(* The request arrives: blocklist first, then the restrict. *)
LEMMA ArriveInv ==
    ASSUME WalkInv, Arrive
    PROVE  WalkInv'
<1>0. /\ UNCHANGED <<on_exhausted, restrict, pool, excluded, visited, at_cap,
                     hops, clock, overflowed, log>>
      /\ pc = "new" /\ Live /\ pc' \in {"answered", "loop"}
  BY DEF Arrive, ctx, config, Live
<1>1. Len(log) = 0 /\ overflowed = {} /\ at_cap \subseteq cands
  BY <1>0 DEF WalkInv, Fresh, ReasonsOK
<1>2. ASSUME cands' = cands, sticky' = sticky, pc' = "answered" PROVE CandsOK' /\ TypeOK' /\ ReasonsOK'
  BY <1>0, <1>2 DEF WalkInv, CandsOK, TypeOK, PCs, ReasonsOK
<1>3. ASSUME ~ Refused(Primary, Members[Primary] \ Exclusions[Primary]),
             cands' = Restricted(Primary, Members[Primary] \ Exclusions[Primary]),
             sticky' \in cands' \cup {NoLane}, pc' = "loop"
      PROVE  CandsOK' /\ TypeOK' /\ ReasonsOK'
  <2>1. pool = Primary /\ at_cap = {}
    BY <1>0 DEF WalkInv, Fresh
  <2>2. QED
    BY <1>0, <1>3, <2>1, WalkConstants
    DEF WalkInv, TypeOK, PCs, CandsOK, ReasonsOK, Restricted, Refused
<1>4. CandsOK' /\ TypeOK' /\ ReasonsOK'
  BY <1>2, <1>3 DEF Arrive
<1>5. Fresh' /\ TriedOK' /\ FullOK' /\ ContextOK'
  BY <1>0, <1>1 DEF Fresh, TriedOK, FullOK, ContextOK
<1>6. PoolsSeen' /\ PoolIsLatest' /\ PoolsInOrder' /\ Compliant' /\ RepeatOnlyLast'
  BY <1>0, <1>1 DEF PoolsSeen, PoolIsLatest, PoolsInOrder, Compliant, RepeatOnlyLast
<1>7. QED
  BY <1>4, <1>5, <1>6 DEF WalkInv

(* A context-length error excludes the candidates that undercut it. *)
LEMMA ContextLengthInv ==
    ASSUME WalkInv, ContextLength
    PROVE  WalkInv'
<1>0. /\ UNCHANGED <<on_exhausted, restrict, sticky, pool, cands, visited, at_cap,
                     hops, clock, log>>
      /\ pc = "sent" /\ pc' = "loop"
      /\ excluded' = excluded \cup {l \in cands : Undercuts(l, log[Len(log)].lane)}
      /\ overflowed' = overflowed \cup {log[Len(log)].lane}
  BY DEF ContextLength, config
<1>1. log[Len(log)].lane \in Lanes
  <2>1. Len(log) # 0
    BY <1>0 DEF WalkInv, Fresh
  <2>2. Len(log) \in 1 .. Len(log)
    BY <2>1 DEF WalkInv, TypeOK
  <2>3. QED
    BY <2>2, LogEntry DEF WalkInv, Dispatch
<1>2. TypeOK'
  BY <1>0, <1>1 DEF WalkInv, TypeOK, PCs
<1>3. Fresh' /\ CandsOK' /\ ReasonsOK'
  BY <1>0 DEF WalkInv, Fresh, CandsOK, ReasonsOK
<1>4. TriedOK' /\ FullOK'
  BY <1>0 DEF WalkInv, TriedOK, FullOK, Live
<1>5. ContextOK'
  BY <1>0 DEF WalkInv, ContextOK, Undercuts
<1>6. PoolsSeen' /\ PoolIsLatest' /\ PoolsInOrder' /\ Compliant' /\ RepeatOnlyLast'
  BY <1>0 DEF WalkInv, PoolsSeen, PoolIsLatest, PoolsInOrder, Compliant, RepeatOnlyLast
<1>7. QED
  BY <1>2, <1>3, <1>4, <1>5, <1>6 DEF WalkInv

(* A spill enters a pool no dispatch went through, with that pool's own    *)
(* restrict and blocklist applied; a refused one ends the walk.            *)
LEMMA SpillInv ==
    ASSUME WalkInv, NEW q \in Pools, Spill(q)
    PROVE  WalkInv'
<1>0. /\ UNCHANGED <<on_exhausted, restrict, sticky, excluded, at_cap, hops, clock,
                     overflowed, log>>
      /\ pc = "exhausted" /\ Live /\ pc' \in {"answered", "fallback"}
  BY DEF Spill, Exhausted, config, Live
<1>1. TriedOK' /\ FullOK' /\ Fresh' /\ ReasonsOK' /\ ContextOK' /\ Compliant'
      /\ RepeatOnlyLast' /\ PoolsInOrder'
  BY <1>0 DEF WalkInv, TriedOK, FullOK, Live, Fresh, ReasonsOK, ContextOK, Compliant,
              RepeatOnlyLast, PoolsInOrder
<1>2. ASSUME visited' = Marked, UNCHANGED <<pool, cands>>
      PROVE  TypeOK' /\ CandsOK' /\ PoolsSeen' /\ PoolIsLatest'
  BY <1>0, <1>2 DEF WalkInv, TypeOK, PCs, CandsOK, PoolsSeen, PoolIsLatest, Marked
<1>3. ASSUME q \notin Marked, ~ Refused(q, Members[q]), visited' = Marked \cup {q},
             pool' = q, cands' = SpillCands(q)
      PROVE  TypeOK' /\ CandsOK' /\ PoolsSeen' /\ PoolIsLatest'
  <2>1. TypeOK' /\ CandsOK'
    BY <1>0, <1>3, WalkConstants
    DEF WalkInv, TypeOK, PCs, CandsOK, SpillCands, Restricted, Refused, Marked
  <2>2. PoolsSeen'
    BY <1>0, <1>3 DEF WalkInv, PoolsSeen, Marked
  <2>3. \A i \in 1 .. Len(log) : log[i].pool # q
    BY <1>3 DEF WalkInv, PoolsSeen, Marked
  <2>4. PoolIsLatest'
    BY <1>0, <1>3, <2>3 DEF PoolIsLatest
  <2>5. QED
    BY <2>1, <2>2, <2>4
<1>4. TypeOK' /\ CandsOK' /\ PoolsSeen' /\ PoolIsLatest'
  BY <1>2, <1>3 DEF Spill
<1>5. QED
  BY <1>1, <1>4 DEF WalkInv

-----------------------------------------------------------------------------
(* The three facts of an inductive invariant. *)

(* A request starts in the invariant. *)
LEMMA WalkInit ==
    ASSUME Init PROVE WalkInv
BY WalkConstants
DEF Init, WalkInv, TypeOK, PCs, Clocks, Fresh, CandsOK, ReasonsOK, TriedOK, FullOK,
    PoolsSeen, PoolIsLatest, ContextOK, Compliant, RepeatOnlyLast, PoolsInOrder

(* Every step of the walk, and every stuttering step, keeps it. *)
LEMMA WalkStep ==
    ASSUME WalkInv, [Next]_vars PROVE WalkInv'
<1>1. TypeOK
  BY DEF WalkInv
<1>2. CASE \/ LoopLate \/ LoopCap \/ Answered \/ Failed \/ FallbackLate
           \/ FallbackDone \/ LastDone \/ QueueDeadline \/ Tick \/ UNCHANGED vars
  BY <1>1, <1>2, QuietSteps, QuietInv
<1>3. CASE \E l \in Lanes : LoopPick(l) \/ FallbackPick(l)
  BY <1>3, LoopPickInv, FallbackPickInv
<1>4. CASE LoopNone \/ FallbackNone
  BY <1>4, NoneInv
<1>5. CASE Reject \/ LeastBad \/ Queue \/ \E l \in Lanes : QueueWon(l)
  BY <1>5, FinalSteps, FinalInv
<1>6. CASE Arrive
  BY <1>6, ArriveInv
<1>7. CASE ContextLength
  BY <1>7, ContextLengthInv
<1>8. CASE \E q \in Pools : Spill(q)
  BY <1>8, SpillInv
<1>9. QED
  BY <1>2, <1>3, <1>4, <1>5, <1>6, <1>7, <1>8
  DEF Next, Step, Loop, Exhaustion, Degraded, Finished

(* The invariant holds in every behaviour. *)
THEOREM WalkInvariant == Spec => []WalkInv
<1>1. Init => WalkInv
  BY WalkInit
<1>2. WalkInv /\ [Next]_vars => WalkInv'
  BY WalkStep
<1>3. QED
  BY <1>1, <1>2, PTL DEF Spec

(* The walk is type correct. *)
THEOREM WalkTypeCorrect == Spec => []TypeOK
<1>1. WalkInv => TypeOK
  BY DEF WalkInv
<1>2. QED
  BY <1>1, WalkInvariant, PTL

(* No blocklisted lane and none outside a required restrict is reached, by *)
(* whatever chain of pools the walk goes.                                  *)
THEOREM WalkCompliant == Spec => []Compliant
<1>1. WalkInv => Compliant
  BY DEF WalkInv
<1>2. QED
  BY <1>1, WalkInvariant, PTL

(* A lane is tried once; only the last attempt may repeat one. *)
THEOREM WalkTriesOnce == Spec => []RepeatOnlyLast
<1>1. WalkInv => RepeatOnlyLast
  BY DEF WalkInv
<1>2. QED
  BY <1>1, WalkInvariant, PTL

(* The visited set is enough to enter every pool once. *)
THEOREM WalkInOrder == Spec => []PoolsInOrder
<1>1. WalkInv => PoolsInOrder
  BY DEF WalkInv
<1>2. QED
  BY <1>1, WalkInvariant, PTL

-----------------------------------------------------------------------------
(* Action properties: what the next dispatch may be. *)

(* Four actions dispatch, and no other touches the log. *)
LEMMA WhoSends ==
    ASSUME WalkInv, [Next]_vars, log' # log
    PROVE  \/ \E l \in Lanes : LoopPick(l) /\ Send(l, "loop")
           \/ \E l \in Lanes : FallbackPick(l) /\ Send(l, "fallback")
           \/ \E l \in Lanes : LeastBad /\ Send(l, "least_bad")
           \/ \E l \in Lanes : QueueWon(l) /\ Send(l, "queue")
<1>1. cands \subseteq Lanes
  BY DEF WalkInv, TypeOK
<1>2. ~ (\/ LoopLate \/ LoopCap \/ Answered \/ Failed \/ FallbackLate
         \/ FallbackDone \/ LastDone \/ QueueDeadline \/ Tick \/ UNCHANGED vars)
  <2>1. TypeOK
    BY DEF WalkInv
  <2>2. QED
    BY <2>1, QuietSteps DEF Quiet
<1>3. ~ (LoopNone \/ FallbackNone \/ Reject \/ Queue \/ Arrive \/ ContextLength)
  BY DEF LoopNone, FallbackNone, Reject, Queue, Arrive, ContextLength
<1>4. ~ \E q \in Pools : Spill(q)
  BY DEF Spill
<1>5. CASE \E l \in Lanes : LoopPick(l)
  BY <1>5 DEF LoopPick
<1>6. CASE \E l \in Lanes : FallbackPick(l)
  BY <1>6 DEF FallbackPick
<1>7. CASE LeastBad
  BY <1>1, <1>7 DEF LeastBad
<1>8. CASE \E l \in Lanes : QueueWon(l)
  BY <1>8 DEF QueueWon
<1>9. QED
  BY <1>2, <1>3, <1>4, <1>5, <1>6, <1>7, <1>8
  DEF Next, Step, Loop, Exhaustion, Degraded, Finished

(* The entry a dispatch appends is the last one. *)
LEMMA LastSent ==
    ASSUME WalkInv, NEW l \in Lanes, NEW via \in Vias, Send(l, via)
    PROVE  log'[Len(log')].lane = l /\ log'[Len(log')].via = via
<1>1. /\ Len(log) \in Nat /\ Len(log') = Len(log) + 1
      /\ log'[Len(log) + 1] = [pool |-> pool, lane |-> l, via |-> via]
  BY SendFacts DEF WalkInv
<1>2. QED
  BY <1>1

(* After the deadline no pool's loop dispatches any more. *)
THEOREM WalkLate == Spec => LateOnlyLeastBad
<1>1. ASSUME WalkInv, [Next]_vars, expired, log' # log
      PROVE  \/ log'[Len(log')].via = "least_bad"
             \/ log'[Len(log')].via = "queue" /\ ~overdue
  <2>1. ~ \E l \in Lanes : LoopPick(l) \/ FallbackPick(l)
    BY <1>1 DEF LoopPick, FallbackPick
  <2>2. ASSUME NEW l \in Lanes, LeastBad, Send(l, "least_bad")
        PROVE  log'[Len(log')].via = "least_bad"
    BY <1>1, <2>2, LastSent DEF Vias
  <2>3. ASSUME NEW l \in Lanes, QueueWon(l), Send(l, "queue")
        PROVE  log'[Len(log')].via = "queue" /\ ~overdue
    <3>1. log'[Len(log')].via = "queue"
      BY <1>1, <2>3, LastSent DEF Vias
    <3>2. QED
      BY <2>3, <3>1 DEF QueueWon
  <2>4. QED
    BY <1>1, <2>1, <2>2, <2>3, WhoSends
<1>2. QED
  BY <1>1, WalkInvariant, PTL DEF Spec, LateOnlyLeastBad

(* In a pool's loop, what overflowed one lane is not sent to one that      *)
(* declares no larger context.                                             *)
THEOREM WalkContext == Spec => ContextGrows
<1>1. ASSUME WalkInv, [Next]_vars, pc = "loop", log' # log
      PROVE  \A o \in overflowed : ~Undercuts(log'[Len(log')].lane, o)
  <2>1. PICK l \in Lanes : LoopPick(l) /\ Send(l, "loop")
    BY <1>1, WhoSends DEF FallbackPick, LeastBad, Exhausted, QueueWon
  <2>2. log'[Len(log')].lane = l
    BY <1>1, <2>1, LastSent DEF Vias
  <2>3. l \in cands /\ l \notin excluded
    BY <2>1 DEF LoopPick, Picks, Untried
  <2>4. QED
    BY <1>1, <2>2, <2>3 DEF WalkInv, ContextOK
<1>2. QED
  BY <1>1, WalkInvariant, PTL DEF Spec, ContextGrows

(***************************************************************************)
(* The stream: the translator and the client follow the reader's story.    *)
(***************************************************************************)
-----------------------------------------------------------------------------
(* The translator and the client's view of it.                             *)
FrameNames == {"open", "part", "delta", "close", "finish", "usage", "stop", "error"}
FrameType  == [f : FrameNames, index : Int, usage : Tokens]
FaultNames == {"late", "reused", "stray", "unclosed"}

ClientType == [open : SUBSET Int, used : SUBSET Int, finishes : Nat, usages : Nat,
               usage : Tokens, errors : Nat, stopped : BOOLEAN,
               faults : SUBSET FaultNames]

TrType == [startUsage : Tokens, lastUsage : Tokens, failed : BOOLEAN, stopped : BOOLEAN,
           pendingTerminal : Tokens, pendingStop : BOOLEAN, openBlocks : SUBSET Int,
           items : SUBSET (Int \X Kinds), missed : BOOLEAN, emitted : BOOLEAN,
           pending : BOOLEAN, wire : Seq(FrameType)]

\* The fields of the client and of the translator.
LEMMA ClientFields ==
    ASSUME NEW c \in ClientType
    PROVE  /\ c.open \subseteq Int /\ c.used \subseteq Int /\ c.finishes \in Nat
           /\ c.usages \in Nat /\ c.usage \in Tokens /\ c.errors \in Nat
           /\ c.stopped \in BOOLEAN /\ c.faults \subseteq FaultNames
           /\ c = [open |-> c.open, used |-> c.used, finishes |-> c.finishes,
                   usages |-> c.usages, usage |-> c.usage, errors |-> c.errors,
                   stopped |-> c.stopped, faults |-> c.faults]
  BY DEF ClientType

LEMMA TrFields ==
    ASSUME NEW t \in TrType
    PROVE  /\ t.startUsage \in Tokens /\ t.lastUsage \in Tokens /\ t.failed \in BOOLEAN
           /\ t.stopped \in BOOLEAN /\ t.pendingTerminal \in Tokens
           /\ t.pendingStop \in BOOLEAN /\ t.openBlocks \subseteq Int
           /\ t.items \subseteq Int \X Kinds /\ t.missed \in BOOLEAN
           /\ t.emitted \in BOOLEAN /\ t.pending \in BOOLEAN /\ t.wire \in Seq(FrameType)
  BY DEF TrType

(* What a frame does to the client that has seen c.                        *)
Like(c, s) == s.finishes = c.finishes /\ s.usage = c.usage /\ s.errors = c.errors
              /\ s.stopped = c.stopped
Room(c)    == ~ c.stopped /\ c.finishes = 0

FrameOf(f, i)  == Frame(f, i, NoUsage)
FinishOf(u)    == Frame("finish", 0, u)
UsageFrame(u)    == Frame("usage", 0, u)
StopFrame      == FrameOf("stop", 0)
ErrorFrame     == FrameOf("error", 0)

LEMMA FramesAre ==
    ASSUME NEW i \in Int, NEW f \in FrameNames, NEW u \in Tokens
    PROVE  FrameOf(f, i) \in FrameType /\ FinishOf(u) \in FrameType /\ UsageFrame(u) \in FrameType
           /\ StopFrame \in FrameType /\ ErrorFrame \in FrameType
  BY UsageIs DEF FrameOf, FinishOf, UsageFrame, StopFrame, ErrorFrame, Frame, FrameType,
                 FrameNames, Tokens

\* What the client makes of each kind of frame.
LEMMA SeeOpen ==
    ASSUME NEW c \in ClientType, NEW i \in Int, NEW s, s = See(c, FrameOf("open", i))
    PROVE  /\ s \in ClientType /\ Like(c, s)
           /\ s.open = c.open \cup {i} /\ s.used = c.used \cup {i}
           /\ (i \notin c.used /\ Room(c) => s.faults = c.faults)
  <1> DEFINE late == IF c.stopped \/ c.finishes > 0 THEN {"late"} ELSE {}
             F == c.faults \cup (late \cup (IF i \in c.used THEN {"reused"} ELSE {}))
             O == c.open \cup {i}
             U == c.used \cup {i}
  <1>1. s = [[c EXCEPT !.faults = F] EXCEPT !.open = O, !.used = U]
    BY ClientFields DEF See, FrameOf, Frame, ClientType
  <1>2. O \subseteq Int /\ U \subseteq Int /\ F \subseteq FaultNames
    BY ClientFields DEF FaultNames
  <1>3. i \notin c.used /\ Room(c) => F = c.faults
    BY ClientFields DEF Room
  <1> HIDE DEF F, O, U
  <1>4. s \in ClientType
    BY <1>1, <1>2 DEF ClientType
  <1>5. s.open = O /\ s.used = U /\ s.faults = F /\ Like(c, s)
    BY <1>1 DEF ClientType, Like
  <1> QED
    BY <1>3, <1>4, <1>5 DEF O, U

LEMMA SeePart ==
    ASSUME NEW c \in ClientType, NEW i \in Int, NEW s, s = See(c, FrameOf("part", i))
    PROVE  /\ s \in ClientType /\ Like(c, s) /\ s.open = c.open /\ s.used = c.used
           /\ (Room(c) => s.faults = c.faults)
  <1> DEFINE late == IF c.stopped \/ c.finishes > 0 THEN {"late"} ELSE {}
             F == c.faults \cup late
  <1>1. s = [c EXCEPT !.faults = F]
    BY DEF See, FrameOf, Frame
  <1>2. F \subseteq FaultNames /\ (Room(c) => F = c.faults)
    BY ClientFields DEF FaultNames, Room
  <1> HIDE DEF F
  <1>4. s \in ClientType
    BY <1>1, <1>2 DEF ClientType
  <1>5. s.open = c.open /\ s.used = c.used /\ s.faults = F /\ Like(c, s)
    BY <1>1 DEF ClientType, Like
  <1> QED
    BY <1>2, <1>4, <1>5

LEMMA SeeDelta ==
    ASSUME NEW c \in ClientType, NEW i \in Int, NEW s, s = See(c, FrameOf("delta", i))
    PROVE  /\ s \in ClientType /\ Like(c, s) /\ s.open = c.open /\ s.used = c.used
           /\ (i \in c.open /\ Room(c) => s.faults = c.faults)
  <1> DEFINE late == IF c.stopped \/ c.finishes > 0 THEN {"late"} ELSE {}
             F == c.faults \cup (late \cup (IF i \in c.open THEN {} ELSE {"stray"}))
  <1>1. s = [c EXCEPT !.faults = F]
    BY DEF See, FrameOf, Frame
  <1>2. F \subseteq FaultNames /\ (i \in c.open /\ Room(c) => F = c.faults)
    BY ClientFields DEF FaultNames, Room
  <1> HIDE DEF F
  <1>4. s \in ClientType
    BY <1>1, <1>2 DEF ClientType
  <1>5. s.open = c.open /\ s.used = c.used /\ s.faults = F /\ Like(c, s)
    BY <1>1 DEF ClientType, Like
  <1> QED
    BY <1>2, <1>4, <1>5

LEMMA SeeClose ==
    ASSUME NEW c \in ClientType, NEW i \in Int, NEW s, s = See(c, FrameOf("close", i))
    PROVE  /\ s \in ClientType /\ Like(c, s) /\ s.open = c.open \ {i} /\ s.used = c.used
           /\ (i \in c.open /\ Room(c) => s.faults = c.faults)
  <1> DEFINE late == IF c.stopped \/ c.finishes > 0 THEN {"late"} ELSE {}
             F == c.faults \cup (late \cup (IF i \in c.open THEN {} ELSE {"stray"}))
             O == c.open \ {i}
  <1>1. s = [[c EXCEPT !.faults = F] EXCEPT !.open = O]
    BY ClientFields DEF See, FrameOf, Frame, ClientType
  <1>2. O \subseteq Int /\ F \subseteq FaultNames /\ (i \in c.open /\ Room(c) => F = c.faults)
    BY ClientFields DEF FaultNames, Room
  <1> HIDE DEF F, O
  <1>4. s \in ClientType
    BY <1>1, <1>2 DEF ClientType
  <1>5. s.open = O /\ s.used = c.used /\ s.faults = F /\ Like(c, s)
    BY <1>1 DEF ClientType, Like
  <1> QED
    BY <1>2, <1>4, <1>5 DEF O

LEMMA SeeFinish ==
    ASSUME NEW c \in ClientType, NEW u \in Tokens, NEW s, s = See(c, FinishOf(u))
    PROVE  /\ s \in ClientType /\ s.open = c.open /\ s.used = c.used
           /\ s.errors = c.errors /\ s.stopped = c.stopped
           /\ s.finishes = c.finishes + 1
           /\ (u = NoUsage => s.usage = c.usage) /\ (u # NoUsage => s.usage = u)
           /\ c.faults \subseteq s.faults
           /\ (~ c.stopped => s.faults \subseteq c.faults \cup {"unclosed"})
           /\ (~ c.stopped /\ (c.open = {} \/ ingress = "openai") => s.faults = c.faults)
  <1> DEFINE F == c.faults \cup ((IF c.stopped THEN {"late"} ELSE {})
                    \cup (IF c.open # {} /\ ingress # "openai" THEN {"unclosed"} ELSE {}))
             n == c.finishes + 1
             y == IF u = NoUsage THEN c.usage ELSE u
  <1>1. s = [[c EXCEPT !.faults = F] EXCEPT !.finishes = n, !.usage = y]
    BY ClientFields DEF See, FinishOf, Frame, ClientType
  <1>2. /\ n \in Nat /\ y \in Tokens /\ F \subseteq FaultNames
        /\ c.faults \subseteq F
        /\ (~ c.stopped => F \subseteq c.faults \cup {"unclosed"})
        /\ (~ c.stopped /\ (c.open = {} \/ ingress = "openai") => F = c.faults)
    BY ClientFields DEF FaultNames
  <1>3. n = c.finishes + 1 /\ (u = NoUsage => y = c.usage) /\ (u # NoUsage => y = u)
    OBVIOUS
  <1> HIDE DEF F, n, y
  <1>4. s \in ClientType
    BY <1>1, <1>2 DEF ClientType
  <1>5. s.open = c.open /\ s.used = c.used /\ s.faults = F /\ s.finishes = n /\ s.usage = y
        /\ s.errors = c.errors /\ s.stopped = c.stopped
    BY <1>1 DEF ClientType
  <1> QED
    BY <1>2, <1>3, <1>4, <1>5

LEMMA SeeUsage ==
    ASSUME NEW c \in ClientType, NEW u \in Tokens, NEW s, s = See(c, UsageFrame(u))
    PROVE  /\ s \in ClientType /\ s.open = c.open /\ s.used = c.used
           /\ s.errors = c.errors /\ s.stopped = c.stopped
           /\ s.finishes = c.finishes /\ s.usage = u /\ c.faults \subseteq s.faults
           /\ (~ c.stopped => s.faults = c.faults)
  <1> DEFINE F == c.faults \cup (IF c.stopped THEN {"late"} ELSE {})
             n == c.usages + 1
  <1>1. s = [[c EXCEPT !.faults = F] EXCEPT !.usages = n, !.usage = u]
    BY ClientFields DEF See, UsageFrame, Frame, ClientType
  <1>2. n \in Nat /\ F \subseteq FaultNames /\ c.faults \subseteq F /\ (~ c.stopped => F = c.faults)
    BY ClientFields DEF FaultNames
  <1> HIDE DEF F, n
  <1>4. s \in ClientType
    BY <1>1, <1>2 DEF ClientType
  <1>5. s.open = c.open /\ s.used = c.used /\ s.faults = F /\ s.finishes = c.finishes /\ s.usage = u
        /\ s.errors = c.errors /\ s.stopped = c.stopped
    BY <1>1 DEF ClientType
  <1> QED
    BY <1>2, <1>4, <1>5

LEMMA SeeStop ==
    ASSUME NEW c \in ClientType, NEW s, s = See(c, StopFrame)
    PROVE  /\ s \in ClientType /\ s.open = c.open /\ s.used = c.used
           /\ s.errors = c.errors /\ s.stopped
           /\ s.finishes = c.finishes /\ s.usage = c.usage /\ s.faults = c.faults
  <1>1. s = [c EXCEPT !.stopped = TRUE]
    BY DEF See, StopFrame, FrameOf, Frame
  <1> QED
    BY <1>1 DEF ClientType

LEMMA SeeError ==
    ASSUME NEW c \in ClientType, NEW s, s = See(c, ErrorFrame)
    PROVE  /\ s \in ClientType /\ s.open = c.open /\ s.used = c.used
           /\ s.errors = c.errors + 1 /\ s.stopped = c.stopped
           /\ s.finishes = c.finishes /\ s.usage = c.usage /\ s.faults = c.faults
  <1> DEFINE n == c.errors + 1
  <1>1. s = [c EXCEPT !.errors = n]
    BY DEF See, ErrorFrame, FrameOf, Frame
  <1>2. n \in Nat /\ n = c.errors + 1
    BY ClientFields
  <1> HIDE DEF n
  <1>3. s \in ClientType /\ s.errors = n /\ s.open = c.open /\ s.used = c.used
        /\ s.stopped = c.stopped /\ s.finishes = c.finishes /\ s.usage = c.usage
        /\ s.faults = c.faults
    BY <1>1, <1>2 DEF ClientType
  <1> QED
    BY <1>2, <1>3

(* The client after the frames w.                                          *)
Seen(c, w) == FoldTo("see", c, w, Len(w))

\* The client after no frame, and after more.
LEMMA SeenIs ==
    ASSUME NEW c, NEW S, NEW w \in Seq(S)
    PROVE  FoldLeft(See, c, w) = Seen(c, w)
  BY SeeFold DEF Seen

LEMMA SeenNone ==
    ASSUME NEW c
    PROVE  Seen(c, <<>>) = c
  BY FoldZero DEF Seen

Adds(w, x, v) == w \in Seq(FrameType) /\ x \in FrameType /\ v = w \o Just(x)

LEMMA SeenMore ==
    ASSUME NEW c, NEW w, NEW x, NEW v, Adds(w, x, v)
    PROVE  v \in Seq(FrameType) /\ Seen(c, v) = See(Seen(c, w), x)
  <1> DEFINE n == Len(w)
             k == "see"
  <1>1. /\ v \in Seq(FrameType) /\ Len(v) = n + 1 /\ v[n + 1] = x /\ n \in Nat
        /\ \A i \in 1 .. n : v[i] = w[i]
    BY DEF Just, Adds
  <1>5. Seen(c, v) = FoldTo(k, c, v, n + 1) /\ Seen(c, w) = FoldTo(k, c, w, n)
    BY <1>1 DEF Seen
  <1>6. \A y, z : Do(k, y, z) = See(y, z)
    BY DEF Do
  <1> HIDE DEF n, k
  <1>2. FoldTo(k, c, v, n + 1) = Do(k, FoldTo(k, c, v, n), v[n + 1])
    BY <1>1, FoldNext
  <1>3. FoldTo(k, c, v, n) = FoldTo(k, c, w, n)
    BY <1>1, FoldSame
  <1> QED
    BY <1>1, <1>2, <1>3, <1>5, <1>6

(* t is the translator that has written, for a client that was c0 and is   *)
(* now c.                                                                  *)
OutOf(c0, t, c) == t \in TrType /\ c \in ClientType /\ c = Seen(c0, t.wire)

TrLike(t, s) ==
    /\ s.startUsage = t.startUsage /\ s.lastUsage = t.lastUsage /\ s.failed = t.failed
    /\ s.stopped = t.stopped /\ s.pendingTerminal = t.pendingTerminal
    /\ s.pendingStop = t.pendingStop /\ s.emitted = t.emitted /\ s.pending = t.pending

SameBlocks(t, s) == s.openBlocks = t.openBlocks /\ s.items = t.items /\ s.missed = t.missed

Starts(i, k, e) == e = BlockStart(i, k)
StopOf(i)       == BlockStop(i)

\* What an event does to the translator, but for what it writes.
EmitBlocks(t, e, s) ==
    /\ e.ev \notin {"BlockStart", "BlockStop"} => SameBlocks(t, s)
    /\ e.ev = "BlockStop" =>
          /\ s.openBlocks = t.openBlocks \ {e.index}
          /\ s.items = {b \in t.items : b[1] # e.index} /\ s.missed = t.missed
    /\ e.ev = "BlockStart" =>
          /\ s.openBlocks = t.openBlocks \cup {e.index}
          /\ (Tracks(t, e) => s.items = t.items \cup {<<e.index, e.kind>>})
          /\ (~ Tracks(t, e) => s.items = t.items)
          /\ (~ (ingress = "responses" /\ e.kind = "tool" /\ ~ Tracks(t, e)) => s.missed = t.missed)
          /\ (ingress = "responses" /\ e.kind = "tool" /\ ~ Tracks(t, e) => s.missed)

\* emit_ir_event writes frames and does the books of blocks.
LEMMA EmitIs ==
    ASSUME NEW t \in TrType, NEW e \in Event, NEW w, w = Written(t, e), w \in Seq(FrameType),
           NEW s, s = Emit(t, e)
    PROVE  s \in TrType /\ TrLike(t, s) /\ EmitBlocks(t, e, s) /\ s.wire = t.wire \o w
  <1> DEFINE O == CASE e.ev = "BlockStart" -> t.openBlocks \cup {e.index}
                    [] e.ev = "BlockStop"  -> t.openBlocks \ {e.index}
                    [] OTHER -> t.openBlocks
             I == CASE e.ev = "BlockStart" /\ Tracks(t, e) -> t.items \cup {<<e.index, e.kind>>}
                    [] e.ev = "BlockStop" -> {b \in t.items : b[1] # e.index}
                    [] OTHER -> t.items
             m == t.missed \/ (/\ ingress = "responses" /\ e.ev = "BlockStart"
                               /\ e.kind = "tool" /\ ~Tracks(t, e))
             W == t.wire \o w
  <1>1. s = [t EXCEPT !.openBlocks = O, !.items = I, !.missed = m, !.wire = W]
    BY DEF Emit, TrType
  <1>2. O \subseteq Int
    BY TrFields DEF Event
  <1>3. I \subseteq Int \X Kinds
    <2>1. e.ev = "BlockStart" => e.index \in Int /\ e.kind \in Kinds
      BY DEF Event
    <2> QED
      BY <2>1, TrFields
  <1>4. W \in Seq(FrameType) /\ m \in BOOLEAN
    BY TrFields
  <1>5. /\ (e.ev \notin {"BlockStart", "BlockStop"} => O = t.openBlocks /\ I = t.items)
        /\ (e.ev = "BlockStop" => O = t.openBlocks \ {e.index} /\ I = {b \in t.items : b[1] # e.index})
        /\ (e.ev = "BlockStart" => O = t.openBlocks \cup {e.index}
              /\ (Tracks(t, e) => I = t.items \cup {<<e.index, e.kind>>})
              /\ (~ Tracks(t, e) => I = t.items))
    OBVIOUS
  <1>6. ~ (ingress = "responses" /\ e.ev = "BlockStart" /\ e.kind = "tool" /\ ~ Tracks(t, e)) => (m <=> t.missed)
    OBVIOUS
  <1>7. ingress = "responses" /\ e.ev = "BlockStart" /\ e.kind = "tool" /\ ~ Tracks(t, e) => m
    OBVIOUS
  <1> HIDE DEF O, I, m, W
  <1>8. s \in TrType
    BY <1>1, <1>2, <1>3, <1>4 DEF TrType
  <1>9. TrLike(t, s)
    BY <1>1 DEF TrType, TrLike
  <1>10. s.openBlocks = O /\ s.items = I /\ s.missed = m /\ s.wire = W
    BY <1>1 DEF TrType
  <1>11. EmitBlocks(t, e, s)
    <2>1. ~ (ingress = "responses" /\ e.ev = "BlockStart" /\ e.kind = "tool" /\ ~ Tracks(t, e)) => s.missed = t.missed
      BY <1>4, <1>6, <1>10, TrFields
    <2> QED
      BY <1>5, <1>7, <1>10, <2>1 DEF EmitBlocks, SameBlocks
  <1> QED
    BY <1>8, <1>9, <1>10, <1>11 DEF W

\* It writes nothing, one frame, or two.
Nothing(w) == w = <<>>

LEMMA EmitNone ==
    ASSUME NEW c0, NEW t, NEW c, OutOf(c0, t, c), NEW e \in Event,
           Nothing(Written(t, e)), NEW s, s = Emit(t, e)
    PROVE  OutOf(c0, s, c) /\ TrLike(t, s) /\ EmitBlocks(t, e, s)
  <1> DEFINE w == Written(t, e)
  <1>1. w = <<>> /\ w \in Seq(FrameType)
    BY DEF Nothing
  <1>0. t \in TrType /\ t.wire \in Seq(FrameType)
    BY TrFields DEF OutOf
  <1>w. w = Written(t, e)
    OBVIOUS
  <1> HIDE DEF w
  <1>2. s \in TrType /\ TrLike(t, s) /\ EmitBlocks(t, e, s) /\ s.wire = t.wire \o w
    BY <1>0, <1>1, <1>w, EmitIs
  <1>3. s.wire = t.wire
    BY <1>0, <1>1, <1>2
  <1> QED
    BY <1>2, <1>3 DEF OutOf

LEMMA EmitOne ==
    ASSUME NEW c0, NEW t, NEW c, OutOf(c0, t, c), NEW e \in Event, NEW x \in FrameType,
           Written(t, e) = Just(x), NEW s, s = Emit(t, e), NEW v, v = See(c, x), v \in ClientType
    PROVE  OutOf(c0, s, v) /\ TrLike(t, s) /\ EmitBlocks(t, e, s)
  <1> DEFINE w == Written(t, e)
  <1>1. w = Just(x) /\ w \in Seq(FrameType)
    BY DEF Just
  <1>0. t \in TrType /\ t.wire \in Seq(FrameType) /\ c = Seen(c0, t.wire)
    BY TrFields DEF OutOf
  <1>w. w = Written(t, e)
    OBVIOUS
  <1> HIDE DEF w
  <1>2. s \in TrType /\ TrLike(t, s) /\ EmitBlocks(t, e, s) /\ s.wire = t.wire \o w
    BY <1>0, <1>1, <1>w, EmitIs
  <1>4. Adds(t.wire, x, s.wire)
    BY <1>0, <1>1, <1>2 DEF Adds
  <1>3. Seen(c0, s.wire) = See(Seen(c0, t.wire), x)
    BY <1>4, SeenMore
  <1> QED
    BY <1>0, <1>2, <1>3 DEF OutOf

LEMMA EmitTwo ==
    ASSUME NEW c0, NEW t, NEW c, OutOf(c0, t, c), NEW e \in Event, NEW x \in FrameType,
           NEW y \in FrameType, Written(t, e) = Just(x) \o Just(y), NEW s, s = Emit(t, e),
           NEW v, v = See(c, x), NEW z, z = See(v, y), z \in ClientType
    PROVE  OutOf(c0, s, z) /\ TrLike(t, s) /\ EmitBlocks(t, e, s)
  <1> DEFINE w == Written(t, e)
             m == t.wire \o Just(x)
  <1>0. t \in TrType /\ t.wire \in Seq(FrameType) /\ c = Seen(c0, t.wire)
    BY TrFields DEF OutOf
  <1>1. w = Just(x) \o Just(y) /\ w \in Seq(FrameType) /\ t.wire \o w = m \o Just(y)
    BY <1>0 DEF Just
  <1>w. w = Written(t, e) /\ m = t.wire \o Just(x)
    OBVIOUS
  <1> HIDE DEF w, m
  <1>2. s \in TrType /\ TrLike(t, s) /\ EmitBlocks(t, e, s) /\ s.wire = t.wire \o w
    BY <1>0, <1>1, <1>w, EmitIs
  <1>6. Adds(t.wire, x, m)
    BY <1>0, <1>w DEF Adds
  <1>3. m \in Seq(FrameType) /\ Seen(c0, m) = See(c, x)
    BY <1>0, <1>6, SeenMore
  <1>5. Adds(m, y, s.wire)
    BY <1>1, <1>2, <1>3 DEF Adds
  <1>4. Seen(c0, s.wire) = See(Seen(c0, m), y)
    BY <1>5, SeenMore
  <1> QED
    BY <1>2, <1>3, <1>4 DEF OutOf

-----------------------------------------------------------------------------
(* What each writer makes of an event.                                     *)
Spoken == {"anthropic", "openai", "cohere", "bedrock", "gemini", "responses"}

LEMMA FlatNone ==
    ASSUME NEW x, Nothing(x)
    PROVE  Nothing(FlattenSeq([n \in 1 .. Len(x) |-> OnEgressChunk(x[n])]))
  <1>1. Len(x) = 0 /\ 1 .. 0 = {}
    BY DEF Nothing
  <1> DEFINE q == [n \in 1 .. Len(x) |-> OnEgressChunk(x[n])]
  <1>2. q = [n \in {} |-> OnEgressChunk(x[n])]
    BY <1>1
  <1>3. q = <<>>
    BY <1>2
  <1>4. Len(q) = 0
    BY <1>3
  <1> QED
    BY <1>3, <1>4 DEF FlattenSeq, Nothing

LEMMA FlatOne ==
    ASSUME NEW y, NEW x, x = Just(y)
    PROVE  FlattenSeq([n \in 1 .. Len(x) |-> OnEgressChunk(x[n])]) = OnEgressChunk(y)
  <1> DEFINE z == OnEgressChunk(y)
             q == [n \in 1 .. Len(x) |-> OnEgressChunk(x[n])]
  <1>1. Len(x) = 1 /\ x[1] = y
    BY DEF Just
  <1>2. q = [n \in 1 .. 1 |-> OnEgressChunk(x[n])] /\ q[1] = z
    BY <1>1
  <1>3. Len(q) = 1
    BY <1>1
  <1> HIDE DEF q, z
  <1> DEFINE P(f) == f = [i \in 1 .. 1 |-> IF i = 1 THEN q[i] ELSE f[i - 1] \o q[i]]
             w == [i \in 1 .. 1 |-> z]
  <1>4. P(w)
    BY <1>2
  <1>5. P(CHOOSE f : P(f))
    BY <1>4
  <1> DEFINE h == CHOOSE f : P(f)
  <1>6. h[1] = z
    <2>1. h = [i \in 1 .. 1 |-> IF i = 1 THEN q[i] ELSE h[i - 1] \o q[i]]
      BY <1>5
    <2> HIDE DEF h
    <2> QED
      BY <1>2, <2>1
  <1>7. FlattenSeq(q) = h[1]
    BY <1>3 DEF FlattenSeq
  <1> QED
    BY <1>6, <1>7 DEF q, z

\* What a writer sends for an event that is not the message's delta.
LEMMA OaWrites ==
    ASSUME ingress = "openai", NEW t, NEW e
    PROVE  /\ (Nothing(WriteOpenAi(e)) => Nothing(Written(t, e)))
           /\ \A y : WriteOpenAi(e) = Just(y) => Written(t, e) = OnEgressChunk(y)
  <1> DEFINE x == WriteOpenAi(e)
  <1>1. Written(t, e) = FlattenSeq([n \in 1 .. Len(x) |-> OnEgressChunk(x[n])])
    BY DEF Written
  <1> HIDE DEF x
  <1>2. Nothing(x) => Nothing(FlattenSeq([n \in 1 .. Len(x) |-> OnEgressChunk(x[n])]))
    BY FlatNone
  <1>3. \A y : x = Just(y) => FlattenSeq([n \in 1 .. Len(x) |-> OnEgressChunk(x[n])]) = OnEgressChunk(y)
    BY FlatOne
  <1> QED
    BY <1>1, <1>2, <1>3 DEF x

LEMMA ChunkSame ==
    ASSUME NEW y, y.f # "finish" \/ y.usage = NoUsage
    PROVE  OnEgressChunk(y) = Just(y)
  BY DEF OnEgressChunk, Just

\* A block of kind k is opened for the client.
Shows(t, k) ==
    /\ ingress # "gemini"
    /\ ingress = "cohere" => k # "thinking"
    /\ ingress = "responses" => k = "tool" \/ RsRoom(t, k)

LEMMA WritesOpen ==
    ASSUME ingress \in Spoken, NEW t, NEW i, NEW k, NEW e, e = BlockStart(i, k)
    PROVE  /\ (Shows(t, k) => Written(t, e) = Just(FrameOf("open", i)))
           /\ (~ Shows(t, k) => Nothing(Written(t, e)))
  <1>1. e.ev = "BlockStart" /\ e.index = i /\ e.kind = k
    BY DEF BlockStart
  <1>2. BlockFrames(e) = Just(FrameOf("open", i))
    BY <1>1 DEF BlockFrames, Just, FrameOf
  <1>3. CASE ingress = "openai"
    <2>1. WriteOpenAi(e) = Just(FrameOf("open", i)) /\ Shows(t, k)
      BY <1>1, <1>2, <1>3 DEF WriteOpenAi, Shows
    <2>2. OnEgressChunk(FrameOf("open", i)) = Just(FrameOf("open", i))
      <3>1. FrameOf("open", i).usage = NoUsage
        BY DEF FrameOf, Frame
      <3> QED
        BY <3>1, ChunkSame
    <2> QED
      BY <1>3, <2>1, <2>2, OaWrites
  <1>4. CASE ingress # "openai"
    BY <1>1, <1>2, <1>4 DEF Written, WriteAnthropic, WriteBedrock, WriteGemini, WriteCohere,
          WriteResponses, Shows, Spoken, Nothing
  <1> QED
    BY <1>3, <1>4

LEMMA WritesDelta ==
    ASSUME ingress \in Spoken, NEW t, NEW i, NEW k, NEW e, e = BlockDelta(i, k)
    PROVE  \/ Nothing(Written(t, e))
           \/ Written(t, e) = Just(FrameOf("part", i))
           \/ Written(t, e) = Just(FrameOf("delta", i)) /\ Shown(<<i, k>>)
  <1>1. e.ev = "BlockDelta" /\ e.index = i /\ e.kind = k
    BY DEF BlockDelta
  <1>2. BlockFrames(e) = Just(FrameOf("delta", i))
    BY <1>1 DEF BlockFrames, Just, FrameOf
  <1>3. CASE ingress = "openai"
    <2>1. WriteOpenAi(e) = Just(FrameOf("delta", i)) /\ Shown(<<i, k>>)
      BY <1>1, <1>2, <1>3 DEF WriteOpenAi, Shown
    <2>2. OnEgressChunk(FrameOf("delta", i)) = Just(FrameOf("delta", i))
      <3>1. FrameOf("delta", i).usage = NoUsage
        BY DEF FrameOf, Frame
      <3> QED
        BY <3>1, ChunkSame
    <2> QED
      BY <1>3, <2>1, <2>2, OaWrites
  <1>5. CASE ingress = "gemini"
    BY <1>1, <1>5 DEF Written, WriteGemini, FrameOf, Just, Nothing
  <1>6. CASE ingress = "cohere"
    BY <1>1, <1>2, <1>6 DEF Written, WriteCohere, Shown, Nothing
  <1>4. CASE ingress \in {"anthropic", "bedrock", "responses"}
    BY <1>1, <1>2, <1>4 DEF Written, WriteAnthropic, WriteBedrock, WriteResponses, Shown
  <1> QED
    BY <1>3, <1>4, <1>5, <1>6 DEF Spoken

\* Closes(t, i): the client is told that the block closes.
Closes(t, i) ==
    \/ ingress \in {"bedrock", "cohere", "responses"} /\ Tracked(t, i)
    \/ ingress = "anthropic"

LEMMA WritesClose ==
    ASSUME ingress \in Spoken, NEW t, NEW i, NEW e, e = BlockStop(i)
    PROVE  /\ (Closes(t, i) => Written(t, e) = Just(FrameOf("close", i)))
           /\ (~ Closes(t, i) => Nothing(Written(t, e))
                                 \/ (ingress = "gemini" /\ Written(t, e) = Just(FrameOf("part", i))))
  <1>1. e.ev = "BlockStop" /\ e.index = i
    BY DEF BlockStop
  <1>3. CASE ingress = "openai"
    <2>1. Nothing(WriteOpenAi(e)) /\ ~ Closes(t, i)
      BY <1>1, <1>3 DEF WriteOpenAi, BlockFrames, Nothing, Closes
    <2> QED
      BY <1>3, <2>1, OaWrites
  <1>5. CASE ingress = "gemini"
    BY <1>1, <1>5 DEF Written, WriteGemini, FrameOf, Just, Nothing, Closes
  <1>6. CASE ingress \in {"anthropic", "bedrock", "cohere", "responses"}
    BY <1>1, <1>6 DEF Written, WriteAnthropic, WriteBedrock, WriteCohere, WriteResponses, Close,
          FrameOf, Just, Nothing, Closes
  <1> QED
    BY <1>3, <1>5, <1>6 DEF Spoken

LEMMA WritesStart ==
    ASSUME ingress \in Spoken, NEW t, NEW u, NEW e, e = MessageStart(u)
    PROVE  Nothing(Written(t, e))
  <1>1. e.ev = "MessageStart"
    BY DEF MessageStart
  <1>2. BlockFrames(e) = <<>>
    BY <1>1 DEF BlockFrames
  <1>3. CASE ingress = "openai"
    <2>1. Nothing(WriteOpenAi(e))
      BY <1>1, <1>2, <1>3 DEF WriteOpenAi, Nothing
    <2> QED
      BY <1>3, <2>1, OaWrites
  <1>4. CASE ingress # "openai"
    BY <1>1, <1>2, <1>4 DEF Written, WriteAnthropic, WriteBedrock, WriteGemini, WriteCohere,
          WriteResponses, Spoken, Nothing
  <1> QED
    BY <1>3, <1>4

LEMMA WritesStop ==
    ASSUME ingress \in Spoken, NEW t, NEW e, e = MessageStop
    PROVE  /\ (ingress = "anthropic" => Written(t, e) = Just(StopFrame))
           /\ (ingress # "anthropic" => Nothing(Written(t, e)))
  <1>1. e.ev = "MessageStop"
    BY DEF MessageStop
  <1>2. BlockFrames(e) = <<>>
    BY <1>1 DEF BlockFrames
  <1>3. CASE ingress = "openai"
    <2>1. Nothing(WriteOpenAi(e))
      BY <1>1, <1>2, <1>3 DEF WriteOpenAi, Nothing
    <2> QED
      BY <1>3, <2>1, OaWrites
  <1>5. CASE ingress = "anthropic"
    BY <1>1, <1>5 DEF Written, WriteAnthropic, StopFrame, FrameOf, Just
  <1>4. CASE ingress \notin {"openai", "anthropic"}
    BY <1>1, <1>2, <1>4 DEF Written, WriteBedrock, WriteGemini, WriteCohere,
          WriteResponses, Spoken, Nothing
  <1> QED
    BY <1>3, <1>4, <1>5

LEMMA WritesError ==
    ASSUME ingress \in Spoken, NEW t, NEW e, e = Error
    PROVE  Written(t, e) = Just(ErrorFrame)
  <1>1. e.ev = "Error"
    BY DEF Error
  <1>2. BlockFrames(e) = Just(ErrorFrame)
    BY <1>1 DEF BlockFrames, ErrorFrame, FrameOf, Just
  <1>3. CASE ingress = "openai"
    <2>1. WriteOpenAi(e) = Just(ErrorFrame)
      BY <1>1, <1>2, <1>3 DEF WriteOpenAi
    <2>2. OnEgressChunk(ErrorFrame) = Just(ErrorFrame)
      <3>1. ErrorFrame.usage = NoUsage
        BY DEF ErrorFrame, FrameOf, Frame
      <3> QED
        BY <3>1, ChunkSame
    <2> QED
      BY <1>3, <2>1, <2>2, OaWrites
  <1>4. CASE ingress # "openai"
    BY <1>1, <1>2, <1>4 DEF Written, WriteAnthropic, WriteBedrock, WriteGemini, WriteCohere,
          WriteResponses, Spoken
  <1> QED
    BY <1>3, <1>4

-----------------------------------------------------------------------------
(* What the writers make of a delta of the message.                        *)
Both(x, y) == Just(x) \o Just(y)

\* The frames of the delta, dialect by dialect.
LEMMA WritesFinish ==
    ASSUME NEW t, NEW e, e.ev = "MessageDelta", e.stop, ingress \in Spoken,
           ingress \notin {"openai", "bedrock"}
    PROVE  Written(t, e) = Just(FinishOf(e.usage))
  BY DEF Written, WriteAnthropic, WriteGemini, WriteCohere, WriteResponses, Spoken, FinishOf, Just

LEMMA WritesLate ==
    ASSUME NEW t, NEW e, e.ev = "MessageDelta", ~ e.stop, ingress \in Spoken,
           ingress \notin {"openai", "bedrock"}
    PROVE  Written(t, e) = Just(FinishOf(e.usage)) \/ Written(t, e) = Just(UsageFrame(e.usage))
  BY DEF Written, WriteAnthropic, WriteGemini, WriteCohere, WriteResponses, Spoken, FinishOf,
         UsageFrame, Just

LEMMA BedrockWrites ==
    ASSUME NEW t, NEW e, e.ev = "MessageDelta", ingress = "bedrock"
    PROVE  /\ (e.stop => Written(t, e) = Just(FinishOf(NoUsage)))
           /\ (~ e.stop => Written(t, e) = Just(UsageFrame(e.usage)))
  BY DEF Written, WriteBedrock, FinishOf, UsageFrame, Just

LEMMA OpenAiFinishes ==
    ASSUME NEW t, NEW e, e.ev = "MessageDelta", e.stop, ingress = "openai",
           e.usage \in {Zero, Final}
    PROVE  /\ (e.usage = Final /\ includeUsage =>
                 Written(t, e) = Both(FinishOf(NoUsage), UsageFrame(Final)))
           /\ (~ (e.usage = Final /\ includeUsage) => Written(t, e) = Just(FinishOf(NoUsage)))
  <1>1. CASE e.usage = Zero
    <2>1. WriteOpenAi(e) = Just(FinishOf(NoUsage))
      BY <1>1 DEF WriteOpenAi, FinishOf, Just
    <2>2. FinishOf(NoUsage).usage = NoUsage
      BY DEF FinishOf, Frame
    <2>3. OnEgressChunk(FinishOf(NoUsage)) = Just(FinishOf(NoUsage))
      BY <2>2, ChunkSame
    <2>4. e.usage # Final
      BY <1>1, UsageIs
    <2> QED
      BY <2>1, <2>3, <2>4, OaWrites
  <1>2. CASE e.usage = Final
    <2> DEFINE y == FinishOf(Final)
    <2>0. e.usage # Zero /\ Final # NoUsage
      BY <1>2, UsageIs
    <2>1. WriteOpenAi(e) = Just(y)
      BY <1>2, <2>0 DEF WriteOpenAi, FinishOf, Just
    <2>2. y.f = "finish" /\ y.usage = Final
      BY DEF FinishOf, Frame
    <2>3. Written(t, e) = OnEgressChunk(y)
      BY <2>1, OaWrites
    <2> HIDE DEF y
    <2>4. CASE includeUsage
      BY <1>2, <2>0, <2>2, <2>3, <2>4 DEF OnEgressChunk, Both, Just, FinishOf, UsageFrame
    <2>5. CASE ~ includeUsage
      <3>1. Written(t, e) = <<Frame("finish", 0, NoUsage)>> \o <<>>
        BY <1>2, <2>0, <2>2, <2>3, <2>5 DEF OnEgressChunk
      <3>2. Written(t, e) = <<Frame("finish", 0, NoUsage)>>
        BY <3>1
      <3> QED
        BY <2>5, <3>2 DEF Just, FinishOf
    <2> QED
      BY <2>4, <2>5
  <1> QED
    BY <1>1, <1>2

LEMMA OpenAiUsage ==
    ASSUME NEW t, NEW e, e.ev = "MessageDelta", ~ e.stop, ingress = "openai"
    PROVE  /\ (e.usage # Zero => Written(t, e) = Just(UsageFrame(e.usage)))
           /\ (e.usage = Zero => Nothing(Written(t, e)))
  <1>1. CASE e.usage = Zero
    <2>1. Nothing(WriteOpenAi(e))
      BY <1>1 DEF WriteOpenAi, BlockFrames, Nothing
    <2> QED
      BY <1>1, <2>1, OaWrites
  <1>2. CASE e.usage # Zero
    <2>1. WriteOpenAi(e) = Just(UsageFrame(e.usage))
      BY <1>2 DEF WriteOpenAi, UsageFrame, Just
    <2>2. UsageFrame(e.usage).f # "finish"
      BY DEF UsageFrame, Frame
    <2>3. OnEgressChunk(UsageFrame(e.usage)) = Just(UsageFrame(e.usage))
      BY <2>2, ChunkSame
    <2> QED
      BY <1>2, <2>1, <2>3, OaWrites
  <1> QED
    BY <1>1, <1>2

-----------------------------------------------------------------------------
(* The blocks of the reader, of the translator and of the client agree.    *)
Translates == ingress \in Spoken /\ egress \in Spoken /\ ingress # egress

LEMMA EndsKept ==
    ASSUME NEW t, NEW g, NEW c, Ends(t, g, c), NEW s, NEW h, NEW v,
           t \in TrType, s \in TrType, c \in ClientType, v \in ClientType,
           TrLike(t, s), Same(g, h), Like(c, v)
    PROVE  Ends(s, h, v)
  <1>1. /\ (s.stopped <=> t.stopped) /\ (s.emitted <=> t.emitted) /\ (s.pending <=> t.pending)
        /\ s.pendingTerminal = t.pendingTerminal
    BY TrFields DEF TrLike
  <1>2. h.phase = g.phase /\ h.last = g.last
    BY DEF Same
  <1>3. v.finishes = c.finishes /\ v.usage = c.usage /\ (v.stopped <=> c.stopped)
    BY ClientFields DEF Like
  <1> QED
    BY <1>1, <1>2, <1>3 DEF Ends

\* While the reader is in the body the client has room.
LEMMA BodyRoom ==
    ASSUME NEW t, NEW g, NEW c, Ends(t, g, c), g.phase = "body"
    PROVE  Room(c) /\ ~ t.stopped
  BY DEF Ends, Room

\* Which blocks a writer keeps in its table.
LEMMA TracksIs ==
    ASSUME NEW t, NEW i, NEW k, NEW e, e = BlockStart(i, k), ingress \in Spoken, ingress # "responses"
    PROVE  Tracks(t, e) <=> Kept(<<i, k>>)
  <1>1. e.kind = k
    BY DEF BlockStart
  <1>2. <<i, k>>[2] = k
    OBVIOUS
  <1> QED
    BY <1>1, <1>2 DEF Tracks, Kept, Spoken

\* A block may open where the reader opens it.
LEMMA RoomToOpen ==
    ASSUME Translates, NEW t, NEW g, NEW c, Blocks(t, g, c), NEW k,
           k = "tool" \/ egress = "responses" \/ \A p \in g.open : p[2] # k
    PROVE  /\ (ingress = "responses" /\ k # "tool" => RsRoom(t, k))
           /\ \A i : Shows(t, k) <=> Shown(<<i, k>>)
  <1>1. ingress = "responses" /\ k # "tool" => RsRoom(t, k)
    <2> SUFFICES ASSUME ingress = "responses", k # "tool" PROVE RsRoom(t, k)
      OBVIOUS
    <2>1. t.items \subseteq g.open /\ egress # "responses"
      BY DEF Blocks, Translates
    <2>2. {b \in t.items : b[2] = k} = {}
      BY <2>1
    <2>3. Cardinality({}) = 0 /\ 0 < MaxOpenTools
      BY FS_EmptySet, KeysAssumption, ReadersAssumption
    <2> QED
      BY <2>2, <2>3 DEF RsRoom
  <1>2. ASSUME NEW i PROVE Shows(t, k) <=> Shown(<<i, k>>)
    <2>1. <<i, k>>[2] = k
      OBVIOUS
    <2> QED
      BY <1>1, <2>1 DEF Shows, Shown
  <1> QED
    BY <1>1, <1>2

ShownOf(S) == Idx({p \in S : Shown(p)})
KeptOf(S)  == {p \in S : Kept(p)}
With(S, i, k, R) == R = S \cup {<<i, k>>}
Without(S, i, R) == R = {p \in S : p[1] # i}

LEMMA IdxAdd ==
    ASSUME NEW S, NEW i, NEW k, NEW R, With(S, i, k, R)
    PROVE  /\ Idx(R) = Idx(S) \cup {i}
           /\ (Shown(<<i, k>>) => ShownOf(R) = ShownOf(S) \cup {i})
           /\ (~ Shown(<<i, k>>) => ShownOf(R) = ShownOf(S))
           /\ (Kept(<<i, k>>) => KeptOf(R) = KeptOf(S) \cup {<<i, k>>})
           /\ (~ Kept(<<i, k>>) => KeptOf(R) = KeptOf(S))
  <1>0. <<i, k>>[1] = i /\ R = S \cup {<<i, k>>}
    BY DEF With
  <1>1. Idx(R) = Idx(S) \cup {i}
    BY <1>0 DEF Idx
  <1>2. ASSUME Shown(<<i, k>>)
        PROVE  ShownOf(R) = ShownOf(S) \cup {i}
    <2>1. {p \in R : Shown(p)} = {p \in S : Shown(p)} \cup {<<i, k>>}
      BY <1>0, <1>2
    <2> QED
      BY <1>0, <2>1 DEF Idx, ShownOf
  <1>3. ~ Shown(<<i, k>>) => {p \in R : Shown(p)} = {p \in S : Shown(p)}
    BY <1>0
  <1>4. /\ (Kept(<<i, k>>) => KeptOf(R) = KeptOf(S) \cup {<<i, k>>})
        /\ (~ Kept(<<i, k>>) => KeptOf(R) = KeptOf(S))
    BY <1>0 DEF KeptOf
  <1> QED
    BY <1>1, <1>2, <1>3, <1>4 DEF ShownOf

LEMMA IdxLess ==
    ASSUME NEW S, NEW i, NEW R, Without(S, i, R)
    PROVE  /\ Idx(R) = Idx(S) \ {i}
           /\ ShownOf(R) = ShownOf(S) \ {i}
           /\ KeptOf(R) = {b \in KeptOf(S) : b[1] # i}
  <1>0. R = {p \in S : p[1] # i}
    BY DEF Without
  <1>1. Idx(R) = Idx(S) \ {i}
    BY <1>0 DEF Idx
  <1>2. {p \in R : Shown(p)} = {p \in {q \in S : Shown(q)} : p[1] # i}
    BY <1>0, Zenon
  <1>3. ASSUME NEW T PROVE Idx({p \in T : p[1] # i}) = Idx(T) \ {i}
    BY DEF Idx
  <1>4. KeptOf(R) = {b \in KeptOf(S) : b[1] # i}
    BY <1>0, Zenon DEF KeptOf
  <1> QED
    BY <1>1, <1>2, <1>3, <1>4 DEF ShownOf

\* Blocks, from what the dialect asks of it.
LEMMA BlocksAre ==
    ASSUME NEW t, NEW g, NEW c
    PROVE  Blocks(t, g, c) <=>
             /\ t.openBlocks = Idx(g.open)
             /\ (ingress # "responses" => t.items = KeptOf(g.open) /\ ~ t.missed)
             /\ (ingress = "responses" => t.items \subseteq g.open
                     /\ \A p \in g.open \ t.items : p[2] = "tool" /\ t.missed)
             /\ ShownOf(g.open) \subseteq c.open
             /\ (ingress # "openai" /\ ~ t.missed => c.open \subseteq ShownOf(g.open))
             /\ c.open \subseteq c.used /\ c.used \subseteq g.used
             /\ c.faults \cap {"reused", "stray", "late"} = {}
             /\ ("unclosed" \in c.faults => t.missed)
  BY DEF Blocks, ShownOf, KeptOf

-----------------------------------------------------------------------------
(* The events of a block, told to the translator.                          *)
Onward(c0, s, h) == \E v : OutOf(c0, s, v) /\ Sync(s, h, v)

\* Sync depends on the blocks, the ends and the failure only.
LEMMA SyncKept ==
    ASSUME NEW t, NEW g, NEW c, Sync(t, g, c), NEW s, NEW h, NEW v,
           t \in TrType, s \in TrType, c \in ClientType, v \in ClientType,
           TrLike(t, s), Same(g, h), Like(c, v), Blocks(s, h, v)
    PROVE  Sync(s, h, v)
  <1>1. Ends(s, h, v)
    BY EndsKept DEF Sync
  <1>2. (s.failed <=> t.failed) /\ v.errors = c.errors
    BY TrFields DEF TrLike, Like
  <1> QED
    BY <1>1, <1>2 DEF Sync

LEMMA AfterStart ==
    ASSUME NEW g \in Story, NEW i, NEW k, NEW e, e = BlockStart(i, k), NEW h, h = After(g, e)
    PROVE  h.open = g.open \cup {<<i, k>>} /\ h.used = g.used \cup {i} /\ Same(g, h)
  <1>1. e.ev = "BlockStart" /\ e.index = i /\ e.kind = k
    BY DEF BlockStart
  <1>2. h = [g EXCEPT !.open = @ \cup {<<i, k>>}, !.used = @ \cup {i}]
    BY <1>1 DEF After
  <1> QED
    BY <1>2 DEF Story, Same

LEMMA AfterClose ==
    ASSUME NEW g \in Story, NEW i, NEW e, e = BlockStop(i), NEW h, h = After(g, e)
    PROVE  h.open = {p \in g.open : p[1] # i} /\ h.used = g.used /\ Same(g, h)
  <1>1. e.ev = "BlockStop" /\ e.index = i
    BY DEF BlockStop
  <1>2. h = [g EXCEPT !.open = {p \in @ : p[1] # i}]
    BY <1>1 DEF After
  <1> QED
    BY <1>2 DEF Story, Same

\* Blocks is kept by a block that opens and by one that closes.
LEMMA BlocksOpen ==
    ASSUME Translates, NEW t, NEW g, NEW c, Blocks(t, g, c), Told(g),
           NEW i, NEW k, NEW e, e = BlockStart(i, k), i \notin g.used,
           NEW s, EmitBlocks(t, e, s),
           NEW h, With(g.open, i, k, h.open), h.used = g.used \cup {i},
           NEW v, v.faults = c.faults,
           Shown(<<i, k>>) => v.open = c.open \cup {i} /\ v.used = c.used \cup {i},
           ~ Shown(<<i, k>>) => v.open = c.open /\ v.used = c.used,
           ingress = "responses" /\ k # "tool" => RsRoom(t, k)
    PROVE  Blocks(s, h, v)
  <1>0. e.ev = "BlockStart" /\ e.index = i /\ e.kind = k
    BY DEF BlockStart
  <1>i. /\ Idx(h.open) = Idx(g.open) \cup {i}
        /\ (Shown(<<i, k>>) => ShownOf(h.open) = ShownOf(g.open) \cup {i})
        /\ (~ Shown(<<i, k>>) => ShownOf(h.open) = ShownOf(g.open))
        /\ (Kept(<<i, k>>) => KeptOf(h.open) = KeptOf(g.open) \cup {<<i, k>>})
        /\ (~ Kept(<<i, k>>) => KeptOf(h.open) = KeptOf(g.open))
    BY IdxAdd
  <1>1. s.openBlocks = Idx(h.open)
    BY <1>0, <1>i, BlocksAre DEF EmitBlocks
  <1>2. ingress # "responses" => s.items = KeptOf(h.open) /\ ~ s.missed
    <2> SUFFICES ASSUME ingress # "responses" PROVE s.items = KeptOf(h.open) /\ ~ s.missed
      OBVIOUS
    <2>1. t.items = KeptOf(g.open) /\ ~ t.missed
      BY BlocksAre
    <2>2. ~ s.missed
      BY <1>0, <2>1 DEF EmitBlocks
    <2>3. Tracks(t, e) <=> Kept(<<i, k>>)
      BY TracksIs DEF Translates
    <2>4. CASE Kept(<<i, k>>)
      BY <1>0, <2>1, <2>2, <2>3, <2>4, <1>i DEF EmitBlocks
    <2>5. CASE ~ Kept(<<i, k>>)
      BY <1>0, <2>1, <2>2, <2>3, <2>5, <1>i DEF EmitBlocks
    <2> QED
      BY <2>4, <2>5
  <1>3. ingress = "responses" => s.items \subseteq h.open
                                 /\ \A p \in h.open \ s.items : p[2] = "tool" /\ s.missed
    <2> SUFFICES ASSUME ingress = "responses"
                 PROVE  s.items \subseteq h.open
                        /\ \A p \in h.open \ s.items : p[2] = "tool" /\ s.missed
      OBVIOUS
    <2>1. t.items \subseteq g.open /\ \A p \in g.open \ t.items : p[2] = "tool" /\ t.missed
      BY BlocksAre
    <2>2. Tracks(t, e) <=> RsRoom(t, k)
      BY <1>0 DEF Tracks
    <2>3. CASE Tracks(t, e)
      <3>1. s.items = t.items \cup {<<i, k>>} /\ s.missed = t.missed
        BY <1>0, <2>3 DEF EmitBlocks
      <3> QED
        BY <2>1, <3>1 DEF With
    <2>4. CASE ~ Tracks(t, e)
      <3>1. k = "tool" /\ <<i, k>>[2] = k
        BY <2>2, <2>4
      <3>2. s.items = t.items /\ s.missed
        BY <1>0, <2>4, <3>1 DEF EmitBlocks
      <3> QED
        BY <2>1, <3>1, <3>2 DEF With
    <2> QED
      BY <2>3, <2>4
  <1>4. ShownOf(h.open) \subseteq v.open
    <2>1. ShownOf(g.open) \subseteq c.open
      BY BlocksAre
    <2>2. CASE Shown(<<i, k>>)
      BY <2>1, <2>2, <1>i
    <2>3. CASE ~ Shown(<<i, k>>)
      BY <2>1, <2>3, <1>i
    <2> QED
      BY <2>2, <2>3
  <1>5. ASSUME ingress # "openai", ~ s.missed PROVE v.open \subseteq ShownOf(h.open)
    <2>0. ~ t.missed
      BY <1>0, <1>5, BlocksAre DEF EmitBlocks
    <2>1. c.open \subseteq ShownOf(g.open)
      BY <1>5, <2>0, BlocksAre
    <2>2. CASE Shown(<<i, k>>)
      BY <2>1, <2>2, <1>i
    <2>3. CASE ~ Shown(<<i, k>>)
      BY <2>1, <2>3, <1>i
    <2> QED
      BY <2>2, <2>3
  <1>6. v.open \subseteq v.used /\ v.used \subseteq h.used
    BY BlocksAre
  <1>7. t.missed => s.missed
    BY <1>0 DEF EmitBlocks
  <1> QED
    BY <1>1, <1>2, <1>3, <1>4, <1>5, <1>6, <1>7, BlocksAre

LEMMA BlocksClose ==
    ASSUME Translates, NEW t, NEW g, NEW c, Blocks(t, g, c), Told(g),
           NEW i, NEW e, e = BlockStop(i), i \in Idx(g.open),
           NEW s, EmitBlocks(t, e, s),
           NEW h, Without(g.open, i, h.open), h.used = g.used,
           NEW v, v.faults = c.faults, v.used = c.used,
           Closes(t, i) => v.open = c.open \ {i},
           ~ Closes(t, i) => v.open = c.open
    PROVE  Blocks(s, h, v)
  <1>0. e.ev = "BlockStop" /\ e.index = i
    BY DEF BlockStop
  <1>i. /\ Idx(h.open) = Idx(g.open) \ {i}
        /\ ShownOf(h.open) = ShownOf(g.open) \ {i}
        /\ KeptOf(h.open) = {b \in KeptOf(g.open) : b[1] # i}
    BY IdxLess
  <1>j. h.open = {p \in g.open : p[1] # i}
    BY DEF Without
  <1>9. /\ s.openBlocks = t.openBlocks \ {i} /\ s.items = {b \in t.items : b[1] # i}
        /\ s.missed = t.missed
    BY <1>0 DEF EmitBlocks
  <1>1. s.openBlocks = Idx(h.open)
    BY <1>9, <1>i, BlocksAre
  <1>2. ingress # "responses" => s.items = KeptOf(h.open) /\ ~ s.missed
    BY <1>9, <1>i, BlocksAre
  <1>3. ingress = "responses" => s.items \subseteq h.open
                                 /\ \A p \in h.open \ s.items : p[2] = "tool" /\ s.missed
    BY <1>9, <1>j, BlocksAre
  <1>4. ShownOf(h.open) \subseteq v.open
    BY <1>i, BlocksAre
  <1>5. ASSUME ingress # "openai", ~ s.missed PROVE v.open \subseteq ShownOf(h.open)
    <2>0. ~ t.missed
      BY <1>5, <1>9
    <2>1. c.open \subseteq ShownOf(g.open)
      BY <1>5, <2>0, BlocksAre
    <2>2. CASE Closes(t, i)
      BY <2>1, <2>2, <1>i
    <2>3. CASE ~ Closes(t, i)
      <3>1. i \notin ShownOf(g.open)
        <4> SUFFICES ASSUME NEW p \in g.open, Shown(p), p[1] = i PROVE FALSE
          BY DEF Idx, ShownOf
        <4>1. ingress # "anthropic" /\ ingress # "gemini" /\ ingress \in {"bedrock", "cohere", "responses"}
          BY <1>5, <2>3 DEF Closes, Translates, Spoken, Shown
        <4>2. p \in t.items
          <5>1. CASE ingress = "responses"
            BY <2>0, <5>1, BlocksAre
          <5>2. CASE ingress \in {"bedrock", "cohere"}
            <6>1. Kept(p)
              BY <5>2 DEF Kept, Shown
            <6> QED
              BY <5>2, <6>1, BlocksAre DEF KeptOf
          <5> QED
            BY <4>1, <5>1, <5>2
        <4>3. Tracked(t, i)
          BY <4>2 DEF Tracked
        <4> QED
          BY <2>3, <4>1, <4>3 DEF Closes
      <3> QED
        BY <2>1, <2>3, <3>1, <1>i
    <2> QED
      BY <2>2, <2>3
  <1>6. v.open \subseteq v.used /\ v.used \subseteq h.used
    BY BlocksAre
  <1> QED
    BY <1>1, <1>2, <1>3, <1>4, <1>5, <1>6, <1>9, BlocksAre

-----------------------------------------------------------------------------
(* One event of a block.                                                   *)
LEMMA StartOnward ==
    ASSUME Translates, NEW c0, NEW t, NEW g, NEW c, Told(g), OutOf(c0, t, c), Sync(t, g, c),
           NEW i \in Int, NEW k \in Kinds, NEW e, e = BlockStart(i, k), Allowed(g, e),
           NEW s, s = Emit(t, e), NEW h, h = After(g, e)
    PROVE  TrLike(t, s) /\ Onward(c0, s, h)
  <1>0. e.ev = "BlockStart" /\ e.index = i /\ e.kind = k /\ e \in Event
    BY DEF BlockStart, Event
  <1>1. /\ g.phase = "body" /\ i \notin g.used
        /\ k = "tool" \/ egress = "responses" \/ \A p \in g.open : p[2] # k
    BY <1>0 DEF Allowed
  <1>2. /\ t \in TrType /\ c \in ClientType /\ Blocks(t, g, c) /\ Ends(t, g, c) /\ g \in Story
        /\ ingress \in Spoken
    BY DEF OutOf, Sync, Told, Translates
  <1>3. Room(c)
    BY <1>1, <1>2, BodyRoom
  <1>4. /\ (ingress = "responses" /\ k # "tool" => RsRoom(t, k))
        /\ Shows(t, k) <=> Shown(<<i, k>>)
    BY <1>1, <1>2, RoomToOpen
  <1>5. h.open = g.open \cup {<<i, k>>} /\ h.used = g.used \cup {i} /\ Same(g, h)
    BY <1>2, AfterStart
  <1>6. With(g.open, i, k, h.open)
    BY <1>5 DEF With
  <1>7. CASE Shown(<<i, k>>)
    <2> DEFINE x == FrameOf("open", i)
               v == See(c, x)
    <2>1. x \in FrameType
      BY FramesAre, UsageIs DEF FrameNames, Tokens
    <2>2. Written(t, e) = Just(x)
      BY <1>2, <1>4, <1>7, WritesOpen
    <2>3. /\ v \in ClientType /\ Like(c, v) /\ v.open = c.open \cup {i} /\ v.used = c.used \cup {i}
          /\ (i \notin c.used /\ Room(c) => v.faults = c.faults)
      BY <1>2, SeeOpen
    <2>4. i \notin c.used
      BY <1>1, <1>2 DEF Blocks
    <2>w. v = See(c, x)
      OBVIOUS
    <2> HIDE DEF x, v
    <2>5. OutOf(c0, s, v) /\ TrLike(t, s) /\ EmitBlocks(t, e, s)
      BY <1>0, <2>1, <2>2, <2>3, <2>w, EmitOne
    <2>6. v.faults = c.faults
      BY <1>3, <2>3, <2>4
    <2>10. /\ (Shown(<<i, k>>) => v.open = c.open \cup {i} /\ v.used = c.used \cup {i})
           /\ (~ Shown(<<i, k>>) => v.open = c.open /\ v.used = c.used)
           /\ i \notin g.used /\ Blocks(t, g, c) /\ h.used = g.used \cup {i}
           /\ (ingress = "responses" /\ k # "tool" => RsRoom(t, k))
           /\ EmitBlocks(t, e, s)
      BY <1>1, <1>2, <1>4, <1>5, <1>7, <2>3, <2>5
    <2>7. Blocks(s, h, v)
      BY <1>6, <2>6, <2>10, BlocksOpen
    <2>8. s \in TrType
      BY <2>5 DEF OutOf
    <2>9. Sync(s, h, v)
      BY <1>2, <1>5, <2>3, <2>5, <2>7, <2>8, SyncKept
    <2> QED
      BY <2>5, <2>9 DEF Onward
  <1>8. CASE ~ Shown(<<i, k>>)
    <2>2. Nothing(Written(t, e))
      BY <1>2, <1>4, <1>8, WritesOpen
    <2>5. OutOf(c0, s, c) /\ TrLike(t, s) /\ EmitBlocks(t, e, s)
      BY <1>0, <2>2, EmitNone
    <2>7. Blocks(s, h, c)
      BY <1>1, <1>2, <1>4, <1>5, <1>6, <1>8, <2>5, BlocksOpen
    <2>8. s \in TrType /\ Like(c, c)
      BY <2>5 DEF OutOf, Like
    <2>9. Sync(s, h, c)
      BY <1>2, <1>5, <2>5, <2>7, <2>8, SyncKept
    <2> QED
      BY <2>5, <2>9 DEF Onward
  <1> QED
    BY <1>7, <1>8

\* A close that is told goes on with Sync.
LEMMA CloseOnward ==
    ASSUME Translates, NEW c0, NEW t, NEW g, NEW c, Told(g), OutOf(c0, t, c), Sync(t, g, c),
           NEW i \in Int, NEW e, e = BlockStop(i), Allowed(g, e),
           NEW s, s = Emit(t, e), NEW h, h = After(g, e)
    PROVE  TrLike(t, s) /\ Onward(c0, s, h)
  <1>0. e.ev = "BlockStop" /\ e.index = i /\ e \in Event
    BY DEF BlockStop, Event
  <1>1. g.phase = "body" /\ i \in Idx(g.open)
    BY <1>0 DEF Allowed
  <1>2. /\ t \in TrType /\ c \in ClientType /\ Blocks(t, g, c) /\ Ends(t, g, c) /\ g \in Story
        /\ ingress \in Spoken
    BY DEF OutOf, Sync, Told, Translates
  <1>3. Room(c)
    BY <1>1, <1>2, BodyRoom
  <1>5. h.open = {p \in g.open : p[1] # i} /\ h.used = g.used /\ Same(g, h)
    BY <1>2, AfterClose
  <1>6. Without(g.open, i, h.open)
    BY <1>5 DEF Without
  <1>7. CASE Closes(t, i)
    <2> DEFINE x == FrameOf("close", i)
               v == See(c, x)
    <2>1. x \in FrameType
      BY FramesAre, UsageIs DEF FrameNames, Tokens
    <2>2. Written(t, e) = Just(x)
      BY <1>2, <1>7, WritesClose
    <2>3. /\ v \in ClientType /\ Like(c, v) /\ v.open = c.open \ {i} /\ v.used = c.used
          /\ (i \in c.open /\ Room(c) => v.faults = c.faults)
      BY <1>2, SeeClose
    <2>4. i \in c.open
      <3>1. PICK p \in g.open : p[1] = i
        BY <1>1 DEF Idx
      <3>2. CASE ingress \in {"anthropic", "bedrock", "responses"}
        <4>1. Shown(p)
          BY <3>2 DEF Shown
        <4> QED
          BY <1>2, <3>1, <4>1 DEF Blocks, Idx
      <3>3. CASE ingress = "cohere"
        <4>1. PICK b \in t.items : b[1] = i
          BY <1>7, <3>3 DEF Closes, Tracked
        <4>2. b \in g.open /\ Kept(b)
          BY <1>2, <3>3 DEF Blocks
        <4>3. Shown(b)
          BY <3>3, <4>2 DEF Shown, Kept
        <4> QED
          BY <1>2, <4>1, <4>2, <4>3 DEF Blocks, Idx
      <3> QED
        BY <1>7, <3>2, <3>3 DEF Closes
    <2>w. v = See(c, x)
      OBVIOUS
    <2> HIDE DEF x, v
    <2>5. OutOf(c0, s, v) /\ TrLike(t, s) /\ EmitBlocks(t, e, s)
      BY <1>0, <2>1, <2>2, <2>3, <2>w, EmitOne
    <2>6. v.faults = c.faults
      BY <1>3, <2>3, <2>4
    <2>7. Blocks(s, h, v)
      BY <1>1, <1>2, <1>5, <1>6, <1>7, <2>3, <2>5, <2>6, BlocksClose
    <2>8. s \in TrType
      BY <2>5 DEF OutOf
    <2>9. Sync(s, h, v)
      BY <1>2, <1>5, <2>3, <2>5, <2>7, <2>8, SyncKept
    <2> QED
      BY <2>5, <2>9 DEF Onward
  <1>8. CASE ~ Closes(t, i) /\ Nothing(Written(t, e))
    <2>5. OutOf(c0, s, c) /\ TrLike(t, s) /\ EmitBlocks(t, e, s)
      BY <1>0, <1>8, EmitNone
    <2>7. Blocks(s, h, c)
      BY <1>1, <1>2, <1>5, <1>6, <1>8, <2>5, BlocksClose
    <2>8. s \in TrType /\ Like(c, c)
      BY <2>5 DEF OutOf, Like
    <2>9. Sync(s, h, c)
      BY <1>2, <1>5, <2>5, <2>7, <2>8, SyncKept
    <2> QED
      BY <2>5, <2>9 DEF Onward
  <1>9. CASE ~ Closes(t, i) /\ Written(t, e) = Just(FrameOf("part", i))
    <2> DEFINE x == FrameOf("part", i)
               v == See(c, x)
    <2>1. x \in FrameType
      BY FramesAre, UsageIs DEF FrameNames, Tokens
    <2>3. /\ v \in ClientType /\ Like(c, v) /\ v.open = c.open /\ v.used = c.used
          /\ (Room(c) => v.faults = c.faults)
      BY <1>2, SeePart
    <2>w. v = See(c, x) /\ Written(t, e) = Just(x)
      BY <1>9
    <2> HIDE DEF x, v
    <2>5. OutOf(c0, s, v) /\ TrLike(t, s) /\ EmitBlocks(t, e, s)
      BY <1>0, <2>1, <2>3, <2>w, EmitOne
    <2>7. Blocks(s, h, v)
      BY <1>1, <1>2, <1>3, <1>5, <1>6, <1>9, <2>3, <2>5, BlocksClose
    <2>8. s \in TrType
      BY <2>5 DEF OutOf
    <2>9. Sync(s, h, v)
      BY <1>2, <1>5, <2>3, <2>5, <2>7, <2>8, SyncKept
    <2> QED
      BY <2>5, <2>9 DEF Onward
  <1>10. Closes(t, i) \/ Nothing(Written(t, e)) \/ Written(t, e) = Just(FrameOf("part", i))
    BY <1>2, WritesClose
  <1> QED
    BY <1>7, <1>8, <1>9, <1>10

-----------------------------------------------------------------------------
(* translate_event on the events of a block, on the start of the message   *)
(* and on an error.                                                        *)
Tracking(c0, t, g) == Onward(c0, t, g) /\ Usages(t, g)

LEMMA BlocksSame ==
    ASSUME NEW t, NEW g, NEW c, Blocks(t, g, c), NEW s, NEW h, NEW v,
           SameBlocks(t, s), h.open = g.open, h.used = g.used,
           v.open = c.open, v.used = c.used, v.faults = c.faults
    PROVE  Blocks(s, h, v)
  BY DEF Blocks, SameBlocks

LEMMA UsagesKept ==
    ASSUME NEW t, NEW g, NEW s, NEW h, Usages(t, g), TrLike(t, s), Same(g, h)
    PROVE  Usages(s, h)
  BY DEF Usages, TrLike, Same

LEMMA SameSame ==
    ASSUME NEW g PROVE Same(g, g)
  BY DEF Same

LEMMA DeltaOnward ==
    ASSUME Translates, NEW c0, NEW t, NEW g, NEW c, Told(g), OutOf(c0, t, c), Sync(t, g, c),
           NEW i \in Int, NEW k \in Kinds, NEW e, e = BlockDelta(i, k), Allowed(g, e),
           NEW s, s = Emit(t, e)
    PROVE  TrLike(t, s) /\ Onward(c0, s, g)
  <1>0. e.ev = "BlockDelta" /\ e.index = i /\ e.kind = k /\ e \in Event
    BY DEF BlockDelta, Event
  <1>1. g.phase = "body" /\ <<i, k>> \in g.open
    BY <1>0 DEF Allowed
  <1>2. /\ t \in TrType /\ c \in ClientType /\ Blocks(t, g, c) /\ Ends(t, g, c) /\ g \in Story
        /\ ingress \in Spoken
    BY DEF OutOf, Sync, Told, Translates
  <1>3. Room(c) /\ Same(g, g)
    BY <1>1, <1>2, BodyRoom, SameSame
  <1>4. ASSUME NEW x \in FrameType, Written(t, e) = Just(x), NEW v, v = See(c, x), v \in ClientType,
               Like(c, v), v.open = c.open, v.used = c.used, v.faults = c.faults
        PROVE  TrLike(t, s) /\ Onward(c0, s, g)
    <2>5. OutOf(c0, s, v) /\ TrLike(t, s) /\ EmitBlocks(t, e, s)
      BY <1>0, <1>4, EmitOne
    <2>6. SameBlocks(t, s)
      BY <1>0, <2>5 DEF EmitBlocks
    <2>7. Blocks(s, g, v)
      BY <1>2, <1>4, <2>6, BlocksSame
    <2>8. s \in TrType
      BY <2>5 DEF OutOf
    <2>9. Sync(s, g, v)
      BY <1>2, <1>3, <1>4, <2>5, <2>7, <2>8, SyncKept
    <2> QED
      BY <2>5, <2>9 DEF Onward
  <1>5. CASE Nothing(Written(t, e))
    <2>5. OutOf(c0, s, c) /\ TrLike(t, s) /\ EmitBlocks(t, e, s)
      BY <1>0, <1>5, EmitNone
    <2>6. SameBlocks(t, s)
      BY <1>0, <2>5 DEF EmitBlocks
    <2>7. Blocks(s, g, c)
      BY <1>2, <2>6, BlocksSame
    <2>8. s \in TrType /\ Like(c, c)
      BY <2>5 DEF OutOf, Like
    <2>9. Sync(s, g, c)
      BY <1>2, <1>3, <2>5, <2>7, <2>8, SyncKept
    <2> QED
      BY <2>5, <2>9 DEF Onward
  <1>6. CASE Written(t, e) = Just(FrameOf("part", i))
    <2> DEFINE x == FrameOf("part", i)
               v == See(c, x)
    <2>1. x \in FrameType
      BY FramesAre, UsageIs DEF FrameNames, Tokens
    <2>3. /\ v \in ClientType /\ Like(c, v) /\ v.open = c.open /\ v.used = c.used
          /\ v.faults = c.faults
      BY <1>2, <1>3, SeePart
    <2> QED
      BY <1>4, <1>6, <2>1, <2>3
  <1>7. CASE Written(t, e) = Just(FrameOf("delta", i)) /\ Shown(<<i, k>>)
    <2> DEFINE x == FrameOf("delta", i)
               v == See(c, x)
    <2>1. x \in FrameType
      BY FramesAre, UsageIs DEF FrameNames, Tokens
    <2>2. i \in c.open
      <3>1. <<i, k>>[1] = i
        OBVIOUS
      <3> QED
        BY <1>1, <1>2, <1>7, <3>1 DEF Blocks, Idx
    <2>3. /\ v \in ClientType /\ Like(c, v) /\ v.open = c.open /\ v.used = c.used
          /\ v.faults = c.faults
      BY <1>2, <1>3, <2>2, SeeDelta
    <2> QED
      BY <1>4, <1>7, <2>1, <2>3
  <1> QED
    BY <1>2, <1>5, <1>6, <1>7, WritesDelta

\* translate_event on the start, the delta and the stop of a block.
LEMMA TranslateBlock ==
    ASSUME NEW t, NEW e, e.ev \in {"BlockStart", "BlockDelta", "BlockStop"}
    PROVE  TranslateEvent(t, e) = Emit(t, e)
  BY DEF TranslateEvent, Tap, Folds, Guarded

LEMMA TranslateStart ==
    ASSUME Translates, NEW c0, NEW t, NEW g, Told(g), Tracking(c0, t, g),
           NEW i \in Int, NEW k \in Kinds, NEW e, e = BlockStart(i, k), Allowed(g, e),
           NEW s, s = TranslateEvent(t, e), NEW h, h = After(g, e)
    PROVE  Tracking(c0, s, h)
  <1>1. PICK c : OutOf(c0, t, c) /\ Sync(t, g, c)
    BY DEF Tracking, Onward
  <1>2. s = Emit(t, e)
    BY TranslateBlock DEF BlockStart
  <1>3. TrLike(t, s) /\ Onward(c0, s, h)
    BY <1>1, <1>2, StartOnward
  <1>4. Same(g, h)
    BY AfterStart DEF Told
  <1> QED
    BY <1>3, <1>4, UsagesKept DEF Tracking

LEMMA TranslateClose ==
    ASSUME Translates, NEW c0, NEW t, NEW g, Told(g), Tracking(c0, t, g),
           NEW i \in Int, NEW e, e = BlockStop(i), Allowed(g, e),
           NEW s, s = TranslateEvent(t, e), NEW h, h = After(g, e)
    PROVE  Tracking(c0, s, h)
  <1>1. PICK c : OutOf(c0, t, c) /\ Sync(t, g, c)
    BY DEF Tracking, Onward
  <1>2. s = Emit(t, e)
    BY TranslateBlock DEF BlockStop
  <1>3. TrLike(t, s) /\ Onward(c0, s, h)
    BY <1>1, <1>2, CloseOnward
  <1>4. Same(g, h)
    BY AfterClose DEF Told
  <1> QED
    BY <1>3, <1>4, UsagesKept DEF Tracking

LEMMA TranslateDelta ==
    ASSUME Translates, NEW c0, NEW t, NEW g, Told(g), Tracking(c0, t, g),
           NEW i \in Int, NEW k \in Kinds, NEW e, e = BlockDelta(i, k), Allowed(g, e),
           NEW s, s = TranslateEvent(t, e), NEW h, h = After(g, e)
    PROVE  Tracking(c0, s, h)
  <1>1. PICK c : OutOf(c0, t, c) /\ Sync(t, g, c)
    BY DEF Tracking, Onward
  <1>2. s = Emit(t, e) /\ h = g
    BY TranslateBlock DEF BlockDelta, After
  <1>3. TrLike(t, s) /\ Onward(c0, s, g)
    BY <1>1, <1>2, DeltaOnward
  <1> QED
    BY <1>2, <1>3, SameSame, UsagesKept DEF Tracking

-----------------------------------------------------------------------------
(* close_open_blocks                                                       *)
LEMMA Upward ==
    ASSUME NEW N \in Nat, NEW T, 0 \in T, \A m \in 0 .. (N - 1) : m \in T => m + 1 \in T
    PROVE  N \in T
  <1> DEFINE R == {m \in 0 .. N : m \notin T}
  <1>1. R = {}
    <2> SUFFICES ASSUME R # {} PROVE FALSE
      OBVIOUS
    <2>0. R \subseteq Nat
      OBVIOUS
    <2> HIDE DEF R
    <2>1. PICK m \in R : \A x \in R : m <= x
      BY <2>0, LeastIn
    <2> USE DEF R
    <2>2. m # 0
      BY <2>1
    <2> DEFINE j == m - 1
    <2>3. j \in 0 .. (N - 1) /\ j \in 0 .. N /\ ~ (m <= j) /\ j + 1 = m
      BY <2>1, <2>2
    <2> HIDE DEF j
    <2>4. j \in T
      BY <2>1, <2>3
    <2> QED
      BY <2>1, <2>3, <2>4
  <1> QED
    BY <1>1

LEMMA TrLikeTrans ==
    ASSUME NEW t, NEW s, NEW r, TrLike(t, s), TrLike(s, r)
    PROVE  TrLike(t, r)
  BY DEF TrLike

StopsOf(q) == [n \in 1 .. Len(q) |-> BlockStop(q[n])]

\* The blocks are closed one after the other, in the order of their indices.
LEMMA ClosesFold ==
    ASSUME Translates, NEW c0, NEW t, NEW g, NEW h, Onward(c0, t, g),
           NEW q, q \in Seq(Int), Legal(g, StopsOf(q), h),
           NEW s, s = FoldLeft(Emit, t, StopsOf(q))
    PROVE  TrLike(t, s) /\ Onward(c0, s, h)
  <1> DEFINE w == StopsOf(q)
             N == Len(q)
             k == "emit"
             F(m) == FoldTo(k, t, w, m)
  <1>0. /\ N \in Nat /\ Len(w) = N /\ DOMAIN w = 1 .. N
        /\ \A m \in 1 .. N : w[m] = BlockStop(q[m]) /\ q[m] \in Int
    BY DEF StopsOf
  <1>1. PICK r : /\ r[0] = g /\ r[N] = h /\ \A i \in 0 .. N : Told(r[i])
                 /\ \A i \in 1 .. N : Allowed(r[i - 1], w[i]) /\ r[i] = After(r[i - 1], w[i])
    BY <1>0 DEF Legal
  <1>2. s = F(N)
    BY <1>0, EmitFold
  <1>3. \A x, y : Do(k, x, y) = Emit(x, y)
    BY DEF Do
  <1> HIDE DEF w, N, k
  <1> DEFINE T == {m \in 0 .. N : TrLike(t, F(m)) /\ Onward(c0, F(m), r[m])}
  <1>4. 0 \in T
    <2>1. F(0) = t
      BY FoldZero
    <2>2. TrLike(t, t)
      BY DEF TrLike
    <2> QED
      BY <1>0, <1>1, <2>1, <2>2
  <1>5. ASSUME NEW m \in 0 .. (N - 1), m \in T PROVE m + 1 \in T
    <2> DEFINE x == F(m)
               y == F(m + 1)
               i == q[m + 1]
               a == r[m]
    <2>0. m \in Nat /\ m + 1 \in 1 .. N /\ m \in 0 .. N /\ (m + 1) - 1 = m /\ m + 1 \in 0 .. N
      BY <1>0
    <2>1. TrLike(t, x) /\ Onward(c0, x, a)
      BY <1>5
    <2>2. PICK c : OutOf(c0, x, c) /\ Sync(x, a, c)
      BY <2>1 DEF Onward
    <2>3. y = Emit(x, w[m + 1])
      BY <1>3, <2>0, FoldNext
    <2>4. w[m + 1] = BlockStop(i) /\ i \in Int
      BY <1>0, <2>0
    <2>5. Told(a) /\ Allowed(a, w[m + 1]) /\ r[m + 1] = After(a, w[m + 1])
      BY <1>1, <2>0
    <2> DEFINE e == w[m + 1]
               b == r[m + 1]
    <2>6. e = BlockStop(i) /\ Allowed(a, e) /\ y = Emit(x, e) /\ b = After(a, e)
      BY <2>3, <2>4, <2>5
    <2> HIDE DEF x, y, i, a, e, b
    <2>7. TrLike(x, y) /\ Onward(c0, y, b)
      BY <2>2, <2>4, <2>5, <2>6, CloseOnward
    <2>8. TrLike(t, y)
      BY <2>1, <2>7, TrLikeTrans
    <2>9. m + 1 \in T
      BY <2>0, <2>7, <2>8 DEF y, b
    <2> QED
      BY <2>9
  <1>6. N \in T
    <2> HIDE DEF T
    <2> QED
      BY <1>0, <1>4, <1>5, Upward
  <1> QED
    BY <1>1, <1>2, <1>6

LEMMA CloseOpenBlocksIs ==
    ASSUME NEW t, NEW q, q = Ascending(t.openBlocks)
    PROVE  CloseOpenBlocks(t) = FoldLeft(Emit, t, StopsOf(q))
  BY DEF CloseOpenBlocks, StopsOf

Bare(g, h) == Told(h) /\ h.open = {} /\ h.used = g.used /\ Same(g, h)

\* After close_open_blocks nothing is open.
LEMMA ClosesAll ==
    ASSUME Translates, NEW c0, NEW t, NEW g, Told(g), Onward(c0, t, g),
           NEW s, s = CloseOpenBlocks(t)
    PROVE  TrLike(t, s) /\ \E h : Bare(g, h) /\ Onward(c0, s, h)
  <1> DEFINE S == t.openBlocks
             q == Ascending(S)
  <1>1. PICK c : OutOf(c0, t, c) /\ Sync(t, g, c)
    BY DEF Onward
  <1>2. S = Idx(g.open) /\ g.open \subseteq Int \X Kinds
    BY <1>1, StoryFields DEF Sync, Blocks, Told
  <1>3. S \subseteq Int /\ IsFiniteSet(S)
    <2>1. S \subseteq Int
      BY <1>2 DEF Idx
    <2>2. S \subseteq g.used /\ IsFiniteSet(g.used)
      BY <1>2 DEF Told
    <2> HIDE DEF S
    <2> QED
      BY <2>1, <2>2, FS_Subset
  <1>4. s = FoldLeft(Emit, t, StopsOf(q))
    BY CloseOpenBlocksIs
  <1> HIDE DEF S
  <1>5. /\ Cardinality(S) \in Nat /\ q \in Seq(S) /\ Len(q) = Cardinality(S)
        /\ \A m, n \in 1 .. Cardinality(S) : q[m] = q[n] => m = n
        /\ \A x \in S : \E n \in 1 .. Cardinality(S) : q[n] = x
    BY <1>3, AscendingLists
  <1> HIDE DEF q
  <1>6. /\ q \in Seq(Int) /\ \A n \in 1 .. Len(q) : q[n] \in S
        /\ \A m, n \in 1 .. Len(q) : q[m] = q[n] => m = n
    <2>1. \A n \in 1 .. Len(q) : q[n] \in S
      BY <1>5
    <2>2. q \in Seq(Int)
      <3>1. \A n \in 1 .. Len(q) : q[n] \in Int
        BY <1>3, <2>1
      <3>2. Len(q) \in Nat /\ q = [n \in 1 .. Len(q) |-> q[n]]
        BY <1>5
      <3> QED
        BY <3>1, <3>2
    <2> QED
      BY <1>5, <2>1, <2>2
  <1>7. CASE g.phase = "body"
    <2>1. PICK h : /\ Legal(g, StopsOf(q), h)
                   /\ h.open = {p \in g.open : \A n \in 1 .. Len(q) : p[1] # q[n]}
                   /\ h.used = g.used /\ Same(g, h)
      BY <1>2, <1>6, <1>7, TellStops DEF StopsOf
    <2>2. h.open = {}
      <3> SUFFICES ASSUME NEW p \in h.open PROVE FALSE
        OBVIOUS
      <3>1. p \in g.open /\ \A n \in 1 .. Len(q) : p[1] # q[n]
        BY <2>1
      <3>2. p[1] \in S
        BY <1>2, <3>1 DEF Idx
      <3> QED
        BY <1>5, <3>1, <3>2
    <2>3. Told(h)
      BY <2>1, LegalEnds
    <2>4. TrLike(t, s) /\ Onward(c0, s, h)
      BY <1>4, <1>6, <2>1, ClosesFold
    <2> QED
      BY <2>1, <2>2, <2>3, <2>4 DEF Bare
  <1>8. CASE g.phase # "body"
    <2>1. g.open = {} /\ S = {}
      BY <1>2, <1>8 DEF Told, Idx
    <2>2. Cardinality(S) = 0
      BY <2>1, FS_EmptySet
    <2>3. q = <<>>
      BY <1>5, <2>2
    <2>4. StopsOf(q) = <<>>
      BY <2>3 DEF StopsOf
    <2>5. Legal(g, StopsOf(q), g)
      BY <2>4, LegalNone
    <2>6. TrLike(t, s) /\ Onward(c0, s, g)
      BY <1>4, <1>6, <2>5, ClosesFold
    <2> QED
      BY <2>1, <2>6, SameSame DEF Bare
  <1> QED
    BY <1>7, <1>8

-----------------------------------------------------------------------------
(* translate_event on the start of the message, on an error and on the     *)
(* message's stop.                                                         *)
LEMMA SameBlocksAgain ==
    ASSUME NEW t, NEW s, NEW r, SameBlocks(t, s), SameBlocks(s, r)
    PROVE  SameBlocks(t, r)
  BY DEF SameBlocks

\* translate_event on message_start: the usage of the start is kept.
LEMMA TranslateBegin ==
    ASSUME Translates, NEW c0, NEW t, NEW g, Told(g), Tracking(c0, t, g),
           NEW u \in {NoUsage, Begun}, NEW e, e = MessageStart(u), Allowed(g, e),
           NEW s, s = TranslateEvent(t, e), NEW h, h = After(g, e)
    PROVE  Tracking(c0, s, h)
  <1>1. PICK c : OutOf(c0, t, c) /\ Sync(t, g, c)
    BY DEF Tracking, Onward
  <1>2. e.ev = "MessageStart" /\ e.usage = u /\ e \in Event
    BY DEF MessageStart, Event
  <1>3. t \in TrType /\ c \in ClientType /\ g \in Story /\ c = Seen(c0, t.wire)
    BY <1>1 DEF OutOf, Told
  <1> DEFINE v == IF u = NoUsage THEN t.startUsage ELSE u
             r == [t EXCEPT !.startUsage = v]
             w == IF u = NoUsage THEN g.start ELSE u
  <1>4. v \in Tokens
    BY <1>3, TrFields, UsageIs DEF Tokens
  <1>5. s = Emit(r, e)
    <2>1. Tap(t, e) = r
      <3>1. u = NoUsage => t = r
        BY <1>3 DEF TrType
      <3> QED
        BY <1>2, <3>1 DEF Tap
    <2> QED
      BY <1>2, <2>1 DEF TranslateEvent, Folds, Guarded
  <1>6. h = [g EXCEPT !.start = w]
    BY <1>2 DEF After
  <1>7. w = v
    BY DEF Tracking, Usages
  <1> HIDE DEF v, w
  <1>8. /\ r \in TrType /\ SameBlocks(t, r) /\ r.wire = t.wire /\ r.startUsage = v
        /\ r.lastUsage = t.lastUsage /\ r.failed = t.failed /\ r.stopped = t.stopped
        /\ r.pendingTerminal = t.pendingTerminal /\ r.emitted = t.emitted /\ r.pending = t.pending
    BY <1>3, <1>4 DEF TrType, SameBlocks
  <1>9. h.open = g.open /\ h.used = g.used /\ h.phase = g.phase /\ h.last = g.last /\ h.start = w
    BY <1>3, <1>6 DEF Story
  <1>r. s = Emit(r, e)
    BY <1>5
  <1> HIDE DEF r
  <1>10. OutOf(c0, r, c)
    BY <1>3, <1>8 DEF OutOf
  <1>11. Nothing(Written(r, e))
    BY WritesStart DEF Translates
  <1>12. OutOf(c0, s, c) /\ TrLike(r, s) /\ EmitBlocks(r, e, s)
    BY <1>2, <1>10, <1>11, <1>r, EmitNone
  <1>13. SameBlocks(t, s)
    BY <1>2, <1>8, <1>12, SameBlocksAgain DEF EmitBlocks
  <1>14. Blocks(s, h, c)
    BY <1>1, <1>9, <1>13, BlocksSame DEF Sync
  <1>15. /\ s.pendingTerminal = t.pendingTerminal /\ (s.stopped <=> t.stopped)
         /\ (s.emitted <=> t.emitted) /\ (s.pending <=> t.pending) /\ (s.failed <=> t.failed)
         /\ s.startUsage = v /\ s.lastUsage = t.lastUsage
    BY <1>8, <1>12 DEF TrLike
  <1>16. Ends(s, h, c)
    BY <1>1, <1>9, <1>15 DEF Sync, Ends
  <1>17. Sync(s, h, c)
    BY <1>1, <1>14, <1>15, <1>16 DEF Sync
  <1>18. Usages(s, h)
    BY <1>7, <1>9, <1>15 DEF Tracking, Usages
  <1> QED
    BY <1>12, <1>17, <1>18 DEF Tracking, Onward

\* translate_event on an error: the client is told, and the stream has failed.
LEMMA TranslateError ==
    ASSUME Translates, NEW c0, NEW t, NEW g, Told(g), Tracking(c0, t, g),
           NEW e, e = Error, NEW s, s = TranslateEvent(t, e), NEW h, h = After(g, e)
    PROVE  Tracking(c0, s, h)
  <1>1. PICK c : OutOf(c0, t, c) /\ Sync(t, g, c)
    BY DEF Tracking, Onward
  <1>2. e.ev = "Error" /\ e \in Event
    BY DEF Error, Event
  <1>3. t \in TrType /\ c \in ClientType /\ g \in Story /\ c = Seen(c0, t.wire)
    BY <1>1 DEF OutOf, Told
  <1> DEFINE f == TRUE
             r == [t EXCEPT !.failed = f]
             x == ErrorFrame
             v == See(c, x)
  <1>5. s = Emit(r, e)
    BY <1>2 DEF TranslateEvent, Folds, Guarded, Tap
  <1>6. h = g
    BY <1>2 DEF After
  <1>f. f \in BOOLEAN /\ f
    OBVIOUS
  <1> HIDE DEF f
  <1>8. /\ r \in TrType /\ SameBlocks(t, r) /\ r.wire = t.wire /\ r.startUsage = t.startUsage
        /\ r.lastUsage = t.lastUsage /\ r.stopped = t.stopped
        /\ r.pendingTerminal = t.pendingTerminal /\ r.emitted = t.emitted /\ r.pending = t.pending
    BY <1>3, <1>f DEF TrType, SameBlocks
  <1> HIDE DEF r
  <1>9. /\ v \in ClientType /\ v.open = c.open /\ v.used = c.used
        /\ v.errors = c.errors + 1 /\ (v.stopped <=> c.stopped)
        /\ v.finishes = c.finishes /\ v.usage = c.usage /\ v.faults = c.faults
    BY <1>3, SeeError
  <1>4. x \in FrameType
    BY FramesAre, UsageIs DEF FrameNames, Tokens
  <1>7. v = See(c, x)
    OBVIOUS
  <1> HIDE DEF x, v
  <1>10. OutOf(c0, r, c)
    BY <1>3, <1>8 DEF OutOf
  <1>11. Written(r, e) = Just(x)
    BY WritesError DEF Translates, x
  <1>12. OutOf(c0, s, v) /\ TrLike(r, s) /\ EmitBlocks(r, e, s)
    BY <1>2, <1>4, <1>5, <1>7, <1>9, <1>10, <1>11, EmitOne
  <1>13. SameBlocks(t, s)
    BY <1>2, <1>8, <1>12, SameBlocksAgain DEF EmitBlocks
  <1>14. Blocks(s, g, v)
    BY <1>1, <1>9, <1>13, BlocksSame DEF Sync
  <1>15. /\ s.pendingTerminal = t.pendingTerminal /\ (s.stopped <=> t.stopped)
         /\ (s.emitted <=> t.emitted) /\ (s.pending <=> t.pending)
         /\ s.startUsage = t.startUsage /\ s.lastUsage = t.lastUsage
    BY <1>8, <1>12 DEF TrLike
  <1>16. Ends(s, g, v)
    BY <1>1, <1>9, <1>15 DEF Sync, Ends
  <1>17. v.errors > 0
    BY <1>3, <1>9, ClientFields
  <1>18. Sync(s, g, v)
    BY <1>14, <1>16, <1>17 DEF Sync
  <1>19. Usages(s, g)
    BY <1>15 DEF Tracking, Usages
  <1> QED
    BY <1>6, <1>12, <1>18, <1>19 DEF Tracking, Onward

LEMMA AfterStops ==
    ASSUME NEW g \in Story, NEW e, e = MessageStop, NEW h, h = After(g, e)
    PROVE  /\ h.open = {} /\ h.used = g.used /\ h.start = g.start /\ h.last = g.last
           /\ (g.phase = "terminal" => h.phase = "terminal")
           /\ (g.phase # "terminal" => h.phase = "end")
  <1>1. e.ev = "MessageStop"
    BY DEF MessageStop
  <1>2. h = [g EXCEPT !.open = {}, !.phase = IF @ = "terminal" THEN @ ELSE "end"]
    BY <1>1 DEF After
  <1> QED
    BY <1>2 DEF Story

-----------------------------------------------------------------------------
(* translate_event on the message's stop.                                  *)
\* s differs from t in what marks the end of the message only.
TrEnds(t, s) ==
    /\ s.startUsage = t.startUsage /\ s.lastUsage = t.lastUsage
    /\ (s.failed <=> t.failed) /\ s.pendingTerminal = t.pendingTerminal
    /\ (s.emitted <=> t.emitted) /\ (s.pending <=> t.pending)

\* What marks the end of a message.
LEMMA StopsIs ==
    ASSUME NEW t, NEW e, e = MessageStop, NEW r, r = CloseOpenBlocks(t),
           NEW s, s = TranslateEvent(t, e)
    PROVE  /\ (Defers /\ r.pendingTerminal # NoUsage => s = Fold(r, e))
           /\ (~ (Defers /\ r.pendingTerminal # NoUsage) => s = Guarded(r, e))
  <1>1. e.ev = "MessageStop"
    BY DEF MessageStop
  <1> QED
    BY <1>1 DEF TranslateEvent, Folds, Tap, Defers

LEMMA FoldStop ==
    ASSUME NEW r \in TrType, NEW e, e = MessageStop, NEW s, s = Fold(r, e)
    PROVE  /\ s \in TrType /\ SameBlocks(r, s) /\ TrEnds(r, s) /\ (s.stopped <=> r.stopped)
           /\ s.wire = r.wire
  <1> DEFINE f == TRUE
  <1>1. s = [r EXCEPT !.pendingStop = f]
    BY DEF Fold, MessageStop
  <1>2. f \in BOOLEAN
    OBVIOUS
  <1> HIDE DEF f
  <1> QED
    BY <1>1, <1>2 DEF TrType, SameBlocks, TrEnds

LEMMA GuardStop ==
    ASSUME NEW r \in TrType, NEW e, e = MessageStop, NEW s, s = Guarded(r, e)
    PROVE  \E q \in TrType : /\ s = Emit(q, e) /\ SameBlocks(r, q) /\ TrEnds(r, q) /\ q.stopped
                             /\ q.wire = r.wire
  <1> DEFINE f == TRUE
             q == [r EXCEPT !.stopped = f]
  <1>1. s = Emit(q, e)
    BY DEF Guarded, MessageStop
  <1>2. f \in BOOLEAN /\ f
    OBVIOUS
  <1> HIDE DEF f
  <1>3. q \in TrType /\ SameBlocks(r, q) /\ TrEnds(r, q) /\ q.stopped /\ q.wire = r.wire
    BY <1>2 DEF TrType, SameBlocks, TrEnds
  <1> HIDE DEF q
  <1> QED
    BY <1>1, <1>3

\* translate_event on message_stop: held back, or written.
LEMMA TranslateStop ==
    ASSUME Translates, NEW c0, NEW t, NEW g, Told(g), Tracking(c0, t, g),
           NEW e, e = MessageStop, Allowed(g, e),
           NEW s, s = TranslateEvent(t, e), NEW h, h = After(g, e)
    PROVE  Tracking(c0, s, h)
  <1> DEFINE r == CloseOpenBlocks(t)
  <1>1. TrLike(t, r) /\ \E a : Bare(g, a) /\ Onward(c0, r, a)
    BY ClosesAll DEF Tracking
  <1>2. PICK a : Bare(g, a) /\ Onward(c0, r, a)
    BY <1>1
  <1>3. PICK c : OutOf(c0, r, c) /\ Sync(r, a, c)
    BY <1>2 DEF Onward
  <1>4. /\ (Defers /\ r.pendingTerminal # NoUsage => s = Fold(r, e))
        /\ (~ (Defers /\ r.pendingTerminal # NoUsage) => s = Guarded(r, e))
    BY StopsIs
  <1> HIDE DEF r
  <1>5. /\ h.open = {} /\ h.used = g.used /\ h.start = g.start /\ h.last = g.last
        /\ (g.phase = "terminal" => h.phase = "terminal")
        /\ (g.phase # "terminal" => h.phase = "end")
    BY AfterStops DEF Told
  <1>6. /\ a.open = {} /\ a.used = g.used /\ a.phase = g.phase /\ a.last = g.last
        /\ a.start = g.start /\ Told(a)
    BY <1>2 DEF Bare, Same
  <1>7. g.phase \in {"body", "terminal", "final"}
    <2>1. e.ev = "MessageStop"
      BY DEF MessageStop
    <2> QED
      BY <2>1, StoryFields DEF Allowed, Told, Phases
  <1>8. r \in TrType /\ c \in ClientType /\ c = Seen(c0, r.wire) /\ Blocks(r, a, c) /\ Ends(r, a, c)
    BY <1>3 DEF OutOf, Sync
  <1>9. r.startUsage = g.start /\ r.lastUsage = g.last
    BY <1>1 DEF TrLike, Tracking, Usages
  <1>10. ASSUME NEW q, SameBlocks(r, q), NEW v, v.open = c.open, v.used = c.used, v.faults = c.faults
         PROVE  Blocks(q, h, v)
    BY <1>5, <1>6, <1>8, <1>10, BlocksSame
  <1>11. CASE Defers /\ g.phase = "terminal"
    <2>1. r.pendingTerminal # NoUsage
      BY <1>6, <1>8, <1>11 DEF Ends, Told
    <2>2. s = Fold(r, e)
      BY <1>4, <1>11, <2>1
    <2>3. /\ s \in TrType /\ SameBlocks(r, s) /\ TrEnds(r, s) /\ (s.stopped <=> r.stopped)
          /\ s.wire = r.wire
      BY <1>8, <2>2, FoldStop
    <2>4. Blocks(s, h, c)
      BY <1>10, <2>3
    <2>5. Ends(s, h, c)
      BY <1>5, <1>6, <1>8, <1>11, <2>3 DEF Ends, TrEnds
    <2>6. Sync(s, h, c)
      BY <1>3, <2>3, <2>4, <2>5 DEF Sync, TrEnds
    <2>7. OutOf(c0, s, c)
      BY <1>8, <2>3 DEF OutOf
    <2>8. Usages(s, h)
      BY <1>5, <1>9, <2>3 DEF Usages, TrEnds
    <2> QED
      BY <2>6, <2>7, <2>8 DEF Tracking, Onward
  <1>12. CASE ~ (Defers /\ g.phase = "terminal")
    <2>1. ~ (Defers /\ r.pendingTerminal # NoUsage) /\ r.pendingTerminal = NoUsage
      BY <1>6, <1>8, <1>12 DEF Ends
    <2>2. s = Guarded(r, e)
      BY <1>4, <2>1
    <2>3. PICK q \in TrType : /\ s = Emit(q, e) /\ SameBlocks(r, q) /\ TrEnds(r, q) /\ q.stopped
                              /\ q.wire = r.wire
      BY <1>8, <2>2, GuardStop
    <2>4. OutOf(c0, q, c)
      BY <1>8, <2>3 DEF OutOf
    <2>5. e \in Event /\ e.ev = "MessageStop"
      BY DEF Event, MessageStop
    <2>6. ASSUME NEW v, v \in ClientType, v.open = c.open, v.used = c.used, v.faults = c.faults,
                 v.errors = c.errors, v.finishes = c.finishes, v.usage = c.usage,
                 ingress # "anthropic" => (v.stopped <=> c.stopped),
                 OutOf(c0, s, v), TrLike(q, s), EmitBlocks(q, e, s)
          PROVE  Tracking(c0, s, h)
      <3>1. SameBlocks(r, s)
        BY <2>3, <2>5, <2>6, SameBlocksAgain DEF EmitBlocks
      <3>2. Blocks(s, h, v)
        BY <1>10, <2>6, <3>1
      <3>3. s \in TrType
        BY <2>6 DEF OutOf
      <3>4. TrEnds(q, s) /\ (s.stopped <=> q.stopped)
        BY <2>6, TrFields DEF TrLike, TrEnds
      <3>5. TrEnds(r, s) /\ s.stopped
        BY <2>3, <3>4 DEF TrEnds
      <3>6. c.stopped => ingress = "anthropic"
        BY <1>8 DEF Ends
      <3>7. v.stopped => ingress = "anthropic" /\ h.phase = "end"
        BY <1>5, <1>12, <2>6, <3>6 DEF Defers
      <3>8. Ends(s, h, v)
        <4>1. g.phase = "body" => g.last = NoUsage
          BY DEF Told
        <4>2. CASE ingress = "openai"
          BY <1>5, <1>6, <1>7, <1>8, <2>1, <2>6, <3>5, <3>7, <4>1, <4>2, UsageIs DEF Ends, TrEnds, Defers
        <4>3. CASE ingress = "bedrock"
          BY <1>5, <1>6, <1>7, <1>8, <2>1, <2>6, <3>5, <3>7, <4>1, <4>3, UsageIs DEF Ends, TrEnds, Defers
        <4>4. CASE Defers
          BY <1>5, <1>6, <1>7, <1>8, <1>12, <2>1, <2>6, <3>5, <3>7, <4>1, <4>4, UsageIs DEF Ends, TrEnds, Defers
        <4> QED
          BY <4>2, <4>3, <4>4 DEF Defers
      <3>9. Sync(s, h, v)
        BY <1>3, <2>6, <3>2, <3>5, <3>8 DEF Sync, TrEnds
      <3>10. Usages(s, h)
        BY <1>5, <1>9, <3>5 DEF Usages, TrEnds
      <3> QED
        BY <2>6, <3>9, <3>10 DEF Tracking, Onward
    <2>7. CASE ingress = "anthropic"
      <3> DEFINE x == StopFrame
                 v == See(c, x)
      <3>1. /\ v \in ClientType /\ v.open = c.open /\ v.used = c.used
            /\ v.errors = c.errors /\ v.finishes = c.finishes /\ v.usage = c.usage
            /\ v.faults = c.faults
        BY <1>8, SeeStop
      <3>2. x \in FrameType
        BY FramesAre, UsageIs DEF FrameNames, Tokens
      <3>3. Written(q, e) = Just(x)
        BY <2>7, WritesStop DEF Translates
      <3>w. v = See(c, x)
        OBVIOUS
      <3> HIDE DEF x, v
      <3>4. OutOf(c0, s, v) /\ TrLike(q, s) /\ EmitBlocks(q, e, s)
        BY <2>3, <2>4, <2>5, <3>1, <3>2, <3>3, <3>w, EmitOne
      <3> QED
        BY <2>6, <2>7, <3>1, <3>4
    <2>8. CASE ingress # "anthropic"
      <3>3. Nothing(Written(q, e))
        BY <2>8, WritesStop DEF Translates
      <3>4. OutOf(c0, s, c) /\ TrLike(q, s) /\ EmitBlocks(q, e, s)
        BY <2>3, <2>4, <2>5, <3>3, EmitNone
      <3> QED
        BY <1>8, <2>6, <3>4
    <2> QED
      BY <2>7, <2>8
  <1> QED
    BY <1>11, <1>12

-----------------------------------------------------------------------------
(* The delta of the message, up to where the dialects part.                *)
DeltaTo(r, x) ==
    CASE ingress = "bedrock" /\ x.stop   -> CombinedStop(r, x.usage)
      [] ingress = "bedrock" /\ ~ x.stop -> UsageOnly(r, x)
      [] Folds(r, x) -> Fold(r, x)
      [] OTHER -> Guarded(r, x)

IsDelta(x) == x \in Event /\ x.ev = "MessageDelta"

\* r has recorded the usage l and closed what it must.
Ready(c0, g, r, a, l) ==
    Bare(g, a) /\ Onward(c0, r, a) /\ r.startUsage = g.start /\ r.lastUsage = l

\* merge_trailing_usage: the later usage wins unless it says nothing.
LEMMA MergeIs ==
    ASSUME NEW g, Told(g), NEW l, l = (IF g.last = NoUsage THEN Zero ELSE g.last), NEW v \in {Zero, Final}
    PROVE  Merge(l, v) = LastOf(g, v)
  <1>1. l \in {Zero, Final} /\ (v = Final => Merge(l, v) = Final) /\ (v = Zero => Merge(l, v) = l)
    <2>1. l \in {Zero, Final}
      BY StoryFields, UsageIs DEF Told
    <2>2. v = Final => Merge(l, v) = Final
      BY DEF Merge, Final
    <2>3. v = Zero => Merge(l, v) = l
      BY <2>1 DEF Merge, Final, Zero
    <2> QED
      BY <2>1, <2>2, <2>3
  <1> QED
    BY <1>1, UsageIs DEF LastOf

LEMMA DeltaUsage ==
    ASSUME NEW u \in Tokens, NEW e, IsDelta(e), NEW x, x = [e EXCEPT !.usage = u]
    PROVE  IsDelta(x) /\ (x.stop <=> e.stop) /\ x.usage = u
  <1>1. e \in [ev : {"MessageDelta"}, stop : BOOLEAN, usage : [in : Int, out : Int]]
    BY DEF IsDelta, Event
  <1>2. x \in [ev : {"MessageDelta"}, stop : BOOLEAN, usage : [in : Int, out : Int]]
    BY <1>1 DEF Tokens
  <1>3. x.ev = "MessageDelta" /\ x.stop = e.stop /\ x.usage = u
    BY <1>1
  <1> QED
    BY <1>2, <1>3 DEF IsDelta, Event

DeltaWith(e, u, x) ==
    x = [e EXCEPT !.usage = u] /\ x.ev = "MessageDelta" /\ (x.stop <=> e.stop) /\ x.usage = u

LEMMA TranslateDeltaIs ==
    ASSUME NEW t, NEW e, IsDelta(e), NEW u, u = Backfill(t, e.usage), NEW x, DeltaWith(e, u, x),
           NEW z, z = Tap(t, e), NEW s, s = TranslateEvent(t, e)
    PROVE  /\ (e.stop => s = DeltaTo(CloseOpenBlocks(z), x))
           /\ (~ e.stop => s = DeltaTo(z, x))
  <1>1. e.ev = "MessageDelta"
    BY DEF IsDelta
  <1>2. e.stop => s = DeltaTo(CloseOpenBlocks(z), x)
    BY <1>1 DEF TranslateEvent, DeltaTo, DeltaWith
  <1>3. ~ e.stop => s = DeltaTo(z, x)
    BY <1>1 DEF TranslateEvent, DeltaTo, DeltaWith
  <1> QED
    BY <1>2, <1>3

\* What a delta finds when its blocks are closed and its usage recorded.
LEMMA DeltaReady ==
    ASSUME Translates, NEW c0, NEW t, NEW g, Told(g), Tracking(c0, t, g),
           NEW e, IsDelta(e), Whole(g, e.usage) \in {Zero, Final}, e.stop \/ g.open = {},
           NEW s, s = TranslateEvent(t, e)
    PROVE  \E r, a, x : /\ Ready(c0, g, r, a, LastOf(g, Whole(g, e.usage)))
                        /\ IsDelta(x) /\ (x.stop <=> e.stop) /\ x.usage = Whole(g, e.usage)
                        /\ s = DeltaTo(r, x)
  <1> DEFINE u == Whole(g, e.usage)
             l == LastOf(g, u)
             x == [e EXCEPT !.usage = u]
             z == Tap(t, e)
  <1>1. PICK c : OutOf(c0, t, c) /\ Sync(t, g, c)
    BY DEF Tracking, Onward
  <1>2. t \in TrType /\ c \in ClientType /\ c = Seen(c0, t.wire) /\ e.ev = "MessageDelta"
    BY <1>1 DEF OutOf, IsDelta
  <1>3. t.startUsage = g.start /\ t.lastUsage = g.last
    BY DEF Tracking, Usages
  <1>4. Backfill(t, e.usage) = u
    BY <1>3 DEF Backfill, Whole
  <1>5. u \in Tokens /\ u \in {Zero, Final}
    BY UsageIs DEF Tokens
  <1>u. u = Whole(g, e.usage)
    OBVIOUS
  <1>6. z = [t EXCEPT !.lastUsage = l]
    <2> DEFINE m == IF g.last = NoUsage THEN Zero ELSE g.last
    <2>1. z = [t EXCEPT !.lastUsage = Merge(IF t.lastUsage = NoUsage THEN Zero ELSE t.lastUsage, Backfill(t, e.usage))]
      BY <1>2 DEF Tap
    <2>2. (IF t.lastUsage = NoUsage THEN Zero ELSE t.lastUsage) = m
      BY <1>3
    <2> HIDE DEF m, u
    <2>3. Merge(m, u) = l
      BY <1>5, MergeIs DEF m
    <2> QED
      BY <1>4, <2>1, <2>2, <2>3
  <1>7. l \in Tokens
    <2> HIDE DEF u
    <2> QED
      BY StoryFields, UsageIs DEF LastOf, Told, Tokens
  <1>8. /\ (e.stop => s = DeltaTo(CloseOpenBlocks(z), x))
        /\ (~ e.stop => s = DeltaTo(z, x))
        /\ IsDelta(x) /\ (x.stop <=> e.stop) /\ x.usage = u
    <2>w. x = [e EXCEPT !.usage = u] /\ z = Tap(t, e)
      OBVIOUS
    <2> HIDE DEF u, x, z
    <2>1. IsDelta(x) /\ (x.stop <=> e.stop) /\ x.usage = u
      BY <1>5, <2>w, DeltaUsage
    <2>2. DeltaWith(e, u, x) /\ u = Backfill(t, e.usage)
      BY <1>4, <2>1, <2>w DEF IsDelta, DeltaWith
    <2> QED
      BY <2>1, <2>2, <2>w, TranslateDeltaIs
  <1> HIDE DEF u, l, x, z
  <1>9. /\ z \in TrType /\ SameBlocks(t, z) /\ z.wire = t.wire /\ z.startUsage = t.startUsage
        /\ z.lastUsage = l /\ z.failed = t.failed /\ z.stopped = t.stopped
        /\ z.pendingTerminal = t.pendingTerminal /\ z.emitted = t.emitted /\ z.pending = t.pending
    BY <1>2, <1>6, <1>7 DEF TrType, SameBlocks
  <1>10. Onward(c0, z, g)
    <2>1. OutOf(c0, z, c)
      BY <1>2, <1>9 DEF OutOf
    <2>2. Blocks(z, g, c)
      BY <1>1, <1>9, BlocksSame DEF Sync
    <2>3. Ends(z, g, c)
      BY <1>1, <1>9 DEF Sync, Ends
    <2>4. Sync(z, g, c)
      BY <1>1, <1>9, <2>2, <2>3 DEF Sync
    <2> QED
      BY <2>1, <2>4 DEF Onward
  <1>11. CASE e.stop
    <2> DEFINE r == CloseOpenBlocks(z)
    <2>1. TrLike(z, r) /\ \E a : Bare(g, a) /\ Onward(c0, r, a)
      BY <1>10, ClosesAll
    <2>2. PICK a : Bare(g, a) /\ Onward(c0, r, a)
      BY <2>1
    <2>3. Ready(c0, g, r, a, l)
      BY <1>3, <1>9, <2>1, <2>2 DEF Ready, TrLike
    <2>4. s = DeltaTo(r, x)
      BY <1>8, <1>11
    <2> HIDE DEF r
    <2> QED
      BY <1>8, <2>3, <2>4 DEF l, u
  <1>12. CASE ~ e.stop
    <2>1. Bare(g, g)
      BY <1>12, SameSame DEF Bare
    <2>3. Ready(c0, g, z, g, l)
      BY <1>3, <1>9, <1>10, <2>1 DEF Ready
    <2>4. s = DeltaTo(z, x)
      BY <1>8, <1>12
    <2> QED
      BY <1>8, <2>3, <2>4 DEF l, u
  <1> QED
    BY <1>11, <1>12

-----------------------------------------------------------------------------
(* The terminal frame and the usage frame.                                 *)
Said(c, v) == v \in ClientType /\ v.errors = c.errors /\ (v.stopped <=> c.stopped)

LEMMA BareBlocks ==
    ASSUME NEW r, NEW a, NEW c, Blocks(r, a, c), a.open = {}, NEW s, NEW h, NEW v,
           SameBlocks(r, s), h.open = {}, h.used = a.used, v.open = c.open, v.used = c.used,
           v.faults \subseteq c.faults \cup {"unclosed"},
           c.open = {} \/ ingress = "openai" => v.faults = c.faults
    PROVE  Blocks(s, h, v)
  <1>1. /\ s.openBlocks = r.openBlocks /\ s.items = r.items /\ s.missed = r.missed
    BY DEF SameBlocks
  <1>2. ShownOf(a.open) = {} /\ ShownOf(h.open) = {} /\ Idx(a.open) = Idx(h.open)
        /\ KeptOf(a.open) = KeptOf(h.open)
    BY DEF ShownOf, Idx
  <1>3. ingress # "openai" /\ ~ r.missed => c.open = {}
    BY <1>2, BlocksAre
  <1>4. "unclosed" \in v.faults => r.missed
    BY <1>3, BlocksAre
  <1>5. v.faults \cap {"reused", "stray", "late"} = {}
    BY BlocksAre
  <1> QED
    BY <1>1, <1>2, <1>3, <1>4, <1>5, BlocksAre

\* The frames that end a message are emitted.
LEMMA FinishEmitted ==
    ASSUME NEW c0, NEW r, NEW c, OutOf(c0, r, c), ~ c.stopped, NEW w \in Tokens,
           NEW x, IsDelta(x), Written(r, x) = Just(FinishOf(w)), NEW s, s = Emit(r, x)
    PROVE  \E v : /\ OutOf(c0, s, v) /\ Said(c, v) /\ TrLike(r, s) /\ SameBlocks(r, s)
                  /\ v.open = c.open /\ v.used = c.used /\ v.faults \subseteq c.faults \cup {"unclosed"}
                  /\ (c.open = {} \/ ingress = "openai" => v.faults = c.faults)
                  /\ v.finishes = c.finishes + 1
                  /\ (w = NoUsage => v.usage = c.usage) /\ (w # NoUsage => v.usage = w)
  <1> DEFINE y == FinishOf(w)
             v == See(c, y)
  <1>1. c \in ClientType
    BY DEF OutOf
  <1>2. /\ v \in ClientType /\ v.open = c.open /\ v.used = c.used
        /\ v.errors = c.errors /\ v.stopped = c.stopped
        /\ v.finishes = c.finishes + 1
        /\ (w = NoUsage => v.usage = c.usage) /\ (w # NoUsage => v.usage = w)
        /\ v.faults \subseteq c.faults \cup {"unclosed"}
        /\ (c.open = {} \/ ingress = "openai" => v.faults = c.faults)
    BY <1>1, SeeFinish
  <1>3. y \in FrameType
    BY FramesAre DEF FrameNames
  <1>4. v = See(c, y) /\ Written(r, x) = Just(y) /\ x \in Event /\ x.ev = "MessageDelta"
    BY DEF IsDelta
  <1> HIDE DEF y, v
  <1>5. OutOf(c0, s, v) /\ TrLike(r, s) /\ EmitBlocks(r, x, s)
    BY <1>2, <1>3, <1>4, EmitOne
  <1>6. SameBlocks(r, s)
    BY <1>4, <1>5 DEF EmitBlocks
  <1>7. Said(c, v)
    BY <1>2 DEF Said
  <1> QED
    BY <1>2, <1>5, <1>6, <1>7

LEMMA UsageEmitted ==
    ASSUME NEW c0, NEW r, NEW c, OutOf(c0, r, c), ~ c.stopped, NEW w \in Tokens,
           NEW x, IsDelta(x), Written(r, x) = Just(UsageFrame(w)), NEW s, s = Emit(r, x)
    PROVE  \E v : /\ OutOf(c0, s, v) /\ Said(c, v) /\ TrLike(r, s) /\ SameBlocks(r, s)
                  /\ v.open = c.open /\ v.used = c.used /\ v.faults = c.faults
                  /\ v.finishes = c.finishes /\ v.usage = w
  <1> DEFINE y == UsageFrame(w)
             v == See(c, y)
  <1>1. c \in ClientType
    BY DEF OutOf
  <1>2. /\ v \in ClientType /\ v.open = c.open /\ v.used = c.used
        /\ v.errors = c.errors /\ v.stopped = c.stopped
        /\ v.finishes = c.finishes /\ v.usage = w /\ v.faults = c.faults
    BY <1>1, SeeUsage
  <1>3. y \in FrameType
    BY FramesAre DEF FrameNames
  <1>4. v = See(c, y) /\ Written(r, x) = Just(y) /\ x \in Event /\ x.ev = "MessageDelta"
    BY DEF IsDelta
  <1> HIDE DEF y, v
  <1>5. OutOf(c0, s, v) /\ TrLike(r, s) /\ EmitBlocks(r, x, s)
    BY <1>2, <1>3, <1>4, EmitOne
  <1>6. SameBlocks(r, s)
    BY <1>4, <1>5 DEF EmitBlocks
  <1>7. Said(c, v)
    BY <1>2 DEF Said
  <1> QED
    BY <1>2, <1>5, <1>6, <1>7

-----------------------------------------------------------------------------
(* The delta of the message in a dialect that defers its terminal frame.   *)
Turned(g, x, h) ==
    /\ Told(h) /\ h.open = {} /\ h.used = g.used /\ h.start = g.start
    /\ h.last = LastOf(g, x.usage)
    /\ (x.stop \/ g.phase = "terminal" => h.phase = "terminal")
    /\ (~ x.stop /\ g.phase # "terminal" => h.phase = "final")

LEMMA FoldDelta ==
    ASSUME NEW r \in TrType, NEW x, IsDelta(x), NEW l \in Tokens,
           l = (IF r.pendingTerminal = NoUsage THEN x.usage ELSE Merge(r.pendingTerminal, x.usage)),
           NEW s, s = Fold(r, x)
    PROVE  /\ s \in TrType /\ SameBlocks(r, s) /\ s.pendingTerminal = l
           /\ s.startUsage = r.startUsage /\ s.lastUsage = r.lastUsage
           /\ (s.failed <=> r.failed) /\ (s.stopped <=> r.stopped) /\ s.wire = r.wire
           /\ (s.emitted <=> r.emitted) /\ (s.pending <=> r.pending)
  <1>1. s = [r EXCEPT !.pendingTerminal = l]
    BY DEF Fold, IsDelta
  <1> QED
    BY <1>1 DEF TrType, SameBlocks

\* A dialect that defers its terminal frame keeps what it will say.
LEMMA DeltaDefers ==
    ASSUME Translates, Defers, NEW c0, NEW g, Told(g), NEW r, NEW a, NEW x, IsDelta(x),
           x.usage \in {Zero, Final}, Ready(c0, g, r, a, LastOf(g, x.usage)),
           g.phase \in {"body", "terminal"}, NEW h, Turned(g, x, h),
           NEW s, s = DeltaTo(r, x)
    PROVE  Tracking(c0, s, h)
  <1>1. PICK c : OutOf(c0, r, c) /\ Sync(r, a, c)
    BY DEF Ready, Onward
  <1>2. /\ a.open = {} /\ a.used = g.used /\ a.phase = g.phase /\ a.last = g.last
        /\ a.start = g.start
    BY DEF Ready, Bare, Same
  <1>3. /\ r \in TrType /\ c \in ClientType /\ Blocks(r, a, c) /\ Ends(r, a, c)
        /\ c = Seen(c0, r.wire)
    BY <1>1 DEF OutOf, Sync
  <1>4. r.startUsage = g.start /\ r.lastUsage = h.last /\ h.last = LastOf(g, x.usage)
    BY DEF Ready, Turned
  <1>5. ingress \notin {"openai", "bedrock"} /\ ingress \in Spoken
    BY DEF Defers, Translates
  <1>6. x.ev = "MessageDelta" /\ x.usage \in Tokens /\ x.usage # NoUsage
    BY UsageIs DEF IsDelta, Tokens
  <1>7. ~ c.stopped /\ h.open = {} /\ h.used = a.used /\ h.start = g.start
    BY <1>2, <1>3 DEF Ends, Turned
  <1>8. CASE x.stop \/ g.phase = "terminal"
    <2>1. s = Fold(r, x)
      <3>1. g.phase = "terminal" => r.pendingTerminal # NoUsage
        BY <1>2, <1>3 DEF Ends, Told
      <3> QED
        BY <1>5, <1>6, <1>8, <3>1 DEF DeltaTo, Folds
    <2> DEFINE l == LastOf(g, x.usage)
    <2>2. l = (IF r.pendingTerminal = NoUsage THEN x.usage ELSE Merge(r.pendingTerminal, x.usage))
      <3>1. CASE g.phase = "body"
        <4>1. r.pendingTerminal = NoUsage /\ g.last = NoUsage
          BY <1>2, <1>3, <3>1 DEF Ends, Told
        <4> QED
          BY <4>1, UsageIs DEF LastOf
      <3>2. CASE g.phase = "terminal"
        <4>1. r.pendingTerminal = g.last /\ g.last # NoUsage
          BY <1>2, <1>3, <3>2 DEF Ends, Told
        <4>2. Merge(g.last, x.usage) = LastOf(g, x.usage)
          <5> DEFINE m == IF g.last = NoUsage THEN Zero ELSE g.last
                     w == x.usage
          <5>1. m = g.last /\ w \in {Zero, Final}
            BY <4>1
          <5>2. m = (IF g.last = NoUsage THEN Zero ELSE g.last)
            OBVIOUS
          <5> HIDE DEF m, w
          <5>3. Merge(m, w) = LastOf(g, w)
            BY <5>1, <5>2, MergeIs
          <5> QED
            BY <5>1, <5>3 DEF w
        <4> QED
          BY <4>1, <4>2
      <3> QED
        BY <3>1, <3>2
    <2>3. l \in Tokens
      BY StoryFields, UsageIs DEF LastOf, Told, Tokens
    <2>4. l = h.last
      BY <1>4
    <2> HIDE DEF l
    <2>5. /\ s \in TrType /\ SameBlocks(r, s) /\ s.pendingTerminal = l
          /\ s.startUsage = r.startUsage /\ s.lastUsage = r.lastUsage
          /\ (s.failed <=> r.failed) /\ (s.stopped <=> r.stopped) /\ s.wire = r.wire
          /\ (s.emitted <=> r.emitted) /\ (s.pending <=> r.pending)
      BY <1>3, <2>1, <2>2, <2>3, FoldDelta
    <2>6. Blocks(s, h, c)
      BY <1>2, <1>3, <1>7, <2>5, BlocksSame
    <2>7. h.phase = "terminal"
      BY <1>8 DEF Turned
    <2>8. Ends(s, h, c)
      BY <1>2, <1>3, <1>5, <2>4, <2>5, <2>7 DEF Ends
    <2>9. Sync(s, h, c) /\ OutOf(c0, s, c) /\ Usages(s, h)
      BY <1>1, <1>3, <1>4, <1>7, <2>5, <2>6, <2>8 DEF Sync, OutOf, Usages
    <2> QED
      BY <2>9 DEF Tracking, Onward
  <1>9. CASE ~ x.stop /\ g.phase = "body"
    <2>1. s = Emit(r, x)
      <3>1. r.pendingTerminal = NoUsage /\ ~ r.stopped
        BY <1>2, <1>3, <1>9 DEF Ends
      <3>2. ~ Folds(r, x)
        BY <1>6, <1>9, <3>1 DEF Folds
      <3>3. s = Guarded(r, x)
        BY <1>5, <3>2 DEF DeltaTo
      <3> QED
        BY <1>6, <3>1, <3>3 DEF Guarded
    <2>2. h.phase = "final" /\ h.last = x.usage
      <3>1. g.last = NoUsage
        BY <1>9 DEF Told
      <3> QED
        BY <1>4, <1>9, <3>1, UsageIs DEF Turned, LastOf
    <2>3. \E v : /\ OutOf(c0, s, v) /\ Said(c, v) /\ TrLike(r, s) /\ SameBlocks(r, s)
                  /\ v.open = c.open /\ v.used = c.used /\ v.faults \subseteq c.faults \cup {"unclosed"}
                  /\ (c.open = {} \/ ingress = "openai" => v.faults = c.faults)
                  /\ v.usage = x.usage
      <3> DEFINE w == x.usage
      <3>1. Written(r, x) = Just(FinishOf(w)) \/ Written(r, x) = Just(UsageFrame(w))
        BY <1>5, <1>6, <1>9, WritesLate
      <3>2. w \in Tokens /\ w # NoUsage
        BY <1>6
      <3>3. w = x.usage
        OBVIOUS
      <3> HIDE DEF w
      <3>4. CASE Written(r, x) = Just(FinishOf(w))
        BY <1>1, <1>7, <2>1, <3>2, <3>3, <3>4, FinishEmitted
      <3>5. CASE Written(r, x) = Just(UsageFrame(w))
        BY <1>1, <1>7, <2>1, <3>2, <3>3, <3>5, UsageEmitted
      <3> QED
        BY <3>1, <3>4, <3>5
    <2>4. PICK v : /\ OutOf(c0, s, v) /\ Said(c, v) /\ TrLike(r, s) /\ SameBlocks(r, s)
                  /\ v.open = c.open /\ v.used = c.used /\ v.faults \subseteq c.faults \cup {"unclosed"}
                  /\ (c.open = {} \/ ingress = "openai" => v.faults = c.faults)
                  /\ v.usage = x.usage
      BY <2>3
    <2>5. Blocks(s, h, v)
      BY <1>2, <1>3, <1>7, <2>4, BareBlocks
    <2>6. s \in TrType /\ ~ v.stopped /\ v.errors = c.errors
      BY <1>7, <2>4 DEF OutOf, Said
    <2>7. /\ s.startUsage = r.startUsage /\ s.lastUsage = r.lastUsage
          /\ (s.failed <=> r.failed) /\ s.pendingTerminal = r.pendingTerminal
          /\ (s.emitted <=> r.emitted) /\ (s.pending <=> r.pending)
      BY <2>4, TrFields DEF TrLike
    <2>8. Ends(s, h, v)
      BY <1>2, <1>3, <1>5, <1>9, <2>2, <2>4, <2>6, <2>7 DEF Ends, Defers
    <2>9. Sync(s, h, v) /\ Usages(s, h)
      BY <1>1, <1>4, <1>7, <2>5, <2>6, <2>7, <2>8 DEF Sync, Usages
    <2> QED
      BY <2>4, <2>9 DEF Tracking, Onward
  <1> QED
    BY <1>8, <1>9

-----------------------------------------------------------------------------
(* The delta of the message to a bedrock client.                           *)
SameEnds(t, s) ==
    /\ s.startUsage = t.startUsage /\ s.lastUsage = t.lastUsage /\ (s.failed <=> t.failed)
    /\ (s.stopped <=> t.stopped) /\ s.pendingTerminal = t.pendingTerminal

EmittedIs(q) == [q EXCEPT !.emitted = TRUE, !.pending = FALSE]
PendingIs(q) == [q EXCEPT !.pending = TRUE]

LEMMA EmittedSet ==
    ASSUME NEW q \in TrType, NEW s, s = EmittedIs(q)
    PROVE  /\ s \in TrType /\ SameBlocks(q, s) /\ SameEnds(q, s) /\ s.wire = q.wire
           /\ s.emitted /\ ~ s.pending
  <1> DEFINE f == TRUE
             n == FALSE
  <1>1. s = [q EXCEPT !.emitted = f, !.pending = n]
    BY DEF EmittedIs
  <1>2. f \in BOOLEAN /\ n \in BOOLEAN /\ f /\ ~ n
    OBVIOUS
  <1> HIDE DEF f, n
  <1> QED
    BY <1>1, <1>2 DEF TrType, SameBlocks, SameEnds

LEMMA PendingSet ==
    ASSUME NEW q \in TrType, NEW s, s = PendingIs(q)
    PROVE  /\ s \in TrType /\ SameBlocks(q, s) /\ SameEnds(q, s) /\ s.wire = q.wire
           /\ s.pending /\ (s.emitted <=> q.emitted)
  <1> DEFINE f == TRUE
  <1>1. s = [q EXCEPT !.pending = f]
    BY DEF PendingIs
  <1>2. f \in BOOLEAN /\ f
    OBVIOUS
  <1> HIDE DEF f
  <1> QED
    BY <1>1, <1>2 DEF TrType, SameBlocks, SameEnds

StopDelta   == MessageDelta(TRUE, Zero)
LateDelta(u) == MessageDelta(FALSE, u)

LEMMA DeltasAre ==
    ASSUME NEW u \in Tokens
    PROVE  /\ IsDelta(StopDelta) /\ StopDelta.stop /\ StopDelta.usage = Zero
           /\ IsDelta(LateDelta(u)) /\ ~ LateDelta(u).stop /\ LateDelta(u).usage = u
  BY UsageIs DEF IsDelta, StopDelta, LateDelta, MessageDelta, Event, Tokens

\* BedrockStreamFraming: a stop, a usage, or both.
LEMMA CombinedIs ==
    ASSUME NEW r, NEW u, NEW q, q = Emit(r, StopDelta)
    PROVE  /\ (r.emitted => CombinedStop(r, u) = q)
           /\ (~ r.emitted /\ u # Zero => CombinedStop(r, u) = EmittedIs(Emit(q, LateDelta(u))))
           /\ (~ r.emitted /\ u = Zero => CombinedStop(r, u) = PendingIs(q))
  BY DEF CombinedStop, StopDelta, LateDelta, EmittedIs, PendingIs

LEMMA UsageOnlyIs ==
    ASSUME NEW r, NEW x
    PROVE  /\ (r.emitted => UsageOnly(r, x) = r)
           /\ (~ r.emitted => UsageOnly(r, x) = EmittedIs(Emit(r, x)))
  BY DEF UsageOnly, EmittedIs

\* A translator that has told a bedrock client everything so far.
Metadata(s, v, h) ==
    \/ s.emitted /\ v.usage = h.last /\ (h.phase = "terminal" => h.last = Final)
    \/ ~ s.emitted /\ s.pending /\ h.last = Zero

LEMMA MetadataSync ==
    ASSUME Translates, ingress = "bedrock", NEW c0, NEW r, NEW a, NEW c, OutOf(c0, r, c),
           Sync(r, a, c), a.open = {},
           NEW s, NEW v, OutOf(c0, s, v), SameBlocks(r, s), SameEnds(r, s), Said(c, v),
           v.open = c.open, v.used = c.used, v.faults = c.faults,
           NEW h, h.phase \in {"terminal", "final"}, h.open = {}, h.used = a.used,
           a.phase \in {"body", "terminal"}, a.phase = "terminal" => h.phase = "terminal",
           h.start = r.startUsage, h.last = r.lastUsage,
           Metadata(s, v, h)
    PROVE  Tracking(c0, s, h)
  <1>1. Blocks(s, h, v)
    BY BlocksSame DEF Sync
  <1>2. ~ v.stopped /\ v.errors = c.errors /\ (s.failed <=> r.failed)
        /\ s.pendingTerminal = NoUsage
    BY DEF Sync, Ends, Said, SameEnds, Defers
  <1>3. Ends(s, h, v)
    BY <1>2 DEF Ends, Defers, Metadata
  <1>4. Sync(s, h, v)
    BY <1>1, <1>2, <1>3 DEF Sync
  <1>5. Usages(s, h)
    BY DEF SameEnds, Usages
  <1> QED
    BY <1>4, <1>5 DEF Tracking, Onward

LEMMA SameEndsLike ==
    ASSUME NEW r \in TrType, NEW s \in TrType, TrLike(r, s)
    PROVE  SameEnds(r, s) /\ (s.emitted <=> r.emitted) /\ (s.pending <=> r.pending)
  BY TrFields DEF TrLike, SameEnds

LEMMA SameEndsTrans ==
    ASSUME NEW r, NEW s, NEW q, SameEnds(r, s), SameEnds(s, q)
    PROVE  SameEnds(r, q)
  BY DEF SameEnds

LEMMA SaidTrans ==
    ASSUME NEW b, NEW c, NEW v, Said(b, c), Said(c, v)
    PROVE  Said(b, v)
  BY DEF Said

LEMMA BedrockParts ==
    ASSUME ingress = "bedrock", NEW r, NEW x
    PROVE  /\ (x.stop => DeltaTo(r, x) = CombinedStop(r, x.usage))
           /\ (~ x.stop => DeltaTo(r, x) = UsageOnly(r, x))
  BY DEF DeltaTo, Folds

\* What was last said to the client is what the story says.
LEMMA BedrockSaid ==
    ASSUME ingress = "bedrock", NEW r, NEW a, NEW c, Ends(r, a, c), Told(a)
    PROVE  /\ (r.emitted => a.phase # "body" /\ c.usage = a.last)
           /\ (r.emitted /\ a.phase = "terminal" => a.last = Final)
           /\ (~ r.emitted /\ a.phase = "terminal" => a.last = Zero /\ r.pending)
           /\ (a.phase = "body" => a.last = NoUsage)
           /\ ~ c.stopped
  BY DEF Ends, Told

\* translate_event on the delta of the message, to a bedrock client.
LEMMA DeltaBedrock ==
    ASSUME Translates, ingress = "bedrock", NEW c0, NEW g, Told(g), NEW r, NEW a, NEW x, IsDelta(x),
           x.usage \in {Zero, Final}, Ready(c0, g, r, a, LastOf(g, x.usage)),
           g.phase \in {"body", "terminal"},
           g.phase = "terminal" /\ x.stop => x.usage = Zero,
           g.phase = "terminal" /\ ~ x.stop => x.usage = Final,
           NEW h, Turned(g, x, h), NEW s, s = DeltaTo(r, x)
    PROVE  Tracking(c0, s, h)
  <1>1. PICK c : OutOf(c0, r, c) /\ Sync(r, a, c)
    BY DEF Ready, Onward
  <1>2. /\ a.open = {} /\ a.used = g.used /\ a.phase = g.phase /\ a.last = g.last
        /\ a.start = g.start /\ Told(a)
    BY DEF Ready, Bare, Same
  <1>3. /\ r \in TrType /\ c \in ClientType /\ Blocks(r, a, c) /\ Ends(r, a, c)
        /\ c = Seen(c0, r.wire)
    BY <1>1 DEF OutOf, Sync
  <1>4. r.startUsage = g.start /\ r.lastUsage = h.last /\ h.last = LastOf(g, x.usage)
    BY DEF Ready, Turned
  <1>5. x.ev = "MessageDelta" /\ x.usage \in Tokens
    BY UsageIs DEF IsDelta, Tokens
  <1>6. /\ h.phase \in {"terminal", "final"} /\ h.open = {} /\ h.used = a.used
        /\ h.start = r.startUsage /\ h.last = r.lastUsage
        /\ (a.phase = "terminal" => h.phase = "terminal") /\ a.phase \in {"body", "terminal"}
    BY <1>2, <1>4 DEF Turned
  <1>7. /\ (r.emitted => a.phase # "body" /\ c.usage = a.last)
        /\ (r.emitted /\ a.phase = "terminal" => a.last = Final)
        /\ (~ r.emitted /\ a.phase = "terminal" => a.last = Zero /\ r.pending)
        /\ (a.phase = "body" => a.last = NoUsage)
        /\ ~ c.stopped
    BY <1>2, <1>3, BedrockSaid
  <1>8. c.open = {}
    <2>1. ~ r.missed
      BY <1>3, BlocksAre
    <2>2. ShownOf(a.open) = {}
      BY <1>2 DEF ShownOf, Idx
    <2> QED
      BY <1>3, <2>1, <2>2, BlocksAre
  <1>9. ASSUME NEW q, NEW v, OutOf(c0, q, v), SameBlocks(r, q), SameEnds(r, q), Said(c, v),
               v.open = c.open, v.used = c.used, v.faults = c.faults, Metadata(q, v, h)
        PROVE  Tracking(c0, q, h)
    BY <1>1, <1>2, <1>6, <1>9, MetadataSync
  <1>10. CASE x.stop
    <2> DEFINE q == Emit(r, StopDelta)
               u == x.usage
    <2>0. NoUsage \in Tokens
      BY UsageIs DEF Tokens
    <2>1. IsDelta(StopDelta) /\ Written(r, StopDelta) = Just(FinishOf(NoUsage))
      <3>1. IsDelta(StopDelta) /\ StopDelta.stop
        BY <2>0, DeltasAre
      <3> QED
        BY <3>1, BedrockWrites DEF IsDelta
    <2>2. \E v : /\ OutOf(c0, q, v) /\ Said(c, v) /\ TrLike(r, q) /\ SameBlocks(r, q)
                  /\ v.open = c.open /\ v.used = c.used
                  /\ (c.open = {} \/ ingress = "openai" => v.faults = c.faults)
                  /\ (NoUsage = NoUsage => v.usage = c.usage)
      BY <1>1, <1>7, <2>0, <2>1, FinishEmitted
    <2>3. PICK v : /\ OutOf(c0, q, v) /\ Said(c, v) /\ TrLike(r, q) /\ SameBlocks(r, q)
                  /\ v.open = c.open /\ v.used = c.used
                  /\ v.faults = c.faults /\ v.usage = c.usage
      BY <1>8, <2>2
    <2>4. q \in TrType
      BY <2>3 DEF OutOf
    <2>5. SameEnds(r, q) /\ (q.emitted <=> r.emitted) /\ (q.pending <=> r.pending)
      BY <1>3, <2>3, <2>4, SameEndsLike
    <2>6. s = CombinedStop(r, u)
      BY <1>10, BedrockParts
    <2>7. /\ (r.emitted => s = q)
          /\ (~ r.emitted /\ u # Zero => s = EmittedIs(Emit(q, LateDelta(u))))
          /\ (~ r.emitted /\ u = Zero => s = PendingIs(q))
      BY <2>6, CombinedIs
    <2>8. h.phase = "terminal"
      BY <1>10 DEF Turned
    <2> HIDE DEF q
    <2>9. CASE r.emitted
      <3>1. a.phase = "terminal" /\ x.usage = Zero /\ g.last = Final /\ c.usage = Final
        BY <1>2, <1>6, <1>7, <1>10, <2>9
      <3>2. h.last = Final
        BY <1>4, <3>1, UsageIs DEF LastOf
      <3>3. Metadata(q, v, h)
        BY <2>3, <2>5, <2>9, <3>1, <3>2 DEF Metadata
      <3> QED
        BY <1>9, <2>3, <2>5, <2>7, <2>9, <3>3
    <2>10. CASE ~ r.emitted /\ u # Zero
      <3> DEFINE y == LateDelta(Final)
                 p == Emit(q, y)
      <3>0. Final \in Tokens /\ u = Final /\ h.last = Final
        BY <1>4, <2>10, UsageIs DEF Tokens, LastOf
      <3>1. IsDelta(y) /\ Written(q, y) = Just(UsageFrame(Final))
        <4>1. IsDelta(y) /\ ~ y.stop /\ y.usage = Final
          BY <3>0, DeltasAre
        <4> QED
          BY <4>1, BedrockWrites DEF IsDelta
      <3>2. ~ v.stopped
        BY <1>7, <2>3 DEF Said
      <3>w. p = Emit(q, y) /\ s = EmittedIs(p)
        BY <2>7, <2>10, <3>0
      <3> HIDE DEF y, p
      <3>3. PICK z : /\ OutOf(c0, p, z) /\ Said(v, z) /\ TrLike(q, p) /\ SameBlocks(q, p)
                     /\ z.open = v.open /\ z.used = v.used /\ z.faults = v.faults
                     /\ z.usage = Final
        BY <2>3, <3>0, <3>1, <3>2, <3>w, UsageEmitted
      <3>4. p \in TrType
        BY <3>3 DEF OutOf
      <3>5. /\ s \in TrType /\ SameBlocks(p, s) /\ SameEnds(p, s) /\ s.wire = p.wire
            /\ s.emitted /\ ~ s.pending
        BY <3>4, <3>w, EmittedSet
      <3>6. SameEnds(q, p)
        BY <2>4, <3>3, <3>4, SameEndsLike
      <3>7. SameEnds(r, s) /\ SameBlocks(r, s) /\ Said(c, z)
        <4>1. SameEnds(r, p) /\ SameBlocks(r, p)
          BY <2>3, <2>5, <3>3, <3>6, SameEndsTrans, SameBlocksAgain
        <4> QED
          BY <2>3, <3>3, <3>5, <4>1, SameEndsTrans, SameBlocksAgain, SaidTrans
      <3>8. OutOf(c0, s, z)
        BY <3>3, <3>5 DEF OutOf
      <3>9. Metadata(s, z, h)
        BY <3>0, <3>3, <3>5 DEF Metadata
      <3> QED
        BY <1>9, <2>3, <3>3, <3>7, <3>8, <3>9
    <2>11. CASE ~ r.emitted /\ u = Zero
      <3>1. s = PendingIs(q)
        BY <2>7, <2>11
      <3>2. /\ s \in TrType /\ SameBlocks(q, s) /\ SameEnds(q, s) /\ s.wire = q.wire
            /\ s.pending /\ (s.emitted <=> q.emitted)
        BY <2>4, <3>1, PendingSet
      <3>3. h.last = Zero
        BY <1>2, <1>4, <1>6, <1>7, <2>11, UsageIs DEF LastOf
      <3>4. Metadata(s, v, h)
        BY <2>5, <2>11, <3>2, <3>3 DEF Metadata
      <3>5. SameEnds(r, s) /\ SameBlocks(r, s)
        BY <2>3, <2>5, <3>2, SameEndsTrans, SameBlocksAgain
      <3>6. OutOf(c0, s, v)
        BY <2>3, <3>2 DEF OutOf
      <3> QED
        BY <1>9, <2>3, <3>4, <3>5, <3>6
    <2> QED
      BY <2>9, <2>10, <2>11
  <1>11. CASE ~ x.stop
    <2>1. s = UsageOnly(r, x)
      BY <1>11, BedrockParts
    <2>2. (r.emitted => s = r) /\ (~ r.emitted => s = EmittedIs(Emit(r, x)))
      BY <2>1, UsageOnlyIs
    <2>9. CASE r.emitted
      <3>1. a.phase = "terminal" /\ x.usage = Final /\ g.last = Final /\ c.usage = Final
        BY <1>2, <1>6, <1>7, <1>11, <2>9
      <3>2. h.last = Final
        BY <1>4, <3>1, UsageIs DEF LastOf
      <3>3. Metadata(r, c, h)
        BY <2>9, <3>1, <3>2 DEF Metadata
      <3>4. SameBlocks(r, r) /\ SameEnds(r, r) /\ Said(c, c)
        BY <1>3 DEF SameBlocks, SameEnds, Said
      <3> QED
        BY <1>1, <1>9, <2>2, <2>9, <3>3, <3>4
    <2>10. CASE ~ r.emitted
      <3> DEFINE p == Emit(r, x)
                 u == x.usage
      <3>0. u \in Tokens /\ h.last = u /\ (h.phase = "terminal" => h.last = Final)
        <4>1. CASE a.phase = "body"
          <5>1. g.last = NoUsage /\ h.phase = "final"
            BY <1>2, <1>7, <1>11, <4>1 DEF Turned
          <5> QED
            BY <1>4, <1>5, <5>1, UsageIs DEF LastOf
        <4>2. CASE a.phase = "terminal"
          BY <1>2, <1>4, <1>5, <1>11, <4>2, UsageIs DEF LastOf
        <4> QED
          BY <1>6, <4>1, <4>2
      <3>1. Written(r, x) = Just(UsageFrame(u))
        BY <1>5, <1>11, BedrockWrites
      <3>w. p = Emit(r, x) /\ s = EmittedIs(p)
        BY <2>2, <2>10
      <3> HIDE DEF p, u
      <3>3. PICK z : /\ OutOf(c0, p, z) /\ Said(c, z) /\ TrLike(r, p) /\ SameBlocks(r, p)
                     /\ z.open = c.open /\ z.used = c.used /\ z.faults = c.faults
                     /\ z.usage = u
        BY <1>1, <1>7, <3>0, <3>1, <3>w, UsageEmitted
      <3>4. p \in TrType
        BY <3>3 DEF OutOf
      <3>5. /\ s \in TrType /\ SameBlocks(p, s) /\ SameEnds(p, s) /\ s.wire = p.wire
            /\ s.emitted /\ ~ s.pending
        BY <3>4, <3>w, EmittedSet
      <3>6. SameEnds(r, p)
        BY <1>3, <3>3, <3>4, SameEndsLike
      <3>7. SameEnds(r, s) /\ SameBlocks(r, s)
        BY <3>3, <3>5, <3>6, SameEndsTrans, SameBlocksAgain
      <3>8. OutOf(c0, s, z)
        BY <3>3, <3>5 DEF OutOf
      <3>9. Metadata(s, z, h)
        BY <3>0, <3>3, <3>5 DEF Metadata
      <3> QED
        BY <1>9, <3>3, <3>7, <3>8, <3>9
    <2> QED
      BY <2>9, <2>10
  <1> QED
    BY <1>10, <1>11

-----------------------------------------------------------------------------
(* The delta of the message to an openai client.                           *)
Counted(v, h) ==
    /\ h.phase = "terminal" =>
          v.finishes > 0 /\ v.usage = IF h.last = Final /\ includeUsage THEN Final ELSE NoUsage
    /\ h.phase = "final" =>
          v.finishes = 0 /\ v.usage = IF h.last = Final THEN Final ELSE NoUsage

LEMMA CountedSync ==
    ASSUME Translates, ingress = "openai", NEW c0, NEW r, NEW a, NEW c, Sync(r, a, c), a.open = {},
           NEW s, NEW v, OutOf(c0, s, v), SameBlocks(r, s), SameEnds(r, s), ~ s.pending, Said(c, v),
           v.open = c.open, v.used = c.used, v.faults = c.faults,
           NEW h, h.phase \in {"terminal", "final"}, h.open = {}, h.used = a.used,
           h.start = r.startUsage, h.last = r.lastUsage, Counted(v, h)
    PROVE  Tracking(c0, s, h)
  <1>1. Blocks(s, h, v)
    BY BlocksSame DEF Sync
  <1>2. ~ v.stopped /\ v.errors = c.errors /\ (s.failed <=> r.failed)
        /\ s.pendingTerminal = NoUsage
    BY DEF Sync, Ends, Said, SameEnds, Defers
  <1>3. Ends(s, h, v)
    BY <1>2 DEF Ends, Defers, Counted
  <1>4. Sync(s, h, v)
    BY <1>1, <1>2, <1>3 DEF Sync
  <1>5. Usages(s, h)
    BY DEF SameEnds, Usages
  <1> QED
    BY <1>4, <1>5 DEF Tracking, Onward

LEMMA FinishAndUsage ==
    ASSUME NEW c0, NEW r, NEW c, OutOf(c0, r, c), ~ c.stopped, ingress = "openai",
           NEW x, IsDelta(x), Written(r, x) = Both(FinishOf(NoUsage), UsageFrame(Final)),
           NEW s, s = Emit(r, x)
    PROVE  \E v : /\ OutOf(c0, s, v) /\ Said(c, v) /\ TrLike(r, s) /\ SameBlocks(r, s)
                  /\ v.open = c.open /\ v.used = c.used /\ v.faults = c.faults
                  /\ v.finishes = c.finishes + 1 /\ v.usage = Final
  <1> DEFINE y == FinishOf(NoUsage)
             z == UsageFrame(Final)
             b == See(c, y)
             v == See(b, z)
  <1>0. NoUsage \in Tokens /\ Final \in Tokens
    BY UsageIs DEF Tokens
  <1>1. c \in ClientType
    BY DEF OutOf
  <1>2. /\ b \in ClientType /\ b.open = c.open /\ b.used = c.used
        /\ b.errors = c.errors /\ b.stopped = c.stopped
        /\ b.finishes = c.finishes + 1 /\ b.faults = c.faults
    BY <1>0, <1>1, SeeFinish
  <1>3. y \in FrameType /\ z \in FrameType
    BY <1>0, FramesAre DEF FrameNames
  <1>4. b = See(c, y) /\ v = See(b, z) /\ Written(r, x) = Just(y) \o Just(z)
        /\ x \in Event /\ x.ev = "MessageDelta"
    BY DEF IsDelta, Both
  <1> HIDE DEF b
  <1>5. /\ v \in ClientType /\ v.open = b.open /\ v.used = b.used
        /\ v.errors = b.errors /\ v.stopped = b.stopped
        /\ v.finishes = b.finishes /\ v.usage = Final
        /\ (~ b.stopped => v.faults = b.faults)
    BY <1>0, <1>2, SeeUsage
  <1> HIDE DEF y, z, v
  <1>6. OutOf(c0, s, v) /\ TrLike(r, s) /\ EmitBlocks(r, x, s)
    BY <1>3, <1>4, <1>5, EmitTwo
  <1>7. SameBlocks(r, s)
    BY <1>4, <1>6 DEF EmitBlocks
  <1>8. b.stopped <=> c.stopped
    BY <1>1, <1>2, ClientFields
  <1>9. Said(c, v)
    BY <1>2, <1>5 DEF Said
  <1> QED
    BY <1>2, <1>5, <1>6, <1>7, <1>8, <1>9

\* translate_event on the delta of the message, to an openai client.
LEMMA DeltaOpenAi ==
    ASSUME Translates, ingress = "openai", NEW c0, NEW g, Told(g), NEW r, NEW a, NEW x, IsDelta(x),
           x.usage \in {Zero, Final}, Ready(c0, g, r, a, LastOf(g, x.usage)),
           g.phase \in {"body", "terminal"},
           g.phase = "terminal" => x.stop /\ x.usage = Zero,
           NEW h, Turned(g, x, h), NEW s, s = DeltaTo(r, x)
    PROVE  Tracking(c0, s, h)
  <1>1. PICK c : OutOf(c0, r, c) /\ Sync(r, a, c)
    BY DEF Ready, Onward
  <1>2. /\ a.open = {} /\ a.used = g.used /\ a.phase = g.phase /\ a.last = g.last
        /\ a.start = g.start /\ Told(a)
    BY DEF Ready, Bare, Same
  <1>3. /\ r \in TrType /\ c \in ClientType /\ Blocks(r, a, c) /\ Ends(r, a, c)
        /\ c = Seen(c0, r.wire)
    BY <1>1 DEF OutOf, Sync
  <1>4. r.startUsage = g.start /\ r.lastUsage = h.last /\ h.last = LastOf(g, x.usage)
    BY DEF Ready, Turned
  <1>5. x.ev = "MessageDelta" /\ x.usage \in Tokens
    BY UsageIs DEF IsDelta, Tokens
  <1>6. /\ h.phase \in {"terminal", "final"} /\ h.open = {} /\ h.used = a.used
        /\ h.start = r.startUsage /\ h.last = r.lastUsage
        /\ (x.stop => h.phase = "terminal") /\ (~ x.stop => h.phase = "final")
    BY <1>2, <1>4 DEF Turned
  <1>7. /\ ~ c.stopped /\ ~ r.pending
        /\ (g.phase = "body" => c.finishes = 0 /\ ~ r.stopped /\ c.usage = NoUsage /\ h.last = x.usage)
        /\ (g.phase = "terminal" => c.finishes > 0 /\ h.last = g.last
              /\ c.usage = IF g.last = Final /\ includeUsage THEN Final ELSE NoUsage)
    <2>1. ~ c.stopped /\ ~ r.pending
      BY <1>3 DEF Ends
    <2>2. g.phase = "body" => c.finishes = 0 /\ ~ r.stopped /\ c.usage = NoUsage
      BY <1>2, <1>3 DEF Ends
    <2>3. g.phase = "body" => h.last = x.usage
      BY <1>4, UsageIs DEF LastOf, Told
    <2>4. g.phase = "terminal" => h.last = g.last
      BY <1>4, UsageIs DEF LastOf, Told
    <2>5. g.phase = "terminal" => c.finishes > 0
              /\ c.usage = IF g.last = Final /\ includeUsage THEN Final ELSE NoUsage
      BY <1>2, <1>3 DEF Ends
    <2> QED
      BY <2>1, <2>2, <2>3, <2>4, <2>5
  <1>8. s = Guarded(r, x)
    BY DEF DeltaTo, Folds
  <1>9. ASSUME NEW v, OutOf(c0, s, v), SameBlocks(r, s), SameEnds(r, s), ~ s.pending, Said(c, v),
               v.open = c.open, v.used = c.used, v.faults = c.faults, Counted(v, h)
        PROVE  Tracking(c0, s, h)
    BY <1>1, <1>2, <1>6, <1>9, CountedSync
  <1>10. CASE r.stopped
    <2>1. s = r /\ g.phase = "terminal"
      BY <1>5, <1>7, <1>8, <1>10 DEF Guarded
    <2>2. SameBlocks(r, r) /\ SameEnds(r, r) /\ Said(c, c)
      BY <1>3 DEF SameBlocks, SameEnds, Said
    <2>3. Counted(c, h)
      BY <1>6, <1>7, <2>1 DEF Counted
    <2> QED
      BY <1>1, <1>7, <1>9, <2>1, <2>2, <2>3
  <1>11. CASE ~ r.stopped
    <2>1. s = Emit(r, x)
      BY <1>5, <1>8, <1>11 DEF Guarded
    <2>2. ASSUME NEW v, OutOf(c0, s, v), SameBlocks(r, s), TrLike(r, s), Said(c, v),
                 v.open = c.open, v.used = c.used, v.faults = c.faults, Counted(v, h)
          PROVE  Tracking(c0, s, h)
      <3>1. s \in TrType
        BY <2>2 DEF OutOf
      <3>2. SameEnds(r, s) /\ ~ s.pending
        BY <1>3, <1>7, <2>2, <3>1, SameEndsLike
      <3> QED
        BY <1>9, <2>2, <3>2
    <2>0. NoUsage \in Tokens /\ Final \in Tokens /\ c.finishes \in Nat
      BY <1>3, UsageIs, ClientFields DEF Tokens
    <2>3. CASE x.stop /\ x.usage = Final /\ includeUsage
      <3>1. Written(r, x) = Both(FinishOf(NoUsage), UsageFrame(Final))
        BY <1>5, <2>3, OpenAiFinishes
      <3>2. PICK v : /\ OutOf(c0, s, v) /\ Said(c, v) /\ TrLike(r, s) /\ SameBlocks(r, s)
                     /\ v.open = c.open /\ v.used = c.used /\ v.faults = c.faults
                     /\ v.finishes = c.finishes + 1 /\ v.usage = Final
        BY <1>1, <1>7, <2>1, <3>1, FinishAndUsage
      <3>3. g.phase = "body" /\ h.last = Final
        BY <1>7, <2>3, UsageIs
      <3>4. Counted(v, h)
        BY <1>6, <2>0, <2>3, <3>2, <3>3 DEF Counted
      <3> QED
        BY <2>2, <3>2, <3>4
    <2>4. CASE x.stop /\ ~ (x.usage = Final /\ includeUsage)
      <3>1. Written(r, x) = Just(FinishOf(NoUsage))
        BY <1>5, <2>4, OpenAiFinishes
      <3>2. PICK v : /\ OutOf(c0, s, v) /\ Said(c, v) /\ TrLike(r, s) /\ SameBlocks(r, s)
                     /\ v.open = c.open /\ v.used = c.used
                     /\ (c.open = {} \/ ingress = "openai" => v.faults = c.faults)
                     /\ v.finishes = c.finishes + 1 /\ (NoUsage = NoUsage => v.usage = c.usage)
        BY <1>1, <1>7, <2>0, <2>1, <3>1, FinishEmitted
      <3>3. v.usage = IF h.last = Final /\ includeUsage THEN Final ELSE NoUsage
        BY <1>7, <2>4, <3>2, UsageIs
      <3>4. Counted(v, h)
        BY <1>6, <2>0, <2>4, <3>2, <3>3 DEF Counted
      <3> QED
        BY <2>2, <3>2, <3>4
    <2>5. CASE ~ x.stop /\ x.usage = Final
      <3>0. g.phase = "body" /\ h.last = Final /\ Final # Zero
        BY <1>7, <2>5, UsageIs
      <3>1. Written(r, x) = Just(UsageFrame(Final))
        BY <1>5, <2>5, <3>0, OpenAiUsage
      <3>2. PICK v : /\ OutOf(c0, s, v) /\ Said(c, v) /\ TrLike(r, s) /\ SameBlocks(r, s)
                     /\ v.open = c.open /\ v.used = c.used /\ v.faults = c.faults
                     /\ v.finishes = c.finishes /\ v.usage = Final
        BY <1>1, <1>7, <2>0, <2>1, <3>1, UsageEmitted
      <3>4. Counted(v, h)
        BY <1>6, <1>7, <2>5, <3>0, <3>2 DEF Counted
      <3> QED
        BY <2>2, <3>2, <3>4
    <2>6. CASE ~ x.stop /\ x.usage = Zero
      <3>0. g.phase = "body" /\ h.last = Zero /\ Final # Zero
        BY <1>7, <2>6, UsageIs
      <3>1. Nothing(Written(r, x))
        BY <1>5, <2>6, <3>0, OpenAiUsage
      <3>2. OutOf(c0, s, c) /\ TrLike(r, s) /\ EmitBlocks(r, x, s)
        BY <1>1, <2>1, <3>1, EmitNone DEF IsDelta
      <3>3. SameBlocks(r, s) /\ Said(c, c)
        BY <1>3, <1>5, <3>2 DEF EmitBlocks, Said
      <3>4. Counted(c, h)
        BY <1>6, <1>7, <2>6, <3>0 DEF Counted
      <3> QED
        BY <2>2, <3>2, <3>3, <3>4
    <2> QED
      BY <2>3, <2>4, <2>5, <2>6
  <1> QED
    BY <1>10, <1>11

-----------------------------------------------------------------------------
(* One event, and the events of one frame.                                 *)
LEMMA AfterDelta ==
    ASSUME NEW g \in Story, NEW e, IsDelta(e), NEW h, h = After(g, e), Told(h),
           NEW x, x.stop <=> e.stop, x.usage = Whole(g, e.usage)
    PROVE  Turned(g, x, h)
  <1>0. e.ev = "MessageDelta"
    BY DEF IsDelta
  <1> DEFINE p == IF e.stop \/ g.phase = "terminal" THEN "terminal" ELSE "final"
             l == LastOf(g, Whole(g, e.usage))
  <1>1. h = [g EXCEPT !.open = {}, !.phase = p, !.last = l]
    BY <1>0 DEF After
  <1>2. (e.stop \/ g.phase = "terminal" => p = "terminal")
        /\ (~ e.stop /\ g.phase # "terminal" => p = "final")
    OBVIOUS
  <1> HIDE DEF p, l
  <1>3. h.open = {} /\ h.used = g.used /\ h.start = g.start /\ h.phase = p /\ h.last = l
    BY <1>1 DEF Story
  <1> QED
    BY <1>2, <1>3 DEF Turned, l

\* translate_event on the delta of the message, in every dialect.
LEMMA TranslateMessageDelta ==
    ASSUME Translates, NEW c0, NEW t, NEW g, Told(g), Tracking(c0, t, g),
           NEW e, IsDelta(e), Allowed(g, e), NEW h, h = After(g, e), Told(h),
           NEW s, s = TranslateEvent(t, e)
    PROVE  Tracking(c0, s, h)
  <1> DEFINE u == Whole(g, e.usage)
  <1>1. /\ u \in {Zero, Final}
        /\ \/ g.phase = "body" /\ (e.stop \/ g.open = {})
           \/ g.phase = "terminal" /\ e.stop /\ u = Zero
           \/ g.phase = "terminal" /\ ~ e.stop /\ u = Final /\ egress = "openai"
    BY DEF Allowed, IsDelta
  <1>2. e.stop \/ g.open = {}
    BY <1>1 DEF Told
  <1>3. PICK r, a, x : /\ Ready(c0, g, r, a, LastOf(g, u))
                       /\ IsDelta(x) /\ (x.stop <=> e.stop) /\ x.usage = u
                       /\ s = DeltaTo(r, x)
    BY <1>1, <1>2, DeltaReady
  <1>4. Turned(g, x, h)
    BY <1>3, AfterDelta DEF Told
  <1>5. g.phase \in {"body", "terminal"}
    BY <1>1
  <1>6. Ready(c0, g, r, a, LastOf(g, x.usage)) /\ x.usage \in {Zero, Final}
    BY <1>1, <1>3
  <1>7. CASE Defers
    BY <1>3, <1>4, <1>5, <1>6, <1>7, DeltaDefers
  <1>8. CASE ingress = "bedrock"
    <2>1. /\ (g.phase = "terminal" /\ x.stop => x.usage = Zero)
          /\ (g.phase = "terminal" /\ ~ x.stop => x.usage = Final)
      BY <1>1, <1>3
    <2> QED
      BY <1>3, <1>4, <1>5, <1>6, <1>8, <2>1, DeltaBedrock
  <1>9. CASE ingress = "openai"
    <2>1. g.phase = "terminal" => x.stop /\ x.usage = Zero
      BY <1>1, <1>3, <1>9 DEF Translates
    <2> QED
      BY <1>3, <1>4, <1>5, <1>6, <1>9, <2>1, DeltaOpenAi
  <1> QED
    BY <1>7, <1>8, <1>9 DEF Defers

LEMMA EventIs ==
    ASSUME NEW e \in Event
    PROVE  \/ e = MessageStart(e.usage) /\ e.usage \in {NoUsage, Begun}
           \/ e = BlockStart(e.index, e.kind) /\ e.index \in Int /\ e.kind \in Kinds
           \/ e = BlockDelta(e.index, e.kind) /\ e.index \in Int /\ e.kind \in Kinds
           \/ e = BlockStop(e.index) /\ e.index \in Int
           \/ IsDelta(e)
           \/ e = MessageStop
           \/ e = Error
  BY DEF Event, MessageStart, BlockStart, BlockDelta, BlockStop, IsDelta, MessageStop, Error

\* translate_event keeps Sync, whatever event the story allows.
LEMMA TranslateStep ==
    ASSUME Translates, NEW c0, NEW t, NEW g, Told(g), Tracking(c0, t, g),
           NEW e \in Event, Allowed(g, e), NEW h, h = After(g, e), Told(h),
           NEW s, s = TranslateEvent(t, e)
    PROVE  Tracking(c0, s, h)
  <1>1. CASE e = MessageStart(e.usage) /\ e.usage \in {NoUsage, Begun}
    BY <1>1, TranslateBegin
  <1>2. CASE e = BlockStart(e.index, e.kind) /\ e.index \in Int /\ e.kind \in Kinds
    BY <1>2, TranslateStart
  <1>3. CASE e = BlockDelta(e.index, e.kind) /\ e.index \in Int /\ e.kind \in Kinds
    BY <1>3, TranslateDelta
  <1>4. CASE e = BlockStop(e.index) /\ e.index \in Int
    BY <1>4, TranslateClose
  <1>5. CASE IsDelta(e)
    BY <1>5, TranslateMessageDelta
  <1>6. CASE e = MessageStop
    BY <1>6, TranslateStop
  <1>7. CASE e = Error
    BY <1>7, TranslateError
  <1> QED
    BY <1>1, <1>2, <1>3, <1>4, <1>5, <1>6, <1>7, EventIs

-----------------------------------------------------------------------------
(* The same-protocol mode records the usage and the errors.                *)
Relays(t) == t \in TrType /\ t.items = {} /\ Nothing(t.wire)

\* extract_usage_only keeps the usage of the story.
LEMMA TapStep ==
    ASSUME NEW t, NEW g, Told(g), Relays(t), Usages(t, g),
           NEW e \in Event, Allowed(g, e), NEW h, h = After(g, e),
           NEW s, s = Tap(t, e)
    PROVE  Relays(s) /\ Usages(s, h)
  <1>0. t \in TrType /\ g \in Story /\ t.startUsage = g.start /\ t.lastUsage = g.last
    BY DEF Relays, Told, Usages
  <1>1. CASE e.ev = "MessageStart"
    <2>1. e.usage \in {NoUsage, Begun} /\ h = [g EXCEPT !.start = IF e.usage = NoUsage THEN g.start ELSE e.usage]
      BY <1>1 DEF Event, After
    <2> DEFINE v == IF e.usage = NoUsage THEN g.start ELSE e.usage
    <2>2. v \in Tokens
      BY <2>1, StoryFields, UsageIs DEF Told, Tokens
    <2>3. s = [t EXCEPT !.startUsage = v]
      <3>1. CASE e.usage = NoUsage
        <4>1. s = t /\ v = t.startUsage
          BY <1>0, <1>1, <3>1 DEF Tap
        <4> QED
          BY <1>0, <4>1 DEF TrType
      <3>2. CASE e.usage # NoUsage
        BY <1>1, <3>2 DEF Tap
      <3> QED
        BY <3>1, <3>2
    <2>4. h = [g EXCEPT !.start = v]
      BY <2>1
    <2> HIDE DEF v
    <2>5. s \in TrType /\ s.items = t.items /\ s.wire = t.wire /\ s.startUsage = v /\ s.lastUsage = t.lastUsage
      BY <1>0, <2>2, <2>3 DEF TrType
    <2>6. h.start = v /\ h.last = g.last
      BY <1>0, <2>4 DEF Story
    <2> QED
      BY <1>0, <2>5, <2>6 DEF Relays, Usages
  <1>2. CASE e.ev = "MessageDelta"
    <2> DEFINE u == Whole(g, e.usage)
               l == LastOf(g, u)
               m == IF g.last = NoUsage THEN Zero ELSE g.last
    <2>1. u \in {Zero, Final}
      BY <1>2 DEF Allowed
    <2>2. s = [t EXCEPT !.lastUsage = Merge(m, u)]
      <3>1. Backfill(t, e.usage) = u
        BY <1>0 DEF Backfill, Whole
      <3>2. s = [t EXCEPT !.lastUsage = Merge(IF t.lastUsage = NoUsage THEN Zero ELSE t.lastUsage, Backfill(t, e.usage))]
        BY <1>2 DEF Tap
      <3>3. (IF t.lastUsage = NoUsage THEN Zero ELSE t.lastUsage) = m
        BY <1>0
      <3> HIDE DEF u, m
      <3> QED
        BY <3>1, <3>2, <3>3
    <2>3. h.last = l /\ h.start = g.start
      <3>1. h = [g EXCEPT !.open = {}, !.phase = IF e.stop \/ g.phase = "terminal" THEN "terminal" ELSE "final",
                          !.last = l]
        BY <1>2 DEF After
      <3> HIDE DEF l
      <3> QED
        BY <1>0, <3>1 DEF Story
    <2>w. m = (IF g.last = NoUsage THEN Zero ELSE g.last)
      OBVIOUS
    <2> HIDE DEF u, m
    <2>4. Merge(m, u) = l
      BY <2>1, <2>w, MergeIs
    <2>5. l \in Tokens
      BY StoryFields, UsageIs DEF LastOf, Told, Tokens
    <2> HIDE DEF l
    <2>6. s \in TrType /\ s.items = t.items /\ s.wire = t.wire /\ s.startUsage = t.startUsage /\ s.lastUsage = l
      BY <1>0, <2>2, <2>4, <2>5 DEF TrType
    <2> QED
      BY <1>0, <2>3, <2>6 DEF Relays, Usages
  <1>3. CASE e.ev \notin {"MessageStart", "MessageDelta"}
    <2>1. h.last = g.last /\ h.start = g.start
      BY <1>0, <1>3 DEF After, Story
    <2> DEFINE f == IF e.ev = "Error" THEN TRUE ELSE t.failed
    <2>2. s = [t EXCEPT !.failed = f]
      <3>1. CASE e.ev = "Error"
        BY <3>1 DEF Tap
      <3>2. CASE e.ev # "Error"
        <4>1. s = t
          BY <1>3, <3>2 DEF Tap
        <4> QED
          BY <1>0, <3>2, <4>1 DEF TrType
      <3> QED
        BY <3>1, <3>2
    <2>3. f \in BOOLEAN
      BY <1>0, TrFields
    <2> HIDE DEF f
    <2>6. s \in TrType /\ s.items = t.items /\ s.wire = t.wire /\ s.startUsage = t.startUsage /\ s.lastUsage = t.lastUsage
      BY <1>0, <2>2, <2>3 DEF TrType
    <2> QED
      BY <1>0, <2>1, <2>6 DEF Relays, Usages
  <1> QED
    BY <1>1, <1>2, <1>3

-----------------------------------------------------------------------------
(* The events of one frame, one after the other.                           *)
Speaks == ingress \in Spoken /\ egress \in Spoken

Following(c0, t, g) ==
    /\ SameProto => Relays(t) /\ Usages(t, g)
    /\ ~ SameProto => Tracking(c0, t, g)

\* One event is followed, translated or tapped.
LEMMA OneEventFollows ==
    ASSUME Speaks, NEW c0, NEW t, NEW g, Told(g), Following(c0, t, g),
           NEW e \in Event, Allowed(g, e), NEW h, h = After(g, e), Told(h),
           NEW s, s = OneEvent(t, e)
    PROVE  Following(c0, s, h)
  <1>1. CASE SameProto
    <2>1. s = Tap(t, e) /\ Relays(t) /\ Usages(t, g)
      BY <1>1 DEF OneEvent, Following
    <2>2. Relays(s) /\ Usages(s, h)
      BY <2>1, TapStep
    <2> QED
      BY <1>1, <2>2 DEF Following
  <1>2. CASE ~ SameProto
    <2>1. s = TranslateEvent(t, e) /\ Tracking(c0, t, g)
      BY <1>2 DEF OneEvent, Following
    <2>2. Translates
      BY <1>2 DEF Translates, Speaks, SameProto
    <2>3. Tracking(c0, s, h)
      BY <2>1, <2>2, TranslateStep
    <2> QED
      BY <1>2, <2>3 DEF Following
  <1> QED
    BY <1>1, <1>2

\* So are all the events of a frame, in their order.
LEMMA EventsFollow ==
    ASSUME Speaks, NEW c0, NEW t, NEW g, Following(c0, t, g),
           NEW evs, NEW h, Legal(g, evs, h),
           NEW s, s = FoldLeft(OneEvent, t, evs)
    PROVE  Following(c0, s, h)
  <1> DEFINE N == Len(evs)
             k == "event"
             F(m) == FoldTo(k, t, evs, m)
  <1>0. /\ N \in Nat /\ DOMAIN evs = 1 .. N
        /\ \A m \in 1 .. N : evs[m] \in Event
    BY DEF Legal
  <1>1. PICK r : /\ r[0] = g /\ r[N] = h /\ \A i \in 0 .. N : Told(r[i])
                 /\ \A i \in 1 .. N : Allowed(r[i - 1], evs[i]) /\ r[i] = After(r[i - 1], evs[i])
    BY DEF Legal
  <1>2. s = F(N)
    BY <1>0, EventFold
  <1>3. \A x, y : Do(k, x, y) = OneEvent(x, y)
    BY DEF Do
  <1> HIDE DEF N, k
  <1> DEFINE T == {m \in 0 .. N : Following(c0, F(m), r[m])}
  <1>4. 0 \in T
    <2>1. F(0) = t
      BY FoldZero
    <2> QED
      BY <1>0, <1>1, <2>1
  <1>5. ASSUME NEW m \in 0 .. (N - 1), m \in T PROVE m + 1 \in T
    <2> DEFINE x == F(m)
               y == F(m + 1)
               a == r[m]
               e == evs[m + 1]
               b == r[m + 1]
    <2>0. m \in Nat /\ m + 1 \in 1 .. N /\ m \in 0 .. N /\ (m + 1) - 1 = m /\ m + 1 \in 0 .. N
      BY <1>0
    <2>1. Following(c0, x, a)
      BY <1>5
    <2>3. y = OneEvent(x, e)
      BY <1>3, <2>0, FoldNext
    <2>4. e \in Event
      BY <1>0, <2>0
    <2>5. Told(a) /\ Allowed(a, e) /\ b = After(a, e) /\ Told(b)
      BY <1>1, <2>0
    <2> HIDE DEF x, y, a, e, b
    <2>7. Following(c0, y, b)
      BY <2>1, <2>3, <2>4, <2>5, OneEventFollows
    <2>9. m + 1 \in T
      BY <2>0, <2>7 DEF y, b
    <2> QED
      BY <2>9
  <1>6. N \in T
    <2> HIDE DEF T
    <2> QED
      BY <1>0, <1>4, <1>5, Upward
  <1> QED
    BY <1>1, <1>2, <1>6

LEMMA StepBy ==
    ASSUME NEW d, NEW u, NEW g, NEW s, NEW r, s.next \in UpType, s.next.frames = u.frames + 1,
           Reads(g, r, s.next)
    PROVE  Advances(d, u, g, s, r)
  BY DEF Advances

\* Whatever the dialect, its reader tells a story of what the upstream sends.
LEMMA EveryReaderReads ==
    ASSUME egress \in Spoken, NEW d \in Decode, NEW u \in UpType, u.phase # "closed",
           NEW g, ReaderInv(d, u, g), NEW s \in SendsOf(egress, u)
    PROVE  \E r : Advances(d, u, g, s, r) /\ (d = dec => r = Read(s.frame))
  <1>1. CASE egress = "openai"
    <2> DEFINE r == ReadOpenAi(d, s.frame)
    <2>1. s \in OpenAiSends(u) /\ (d = dec => r = Read(s.frame))
      BY <1>1 DEF SendsOf, Read
    <2>w. r = ReadOpenAi(d, s.frame)
      OBVIOUS
    <2> HIDE DEF r
    <2>2. s.next \in UpType /\ s.next.frames = u.frames + 1 /\ Reads(g, r, s.next)
      BY <1>1, <2>1, <2>w, OpenAiReads
    <2>3. Advances(d, u, g, s, r)
      BY <2>2, StepBy
    <2> QED
      BY <2>1, <2>3
  <1>2. CASE egress = "cohere"
    <2> DEFINE r == ReadCohere(d, s.frame)
    <2>1. s \in CohereSends(u) /\ (d = dec => r = Read(s.frame))
      BY <1>2 DEF SendsOf, Read
    <2>w. r = ReadCohere(d, s.frame)
      OBVIOUS
    <2> HIDE DEF r
    <2>3. Advances(d, u, g, s, r)
      BY <1>2, <2>1, <2>w, CohereReads
    <2> QED
      BY <2>1, <2>3
  <1>3. CASE egress = "bedrock"
    <2> DEFINE r == ReadBedrock(d, s.frame)
    <2>1. s \in BedrockSends(u) /\ (d = dec => r = Read(s.frame))
      BY <1>3 DEF SendsOf, Read
    <2>w. r = ReadBedrock(d, s.frame)
      OBVIOUS
    <2> HIDE DEF r
    <2>3. Advances(d, u, g, s, r)
      BY <1>3, <2>1, <2>w, BedrockReads
    <2> QED
      BY <2>1, <2>3
  <1>4. CASE egress = "anthropic"
    <2> DEFINE r == ReadAnthropic(d, s.frame)
    <2>1. s \in AnthropicSends(u) /\ (d = dec => r = Read(s.frame))
      BY <1>4 DEF SendsOf, Read
    <2>w. r = ReadAnthropic(d, s.frame)
      OBVIOUS
    <2> HIDE DEF r
    <2>3. Advances(d, u, g, s, r)
      BY <1>4, <2>1, <2>w, AnthropicReads
    <2> QED
      BY <2>1, <2>3
  <1>5. CASE egress = "gemini"
    <2> DEFINE r == ReadGemini(d, s.frame)
    <2>1. s \in GeminiSends(u) /\ (d = dec => r = Read(s.frame))
      BY <1>5 DEF SendsOf, Read
    <2>w. r = ReadGemini(d, s.frame)
      OBVIOUS
    <2> HIDE DEF r
    <2>3. Advances(d, u, g, s, r)
      BY <1>5, <2>1, <2>w, GeminiReads
    <2> QED
      BY <2>1, <2>3
  <1>6. CASE egress = "responses"
    <2> DEFINE r == ReadResponses(d, s.frame)
    <2>1. s \in ResponsesSends(u) /\ (d = dec => r = Read(s.frame))
      BY <1>6 DEF SendsOf, Read
    <2>w. r = ReadResponses(d, s.frame)
      OBVIOUS
    <2> HIDE DEF r
    <2>3. Advances(d, u, g, s, r)
      BY <1>6, <2>1, <2>w, ResponsesReads
    <2> QED
      BY <2>1, <2>3
  <1> QED
    BY <1>1, <1>2, <1>3, <1>4, <1>5, <1>6 DEF Spoken

-----------------------------------------------------------------------------
(* StreamTranslate::finish, of a translator that has followed the story h  *)
(* and closed its blocks.                                                  *)
Clean(t, c) ==
    /\ c.faults \cap {"reused", "stray", "late"} = {}
    /\ "unclosed" \in c.faults => t.missed

ToldUsage(h, v) ==
    h.phase # "body" /\ h.last # NoUsage =>
        /\ ingress # "openai" => v.usage = h.last
        /\ ingress = "openai" =>
             v.usage = IF h.last = Final /\ (includeUsage \/ v.finishes = 0)
                       THEN Final ELSE NoUsage

Over(c0, r, h, s, v) ==
    /\ OutOf(c0, s, v) /\ s.lastUsage = r.lastUsage /\ (s.failed <=> r.failed)
    /\ s.items = {} /\ Clean(s, v) /\ (r.failed => v.errors > 0) /\ ToldUsage(h, v)

Winding(c0, r, h, c) ==
    OutOf(c0, r, c) /\ Sync(r, h, c) /\ h.open = {} /\ Told(h)

\* Sync leaves the client without a fault.
LEMMA CleanOf ==
    ASSUME NEW t, NEW g, NEW c, Blocks(t, g, c), g.open = {}
    PROVE  Clean(t, c) /\ t.items = {}
  BY DEF Blocks, Clean, KeptOf

\* BedrockStreamFraming::on_finish writes the metadata still owed.
LEMMA OnFinishIs ==
    ASSUME NEW r
    PROVE  /\ (r.pending /\ ~ r.emitted => OnFinish(r) = EmittedIs(Emit(r, LateDelta(Zero))))
           /\ (~ (r.pending /\ ~ r.emitted) => OnFinish(r) = r)
  BY DEF OnFinish, EmittedIs, LateDelta

ClearIs(z)   == [z EXCEPT !.pendingTerminal = NoUsage]
TermDelta(u) == MessageDelta(TRUE, u)

\* finish writes the terminal frame that was held back.
LEMMA FlushIs ==
    ASSUME NEW q, NEW z, z = ClearIs(Emit(q, TermDelta(q.pendingTerminal)))
    PROVE  /\ (q.pendingTerminal = NoUsage => FlushTerminal(q) = q)
           /\ (q.pendingTerminal # NoUsage /\ z.pendingStop => FlushTerminal(q) = Emit(z, MessageStop))
           /\ (q.pendingTerminal # NoUsage /\ ~ z.pendingStop => FlushTerminal(q) = z)
  BY DEF FlushTerminal, ClearIs, TermDelta

LEMMA ClearSet ==
    ASSUME NEW q \in TrType, NEW s, s = ClearIs(q)
    PROVE  /\ s \in TrType /\ SameBlocks(q, s) /\ s.wire = q.wire
           /\ s.lastUsage = q.lastUsage /\ (s.failed <=> q.failed)
  <1>1. NoUsage \in Tokens
    BY UsageIs DEF Tokens
  <1> DEFINE u == NoUsage
  <1>2. s = [q EXCEPT !.pendingTerminal = u] /\ u \in Tokens
    BY <1>1 DEF ClearIs
  <1> HIDE DEF u
  <1> QED
    BY <1>2 DEF TrType, SameBlocks

LEMMA TermDeltaIs ==
    ASSUME NEW u \in Tokens, u # NoUsage
    PROVE  IsDelta(TermDelta(u)) /\ TermDelta(u).stop /\ TermDelta(u).usage = u
  BY DEF Tokens, IsDelta, TermDelta, MessageDelta, Event

LEMMA OverSame ==
    ASSUME NEW c0, NEW r, NEW h, NEW c, Winding(c0, r, h, c), ToldUsage(h, c)
    PROVE  Over(c0, r, h, r, c)
  BY CleanOf DEF Winding, Over, Sync

\* An openai client has been told everything.
LEMMA FinishOpenAi ==
    ASSUME Translates, ingress = "openai", NEW c0, NEW r, NEW h, NEW c, Winding(c0, r, h, c),
           NEW s, s = FlushTerminal(OnFinish(r))
    PROVE  \E v : Over(c0, r, h, s, v)
  <1>1. ~ r.pending /\ r.pendingTerminal = NoUsage
    BY DEF Winding, Sync, Ends, Defers
  <1>2. s = r
    BY <1>1, OnFinishIs, FlushIs
  <1>3. h.phase \in {"body", "terminal", "final", "end"} /\ c.finishes \in Nat
    BY ClientFields DEF Winding, Told, Story, Phases, OutOf
  <1>4. /\ (h.phase = "terminal" =>
              c.finishes > 0 /\ c.usage = IF h.last = Final /\ includeUsage THEN Final ELSE NoUsage)
        /\ (h.phase \in {"final", "end"} =>
              c.finishes = 0 /\ c.usage = IF h.last = Final THEN Final ELSE NoUsage)
    BY DEF Winding, Sync, Ends
  <1>5. ToldUsage(h, c)
    BY <1>3, <1>4 DEF ToldUsage
  <1> QED
    BY <1>2, <1>5, OverSame

\* A bedrock client may still be owed its metadata frame.
LEMMA FinishBedrock ==
    ASSUME Translates, ingress = "bedrock", NEW c0, NEW r, NEW h, NEW c, Winding(c0, r, h, c),
           NEW s, s = FlushTerminal(OnFinish(r))
    PROVE  \E v : Over(c0, r, h, s, v)
  <1>1. /\ r.pendingTerminal = NoUsage /\ ~ c.stopped /\ r \in TrType
        /\ (r.emitted => c.usage = h.last)
        /\ (~ r.emitted /\ h.phase # "body" /\ h.last # NoUsage => h.last = Zero /\ r.pending)
        /\ c \in ClientType /\ Blocks(r, h, c) /\ (r.failed => c.errors > 0)
    BY ClientFields DEF Winding, Sync, Ends, Defers, OutOf
  <1>2. CASE r.pending /\ ~ r.emitted
    <2> DEFINE x == LateDelta(Zero)
               q == Emit(r, x)
               y == EmittedIs(q)
    <2>1. IsDelta(x) /\ ~ x.stop /\ x.usage = Zero /\ x.ev = "MessageDelta"
      BY UsageIs, DeltasAre DEF Tokens, IsDelta
    <2>2. Written(r, x) = Just(UsageFrame(Zero))
      <3> HIDE DEF x
      <3> QED
        BY <2>1, BedrockWrites
    <2>3. OnFinish(r) = y
      BY <1>2, OnFinishIs
    <2>w. q = Emit(r, x) /\ y = EmittedIs(q)
      OBVIOUS
    <2>z. Zero \in Tokens
      BY UsageIs DEF Tokens
    <2> HIDE DEF x, q, y
    <2>4. PICK v : /\ OutOf(c0, q, v) /\ Said(c, v) /\ TrLike(r, q) /\ SameBlocks(r, q)
                   /\ v.open = c.open /\ v.used = c.used /\ v.faults = c.faults
                   /\ v.finishes = c.finishes /\ v.usage = Zero
      BY <1>1, <2>1, <2>2, <2>w, <2>z, UsageEmitted DEF Winding
    <2>5. q \in TrType
      BY <2>4 DEF OutOf
    <2>6. y \in TrType /\ SameBlocks(q, y) /\ SameEnds(q, y) /\ y.wire = q.wire
      BY <2>5, <2>w, EmittedSet
    <2>7. y.pendingTerminal = NoUsage
      BY <1>1, <2>4, <2>6 DEF TrLike, SameEnds
    <2>8. s = y
      BY <2>3, <2>7, FlushIs
    <2>9. OutOf(c0, y, v)
      BY <2>4, <2>6 DEF OutOf
    <2>10. y.lastUsage = r.lastUsage /\ (y.failed <=> r.failed)
      BY <2>4, <2>6 DEF TrLike, SameEnds
    <2>11. SameBlocks(r, y)
      BY <2>4, <2>6, SameBlocksAgain
    <2>12. Clean(r, c) /\ r.items = {}
      BY <1>1, CleanOf DEF Winding
    <2>13. y.items = {} /\ Clean(y, v)
      BY <2>4, <2>11, <2>12 DEF SameBlocks, Clean
    <2>14. r.failed => v.errors > 0
      BY <1>1, <2>4 DEF Said
    <2>15. ToldUsage(h, v)
      BY <1>1, <1>2, <2>4 DEF ToldUsage
    <2>16. Over(c0, r, h, y, v)
      BY <2>9, <2>10, <2>13, <2>14, <2>15 DEF Over
    <2> QED
      BY <2>8, <2>16
  <1>3. CASE ~ (r.pending /\ ~ r.emitted)
    <2>1. s = r
      BY <1>1, <1>3, OnFinishIs, FlushIs
    <2>2. ToldUsage(h, c)
      BY <1>1, <1>3 DEF ToldUsage
    <2> QED
      BY <2>1, <2>2, OverSame
  <1> QED
    BY <1>2, <1>3

\* The other dialects' terminal frame is held back until now.
LEMMA FinishDefers ==
    ASSUME Translates, Defers, NEW c0, NEW r, NEW h, NEW c, Winding(c0, r, h, c),
           NEW s, s = FlushTerminal(OnFinish(r))
    PROVE  \E v : Over(c0, r, h, s, v)
  <1>0. ingress \in Spoken /\ ingress \notin {"openai", "bedrock"}
    BY DEF Translates, Defers
  <1>1. /\ ~ r.pending /\ r \in TrType /\ r.pendingTerminal \in Tokens
        /\ (r.pendingTerminal # NoUsage => h.phase = "terminal" /\ r.pendingTerminal = h.last)
        /\ (h.phase = "terminal" => r.pendingTerminal = h.last)
        /\ (h.phase \in {"final", "end"} /\ h.last # NoUsage => c.usage = h.last)
        /\ c \in ClientType /\ Blocks(r, h, c) /\ (r.failed => c.errors > 0)
        /\ (c.stopped => h.phase = "end")
        /\ h.phase \in {"body", "terminal", "final", "end"}
    BY <1>0, TrFields DEF Winding, Sync, Ends, OutOf, Told, Story, Phases
  <1>2. OnFinish(r) = r
    BY <1>1, OnFinishIs
  <1>3. CASE r.pendingTerminal = NoUsage
    <2>1. s = r
      BY <1>2, <1>3, FlushIs
    <2>2. ToldUsage(h, c)
      BY <1>0, <1>1, <1>3 DEF ToldUsage
    <2> QED
      BY <2>1, <2>2, OverSame
  <1>4. CASE r.pendingTerminal # NoUsage
    <2> DEFINE u == r.pendingTerminal
               x == TermDelta(u)
               q == Emit(r, x)
               z == ClearIs(q)
    <2>1. IsDelta(x) /\ x.stop /\ x.usage = u /\ x.ev = "MessageDelta" /\ u \in Tokens /\ u # NoUsage
      <3> HIDE DEF u
      <3>1. u \in Tokens /\ u # NoUsage
        BY <1>1, <1>4 DEF u
      <3> QED
        BY <3>1, TermDeltaIs DEF IsDelta
    <2>2. /\ (z.pendingStop => s = Emit(z, MessageStop))
          /\ (~ z.pendingStop => s = z)
      BY <1>2, <1>4, FlushIs
    <2>3. ~ c.stopped /\ u = h.last
      BY <1>1, <1>4
    <2>w. q = Emit(r, x) /\ z = ClearIs(q)
      OBVIOUS
    <2> HIDE DEF u, x, q, z
    <2>4. Written(r, x) = Just(FinishOf(u))
      BY <1>0, <2>1, WritesFinish
    <2>5. PICK b : /\ OutOf(c0, q, b) /\ Said(c, b) /\ TrLike(r, q) /\ SameBlocks(r, q)
                   /\ b.open = c.open /\ b.used = c.used /\ b.faults \subseteq c.faults \cup {"unclosed"}
                   /\ (c.open = {} \/ ingress = "openai" => b.faults = c.faults)
                   /\ b.usage = u
      BY <2>1, <2>3, <2>4, <2>w, FinishEmitted DEF Winding
    <2>6. q \in TrType
      BY <2>5 DEF OutOf
    <2>7. /\ z \in TrType /\ SameBlocks(q, z) /\ z.wire = q.wire
          /\ z.lastUsage = q.lastUsage /\ (z.failed <=> q.failed)
      BY <2>6, <2>w, ClearSet
    <2>8. OutOf(c0, z, b)
      BY <2>5, <2>7 DEF OutOf
    <2>9. SameBlocks(r, z) /\ z.lastUsage = r.lastUsage /\ (z.failed <=> r.failed)
      BY <2>5, <2>7, SameBlocksAgain DEF TrLike
    <2>10. Blocks(z, h, b)
      BY <1>1, <2>5, <2>9, BareBlocks DEF Winding
    <2>11. Clean(z, b) /\ z.items = {}
      BY <2>10, CleanOf DEF Winding
    <2>12. r.failed => b.errors > 0
      BY <1>1, <2>5 DEF Said
    <2>13. CASE ~ z.pendingStop
      <3>1. ToldUsage(h, b)
        BY <1>0, <2>3, <2>5 DEF ToldUsage
      <3>2. Over(c0, r, h, z, b)
        BY <2>8, <2>9, <2>11, <2>12, <3>1 DEF Over
      <3> QED
        BY <2>2, <2>13, <3>2
    <2>14. CASE z.pendingStop
      <3> DEFINE e == MessageStop
      <3>1. e \in Event /\ e.ev = "MessageStop"
        BY DEF Event, MessageStop
      <3>w. e = MessageStop
        OBVIOUS
      <3>2. s = Emit(z, e)
        BY <2>2, <2>14
      <3> HIDE DEF e
      <3>3. PICK v : /\ OutOf(c0, s, v) /\ TrLike(z, s) /\ EmitBlocks(z, e, s)
                     /\ v.usage = b.usage /\ v.faults = b.faults /\ v.errors = b.errors
        <4>1. CASE ingress = "anthropic"
          <5> DEFINE v == See(b, StopFrame)
          <5>1. v \in ClientType /\ v.usage = b.usage /\ v.faults = b.faults /\ v.errors = b.errors
            BY <2>8, SeeStop DEF OutOf
          <5>2. Written(z, e) = Just(StopFrame)
            BY <1>0, <3>w, <4>1, WritesStop
          <5>3. StopFrame \in FrameType
            BY FramesAre, UsageIs, 0 \in Int, "stop" \in FrameNames, NoUsage \in Tokens DEF Tokens, FrameNames
          <5>w. v = See(b, StopFrame)
            OBVIOUS
          <5> HIDE DEF v
          <5>4. OutOf(c0, s, v) /\ TrLike(z, s) /\ EmitBlocks(z, e, s)
            BY <2>8, <3>1, <3>2, <5>1, <5>2, <5>3, <5>w, EmitOne
          <5> QED
            BY <5>1, <5>4
        <4>2. CASE ingress # "anthropic"
          <5>1. Nothing(Written(z, e))
            BY <1>0, <3>w, <4>2, WritesStop
          <5>2. OutOf(c0, s, b) /\ TrLike(z, s) /\ EmitBlocks(z, e, s)
            BY <2>8, <3>1, <3>2, <5>1, EmitNone
          <5> QED
            BY <5>2
        <4> QED
          BY <4>1, <4>2
      <3>4. SameBlocks(z, s)
        BY <3>1, <3>3 DEF EmitBlocks
      <3>5. s.items = {} /\ Clean(s, v)
        BY <2>11, <3>3, <3>4 DEF SameBlocks, Clean
      <3>6. s.lastUsage = r.lastUsage /\ (s.failed <=> r.failed)
        BY <2>9, <3>3 DEF TrLike
      <3>7. ToldUsage(h, v)
        BY <1>0, <2>3, <2>5, <3>3 DEF ToldUsage
      <3>8. r.failed => v.errors > 0
        BY <2>12, <3>3
      <3>9. Over(c0, r, h, s, v)
        BY <3>3, <3>5, <3>6, <3>7, <3>8 DEF Over
      <3> QED
        BY <3>9
    <2> QED
      BY <2>13, <2>14
  <1> QED
    BY <1>3, <1>4

-----------------------------------------------------------------------------
(* The invariant of a stream.                                              *)
Follows(t, g, c) ==
    /\ Usages(t, g)
    /\ SameProto => t.items = {}
    /\ ~ SameProto => Sync(t, g, c)

Shape ==
    /\ Speaks
    /\ up \in UpType /\ dec \in Decode /\ tr \in TrType /\ client \in ClientType
    /\ aborted \in BOOLEAN
    /\ Nothing(tr.wire)

Faultless == Clean(tr, client) /\ (SameProto => client.faults = {})

Sent == tr.failed \/ aborted => up.frames > 0

Reading(d, g) ==
    /\ d \in Decode /\ ReaderInv(d, up, g)
    /\ ~ aborted => d = dec /\ Follows(tr, g, client)

Running ==
    body = "open" =>
        /\ transients = 0 /\ billed = NoUsage
        /\ \E d, g : Reading(d, g)

Settled ==
    body = "ended" =>
        /\ ~ StreamFailed => tr.items = {}
        /\ UsageAgrees

StreamInv ==
    Shape /\ Faultless /\ Sent /\ Running /\ Settled /\ FailureSettled

-----------------------------------------------------------------------------
(* It says what is checked.                                                *)
LEMMA SettledSays ==
    ASSUME StreamInv
    PROVE  BlocksBalanced /\ TerminalLast /\ UsageAgrees /\ FailureSettled
  <1>1. BlocksBalanced
    BY DEF StreamInv, Faultless, Clean, BlocksBalanced
  <1>2. TerminalLast
    BY DEF StreamInv, Faultless, Clean, Settled, TerminalLast
  <1>3. UsageAgrees
    BY DEF StreamInv, Settled, UsageAgrees
  <1> QED
    BY <1>1, <1>2, <1>3 DEF StreamInv

-----------------------------------------------------------------------------
(* It holds at first.                                                      *)
UpStart(k) == [phase |-> "head", open |-> {}, used |-> {}, sent |-> NoUsage,
               kind |-> k, fault |-> FALSE, frames |-> 0]

\* The state in which each part starts.
LEMMA UpInitIs == \E k \in UpKinds : UpInit = UpStart(k)
  <1> DEFINE k == ""
  <1>1. k \in UpKinds
    BY Zenon DEF UpKinds
  <1>2. UpInit = UpStart(k)
    BY Zenon DEF UpInit, UpStart
  <1> HIDE DEF k
  <1> QED
    BY <1>1, <1>2

LEMMA UpStartIs ==
    ASSUME NEW k \in UpKinds, NEW u, u = UpStart(k)
    PROVE  /\ u \in UpType /\ u.phase = "head" /\ u.open = {} /\ u.used = {}
           /\ u.sent = NoUsage /\ ~ u.fault
  BY DEF UpStart, UpType

LEMMA DecodeInitIs ==
    ASSUME NEW d, d = DecodeInit
    PROVE  /\ d \in Decode /\ ~ d.started /\ ~ d.textOpen /\ d.textIndex = None
           /\ ~ d.textClosed /\ ~ d.textSeen /\ d.openTools = {} /\ ~ d.reasoningSeen
           /\ ~ d.thinkingOpen /\ ~ d.pendingStop /\ d.nextIr = 0
           /\ DOMAIN d.toolIr = {}
  BY MapsEmpty DEF DecodeInit, Decode, None

LEMMA StoryInitIs ==
    ASSUME NEW g, g = StoryInit
    PROVE  /\ Told(g) /\ g.open = {} /\ g.used = {} /\ g.phase = "body"
           /\ g.start = NoUsage /\ g.last = NoUsage
  <1>1. g = Tale({}, {}, "body", NoUsage, NoUsage)
    BY DEF StoryInit, Tale
  <1>2. IsFiniteSet({}) /\ Idx({}) = {}
    BY FS_EmptySet DEF Idx
  <1> QED
    BY <1>1, <1>2, ToldTale DEF Phases

\* The invariant of every reader holds of a fresh decode state.
LEMMA ReadersStart ==
    ASSUME egress \in Spoken, NEW k \in UpKinds, NEW u, u = UpStart(k),
           NEW d, d = DecodeInit, NEW g, g = StoryInit
    PROVE  ReaderInv(d, u, g)
  <1>1. /\ u \in UpType /\ u.phase = "head" /\ u.open = {} /\ u.used = {}
        /\ u.sent = NoUsage /\ ~ u.fault
    BY UpStartIs
  <1>2. /\ d \in Decode /\ ~ d.started /\ ~ d.textOpen /\ d.textIndex = None
        /\ ~ d.textClosed /\ ~ d.textSeen /\ d.openTools = {} /\ ~ d.reasoningSeen
        /\ ~ d.thinkingOpen /\ ~ d.pendingStop /\ d.nextIr = 0
        /\ DOMAIN d.toolIr = {}
    BY DecodeInitIs
  <1>3. /\ Told(g) /\ g.open = {} /\ g.used = {} /\ g.phase = "body"
        /\ g.start = NoUsage /\ g.last = NoUsage
    BY StoryInitIs
  <1>4. IsFiniteSet({}) /\ Cardinality({}) = 0
    BY FS_EmptySet
  <1>5. ASSUME NEW T, T = {} PROVE Chat(d, g, T) /\ Thinks(d)
    BY <1>2, <1>3, <1>5 DEF Chat, Thinks, Think, TextOf
  <1>6. One(u, g)
    BY <1>1, <1>3, <1>4 DEF One
  <1>7. OaInv(d, u, g)
    <2>1. {d.toolIr[i] : i \in d.openTools} = {}
      BY <1>2
    <2> QED
      BY <1>1, <1>2, <1>4, <1>5, <2>1 DEF OaInv
  <1>8. GeInv(d, u, g)
    BY <1>1, <1>2, <1>5 DEF GeInv
  <1>9. CoInv(d, u, g)
    BY <1>1, <1>2, <1>3, <1>4 DEF CoInv
  <1>10. BeInv(d, u, g)
    BY <1>1, <1>2, <1>3, <1>6 DEF BeInv
  <1>11. AnInv(d, u, g)
    BY <1>1, <1>3, <1>6 DEF AnInv
  <1>12. RsInv(d, u, g)
    <2>1. 0 .. (0 - 1) = {} /\ 0 <= MaxOpenTools + 1
      BY KeysAssumption, ReadersAssumption
    <2>2. {p[1] : p \in {q \in g.open : q[2] # "text"}} = {}
          /\ {TextKey(p[1]) : p \in {q \in g.open : q[2] = "text"}} = {}
      BY <1>3
    <2> QED
      BY <1>1, <1>2, <1>3, <1>4, <2>1, <2>2 DEF RsInv
  <1> QED
    BY <1>1, <1>3, <1>7, <1>8, <1>9, <1>10, <1>11, <1>12 DEF ReaderInv, Spoken

LEMMA TrInitIs ==
    ASSUME NEW t, t = TrInit
    PROVE  /\ t \in TrType /\ t.startUsage = NoUsage /\ t.lastUsage = NoUsage /\ ~ t.failed
           /\ ~ t.stopped /\ t.pendingTerminal = NoUsage /\ ~ t.pendingStop
           /\ t.openBlocks = {} /\ t.items = {} /\ ~ t.missed /\ ~ t.emitted /\ ~ t.pending
           /\ Nothing(t.wire)
  BY UsageIs DEF TrInit, TrType, Tokens, Nothing

LEMMA ClientInitIs ==
    ASSUME NEW c, c = ClientInit
    PROVE  /\ c \in ClientType /\ c.open = {} /\ c.used = {} /\ c.finishes = 0
           /\ c.usage = NoUsage /\ c.errors = 0 /\ ~ c.stopped /\ c.faults = {}
  BY UsageIs DEF ClientInit, ClientType, Tokens

\* A fresh translator follows the empty story.
LEMMA FollowsStart ==
    ASSUME NEW t, t = TrInit, NEW g, g = StoryInit, NEW c, c = ClientInit
    PROVE  Follows(t, g, c)
  <1>1. /\ t \in TrType /\ t.startUsage = NoUsage /\ t.lastUsage = NoUsage /\ ~ t.failed
        /\ ~ t.stopped /\ t.pendingTerminal = NoUsage /\ ~ t.pendingStop
        /\ t.openBlocks = {} /\ t.items = {} /\ ~ t.missed /\ ~ t.emitted /\ ~ t.pending
    BY TrInitIs
  <1>2. /\ Told(g) /\ g.open = {} /\ g.used = {} /\ g.phase = "body"
        /\ g.start = NoUsage /\ g.last = NoUsage
    BY StoryInitIs
  <1>3. /\ c \in ClientType /\ c.open = {} /\ c.used = {} /\ c.finishes = 0
        /\ c.usage = NoUsage /\ c.errors = 0 /\ ~ c.stopped /\ c.faults = {}
    BY ClientInitIs
  <1>4. Idx(g.open) = {} /\ ShownOf(g.open) = {} /\ KeptOf(g.open) = {}
    BY <1>2 DEF Idx, ShownOf, KeptOf
  <1>5. Blocks(t, g, c)
    BY <1>1, <1>2, <1>3, <1>4, BlocksAre
  <1>6. Ends(t, g, c)
    BY <1>1, <1>2, <1>3 DEF Ends
  <1> QED
    BY <1>1, <1>2, <1>5, <1>6 DEF Follows, Usages, Sync

\* The invariant holds when the body is first polled.
LEMMA StreamStarts ==
    ASSUME StreamInit
    PROVE  StreamInv
  <1>1. /\ Speaks /\ up = UpInit /\ dec = DecodeInit /\ tr = TrInit /\ ~ aborted
        /\ aborted \in BOOLEAN /\ body = "open" /\ billed = NoUsage /\ transients = 0
        /\ client = ClientInit
    BY StreamAssumption DEF StreamInit, Speaks, Spoken
  <1>2. PICK k \in UpKinds : up = UpStart(k)
    BY <1>1, UpInitIs
  <1> DEFINE g == StoryInit
             d == DecodeInit
  <1>3. ReaderInv(d, up, g)
    BY <1>1, <1>2, ReadersStart DEF Speaks
  <1>4. Follows(tr, g, client)
    BY <1>1, FollowsStart
  <1>5. d \in Decode
    BY DecodeInitIs
  <1> HIDE DEF g, d
  <1>6. Reading(d, g)
    BY <1>1, <1>3, <1>4, <1>5 DEF Reading, d
  <1>7. Running
    BY <1>1, <1>6 DEF Running
  <1>8. Shape
    BY <1>1, <1>2, UpStartIs, DecodeInitIs, TrInitIs, ClientInitIs DEF Shape
  <1>9. Faultless
    BY <1>1, ClientInitIs DEF Faultless, Clean
  <1>10. Sent
    BY <1>1, TrInitIs DEF Sent
  <1>11. Settled /\ FailureSettled
    BY <1>1 DEF Settled, FailureSettled
  <1> QED
    BY <1>7, <1>8, <1>9, <1>10, <1>11 DEF StreamInv

-----------------------------------------------------------------------------
(* The parts of the invariant in the next state, from what the step leaves. *)
Dialects == ingress' = ingress /\ egress' = egress /\ includeUsage' = includeUsage

\* Each part of the invariant, from what it speaks of.
LEMMA ShapeNext ==
    ASSUME Speaks, Dialects, NEW u \in UpType, NEW d \in Decode, NEW t \in TrType,
           NEW c \in ClientType, Nothing(t.wire),
           up' = u, dec' = d, tr' = t, client' = c, aborted' \in BOOLEAN
    PROVE  Shape'
  BY DEF Shape, Speaks, Dialects

LEMMA FaultlessNext ==
    ASSUME Dialects, NEW t, NEW c, Clean(t, c), SameProto => c.faults = {},
           tr' = t, client' = c
    PROVE  Faultless'
  BY DEF Faultless, Clean, SameProto, Dialects

LEMMA ReadingNext ==
    ASSUME Dialects, NEW d \in Decode, NEW u, NEW g, ReaderInv(d, u, g), up' = u
    PROVE  ReaderInv(d, up, g)'
  BY DEF ReaderInv, Dialects

LEMMA FollowsNext ==
    ASSUME Dialects, NEW t, NEW g, NEW c, Follows(t, g, c)
    PROVE  Follows(t, g, c)'
  <1>1. SameProto' <=> SameProto
    BY DEF SameProto, Dialects
  <1>2. (Defers <=> Defers') /\ (SameProto' <=> SameProto)
    BY <1>1 DEF Defers, Dialects
  <1>3. \A p : (Kept(p) <=> Kept(p)') /\ (Shown(p) <=> Shown(p)')
    BY DEF Kept, Shown, Dialects
  <1>4. Blocks(t, g, c) => Blocks(t, g, c)'
    BY <1>3 DEF Blocks, Dialects
  <1>5. Ends(t, g, c) => Ends(t, g, c)'
    BY <1>2 DEF Ends, Dialects
  <1> QED
    BY <1>2, <1>4, <1>5 DEF Follows, Sync

LEMMA RunningNext ==
    ASSUME Dialects, NEW d \in Decode, NEW u, NEW g, ReaderInv(d, u, g),
           NEW t, NEW c, ~ aborted' => dec' = d /\ Follows(t, g, c),
           up' = u, tr' = t, client' = c, transients' = 0, billed' = NoUsage
    PROVE  Running'
  <1>1. ReaderInv(d, up, g)'
    BY ReadingNext
  <1>2. ~ aborted' => Follows(t, g, c)'
    BY FollowsNext
  <1>3. ~ aborted' => Follows(tr, g, client)'
    BY <1>2
  <1>4. Reading(d, g)'
    BY <1>1, <1>3 DEF Reading
  <1> QED
    BY <1>4 DEF Running

\* A step of a body that stays open.
LEMMA OpenNext ==
    ASSUME Speaks, Dialects, NEW d \in Decode, NEW u \in UpType, NEW g, ReaderInv(d, u, g),
           NEW t \in TrType, Nothing(t.wire), NEW c \in ClientType,
           NEW x \in Decode, dec' = x, ~ aborted' => x = d /\ Follows(t, g, c),
           Clean(t, c), SameProto => c.faults = {},
           t.failed \/ aborted' => u.frames > 0, aborted' \in BOOLEAN, body' = "open",
           up' = u, tr' = t, client' = c, transients' = 0, billed' = NoUsage
    PROVE  StreamInv'
  <1>1. Shape'
    BY ShapeNext
  <1>2. Faultless'
    BY FaultlessNext
  <1>3. Sent'
    BY DEF Sent
  <1>4. Running'
    BY RunningNext
  <1>5. Settled' /\ FailureSettled'
    BY DEF Settled, FailureSettled
  <1> QED
    BY <1>1, <1>2, <1>3, <1>4, <1>5 DEF StreamInv

-----------------------------------------------------------------------------
(* What t wrote is delivered.                                              *)
LEMMA FollowingIs ==
    ASSUME Speaks, NEW t \in TrType, Nothing(t.wire), NEW c \in ClientType, NEW g,
           Follows(t, g, c)
    PROVE  Following(c, t, g)
  <1>1. c = Seen(c, t.wire)
    BY SeenNone DEF Nothing
  <1>2. OutOf(c, t, c)
    BY <1>1 DEF OutOf
  <1> QED
    BY <1>2 DEF Follows, Following, Relays, Tracking, Onward

Rested(t) == [t EXCEPT !.wire = <<>>]

LEMMA RestedIs ==
    ASSUME NEW t \in TrType, NEW s, s = Rested(t)
    PROVE  /\ s \in TrType /\ Nothing(s.wire) /\ SameBlocks(t, s) /\ TrLike(t, s)
  <1> DEFINE w == <<>>
  <1>1. w \in Seq(FrameType) /\ Nothing(w)
    BY DEF Nothing
  <1>2. s = [t EXCEPT !.wire = w]
    BY DEF Rested
  <1> HIDE DEF w
  <1> QED
    BY <1>1, <1>2 DEF TrType, SameBlocks, TrLike

LEMMA SyncRested ==
    ASSUME NEW t \in TrType, NEW g, NEW c \in ClientType, Sync(t, g, c), NEW s, s = Rested(t)
    PROVE  Sync(s, g, c)
  <1>1. s \in TrType /\ SameBlocks(t, s) /\ TrLike(t, s)
    BY RestedIs
  <1>2. Blocks(s, g, c)
    BY <1>1, BlocksSame DEF Sync
  <1>3. Like(c, c)
    BY DEF Like
  <1> QED
    BY <1>1, <1>2, <1>3, SameSame, SyncKept

\* What is delivered leaves the translator and reaches the client.
LEMMA Delivered ==
    ASSUME Speaks, NEW b \in ClientType, SameProto => b.faults = {},
           NEW t, NEW g, Following(b, t, g), Told(g),
           NEW c, c = FoldLeft(See, b, t.wire), NEW s, s = Rested(t)
    PROVE  /\ c \in ClientType /\ s \in TrType /\ Nothing(s.wire) /\ Follows(s, g, c)
           /\ Clean(s, c) /\ (SameProto => c.faults = {}) /\ (s.failed <=> t.failed)
  <1>1. CASE SameProto
    <2>1. Relays(t) /\ Usages(t, g)
      BY <1>1 DEF Following
    <2>2. t \in TrType /\ t.wire = <<>> /\ t.items = {}
      BY <2>1 DEF Relays, Nothing
    <2>3. s \in TrType /\ Nothing(s.wire) /\ SameBlocks(t, s) /\ TrLike(t, s)
      BY <2>2, RestedIs
    <2>4. c = b
      <3>1. t.wire \in Seq(FrameType)
        BY <2>2
      <3>2. c = Seen(b, t.wire)
        BY <3>1, SeenIs
      <3> QED
        BY <2>2, <3>2, SeenNone
    <2>5. Usages(s, g)
      BY <2>1, <2>3, UsagesKept, SameSame
    <2>6. Follows(s, g, c)
      BY <1>1, <2>2, <2>3, <2>5 DEF Follows, SameBlocks
    <2> QED
      BY <1>1, <2>3, <2>4, <2>6 DEF Clean, TrLike
  <1>2. CASE ~ SameProto
    <2>1. Onward(b, t, g) /\ Usages(t, g)
      BY <1>2 DEF Following, Tracking
    <2>2. PICK v : OutOf(b, t, v) /\ Sync(t, g, v)
      BY <2>1 DEF Onward
    <2>3. t \in TrType /\ v \in ClientType /\ v = Seen(b, t.wire)
      BY <2>2 DEF OutOf
    <2>4. c = v
      BY <2>3, TrFields, SeenIs
    <2>5. s \in TrType /\ Nothing(s.wire) /\ SameBlocks(t, s) /\ TrLike(t, s)
      BY <2>3, RestedIs
    <2>6. Sync(s, g, c)
      BY <2>2, <2>3, <2>4, SyncRested
    <2>7. Usages(s, g)
      BY <2>1, <2>5, UsagesKept, SameSame
    <2>8. Follows(s, g, c)
      BY <1>2, <2>6, <2>7 DEF Follows
    <2>9. Clean(s, c)
      BY <2>6 DEF Sync, Blocks, Clean
    <2> QED
      BY <1>2, <2>3, <2>4, <2>5, <2>8, <2>9 DEF TrLike
  <1> QED
    BY <1>1, <1>2

-----------------------------------------------------------------------------
(* The steps of a stream.                                                  *)
LEMMA FeedKeeps ==
    ASSUME StreamInv, Feed
    PROVE  StreamInv'
  <1>1. PICK s \in SendsOf(egress, up) :
           LET r == Read(s.frame)
           IN  /\ up' = s.next
               /\ dec' = IF aborted THEN dec ELSE r.d
               /\ IF aborted THEN UNCHANGED <<tr, client>>
                  ELSE Deliver(FoldLeft(OneEvent, tr, r.evs))
    BY DEF Feed
  <1>2. /\ body = "open" /\ up.phase # "closed" /\ Dialects /\ aborted' = aborted
        /\ body' = "open" /\ billed' = billed /\ transients' = transients
    BY DEF Feed, Dialects
  <1>3. /\ Speaks /\ up \in UpType /\ dec \in Decode /\ tr \in TrType /\ client \in ClientType
        /\ aborted \in BOOLEAN /\ Nothing(tr.wire)
    BY DEF StreamInv, Shape
  <1>4. Clean(tr, client) /\ (SameProto => client.faults = {})
    BY DEF StreamInv, Faultless
  <1>5. transients = 0 /\ billed = NoUsage
    BY <1>2 DEF StreamInv, Running
  <1>6. PICK d, g : Reading(d, g)
    BY <1>2 DEF StreamInv, Running
  <1>7. d \in Decode /\ ReaderInv(d, up, g) /\ (~ aborted => d = dec /\ Follows(tr, g, client))
    BY <1>6 DEF Reading
  <1>8. PICK q : Advances(d, up, g, s, q) /\ (d = dec => q = Read(s.frame))
    BY <1>2, <1>3, <1>7, EveryReaderReads DEF Speaks
  <1>9. PICK h : Tells(g, q, h) /\ ReaderInv(q.d, s.next, h)
    BY <1>8 DEF Advances, Reads
  <1>10. s.next \in UpType /\ s.next.frames = up.frames + 1 /\ up.frames \in Nat
    BY <1>3, <1>8 DEF Advances, UpType
  <1>11. q.d \in Decode /\ Legal(g, q.evs, h)
    BY <1>9 DEF Tells
  <1> DEFINE u == s.next
             e == q.d
  <1>12. /\ u \in UpType /\ up' = u /\ u.frames > 0 /\ e \in Decode /\ ReaderInv(e, u, h)
    BY <1>1, <1>9, <1>10, <1>11
  <1>13. CASE aborted
    <2>1. dec' = dec /\ tr' = tr /\ client' = client /\ aborted'
      BY <1>1, <1>2, <1>13
    <2> HIDE DEF u, e
    <2> QED
      BY <1>2, <1>3, <1>4, <1>5, <1>12, <2>1, OpenNext
  <1>14. CASE ~ aborted
    <2> DEFINE t == FoldLeft(OneEvent, tr, q.evs)
               c == FoldLeft(See, client, t.wire)
               z == Rested(t)
    <2>1. d = dec /\ q = Read(s.frame) /\ Follows(tr, g, client)
      BY <1>7, <1>8, <1>14
    <2>2. dec' = e /\ Deliver(t)
      BY <1>1, <1>14, <2>1
    <2>3. client' = c /\ tr' = z
      BY <2>2 DEF Deliver, Rested
    <2>4. Following(client, tr, g)
      BY <1>3, <2>1, FollowingIs
    <2>5. Following(client, t, h)
      BY <1>3, <1>11, <2>4, EventsFollow
    <2>6. Told(h)
      BY <1>11, LegalEnds
    <2>w. c = FoldLeft(See, client, t.wire) /\ z = Rested(t)
      OBVIOUS
    <2> HIDE DEF t, c, z, u, e
    <2>7. /\ c \in ClientType /\ z \in TrType /\ Nothing(z.wire) /\ Follows(z, h, c)
          /\ Clean(z, c) /\ (SameProto => c.faults = {})
      BY <1>3, <1>4, <2>5, <2>6, <2>w, Delivered
    <2>8. z.failed \/ aborted' => u.frames > 0
      BY <1>12
    <2>9. dec' = e /\ e \in Decode /\ (~ aborted' => e = e /\ Follows(z, h, c))
      BY <1>12, <2>2, <2>7
    <2>10. aborted' \in BOOLEAN /\ transients' = 0 /\ billed' = NoUsage
      BY <1>2, <1>3, <1>5
    <2> QED
      BY <1>2, <1>3, <1>12, <2>3, <2>7, <2>8, <2>9, <2>10, OpenNext
  <1> QED
    BY <1>3, <1>13, <1>14

\* The frames that an upstream has sent are not what a reader goes by.
LEMMA FramesApart ==
    ASSUME egress \in Spoken, NEW d, NEW u \in UpType, NEW g, ReaderInv(d, u, g),
           NEW v, v = [u EXCEPT !.frames = @ + 1]
    PROVE  v \in UpType /\ v.frames > 0 /\ ReaderInv(d, v, g)
  <1> DEFINE n == u.frames + 1
  <1>1. n \in Nat /\ n > 0
    BY DEF UpType
  <1>2. v = [u EXCEPT !.frames = n]
    OBVIOUS
  <1> HIDE DEF n
  <1>3. /\ v \in UpType /\ v.phase = u.phase /\ v.open = u.open /\ v.used = u.used
        /\ v.sent = u.sent /\ v.kind = u.kind /\ (v.fault <=> u.fault) /\ v.frames = n
    BY <1>1, <1>2 DEF UpType
  <1> HIDE <1>2
  <1>4. ReportedBy(v) = ReportedBy(u)
    BY <1>3 DEF ReportedBy
  <1>5. OaInv(d, u, g) => OaInv(d, v, g)
    BY <1>3 DEF OaInv
  <1>6. GeInv(d, u, g) => GeInv(d, v, g)
    BY <1>3 DEF GeInv
  <1>7. CoInv(d, u, g) => CoInv(d, v, g)
    BY <1>3 DEF CoInv
  <1>8. One(u, g) => One(v, g)
    BY <1>3 DEF One
  <1>9. BeInv(d, u, g) => BeInv(d, v, g)
    BY <1>3, <1>8 DEF BeInv
  <1>10. AnInv(d, u, g) => AnInv(d, v, g)
    BY <1>3, <1>8 DEF AnInv
  <1>11. RsInv(d, u, g) => RsInv(d, v, g)
    BY <1>3 DEF RsInv
  <1>12. ReaderInv(d, v, g)
    <2>1. Told(g) /\ (v.phase = "tail" => g.last = ReportedBy(v)) /\ (v.phase # "closed" => ~ v.fault)
      BY <1>3, <1>4 DEF ReaderInv
    <2>2. CASE egress = "openai"
      <3>1. OaInv(d, u, g)
        BY <2>2 DEF ReaderInv
      <3>2. OaInv(d, v, g)
        BY <1>5, <3>1
      <3> QED
        BY <2>1, <2>2, <3>2 DEF ReaderInv
    <2>3. CASE egress = "gemini"
      <3>1. GeInv(d, u, g)
        BY <2>3 DEF ReaderInv
      <3>2. GeInv(d, v, g)
        BY <1>6, <3>1
      <3> QED
        BY <2>1, <2>3, <3>2 DEF ReaderInv
    <2>4. CASE egress = "cohere"
      <3>1. CoInv(d, u, g)
        BY <2>4 DEF ReaderInv
      <3>2. CoInv(d, v, g)
        BY <1>7, <3>1
      <3> QED
        BY <2>1, <2>4, <3>2 DEF ReaderInv
    <2>5. CASE egress = "bedrock"
      <3>1. BeInv(d, u, g)
        BY <2>5 DEF ReaderInv
      <3>2. BeInv(d, v, g)
        BY <1>9, <3>1
      <3> QED
        BY <2>1, <2>5, <3>2 DEF ReaderInv
    <2>6. CASE egress = "anthropic"
      <3>1. AnInv(d, u, g)
        BY <2>6 DEF ReaderInv
      <3>2. AnInv(d, v, g)
        BY <1>10, <3>1
      <3> QED
        BY <2>1, <2>6, <3>2 DEF ReaderInv
    <2>7. CASE egress = "responses"
      <3>1. RsInv(d, u, g)
        BY <2>7 DEF ReaderInv
      <3>2. RsInv(d, v, g)
        BY <1>11, <3>1
      <3> QED
        BY <2>1, <2>7, <3>2 DEF ReaderInv
    <2> QED
      BY <2>2, <2>3, <2>4, <2>5, <2>6, <2>7 DEF Spoken
  <1> QED
    BY <1>1, <1>3, <1>12

\* StreamTranslate::abort keeps the invariant.
LEMMA AbortKeeps ==
    ASSUME StreamInv, Abort
    PROVE  StreamInv'
  <1> DEFINE u == [up EXCEPT !.frames = @ + 1]
  <1>2. /\ body = "open" /\ up' = u /\ Dialects /\ aborted' /\ aborted' \in BOOLEAN
        /\ dec' = dec /\ tr' = tr /\ client' = client
        /\ body' = "open" /\ billed' = billed /\ transients' = transients
    BY DEF Abort, Dialects
  <1>3. /\ Speaks /\ up \in UpType /\ dec \in Decode /\ tr \in TrType /\ client \in ClientType
        /\ Nothing(tr.wire)
    BY DEF StreamInv, Shape
  <1>4. Clean(tr, client) /\ (SameProto => client.faults = {})
    BY DEF StreamInv, Faultless
  <1>5. transients = 0 /\ billed = NoUsage
    BY <1>2 DEF StreamInv, Running
  <1>6. PICK d, g : Reading(d, g)
    BY <1>2 DEF StreamInv, Running
  <1>7. d \in Decode /\ ReaderInv(d, up, g)
    BY <1>6 DEF Reading
  <1>8. u \in UpType /\ u.frames > 0 /\ ReaderInv(d, u, g)
    BY <1>3, <1>7, FramesApart DEF Speaks
  <1> HIDE DEF u
  <1>9. transients' = 0 /\ billed' = NoUsage
    BY <1>2, <1>5
  <1>10. tr.failed \/ aborted' => u.frames > 0
    BY <1>8
  <1> QED
    BY <1>2, <1>3, <1>4, <1>7, <1>8, <1>9, <1>10, OpenNext

\* A step that closes the body.
LEMMA ClosedNext ==
    ASSUME Speaks, Dialects, up \in UpType, dec \in Decode, NEW t \in TrType, NEW c \in ClientType,
           Nothing(t.wire), aborted \in BOOLEAN, Clean(t, c), SameProto => c.faults = {},
           tr' = t, client' = c, up' = up, dec' = dec, aborted' = aborted, body' # "open",
           t.failed \/ aborted => up.frames > 0, Settled', FailureSettled'
    PROVE  StreamInv'
  <1>1. Shape'
    BY ShapeNext
  <1>2. Faultless'
    BY FaultlessNext
  <1>3. Sent' /\ Running'
    BY DEF Sent, Running
  <1> QED
    BY <1>1, <1>2, <1>3 DEF StreamInv

\* A transport error ends the body, and is a failure.
LEMMA TransportErrorKeeps ==
    ASSUME StreamInv, TransportError
    PROVE  StreamInv'
  <1>2. /\ body = "open" /\ up' = up /\ Dialects /\ aborted' = aborted
        /\ dec' = dec /\ tr' = tr /\ body' = "broken" /\ billed' = billed
        /\ transients' = transients + 1
        /\ client' = IF up.frames > 0 THEN See(client, Frame("error", 0, NoUsage)) ELSE client
    BY DEF TransportError, Dialects
  <1>3. /\ Speaks /\ up \in UpType /\ dec \in Decode /\ tr \in TrType /\ client \in ClientType
        /\ Nothing(tr.wire) /\ aborted \in BOOLEAN
    BY DEF StreamInv, Shape
  <1>4. Clean(tr, client) /\ (SameProto => client.faults = {})
    BY DEF StreamInv, Faultless
  <1>5. transients = 0 /\ billed = NoUsage
    BY <1>2 DEF StreamInv, Running
  <1>7. tr.failed \/ aborted => up.frames > 0
    BY DEF StreamInv, Sent
  <1>8. PICK c : /\ c \in ClientType /\ client' = c /\ c.faults = client.faults
                 /\ up.frames > 0 => c.errors > 0
    <2>1. CASE ~ (up.frames > 0)
      BY <1>2, <1>3, <2>1
    <2>2. CASE up.frames > 0
      <3>1. client' = See(client, ErrorFrame)
        BY <1>2, <2>2 DEF ErrorFrame, FrameOf
      <3> DEFINE v == See(client, ErrorFrame)
      <3>2. v \in ClientType /\ v.faults = client.faults /\ v.errors = client.errors + 1
        BY <1>3, SeeError
      <3>3. client.errors \in Nat
        BY <1>3 DEF ClientType
      <3> HIDE DEF v
      <3>4. v.errors > 0
        BY <3>2, <3>3
      <3> QED
        BY <3>1, <3>2, <3>4 DEF v
    <2> QED
      BY <2>1, <2>2
  <1>6. Settled' /\ FailureSettled'
    BY <1>2, <1>5, <1>8 DEF Settled, FailureSettled
  <1>9. Clean(tr, c) /\ (SameProto => c.faults = {})
    BY <1>4, <1>8 DEF Clean
  <1>10. body' # "open"
    BY <1>2
  <1> QED
    BY <1>2, <1>3, <1>6, <1>7, <1>8, <1>9, <1>10, ClosedNext

\* A client that drops the body ends it.
LEMMA ClientDropsKeeps ==
    ASSUME StreamInv, ClientDrops
    PROVE  StreamInv'
  <1>2. /\ body = "open" /\ up' = up /\ Dialects /\ aborted' = aborted
        /\ dec' = dec /\ tr' = tr /\ body' = "dropped" /\ client' = client
        /\ transients' = transients
    BY DEF ClientDrops, Dialects
  <1>3. /\ Speaks /\ up \in UpType /\ dec \in Decode /\ tr \in TrType /\ client \in ClientType
        /\ Nothing(tr.wire) /\ aborted \in BOOLEAN
    BY DEF StreamInv, Shape
  <1>4. Clean(tr, client) /\ (SameProto => client.faults = {})
    BY DEF StreamInv, Faultless
  <1>5. /\ transients = 0 /\ (StreamFailed => billed' = NoUsage)
        /\ StreamFailed' <=> StreamFailed
    BY <1>2 DEF StreamInv, Running, ClientDrops, StreamFailed
  <1>6. Settled' /\ FailureSettled'
    BY <1>2, <1>5 DEF Settled, FailureSettled
  <1>7. tr.failed \/ aborted => up.frames > 0
    BY DEF StreamInv, Sent
  <1>10. body' # "open"
    BY <1>2
  <1> QED
    BY <1>2, <1>3, <1>4, <1>6, <1>7, <1>10, ClosedNext

-----------------------------------------------------------------------------
(* The end of the upstream's body.                                         *)
Completed(g, t, c) ==
    /\ t \in TrType /\ c \in ClientType /\ Clean(t, c) /\ (SameProto => c.faults = {})
    /\ t.lastUsage = tr.lastUsage /\ (t.failed <=> tr.failed)
    /\ ~ StreamFailed => t.items = {}
    /\ StreamFailed /\ (~ SameProto \/ aborted) => c.errors > 0
    /\ ~ aborted /\ ~ SameProto => ToldUsage(g, c)

LEMMA AbortedFinishes ==
    ASSUME StreamInv, body = "open", aborted, NEW g,
           NEW t, t = Finish(tr), NEW c, c = FoldLeft(See, client, t.wire)
    PROVE  Completed(g, t, c)
  <1>1. /\ Speaks /\ tr \in TrType /\ client \in ClientType /\ Nothing(tr.wire)
        /\ Clean(tr, client) /\ (SameProto => client.faults = {})
    BY DEF StreamInv, Shape, Faultless
  <1> DEFINE e == Error
             v == See(client, ErrorFrame)
  <1>2. e \in Event /\ e.ev = "Error" /\ t = Emit(tr, e)
    BY DEF Event, Error, Finish
  <1>3. Written(tr, e) = Just(ErrorFrame)
    BY <1>1, WritesError DEF Speaks
  <1>4. OutOf(client, tr, client)
    BY <1>1, SeenNone DEF Nothing, OutOf
  <1>5. ErrorFrame \in FrameType
    BY FramesAre, UsageIs DEF FrameNames, Tokens
  <1>w. v = See(client, ErrorFrame)
    OBVIOUS
  <1> HIDE DEF v, e
  <1>6. v \in ClientType /\ v.errors = client.errors + 1 /\ v.faults = client.faults
    BY <1>1, <1>w, SeeError
  <1>7. OutOf(client, t, v) /\ TrLike(tr, t) /\ EmitBlocks(tr, e, t)
    BY <1>2, <1>3, <1>4, <1>5, <1>6, <1>w, EmitOne
  <1>8. t \in TrType /\ v = Seen(client, t.wire)
    BY <1>7 DEF OutOf
  <1>9. c = v
    BY <1>8, TrFields, SeenIs
  <1>10. SameBlocks(tr, t)
    BY <1>2, <1>7 DEF EmitBlocks
  <1>11. Clean(t, c)
    BY <1>1, <1>6, <1>9, <1>10 DEF Clean, SameBlocks
  <1>12. c.errors > 0 /\ (SameProto => c.faults = {})
    BY <1>1, <1>6, <1>9, ClientFields
  <1>13. t.lastUsage = tr.lastUsage /\ (t.failed <=> tr.failed)
    BY <1>7 DEF TrLike
  <1> QED
    BY <1>6, <1>8, <1>9, <1>11, <1>12, <1>13 DEF Completed, StreamFailed

\* finish of a same-protocol stream, and of a translated one.
LEMMA RelayFinishes ==
    ASSUME StreamInv, body = "open", ~ aborted, SameProto, NEW d, NEW g, Reading(d, g),
           NEW t, t = Finish(tr), NEW c, c = FoldLeft(See, client, t.wire)
    PROVE  Completed(g, t, c)
  <1>1. /\ Speaks /\ tr \in TrType /\ client \in ClientType /\ Nothing(tr.wire)
        /\ Clean(tr, client) /\ client.faults = {}
    BY DEF StreamInv, Shape, Faultless
  <1>2. t = tr
    BY DEF Finish
  <1>3. tr.wire \in Seq(FrameType) /\ tr.wire = <<>>
    BY <1>1, TrFields DEF Nothing
  <1>4. c = Seen(client, tr.wire)
    BY <1>2, <1>3, SeenIs
  <1>5. c = client
    BY <1>3, <1>4, SeenNone
  <1>6. tr.items = {}
    BY DEF Reading, Follows
  <1> QED
    BY <1>1, <1>2, <1>5, <1>6 DEF Completed, StreamFailed

LEMMA TranslationFinishes ==
    ASSUME StreamInv, body = "open", ~ aborted, ~ SameProto, NEW d, NEW g, Reading(d, g),
           NEW t, t = Finish(tr), NEW c, c = FoldLeft(See, client, t.wire)
    PROVE  Completed(g, t, c)
  <1>1. /\ Speaks /\ tr \in TrType /\ client \in ClientType /\ Nothing(tr.wire)
    BY DEF StreamInv, Shape
  <1>2. Follows(tr, g, client) /\ Told(g)
    BY DEF Reading, ReaderInv
  <1>3. Translates
    BY <1>1 DEF Translates, Speaks, SameProto
  <1>4. Onward(client, tr, g)
    <2>1. Following(client, tr, g)
      BY <1>1, <1>2, FollowingIs
    <2> QED
      BY <2>1 DEF Following, Tracking
  <1> DEFINE r == CloseOpenBlocks(tr)
  <1>5. t = FlushTerminal(OnFinish(r))
    BY DEF Finish
  <1>w. r = CloseOpenBlocks(tr)
    OBVIOUS
  <1> HIDE DEF r
  <1>6. TrLike(tr, r) /\ \E h : Bare(g, h) /\ Onward(client, r, h)
    BY <1>2, <1>3, <1>4, <1>w, ClosesAll
  <1>7. PICK h : Bare(g, h) /\ Onward(client, r, h)
    BY <1>6
  <1>8. PICK b : OutOf(client, r, b) /\ Sync(r, h, b)
    BY <1>7 DEF Onward
  <1>9. Winding(client, r, h, b)
    BY <1>7, <1>8 DEF Bare, Winding
  <1>10. PICK v : Over(client, r, h, t, v)
    <2>1. ingress = "openai" \/ ingress = "bedrock" \/ Defers
      BY DEF Defers
    <2> QED
      BY <1>3, <1>5, <1>9, <2>1, FinishOpenAi, FinishBedrock, FinishDefers
  <1>11. /\ OutOf(client, t, v) /\ t.lastUsage = r.lastUsage /\ (t.failed <=> r.failed)
         /\ t.items = {} /\ Clean(t, v) /\ (r.failed => v.errors > 0) /\ ToldUsage(h, v)
    BY <1>10 DEF Over
  <1>12. t \in TrType /\ v \in ClientType /\ v = Seen(client, t.wire)
    BY <1>11 DEF OutOf
  <1>13. c = v
    BY <1>12, TrFields, SeenIs
  <1>14. t.lastUsage = tr.lastUsage /\ (t.failed <=> tr.failed) /\ (r.failed <=> tr.failed)
    BY <1>6, <1>11 DEF TrLike
  <1>15. ToldUsage(g, v)
    BY <1>7, <1>11 DEF ToldUsage, Bare, Same
  <1> QED
    BY <1>11, <1>12, <1>13, <1>14, <1>15 DEF Completed, StreamFailed

LEMMA AgreesNext ==
    ASSUME Dialects, up' = up, NEW g, up \in UpType, up.phase = "tail" => g.last = ReportedBy(up),
           Told(g), NEW c, client' = c, ~ SameProto => ToldUsage(g, c),
           billed' = IF g.last = NoUsage THEN Zero ELSE g.last
    PROVE  UsageAgrees'
  <1>1. SUFFICES ASSUME up.phase = "tail"
                 PROVE  /\ billed' = Reported'
                        /\ ~ SameProto =>
                             IF ingress # "openai" THEN c.usage = Reported'
                             ELSE   c.usage = IF /\ Reported' # Zero
                                                 /\ includeUsage \/ c.finishes = 0
                                              THEN Reported' ELSE NoUsage
    BY DEF UsageAgrees, Dialects, SameProto
  <1>2. Reported' = ReportedBy(up)
    BY DEF Reported, ReportedBy
  <1>3. ReportedBy(up) \in {Zero, Final} /\ Zero # NoUsage /\ Final # NoUsage /\ Zero # Final
    BY UsageIs DEF UpType, ReportedBy
  <1> DEFINE x == ReportedBy(up)
  <1>4. g.last = x /\ x \in {Zero, Final} /\ x # NoUsage /\ Reported' = x /\ Zero # Final
    BY <1>1, <1>2, <1>3
  <1> HIDE DEF x
  <1>5. g.phase # "body"
    BY <1>4 DEF Told
  <1>6. ~ SameProto => /\ (ingress # "openai" => c.usage = x)
                       /\ (ingress = "openai" =>
                             c.usage = IF x = Final /\ (includeUsage \/ c.finishes = 0)
                                       THEN Final ELSE NoUsage)
    BY <1>4, <1>5 DEF ToldUsage
  <1> QED
    BY <1>4, <1>6

\* The end of the upstream's body: finish, settle and bill.
LEMMA UpstreamEndsKeeps ==
    ASSUME StreamInv, UpstreamEnds
    PROVE  StreamInv'
  <1>2. /\ body = "open" /\ up' = up /\ Dialects /\ aborted' = aborted
        /\ dec' = dec /\ body' = "ended"
        /\ transients' = transients + (IF up.frames > 0 /\ StreamFailed THEN 1 ELSE 0)
        /\ billed' = (IF StreamFailed THEN NoUsage
                      ELSE IF tr.lastUsage = NoUsage THEN Zero ELSE tr.lastUsage)
        /\ Deliver(Finish(tr))
    BY DEF UpstreamEnds, Dialects
  <1>3. /\ Speaks /\ up \in UpType /\ dec \in Decode /\ tr \in TrType /\ client \in ClientType
        /\ Nothing(tr.wire) /\ aborted \in BOOLEAN
    BY DEF StreamInv, Shape
  <1>5. transients = 0 /\ billed = NoUsage
    BY <1>2 DEF StreamInv, Running
  <1>6. tr.failed \/ aborted => up.frames > 0
    BY DEF StreamInv, Sent
  <1>7. PICK d, g : Reading(d, g)
    BY <1>2 DEF StreamInv, Running
  <1> DEFINE t == Finish(tr)
             c == FoldLeft(See, client, t.wire)
             z == Rested(t)
  <1>8. client' = c /\ tr' = z
    BY <1>2 DEF Deliver, Rested
  <1>w. t = Finish(tr) /\ c = FoldLeft(See, client, t.wire) /\ z = Rested(t)
    OBVIOUS
  <1> HIDE DEF t, c, z
  <1>9. Completed(g, t, c)
    <2>1. CASE aborted
      BY <1>2, <1>w, <2>1, AbortedFinishes
    <2>2. CASE ~ aborted /\ SameProto
      BY <1>2, <1>7, <1>w, <2>2, RelayFinishes
    <2>3. CASE ~ aborted /\ ~ SameProto
      BY <1>2, <1>7, <1>w, <2>3, TranslationFinishes
    <2> QED
      BY <2>1, <2>2, <2>3
  <1>10. t \in TrType /\ c \in ClientType /\ Clean(t, c) /\ (SameProto => c.faults = {})
    BY <1>9 DEF Completed
  <1>11. z \in TrType /\ Nothing(z.wire) /\ SameBlocks(t, z) /\ TrLike(t, z)
    BY <1>10, <1>w, RestedIs
  <1>12. Clean(z, c) /\ (z.failed <=> tr.failed) /\ z.items = t.items
    BY <1>9, <1>10, <1>11 DEF Clean, SameBlocks, TrLike, Completed
  <1>13. StreamFailed' <=> StreamFailed
    BY <1>2, <1>8, <1>12 DEF StreamFailed
  <1>14. SameProto' <=> SameProto
    BY <1>2 DEF SameProto, Dialects
  <1>15. Settled'
    <2>1. ~ StreamFailed' => tr'.items = {}
      BY <1>8, <1>9, <1>12, <1>13 DEF Completed
    <2>2. CASE StreamFailed
      BY <1>13, <2>1, <2>2 DEF Settled, UsageAgrees
    <2>3. CASE ~ StreamFailed
      <3>1. ~ aborted
        BY <2>3 DEF StreamFailed
      <3>2. ReaderInv(dec, up, g) /\ Usages(tr, g)
        BY <1>7, <3>1 DEF Reading, Follows
      <3>3. Told(g) /\ (up.phase = "tail" => g.last = ReportedBy(up)) /\ tr.lastUsage = g.last
        BY <3>2 DEF ReaderInv, Usages
      <3>4. billed' = IF g.last = NoUsage THEN Zero ELSE g.last
        BY <1>2, <2>3, <3>3
      <3>5. ~ SameProto => ToldUsage(g, c)
        BY <1>9, <3>1 DEF Completed
      <3>6. UsageAgrees'
        BY <1>2, <1>3, <1>8, <3>3, <3>4, <3>5, AgreesNext
      <3> QED
        BY <2>1, <3>6 DEF Settled
    <2> QED
      BY <2>2, <2>3
  <1>16. FailureSettled'
    <2>1. StreamFailed => up.frames > 0
      BY <1>6 DEF StreamFailed
    <2>2. /\ (StreamFailed => billed' = NoUsage /\ transients' = 1)
          /\ (~ StreamFailed => transients' = 0)
      BY <1>2, <1>5, <2>1
    <2>3. StreamFailed /\ (~ SameProto \/ aborted) => client'.errors > 0
      BY <1>8, <1>9 DEF Completed
    <2> QED
      BY <1>2, <1>13, <1>14, <2>2, <2>3 DEF FailureSettled
  <1>17. z.failed \/ aborted => up.frames > 0
    BY <1>6, <1>12
  <1>18. body' # "open"
    BY <1>2
  <1> QED
    BY <1>2, <1>3, <1>8, <1>10, <1>11, <1>12, <1>15, <1>16, <1>17, <1>18, ClosedNext

-----------------------------------------------------------------------------
\* Every step keeps the invariant.
LEMMA StreamNextKeeps ==
    ASSUME StreamInv, [StreamNext]_streamVars
    PROVE  StreamInv'
  <1>1. CASE Feed
    BY <1>1, FeedKeeps
  <1>2. CASE Abort
    BY <1>2, AbortKeeps
  <1>3. CASE UpstreamEnds
    BY <1>3, UpstreamEndsKeeps
  <1>4. CASE TransportError
    BY <1>4, TransportErrorKeeps
  <1>5. CASE ClientDrops
    BY <1>5, ClientDropsKeeps
  <1>6. CASE UNCHANGED streamVars
    <2>1. /\ up' = up /\ Dialects /\ aborted' = aborted /\ dec' = dec /\ tr' = tr
          /\ body' = body /\ client' = client /\ transients' = transients /\ billed' = billed
      BY <1>6 DEF streamVars, Dialects
    <2>2. /\ Speaks /\ up \in UpType /\ dec \in Decode /\ tr \in TrType /\ client \in ClientType
          /\ Nothing(tr.wire) /\ aborted \in BOOLEAN
          /\ Clean(tr, client) /\ (SameProto => client.faults = {})
          /\ (tr.failed \/ aborted => up.frames > 0)
      BY DEF StreamInv, Shape, Faultless, Sent
    <2>3. CASE body = "open"
      <3>1. transients' = 0 /\ billed' = NoUsage
        BY <2>1, <2>3 DEF StreamInv, Running
      <3>2. PICK d, g : Reading(d, g)
        BY <2>3 DEF StreamInv, Running
      <3>3. /\ d \in Decode /\ ReaderInv(d, up, g)
            /\ (~ aborted' => dec = d /\ Follows(tr, g, client))
        BY <2>1, <3>2 DEF Reading
      <3>4. (tr.failed \/ aborted' => up.frames > 0) /\ body' = "open" /\ aborted' \in BOOLEAN
        BY <2>1, <2>2, <2>3
      <3> QED
        BY <2>1, <2>2, <3>1, <3>3, <3>4, OpenNext
    <2>4. CASE body # "open"
      <3>1. Settled'
        BY <2>1, <2>4 DEF StreamInv, Settled, StreamFailed, UsageAgrees, Reported, SameProto, Dialects
      <3>2. FailureSettled'
        BY <2>1, <2>4 DEF StreamInv, FailureSettled, StreamFailed, SameProto, Dialects
      <3>3. body' # "open"
        BY <2>1, <2>4
      <3> QED
        BY <2>1, <2>2, <3>1, <3>2, <3>3, ClosedNext
    <2> QED
      BY <2>3, <2>4
  <1> QED
    BY <1>1, <1>2, <1>3, <1>4, <1>5, <1>6 DEF StreamNext

\* The inductive invariant of StreamTranslate: while FirstByteBody is polled the
\* reader, the translator and the client agree, and after it nothing is owed.
THEOREM StreamInvHolds == StreamSpec => []StreamInv
  BY StreamStarts, StreamNextKeeps, PTL DEF StreamSpec

\* BlocksBalanced: no client is sent a delta or a close of a block it does not have
\* open, an index twice, or a block that finish leaves open, but for those that the
\* responses writer's cap kept out of its table.
THEOREM StreamBlocksBalanced == StreamSpec => []BlocksBalanced
  BY StreamInvHolds, SettledSays, PTL

\* TerminalLast: no frame follows the terminal one, however StreamTranslate::feed,
\* abort and finish come together, and all that was opened is closed by then.
THEOREM StreamTerminalLast == StreamSpec => []TerminalLast
  BY StreamInvHolds, SettledSays, PTL

\* UsageAgrees: what merge_trailing_usage and the taps leave for the ledger to be
\* billed is what the client was told, and what the upstream reported.
THEOREM StreamUsageAgrees == StreamSpec => []UsageAgrees
  BY StreamInvHolds, SettledSays, PTL

\* FailureSettled: a stream in which the translator or the transport found an error is
\* never billed, whoever ends the body, and counts once against its lane unless it is
\* the client that ends it; one that ends without an error counts none.
THEOREM StreamFailureSettled == StreamSpec => []FailureSettled
  BY StreamInvHolds, SettledSays, PTL

-----------------------------------------------------------------------------
(* The types of what the invariant leaves open.                            *)
Known == {NoUsage, Zero, Final}

Typed ==
    /\ ingress \in Ingresses /\ egress \in Egresses /\ includeUsage \in BOOLEAN
    /\ body \in {"open", "ended", "broken", "dropped"}
    /\ billed \in Known /\ transients \in 0 .. 1
    /\ tr.lastUsage \in Known

\* The invariant and Typed give the types.
LEMMA TypedSays ==
    ASSUME StreamInv, Typed
    PROVE  StreamTypeOK
  <1>1. Known \subseteq Usage \cup {NoUsage}
    BY DEF Known, Usage, Zero, Final, NoUsage
  <1>2. /\ tr.openBlocks \subseteq Int /\ aborted \in BOOLEAN /\ tr.wire = <<>>
        /\ tr.pendingTerminal \in [in : Int, out : Int]
    BY TrFields DEF StreamInv, Shape, Nothing, Tokens
  <1> QED
    BY <1>1, <1>2 DEF Typed, StreamTypeOK

\* While it reads, the translator knows the usage of the story.
Informed == body = "open" /\ ~ aborted => tr.lastUsage \in Known

\* While the body is read its usage is one that a story can have.
LEMMA ReadingKnows ==
    ASSUME StreamInv
    PROVE  Informed
  <1> SUFFICES ASSUME body = "open", ~ aborted PROVE tr.lastUsage \in Known
    BY DEF Informed
  <1>1. PICK d, g : Reading(d, g)
    BY DEF StreamInv, Running
  <1>2. Told(g) /\ tr.lastUsage = g.last
    BY <1>1 DEF Reading, ReaderInv, Follows, Usages
  <1> QED
    BY <1>2, StoryFields DEF Told, Known

LEMMA EndKnows ==
    ASSUME StreamInv, UpstreamEnds
    PROVE  tr'.lastUsage = tr.lastUsage
  <1>1. body = "open" /\ tr' = Rested(Finish(tr))
    BY DEF UpstreamEnds, Deliver, Rested
  <1>2. PICK d, g : Reading(d, g)
    BY <1>1 DEF StreamInv, Running
  <1> DEFINE t == Finish(tr)
             c == FoldLeft(See, client, t.wire)
  <1>w. t = Finish(tr) /\ c = FoldLeft(See, client, t.wire) /\ tr' = Rested(t)
    BY <1>1
  <1> HIDE DEF t, c
  <1>3. Completed(g, t, c)
    <2>1. CASE aborted
      BY <1>1, <1>w, <2>1, AbortedFinishes
    <2>2. CASE ~ aborted /\ SameProto
      BY <1>1, <1>2, <1>w, <2>2, RelayFinishes
    <2>3. CASE ~ aborted /\ ~ SameProto
      BY <1>1, <1>2, <1>w, <2>3, TranslationFinishes
    <2> QED
      BY <2>1, <2>2, <2>3
  <1>4. t \in TrType /\ t.lastUsage = tr.lastUsage
    BY <1>3 DEF Completed
  <1> DEFINE z == Rested(t)
  <1>5. TrLike(t, z)
    BY <1>4, RestedIs
  <1> QED
    BY <1>4, <1>5, <1>w DEF TrLike

\* Typed holds at first, and is kept by every step.
LEMMA TypedStarts ==
    ASSUME StreamInit
    PROVE  Typed
  BY TrInitIs DEF StreamInit, Typed, Known

LEMMA TypedNext ==
    ASSUME StreamInv, Informed', Typed, [StreamNext]_streamVars
    PROVE  Typed'
  <1>1. CASE Feed
    <2>1. body' = "open" /\ body = "open" /\ UNCHANGED <<ingress, egress, includeUsage, aborted, billed, transients>>
      BY <1>1 DEF Feed
    <2>2. tr'.lastUsage \in Known
      <3>1. CASE aborted
        BY <1>1, <3>1 DEF Feed, Typed
      <3>2. CASE ~ aborted
        BY <2>1, <3>2 DEF Informed
      <3> QED
        BY <3>1, <3>2
    <2> QED
      BY <2>1, <2>2 DEF Typed
  <1>2. CASE Abort
    BY <1>2 DEF Abort, Typed
  <1>3. CASE UpstreamEnds
    <2>1. transients = 0
      BY <1>3 DEF UpstreamEnds, StreamInv, Running
    <2>2. tr'.lastUsage \in Known
      BY <1>3, EndKnows DEF Typed
    <2>3. billed' \in Known
      BY <1>3 DEF UpstreamEnds, Typed, Known
    <2> QED
      BY <1>3, <2>1, <2>2, <2>3 DEF UpstreamEnds, Typed
  <1>4. CASE TransportError
    <2>1. transients = 0
      BY <1>4 DEF TransportError, StreamInv, Running
    <2> QED
      BY <1>4, <2>1 DEF TransportError, Typed
  <1>5. CASE ClientDrops
    <2>1. billed' \in Known
      BY <1>5 DEF ClientDrops, Typed, Known
    <2> QED
      BY <1>5, <2>1 DEF ClientDrops, Typed
  <1>6. CASE UNCHANGED streamVars
    BY <1>6 DEF streamVars, Typed
  <1> QED
    BY <1>1, <1>2, <1>3, <1>4, <1>5, <1>6 DEF StreamNext

\* TypeOK of StreamTranslate: StreamDecodeState, StreamTranslate, the client's
\* decoder and the body's own fields keep their types.
THEOREM StreamTyped == StreamSpec => []StreamTypeOK
  <1>1. StreamSpec => []Typed
    BY StreamInvHolds, ReadingKnows, TypedStarts, TypedNext, PTL DEF StreamSpec
  <1> QED
    BY <1>1, StreamInvHolds, TypedSays, PTL
=============================================================================
