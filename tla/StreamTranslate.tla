-------------------------- MODULE StreamTranslate --------------------------
(***************************************************************************)
(* One streamed response between an upstream that speaks the dialect       *)
(* egress and a client that speaks the dialect ingress: the translator     *)
(* (proto/stream.rs, StreamTranslate), the per-dialect framing seams       *)
(* (proto/mod.rs, proto/bedrock/mod.rs, proto/openai_chat/mod.rs) and the  *)
(* body that drives it and settles the stream (proxy/response_body.rs,     *)
(* FirstByteBody).  The readers are in StreamReaders.                      *)
(*                                                                         *)
(* egress = ingress is the same-protocol mode: the upstream's bytes are    *)
(* relayed and only the usage is read.  What the relay removes for an      *)
(* openai client that did not ask for usage is left out, and with it this  *)
(* client's view of the frames.                                            *)
(***************************************************************************)
EXTENDS StreamUpstream

CONSTANTS Ingresses, Egresses,  \* the dialects of a run
          MaxFrames             \* bound: upstream frames of one stream

ASSUME StreamAssumption ==
    /\ Ingresses \cup Egresses \subseteq
         {"anthropic", "openai", "cohere", "bedrock", "gemini", "responses"}
    /\ MaxFrames \in Nat

VARIABLES
    ingress, egress,
    includeUsage,   \* the client asked for stream_options.include_usage
    up,             \* the upstream (external)
    dec,            \* StreamTranslate.decode
    tr,             \* the other fields of StreamTranslate and its framing
    aborted,        \* StreamTranslate.aborted
    body,           \* FirstByteBody: "open", "ended", "broken", "dropped"
    billed,         \* what ledger_and_meter was given, or NoUsage
    transients,     \* breaker transients recorded for this stream
    client          \* what the client's decoder has made of the frames

streamVars == <<ingress, egress, includeUsage, up, dec, tr, aborted, body, billed,
          transients, client>>

SameProto == ingress = egress

Read(f) ==
    CASE egress = "openai"    -> ReadOpenAi(dec, f)
      [] egress = "cohere"    -> ReadCohere(dec, f)
      [] egress = "bedrock"   -> ReadBedrock(dec, f)
      [] egress = "anthropic" -> ReadAnthropic(dec, f)
      [] egress = "gemini"    -> ReadGemini(dec, f)
      [] egress = "responses" -> ReadResponses(dec, f)

(***************************************************************************)
(* The client's decoder (external).  A frame is [f, index, usage]; faults  *)
(* collects what a decoder of that dialect could not accept.               *)
(***************************************************************************)
ClientInit == [open |-> {}, used |-> {}, finishes |-> 0, usages |-> 0,
               usage |-> NoUsage, errors |-> 0, stopped |-> FALSE,
               faults |-> {}]

Frame(f, i, u) == [f |-> f, index |-> i, usage |-> u]

(* The openai wire has no frame that closes a block. *)
See(c, w) ==
    LET bad(S) == [c EXCEPT !.faults = @ \cup S]
        late   == IF c.stopped \/ c.finishes > 0 THEN {"late"} ELSE {}
    IN  CASE w.f = "open" ->
               [bad(late \cup (IF w.index \in c.used THEN {"reused"} ELSE {}))
                   EXCEPT !.open = @ \cup {w.index}, !.used = @ \cup {w.index}]
          [] w.f = "part" -> bad(late)
          [] w.f = "delta" ->
               bad(late \cup (IF w.index \in c.open THEN {} ELSE {"stray"}))
          [] w.f = "close" ->
               [bad(late \cup (IF w.index \in c.open THEN {} ELSE {"stray"}))
                   EXCEPT !.open = @ \ {w.index}]
          [] w.f = "finish" ->
               [bad((IF c.stopped THEN {"late"} ELSE {})
                    \cup (IF c.open # {} /\ ingress # "openai"
                          THEN {"unclosed"} ELSE {}))
                   EXCEPT !.finishes = @ + 1,
                          !.usage = IF w.usage = NoUsage THEN @ ELSE w.usage]
          [] w.f = "usage" ->
               [bad(IF c.stopped THEN {"late"} ELSE {})
                   EXCEPT !.usages = @ + 1, !.usage = w.usage]
          [] w.f = "stop"  -> [c EXCEPT !.stopped = TRUE]
          [] w.f = "error" -> [c EXCEPT !.errors = @ + 1]

(***************************************************************************)
(* Emission.  The translator is threaded as a record t that also holds the *)
(* frames written so far (wire).                                           *)
(***************************************************************************)
TrInit == [startUsage |-> NoUsage, lastUsage |-> NoUsage, failed |-> FALSE,
           stopped |-> FALSE, pendingTerminal |-> NoUsage,
           pendingStop |-> FALSE, openBlocks |-> {},
           items |-> {}, missed |-> FALSE,
           emitted |-> FALSE, pending |-> FALSE, wire |-> <<>>]

(* write_response_event of each ingress writer.  Its own state is items,   *)
(* the blocks it keeps open as pairs of index and kind.  A delta that a    *)
(* dialect has no words for is dropped there, which no decoder can tell.   *)
Tracked(t, i) == \E b \in t.items : b[1] = i

(* The openai family's cap on the blocks of one kind a writer tracks. *)
RsRoom(t, k) == Cardinality({b \in t.items : b[2] = k}) < MaxOpenTools

Tracks(t, e) ==
    CASE ingress = "gemini"    -> e.kind = "tool"
      [] ingress = "cohere"    -> e.kind # "thinking"
      [] ingress = "bedrock"   -> TRUE
      [] ingress = "responses" -> RsRoom(t, e.kind)
      [] OTHER                 -> FALSE

BlockFrames(e) ==
    CASE e.ev = "BlockStart" -> <<Frame("open", e.index, NoUsage)>>
      [] e.ev = "BlockDelta" -> <<Frame("delta", e.index, NoUsage)>>
      [] e.ev = "Error"      -> <<Frame("error", 0, NoUsage)>>
      [] OTHER               -> <<>>

Close(t, e) ==
    IF Tracked(t, e.index) THEN <<Frame("close", e.index, NoUsage)>> ELSE <<>>

WriteAnthropic(e) ==
    CASE e.ev = "BlockStop"   -> <<Frame("close", e.index, NoUsage)>>
      [] e.ev = "MessageStop" -> <<Frame("stop", 0, NoUsage)>>
      [] e.ev = "MessageDelta" ->
           <<Frame(IF e.stop THEN "finish" ELSE "usage", 0, e.usage)>>
      [] OTHER -> BlockFrames(e)

(* messageStop carries no usage, metadata nothing else. *)
WriteBedrock(t, e) ==
    CASE e.ev = "BlockStop" -> Close(t, e)
      [] e.ev = "MessageDelta" /\ e.stop  -> <<Frame("finish", 0, NoUsage)>>
      [] e.ev = "MessageDelta" /\ ~e.stop -> <<Frame("usage", 0, e.usage)>>
      [] OTHER -> BlockFrames(e)

(* The openai wire has no close; usage rides on the finish chunk. *)
WriteOpenAi(e) ==
    CASE e.ev = "MessageDelta" /\ e.stop ->
           <<Frame("finish", 0, IF e.usage = Zero THEN NoUsage ELSE e.usage)>>
      [] e.ev = "MessageDelta" /\ ~e.stop /\ e.usage # Zero ->
           <<Frame("usage", 0, e.usage)>>
      [] OTHER -> BlockFrames(e)

(* gemini has no blocks: text and thoughts are parts of their own, and a   *)
(* tool call is kept back and written whole when its block stops.          *)
WriteGemini(t, e) ==
    CASE e.ev = "BlockDelta" /\ e.kind # "tool" ->
           <<Frame("part", e.index, NoUsage)>>
      [] e.ev = "BlockStop" /\ Tracked(t, e.index) ->
           <<Frame("part", e.index, NoUsage)>>
      [] e.ev = "MessageDelta" -> <<Frame("finish", 0, e.usage)>>
      [] e.ev = "Error"        -> BlockFrames(e)
      [] OTHER                 -> <<>>

(* cohere has no thinking; any delta of the message is its message-end. *)
WriteCohere(t, e) ==
    CASE e.ev \in {"BlockStart", "BlockDelta"} ->
           IF e.kind = "thinking" THEN <<>> ELSE BlockFrames(e)
      [] e.ev = "BlockStop"    -> Close(t, e)
      [] e.ev = "MessageDelta" -> <<Frame("finish", 0, e.usage)>>
      [] OTHER                 -> BlockFrames(e)

(* A message or reasoning item past the cap is not written; a call past it *)
(* is, and will never be done.                                             *)
WriteResponses(t, e) ==
    CASE e.ev = "BlockStart" ->
           IF e.kind = "tool" \/ RsRoom(t, e.kind) THEN BlockFrames(e) ELSE <<>>
      [] e.ev = "BlockStop"    -> Close(t, e)
      [] e.ev = "MessageDelta" -> <<Frame("finish", 0, e.usage)>>
      [] OTHER                 -> BlockFrames(e)

(* OpenAiStreamFraming::on_egress_chunk: the usage is taken off the finish *)
(* chunk, and follows it in a chunk of its own if the client asked for it. *)
OnEgressChunk(w) ==
    IF w.f # "finish" \/ w.usage = NoUsage THEN <<w>>
    ELSE <<Frame("finish", 0, NoUsage)>>
         \o (IF includeUsage THEN <<Frame("usage", 0, w.usage)>> ELSE <<>>)

Written(t, e) ==
    CASE ingress = "anthropic" -> WriteAnthropic(e)
      [] ingress = "bedrock"   -> WriteBedrock(t, e)
      [] ingress = "gemini"    -> WriteGemini(t, e)
      [] ingress = "cohere"    -> WriteCohere(t, e)
      [] ingress = "responses" -> WriteResponses(t, e)
      [] ingress = "openai"    -> FlattenSeq([n \in 1..Len(WriteOpenAi(e)) |->
                                                OnEgressChunk(WriteOpenAi(e)[n])])

(* emit_ir_event: the block set follows the event, not what was written. *)
Emit(t, e) ==
    [t EXCEPT !.openBlocks = CASE e.ev = "BlockStart" -> @ \cup {e.index}
                               [] e.ev = "BlockStop"  -> @ \ {e.index}
                               [] OTHER -> @,
              !.items = CASE e.ev = "BlockStart" /\ Tracks(t, e) ->
                               @ \cup {<<e.index, e.kind>>}
                          [] e.ev = "BlockStop" -> {b \in @ : b[1] # e.index}
                          [] OTHER -> @,
              !.missed = @ \/ (/\ ingress = "responses" /\ e.ev = "BlockStart"
                               /\ e.kind = "tool" /\ ~Tracks(t, e)),
              !.wire = @ \o Written(t, e)]

\* Mutant: blocks the reader left open stay open.
MutCloseOpenBlocks(t) == t

(* close_open_blocks: in ascending order, the set taken first. *)
CloseOpenBlocks(t) ==
    LET ixs == Ascending(t.openBlocks)
    IN  FoldLeft(Emit, t, [n \in 1..Len(ixs) |-> BlockStop(ixs[n])])

(***************************************************************************)
(* translate_event, one event of the reader at a time.                     *)
(***************************************************************************)
\* Mutant: the last usage replaces the earlier ones whole.
MutMerge(acc, u) == u

(* merge_trailing_usage, and the accumulation of last_usage: a field that  *)
(* is not zero replaces, a zero keeps.                                     *)
Merge(acc, u) == [in  |-> IF u.in # 0 THEN u.in ELSE acc.in,
                  out |-> IF u.out # 0 THEN u.out ELSE acc.out]

(* Input tokens a dialect reports only at the start of the stream. *)
Backfill(t, u) ==
    IF t.startUsage # NoUsage /\ u.in = 0
    THEN [u EXCEPT !.in = t.startUsage.in] ELSE u

(* What both translate_event and extract_usage_only record of an event. *)
Tap(t, e) ==
    CASE e.ev = "MessageStart" /\ e.usage # NoUsage ->
           [t EXCEPT !.startUsage = e.usage]
      [] e.ev = "MessageDelta" ->
           [t EXCEPT !.lastUsage =
                Merge(IF @ = NoUsage THEN Zero ELSE @, Backfill(t, e.usage))]
      [] e.ev = "Error" -> [t EXCEPT !.failed = TRUE]
      [] OTHER -> t

(* BedrockStreamFraming::on_combined_stop_delta: messageStop at once, and  *)
(* the metadata frame once, when there is usage to put in it.              *)
CombinedStop(t, u) ==
    LET s == Emit(t, MessageDelta(TRUE, Zero))
    IN  CASE t.emitted -> s
          [] ~t.emitted /\ u # Zero ->
               [Emit(s, MessageDelta(FALSE, u))
                   EXCEPT !.emitted = TRUE, !.pending = FALSE]
          [] ~t.emitted /\ u = Zero -> [s EXCEPT !.pending = TRUE]

(* BedrockStreamFraming::on_usage_only_delta *)
UsageOnly(t, e) ==
    IF t.emitted THEN t
    ELSE [Emit(t, e) EXCEPT !.emitted = TRUE, !.pending = FALSE]

(* The terminal delta is held back so that late usage can join it. *)
Fold(t, e) ==
    CASE e.ev = "MessageDelta" ->
           [t EXCEPT !.pendingTerminal = IF @ = NoUsage THEN e.usage
                                         ELSE Merge(@, e.usage)]
      [] e.ev = "MessageStop" -> [t EXCEPT !.pendingStop = TRUE]

Folds(t, e) ==
    /\ ingress \notin {"openai", "bedrock"}
    /\ \/ e.ev = "MessageDelta" /\ (e.stop \/ t.pendingTerminal # NoUsage)
       \/ e.ev = "MessageStop" /\ t.pendingTerminal # NoUsage

(* The ordering guard: no delta after the terminal frame. *)
Guarded(t, e) ==
    CASE e.ev = "MessageDelta" /\ t.stopped -> t
      [] e.ev = "MessageStop" -> Emit([t EXCEPT !.stopped = TRUE], e)
      [] OTHER -> Emit(t, e)

TranslateEvent(t0, e0) ==
    LET e == IF e0.ev = "MessageDelta"
             THEN [e0 EXCEPT !.usage = Backfill(t0, e0.usage)] ELSE e0
        s == Tap(t0, e0)
        t == IF e.ev = "MessageStop" \/ (e.ev = "MessageDelta" /\ e.stop)
             THEN CloseOpenBlocks(s) ELSE s
    IN  CASE ingress = "bedrock" /\ e.ev = "MessageDelta" /\ e.stop ->
               CombinedStop(t, e.usage)
          [] ingress = "bedrock" /\ e.ev = "MessageDelta" /\ ~e.stop ->
               UsageOnly(t, e)
          [] Folds(t, e) -> Fold(t, e)
          [] OTHER -> Guarded(t, e)

(***************************************************************************)
(* StreamTranslate::finish                                                 *)
(***************************************************************************)
(* BedrockStreamFraming::on_finish: the metadata still owed, with no usage. *)
OnFinish(t) ==
    IF t.pending /\ ~t.emitted
    THEN [Emit(t, MessageDelta(FALSE, Zero)) EXCEPT !.emitted = TRUE,
                                                    !.pending = FALSE]
    ELSE t

FlushTerminal(t) ==
    IF t.pendingTerminal = NoUsage THEN t
    ELSE LET s == [Emit(t, MessageDelta(TRUE, t.pendingTerminal))
                      EXCEPT !.pendingTerminal = NoUsage]
         IN  IF s.pendingStop THEN Emit(s, MessageStop) ELSE s

Finish(t) ==
    CASE aborted                -> Emit(t, Error)
      [] ~aborted /\ SameProto  -> t
      [] ~aborted /\ ~SameProto -> FlushTerminal(OnFinish(CloseOpenBlocks(t)))

(***************************************************************************)
(* Actions                                                                 *)
(***************************************************************************)
StreamInit ==
    /\ ingress \in Ingresses /\ egress \in Egresses
    /\ includeUsage \in BOOLEAN
    /\ ingress # "openai" => includeUsage = FALSE
    /\ up = UpInit
    /\ dec = DecodeInit
    /\ tr = TrInit
    /\ aborted = FALSE
    /\ body = "open"
    /\ billed = NoUsage
    /\ transients = 0
    /\ client = ClientInit

(* Deliver what t wrote, and forget it. *)
Deliver(t) ==
    /\ client' = FoldLeft(See, client, t.wire)
    /\ tr' = [t EXCEPT !.wire = <<>>]

(* extract_usage_only, or translate_event *)
OneEvent(t, e) == IF SameProto THEN Tap(t, e) ELSE TranslateEvent(t, e)

(* poll_next on a chunk that completes a frame: feed.  An aborted          *)
(* translator takes nothing more.                                          *)
Feed ==
    /\ body = "open" /\ up.phase # "closed" /\ up.frames < MaxFrames
    /\ \E s \in SendsOf(egress, up) :
         LET r == Read(s.frame)
         IN  /\ up' = s.next
             /\ dec' = IF aborted THEN dec ELSE r.d
             /\ IF aborted THEN UNCHANGED <<tr, client>>
                ELSE Deliver(FoldLeft(OneEvent, tr, r.evs))
    /\ UNCHANGED <<ingress, egress, includeUsage, aborted, body, billed,
                   transients>>

(* feed on bytes that never complete a frame: the reassembly buffer passes *)
(* MAX_BUF, or an event-stream prelude is malformed.                       *)
Abort ==
    /\ body = "open" /\ ~aborted /\ up.phase # "closed"
    /\ up.frames < MaxFrames
    /\ aborted' = TRUE
    /\ up' = [up EXCEPT !.frames = @ + 1]
    /\ UNCHANGED <<ingress, egress, includeUsage, dec, tr, body, billed,
                   transients, client>>

StreamFailed == tr.failed \/ aborted

\* Mutant: an aborted stream is billed.
MutUpstreamEnds ==
    /\ body = "open"
    /\ body' = "ended"
    /\ transients' = transients + (IF up.frames > 0 /\ StreamFailed THEN 1 ELSE 0)
    /\ billed' = IF tr.failed THEN NoUsage
                 ELSE IF tr.lastUsage = NoUsage THEN Zero ELSE tr.lastUsage
    /\ Deliver(Finish(tr))
    /\ UNCHANGED <<ingress, egress, includeUsage, up, dec, aborted>>

(* poll_next on the end of the upstream's body, wherever that falls: a     *)
(* failed stream counts against the lane and is not billed.                *)
UpstreamEnds ==
    /\ body = "open"
    /\ body' = "ended"
    /\ transients' = transients + (IF up.frames > 0 /\ StreamFailed THEN 1 ELSE 0)
    /\ billed' = IF StreamFailed THEN NoUsage
                 ELSE IF tr.lastUsage = NoUsage THEN Zero ELSE tr.lastUsage
    /\ Deliver(Finish(tr))
    /\ UNCHANGED <<ingress, egress, includeUsage, up, dec, aborted>>

(* poll_next on a transport error: an error frame once the first byte is   *)
(* out, a broken body before.  The Drop that follows bills nothing.        *)
TransportError ==
    /\ body = "open"
    /\ body' = "broken"
    /\ transients' = transients + 1
    /\ client' = IF up.frames > 0 THEN See(client, Frame("error", 0, NoUsage))
                 ELSE client
    /\ UNCHANGED <<ingress, egress, includeUsage, up, dec, tr, aborted, billed>>

(* Drop of a body that has not ended: the client went away.  The tokens    *)
(* seen so far are billed.                                                 *)
ClientDrops ==
    /\ body = "open"
    /\ body' = "dropped"
    /\ billed' = IF StreamFailed \/ tr.lastUsage \in {NoUsage, Zero} THEN NoUsage
                 ELSE tr.lastUsage
    /\ UNCHANGED <<ingress, egress, includeUsage, up, dec, tr, aborted,
                   transients, client>>

StreamNext == Feed \/ Abort \/ UpstreamEnds \/ TransportError \/ ClientDrops

StreamSpec == StreamInit /\ [][StreamNext]_streamVars

(***************************************************************************)
(* Properties                                                              *)
(***************************************************************************)
Usage == [in : 0..1, out : 0..2]

(* What a stream is settled with, and the translator's books. *)
StreamTypeOK ==
    /\ ingress \in Ingresses /\ egress \in Egresses
    /\ includeUsage \in BOOLEAN /\ aborted \in BOOLEAN
    /\ body \in {"open", "ended", "broken", "dropped"}
    /\ billed \in Usage \cup {NoUsage}
    /\ transients \in 0..1
    /\ tr.lastUsage \in Usage \cup {NoUsage}
    /\ tr.pendingTerminal \in [in : Int, out : Int]
    /\ tr.openBlocks \subseteq Int
    /\ tr.wire = <<>>

(* Whatever order the upstream interleaves reasoning, text and tool calls  *)
(* in, the client never sees two blocks on one index, a delta outside an   *)
(* open block or a second close (the index claims of the readers).         *)
BlocksBalanced == client.faults \cap {"reused", "stray"} = {}

(* No content follows the client's terminal frame, and every block the     *)
(* reader left open (cohere tool calls, a truncated stream) is closed      *)
(* before it: close_open_blocks ahead of each terminal path, the deferred  *)
(* terminal delta and the guard after MessageStop.  No tool call that the  *)
(* gemini writer kept back is lost.  The one exception is a responses      *)
(* client of an upstream with more open calls than its writer tracks.      *)
TerminalLast ==
    /\ "late" \notin client.faults
    /\ "unclosed" \in client.faults => tr.missed
    /\ body = "ended" /\ ~StreamFailed => tr.items = {}

Reported == IF up.sent = NoUsage THEN Zero ELSE up.sent

(* A stream the upstream completed is billed the usage it reported, at the *)
(* start, at the end or after it, and the client is told the same number.  *)
(* An openai client is told only if it asked, save when the upstream ended *)
(* without a stop reason: usage that rides on no finish chunk is not taken *)
(* off.                                                                    *)
UsageAgrees ==
    (body = "ended" /\ ~StreamFailed /\ ~up.fault /\ up.phase = "tail")
        => /\ billed = Reported
           /\ ~SameProto =>
                IF ingress # "openai" THEN client.usage = Reported
                ELSE   client.usage = IF /\ Reported # Zero
                                         /\ includeUsage \/ client.finishes = 0
                                      THEN Reported ELSE NoUsage

(* A stream found to have failed, by an error event of its reader, by an   *)
(* abort or by the transport, is never billed, however its body ends.      *)
(* Read to its end or broken it counts exactly once against the lane, and  *)
(* the client is told unless what it reads is relayed or had not begun; a  *)
(* client that goes away first leaves the lane uncounted.  A stream that   *)
(* ends without an error, found or missed by its reader, does not count.   *)
FailureSettled ==
    /\ body = "broken" \/ (body # "open" /\ StreamFailed) => billed = NoUsage
    /\ body = "broken" \/ (body = "ended" /\ StreamFailed) => transients = 1
    /\ body = "ended" /\ StreamFailed /\ (~SameProto \/ aborted) => client.errors > 0
    /\ body = "broken" /\ up.frames > 0 => client.errors > 0
    /\ body \in {"open", "dropped"} => transients = 0
    /\ body = "ended" /\ ~StreamFailed /\ ~up.fault => transients = 0

=============================================================================
