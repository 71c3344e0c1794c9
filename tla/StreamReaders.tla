--------------------------- MODULE StreamReaders ---------------------------
(***************************************************************************)
(* The egress readers of six dialects (proto/*/reader.rs): each turns one  *)
(* upstream frame into a sequence of events of the intermediate            *)
(* representation and advances the decode state the stream owns            *)
(* (ir::StreamDecodeState).  A frame is reduced to what the readers branch *)
(* on: which parts it carries and on which upstream index.  Text, ids,     *)
(* names and arguments are left out.                                       *)
(***************************************************************************)
EXTENDS Integers, Sequences, FiniteSets, SequencesExt

CONSTANT ToolIdx        \* the upstream's own indices of tool calls
CONSTANT MaxOpenTools   \* MAX_OPEN_TOOLS of the openai family
CONSTANT MaxToolFrames  \* MAX_TRACKED_TOOL_FRAMES, MAX_GEMINI_TOOL_FRAMES

ASSUME ReadersAssumption ==
    ToolIdx \subseteq Nat /\ MaxOpenTools \in Nat /\ MaxToolFrames \in Nat

None == -1              \* Option::None of an index

(* IrUsage, its input and output tokens.  The two cache fields travel by   *)
(* the same rules and are left out.                                        *)
Zero    == [in |-> 0, out |-> 0]
NoUsage == [in |-> -1, out |-> -1]        \* Option::None

(* IrStreamEvent; a block is "text", "tool" or "thinking". *)
MessageStart(u)    == [ev |-> "MessageStart", usage |-> u]
BlockStart(i, k)   == [ev |-> "BlockStart", index |-> i, kind |-> k]
BlockDelta(i, k)   == [ev |-> "BlockDelta", index |-> i, kind |-> k]
BlockStop(i)       == [ev |-> "BlockStop", index |-> i]
MessageDelta(s, u) == [ev |-> "MessageDelta", stop |-> s, usage |-> u]
MessageStop        == [ev |-> "MessageStop"]
Error              == [ev |-> "Error"]

(* StreamDecodeState::default.  cohere keeps TEXT_BLOCK_SEEN_SENTINEL in   *)
(* open_tools; here it is the flag textSeen.                               *)
DecodeInit ==
    [started |-> FALSE, textOpen |-> FALSE, textIndex |-> None,
     textClosed |-> FALSE, textSeen |-> FALSE, openTools |-> {},
     reasoningSeen |-> FALSE, thinkingOpen |-> FALSE,
     pendingStop |-> FALSE, toolIr |-> [i \in {} |-> 0], nextIr |-> 0]

\* Mutant: the thinking block's index is not reserved.
MutClaimIrIndex(d) == d.nextIr

(* claim_ir_index: index 0 belongs to a thinking block once one was seen. *)
ClaimIrIndex(d) ==
    IF d.reasoningSeen /\ d.nextIr = 0 THEN 1 ELSE d.nextIr

(* A reader is a chain of parts, each of which takes the decode state and  *)
(* the events so far to the next ones.                                     *)
Result(d, evs)  == [d |-> d, evs |-> evs]
Push(r, d, evs) == Result(d, r.evs \o evs)

(* The integers of S in order: the n-th has n - 1 of them below it. *)
Ascending(S) ==
    [n \in 1..Cardinality(S) |->
        CHOOSE i \in S : Cardinality({j \in S : j < i}) = n - 1]

(* HashMap::insert *)
Maps(f, i, x) == [j \in DOMAIN f \cup {i} |-> IF j = i THEN x ELSE f[j]]

(***************************************************************************)
(* OpenAI chat completions.  A chunk is a record                           *)
(*   reasoning, content : BOOLEAN    delta.reasoning_content / .content    *)
(*   tools  : sequence of [index, named, args]     delta.tool_calls        *)
(*   finish : BOOLEAN                choices[0].finish_reason              *)
(*   choice : BOOLEAN                choices is not empty                  *)
(*   usage  : a usage or NoUsage                                           *)
(***************************************************************************)
CloseThinking(r) ==
    IF r.d.thinkingOpen
    THEN Push(r, [r.d EXCEPT !.thinkingOpen = FALSE], <<BlockStop(0)>>)
    ELSE r

OaStart(r) ==
    IF r.d.started THEN r
    ELSE Push(r, [r.d EXCEPT !.started = TRUE], <<MessageStart(NoUsage)>>)

(* Reasoning is read only until the answer or a tool call has begun. *)
AddReasoning(r) ==
    IF ~r.d.textOpen /\ r.d.openTools = {}
    THEN Push(r, [r.d EXCEPT !.reasoningSeen = TRUE, !.thinkingOpen = TRUE],
              (IF r.d.thinkingOpen THEN <<>> ELSE <<BlockStart(0, "thinking")>>)
                  \o <<BlockDelta(0, "thinking")>>)
    ELSE r

OaReasoning(r, c) == IF c.reasoning THEN AddReasoning(r) ELSE r

(* Text goes to the one text block, which claims its index when it opens. *)
AddText(r) ==
    LET q  == CloseThinking(r)
        ti == IF q.d.textIndex # None THEN q.d.textIndex ELSE ClaimIrIndex(q.d)
        d  == [q.d EXCEPT !.textOpen = TRUE, !.textIndex = ti,
                          !.nextIr = IF q.d.textIndex # None THEN @ ELSE ti + 1]
    IN  Push(q, d, (IF q.d.textOpen THEN <<>> ELSE <<BlockStart(ti, "text")>>)
                       \o <<BlockDelta(ti, "text")>>)

OaContent(r, c) == IF c.content THEN AddText(r) ELSE r

(* One entry of tool_calls: a named one opens a block unless its index is  *)
(* open or the cap is reached; arguments of an unknown index are dropped.  *)
OaTool(r, t) ==
    LET opens == /\ t.named
                 /\ t.index \notin r.d.openTools
                 /\ Cardinality(r.d.openTools) < MaxOpenTools
        ix    == ClaimIrIndex(r.d)
        d     == IF opens
                 THEN [r.d EXCEPT !.openTools = @ \cup {t.index},
                                  !.toolIr = Maps(@, t.index, ix),
                                  !.nextIr = ix + 1]
                 ELSE r.d
    IN  Push(r, d, (IF opens THEN <<BlockStart(ix, "tool")>> ELSE <<>>)
                   \o (IF t.args /\ t.index \in DOMAIN d.toolIr
                       THEN <<BlockDelta(d.toolIr[t.index], "tool")>> ELSE <<>>))

OaTools(r, c) ==
    IF c.tools = <<>> THEN r
    ELSE FoldLeft(OaTool, CloseThinking(r), c.tools)

(* The finish chunk closes thinking, text and every tool, then ends the    *)
(* message; a usage with no choice is the trailing include_usage chunk.    *)
OaFinish(r, c) ==
    LET u == IF c.usage = NoUsage THEN Zero ELSE c.usage
        q == CloseThinking(r)
        tools == Ascending(q.d.openTools \cap DOMAIN q.d.toolIr)
        closes == (IF q.d.textOpen THEN <<BlockStop(q.d.textIndex)>> ELSE <<>>)
                  \o [n \in 1..Len(tools) |-> BlockStop(q.d.toolIr[tools[n]])]
    IN  CASE c.finish ->
               Push(q, [q.d EXCEPT !.textOpen = FALSE, !.openTools = {},
                                   !.toolIr = [i \in {} |-> 0]],
                    closes \o <<MessageDelta(TRUE, u), MessageStop>>)
          [] ~c.finish /\ c.usage # NoUsage /\ ~c.choice ->
               Push(r, r.d, <<MessageDelta(FALSE, u)>>)
          [] OTHER -> r

ReadOpenAi(d, c) ==
    OaFinish(OaTools(OaContent(OaReasoning(OaStart(Result(d, <<>>)), c), c), c),
             c)

(***************************************************************************)
(* Cohere v2.  A frame is [type, index, args, stop, usage].                *)
(***************************************************************************)
CoTracked(d) == Cardinality(DOMAIN d.toolIr)

(* cohere_text_ir_index: the text block takes the number of tools so far. *)
CoTextIndex(d) == IF d.textIndex # None THEN d.textIndex ELSE CoTracked(d)

CoOpenText(d) ==
    [d EXCEPT !.textOpen = TRUE, !.textIndex = CoTextIndex(d), !.textSeen = TRUE]

CoCloseText(r) ==
    IF r.d.textOpen
    THEN Push(r, [r.d EXCEPT !.textOpen = FALSE, !.textClosed = TRUE],
              <<BlockStop(r.d.textIndex)>>)
    ELSE r

(* content-delta and tool-plan-delta open the block if none is, and are    *)
(* dropped once it has been closed.                                        *)
CoText(r, f) ==
    Push(r, CoOpenText(r.d),
         (IF r.d.textOpen THEN <<>> ELSE <<BlockStart(CoTextIndex(r.d), "text")>>)
         \o (IF f.type = "content-start" THEN <<>>
             ELSE <<BlockDelta(CoTextIndex(r.d), "text")>>))

CoToolStart(r, f) ==
    LET q  == CoCloseText(r)
        ix == CoTracked(q.d) + (IF q.d.textSeen THEN 1 ELSE 0)
    IN  IF f.index \in DOMAIN q.d.toolIr \/ CoTracked(q.d) >= MaxToolFrames
        THEN q
        ELSE Push(q, [q.d EXCEPT !.openTools = @ \cup {f.index},
                                 !.toolIr = Maps(@, f.index, ix)],
                  <<BlockStart(ix, "tool")>>
                  \o (IF f.args THEN <<BlockDelta(ix, "tool")>> ELSE <<>>))


ReadCohere(d, f) ==
    LET r == Result(d, <<>>)
    IN  CASE f.type = "message-start" -> OaStart(r)
          [] f.type \in {"content-start", "content-delta", "tool-plan-delta"} ->
               IF d.textClosed THEN r ELSE CoText(r, f)
          [] f.type = "content-end" -> CoCloseText(r)
          [] f.type = "message-end" ->
               LET q == CoCloseText(r)
               IN  Push(q, q.d, <<MessageDelta(f.stop, f.usage), MessageStop>>)
          [] f.type = "tool-call-start" -> CoToolStart(r, f)
          [] f.type = "tool-call-delta" ->
               IF f.index \in DOMAIN d.toolIr
               THEN Push(r, d, <<BlockDelta(d.toolIr[f.index], "tool")>>) ELSE r
          [] f.type = "tool-call-end" ->
               IF f.index \in DOMAIN d.toolIr
               THEN Push(r, d, <<BlockStop(d.toolIr[f.index])>>) ELSE r
          [] OTHER -> r

(***************************************************************************)
(* Bedrock ConverseStream.  A frame is [type, index, kind, usage].         *)
(***************************************************************************)
BeOpen(r, f) ==
    LET d == r.d
    IN  CASE ~d.started -> r
          [] d.started /\ f.kind = "tool" ->
               Push(r, [d EXCEPT !.openTools = @ \cup {f.index}],
                    <<BlockStart(f.index, f.kind)>>)
          [] d.started /\ f.kind = "thinking" /\ ~d.thinkingOpen ->
               Push(r, [d EXCEPT !.thinkingOpen = TRUE], <<BlockStart(f.index, f.kind)>>)
          [] d.started /\ f.kind = "text" /\ ~d.textOpen ->
               Push(r, [d EXCEPT !.textOpen = TRUE], <<BlockStart(f.index, f.kind)>>)
          [] OTHER -> r

(* A text or thinking delta opens its block if the upstream never did. *)
BeDelta(r, f) ==
    LET q == IF f.kind = "tool" THEN r ELSE BeOpen(r, f)
    IN  IF f.kind = "thinking" /\ ~q.d.thinkingOpen THEN q
        ELSE Push(q, q.d, <<BlockDelta(f.index, f.kind)>>)

BeStop(r, f) ==
    LET d == r.d
    IN  CASE d.started /\ f.index \in d.openTools ->
               Push(r, [d EXCEPT !.openTools = @ \ {f.index}],
                    <<BlockStop(f.index)>>)
          [] d.started /\ f.index \notin d.openTools /\ d.textOpen ->
               Push(r, [d EXCEPT !.textOpen = FALSE], <<BlockStop(f.index)>>)
          [] d.started /\ f.index \notin d.openTools /\ ~d.textOpen
                       /\ d.thinkingOpen ->
               Push(r, [d EXCEPT !.thinkingOpen = FALSE], <<BlockStop(f.index)>>)
          [] OTHER -> r

(* messageStop only records the reason; metadata ends the message. *)
ReadBedrock(d, f) ==
    LET r == Result(d, <<>>)
    IN  CASE f.type = "messageStart"      -> OaStart(r)
          [] f.type = "contentBlockStart" -> BeOpen(r, f)
          [] f.type = "contentBlockDelta" -> BeDelta(r, f)
          [] f.type = "contentBlockStop"  -> BeStop(r, f)
          [] f.type = "messageStop" ->
               Push(r, [d EXCEPT !.pendingStop = TRUE], <<>>)
          [] f.type = "metadata" ->
               Push(r, [d EXCEPT !.pendingStop = FALSE],
                    <<MessageDelta(d.pendingStop, f.usage), MessageStop>>)
          [] f.type = "exception" -> Push(r, d, <<Error>>)
          [] OTHER -> r

(***************************************************************************)
(* Anthropic messages: one event per frame, no decode state.               *)
(***************************************************************************)
ReadAnthropic(d, f) ==
    Result(d,
      CASE f.type = "message_start"       -> <<MessageStart(f.usage)>>
        [] f.type = "content_block_start" -> <<BlockStart(f.index, f.kind)>>
        [] f.type = "redacted_thinking"   -> <<BlockStart(f.index, f.kind),
                                               BlockDelta(f.index, f.kind)>>
        [] f.type = "content_block_delta" -> <<BlockDelta(f.index, f.kind)>>
        [] f.type = "content_block_stop"  -> <<BlockStop(f.index)>>
        [] f.type = "message_delta"       -> <<MessageDelta(TRUE, f.usage)>>
        [] f.type = "message_stop"        -> <<MessageStop>>
        [] f.type = "error"               -> <<Error>>
        [] OTHER                          -> <<>>)

(***************************************************************************)
(* Gemini streamGenerateContent.  A chunk is a record                      *)
(*   parts  : sequence over {"thought", "text", "call"}   content.parts    *)
(*   extra  : BOOLEAN    citationMetadata or logprobsResult                *)
(*   finish : BOOLEAN    finishReason                                      *)
(*   block  : BOOLEAN    promptFeedback.blockReason and no candidates      *)
(*   error  : BOOLEAN    a google.rpc.Status object                        *)
(*   usage  : a usage, Zero if there is no usageMetadata                   *)
(***************************************************************************)
(* A call comes whole, on an index of its own; past the cap it is dropped. *)
GeCall(r) ==
    LET ix == ClaimIrIndex(r.d)
        q  == CloseThinking(r)
    IN  IF Cardinality(r.d.openTools) >= MaxToolFrames THEN r
        ELSE Push(q, [q.d EXCEPT !.openTools = @ \cup {ix}, !.nextIr = ix + 1],
                  <<BlockStart(ix, "tool"), BlockDelta(ix, "tool")>>)

GePart(r, part) ==
    CASE part = "thought" -> AddReasoning(r)
      [] part = "text"    -> AddText(r)
      [] part = "call"    -> GeCall(r)

(* finishReason and a blocked prompt both close everything and end. *)
GeFinish(r, c) ==
    LET q     == CloseThinking(r)
        tools == Ascending(q.d.openTools)
    IN  Push(q, [q.d EXCEPT !.textOpen = FALSE, !.openTools = {},
                            !.textIndex = IF q.d.textOpen THEN None ELSE @],
             (IF q.d.textOpen THEN <<BlockStop(q.d.textIndex)>> ELSE <<>>)
             \o [n \in 1..Len(tools) |-> BlockStop(tools[n])]
             \o <<MessageDelta(TRUE, c.usage), MessageStop>>)

ReadGemini(d, c) ==
    LET r == OaStart(Result(d, <<>>))
        p == FoldLeft(GePart, r, c.parts)
        q == IF c.extra THEN AddText(p) ELSE p
    IN  CASE c.error              -> Result(d, <<Error>>)
          [] ~c.error /\ c.block  -> GeFinish(r, c)
          [] ~c.error /\ ~c.block -> IF c.finish THEN GeFinish(q, c) ELSE q

(***************************************************************************)
(* OpenAI Responses.  A frame is [type, index, kind, refusal, stop, usage];*)
(* the upstream's output_index is the index of the block.  open_tools has  *)
(* the open text blocks too, under a key of their own.                     *)
(***************************************************************************)
TextKeyOffset == 1000              \* TEXT_INDEX_KEY_OFFSET
TextKey(i)    == i + TextKeyOffset

(* The keys of text blocks lie above every index that the cap lets open,   *)
(* and the cap lets one open (128 and 1000 in the code).                   *)
ASSUME KeysAssumption ==
    MaxOpenTools >= 1 /\ MaxOpenTools + 1 < TextKeyOffset

RsIsOpen(d, i) == {i, TextKey(i)} \cap d.openTools # {}
RsFull(d)      == Cardinality(d.openTools) >= MaxOpenTools

(* Open block i under key k, unless one is open on i or the cap is reached. *)
RsOpen(r, i, k, kind) ==
    IF RsIsOpen(r.d, i) \/ RsFull(r.d) THEN r
    ELSE Push(r, [r.d EXCEPT !.openTools = @ \cup {k}], <<BlockStart(i, kind)>>)

(* A delta for a block that the cap keeps shut is dropped. *)
RsDelta(r, i, kind) ==
    IF RsIsOpen(r.d, i) THEN Push(r, r.d, <<BlockDelta(i, kind)>>) ELSE r

(* content_part.done and output_item.done: the first of the two closes. *)
RsDone(r, i) ==
    IF RsIsOpen(r.d, i)
    THEN Push(r, [r.d EXCEPT !.openTools = IF i \in @ THEN @ \ {i}
                                           ELSE @ \ {TextKey(i)}],
              <<BlockStop(i)>>)
    ELSE r

RsCloseAll(r) ==
    LET ixs == Ascending({IF k >= TextKeyOffset THEN k - TextKeyOffset ELSE k :
                             k \in r.d.openTools})
    IN  Push(r, [r.d EXCEPT !.openTools = {}],
             [n \in 1..Len(ixs) |-> BlockStop(ixs[n])])

(* A refusal is only in the terminal frame: a text block of its own. *)
RsRefusal(r, f) ==
    IF f.refusal = None \/ RsIsOpen(r.d, f.refusal) \/ RsFull(r.d) THEN r
    ELSE RsDelta(RsOpen(r, f.refusal, TextKey(f.refusal), "text"), f.refusal,
                 "text")

RsTerminal(r, f) ==
    IF f.type = "failed"
    THEN LET q == RsCloseAll(Push(r, r.d, <<Error>>))
         IN  Push(q, q.d, <<MessageStop>>)
    ELSE LET q == RsCloseAll(RsRefusal(r, f))
         IN  Push(q, q.d, <<MessageDelta(f.stop, f.usage), MessageStop>>)

ReadResponses(d, f) ==
    LET r == Result(d, <<>>)
    IN  CASE f.type = "created" -> OaStart(r)
          [] f.type = "item.added" /\ f.kind \in {"tool", "thinking"} ->
               RsOpen(r, f.index, f.index, f.kind)
          [] f.type = "reasoning.delta" ->
               RsDelta(RsOpen(r, f.index, f.index, "thinking"), f.index, "thinking")
          [] f.type = "text.delta" ->
               IF f.index \in d.openTools THEN r
               ELSE RsDelta(RsOpen(r, f.index, TextKey(f.index), "text"), f.index,
                            "text")
          [] f.type = "args.delta" ->
               IF f.index \in d.openTools THEN RsDelta(r, f.index, "tool") ELSE r
          [] f.type = "done" -> RsDone(r, f.index)
          [] f.type \in {"completed", "failed"} -> RsTerminal(r, f)
          [] OTHER -> r
=============================================================================
