--------------------------- MODULE StreamUpstream ---------------------------
(***************************************************************************)
(* The upstream of a streamed response: any stream its own protocol        *)
(* allows, cut short anywhere, plus what the code is written to expect of  *)
(* real providers: usage after the finish chunk, a repeated terminal       *)
(* frame, tool calls never closed.                                         *)
(*   open : the indices of its open blocks     used : those it has opened  *)
(*   kind : of the open block                  fault: it sent an error     *)
(*   sent : the usage it has reported so far                               *)
(* All of this is external to the program.                                 *)
(***************************************************************************)
EXTENDS StreamReaders

Final == [in |-> 1, out |-> 2]

UpInit == [phase |-> "head", open |-> {}, used |-> {}, sent |-> NoUsage,
           kind |-> "",
           fault |-> FALSE, frames |-> 0]

(* A frame and the state in which it leaves the upstream. *)
Sends(f, u) == [frame |-> f, next |-> [u EXCEPT !.frames = @ + 1]]

\* Where a frame leaves it: in another phase, with a usage reported, at fault.
Goes(u, p)     == [u EXCEPT !.phase = p]
Ended(u, p, v) == [u EXCEPT !.phase = p, !.sent = v]
Faulted(u)     == [u EXCEPT !.fault = TRUE, !.phase = "closed"]

OaChunk == [reasoning |-> FALSE, content |-> FALSE, tools |-> <<>>,
            finish |-> FALSE, choice |-> TRUE, usage |-> NoUsage]
OaCall(i, named, args) == [index |-> i, named |-> named, args |-> args]

(* A chunk that names a new call, goes on with one, names two, or finishes. *)
OaNamed(u, i, a) == Sends([OaChunk EXCEPT !.tools = <<OaCall(i, TRUE, a)>>],
                          [u EXCEPT !.used = @ \cup {i}])
OaArgs(u, i)     == Sends([OaChunk EXCEPT !.tools = <<OaCall(i, FALSE, TRUE)>>], u)
OaPair(u, i, j)  == Sends([OaChunk EXCEPT !.tools = <<OaCall(i, TRUE, TRUE),
                                                      OaCall(j, TRUE, TRUE)>>],
                          [u EXCEPT !.used = @ \cup {i, j}])
OaEnds(u, c, v)  == Sends([OaChunk EXCEPT !.finish = TRUE, !.content = c, !.usage = v],
                          IF v = NoUsage THEN Goes(u, "tail") ELSE Ended(u, "tail", v))

OpenAiSends(u) ==
    LET fresh == ToolIdx \ u.used
    IN  IF u.phase = "tail"
        THEN {Sends([OaChunk EXCEPT !.choice = FALSE, !.usage = Final],
                    Ended(u, "tail", Final)),
              Sends([OaChunk EXCEPT !.finish = TRUE], u)}
        ELSE {Sends([OaChunk EXCEPT !.reasoning = TRUE], u),
              Sends([OaChunk EXCEPT !.content = TRUE], u),
              Sends([OaChunk EXCEPT !.reasoning = TRUE, !.content = TRUE], u),
              Sends([OaChunk EXCEPT !.choice = FALSE], Faulted(u))}
             \cup {OaNamed(u, i, a) : i \in fresh, a \in BOOLEAN}
             \cup {OaArgs(u, i) : i \in u.used}
             \cup {OaPair(u, i, j) : i \in fresh, j \in fresh}
             \cup {OaEnds(u, c, v) : c \in BOOLEAN, v \in {NoUsage, Final}}

CoFrame(t, i, a, v) == [type |-> t, index |-> i, args |-> a, stop |-> TRUE,
                        usage |-> v]
CoSays(t)           == CoFrame(t, 0, TRUE, Zero)

(* cohere: one text block at a time (CoTextBlock stands for it in open),   *)
(* then tool calls.                                                        *)
CoTextBlock   == None
CoOpens(u)    == [u EXCEPT !.open = @ \cup {CoTextBlock}]
CoShuts(u, i) == [u EXCEPT !.open = @ \ {i}]
CoCalls(u, i) == [u EXCEPT !.open = (@ \ {CoTextBlock}) \cup {i},
                           !.used = @ \cup {i}]

CohereSends(u) ==
    LET calls == u.open \ {CoTextBlock}
    IN  CASE u.phase = "head" -> {Sends(CoSays("message-start"), Goes(u, "body"))}
          [] u.phase = "body" ->
               {Sends(CoSays(t), CoOpens(u)) :
                    t \in {"content-start", "tool-plan-delta"} \cup
                          (IF CoTextBlock \in u.open THEN {"content-delta"} ELSE {})}
               \cup {Sends(CoSays("content-end"), CoShuts(u, i)) :
                         i \in u.open \cap {CoTextBlock}}
               \cup {Sends(CoFrame("tool-call-start", i, a, Zero), CoCalls(u, i)) :
                         i \in ToolIdx \ u.used, a \in BOOLEAN}
               \cup {Sends(CoFrame("tool-call-delta", i, TRUE, Zero), u) : i \in calls}
               \cup {Sends(CoFrame("tool-call-end", i, TRUE, Zero), CoShuts(u, i)) :
                         i \in calls}
               \cup {Sends(CoFrame("message-end", 0, TRUE, v), Ended(u, "tail", v)) :
                         v \in {Zero, Final}}
          [] OTHER -> {Sends(CoSays("message-end"), u)}

BlockFrame(t, i, k, v) == [type |-> t, index |-> i, kind |-> k, usage |-> v]
Says(t)                == BlockFrame(t, 0, "", Zero)
Fails(u, t)            == Sends(Says(t), Faulted(u))

(* bedrock and anthropic: one block at a time, on consecutive indices.     *)
(* A bedrock text block may come without its contentBlockStart.            *)
NextIndex(u) == Cardinality(u.used)
Opens(u, k)  == [u EXCEPT !.open = {NextIndex(u)}, !.used = @ \cup {NextIndex(u)},
                          !.kind = k]
Shuts(u)     == [u EXCEPT !.open = {}]
Kinds        == {"text", "tool", "thinking"}

BedrockSends(u) ==
    CASE u.phase = "head" ->
           {Sends(Says("messageStart"), Goes(u, "body")), Fails(u, "exception")}
      [] u.phase = "body" /\ u.open = {} ->
           {Sends(BlockFrame("contentBlockStart", NextIndex(u), k, Zero), Opens(u, k)) :
                k \in Kinds}
           \cup {Sends(BlockFrame("contentBlockDelta", NextIndex(u), "text", Zero),
                       Opens(u, "text")),
                 Sends(Says("messageStop"), Goes(u, "stopped")), Fails(u, "exception")}
      [] u.phase = "body" /\ u.open # {} ->
           {Sends(BlockFrame("contentBlockDelta", j, u.kind, Zero), u) : j \in u.open}
           \cup {Sends(BlockFrame("contentBlockStop", j, u.kind, Zero), Shuts(u)) :
                     j \in u.open}
           \cup {Fails(u, "exception")}
      [] u.phase = "stopped" ->
           {Sends(BlockFrame("metadata", 0, "", Final), Ended(u, "tail", Final)),
            Fails(u, "exception")}
      [] OTHER -> {}

AnthropicSends(u) ==
    CASE u.phase = "head" ->
           {Sends(BlockFrame("message_start", 0, "", [in |-> 1, out |-> 1]),
                  Goes(u, "body")), Fails(u, "error")}
      [] u.phase = "body" /\ u.open = {} ->
           {Sends(BlockFrame("content_block_start", NextIndex(u), k, Zero), Opens(u, k)) :
                k \in Kinds}
           \cup {Sends(BlockFrame("redacted_thinking", NextIndex(u), "thinking", Zero),
                       Opens(u, "thinking")),
                 Sends(BlockFrame("message_delta", 0, "", [in |-> 0, out |-> 2]),
                       Ended(u, "stopped", Final)), Fails(u, "error")}
      [] u.phase = "body" /\ u.open # {} ->
           {Sends(BlockFrame("content_block_delta", j, u.kind, Zero), u) : j \in u.open}
           \cup {Sends(BlockFrame("content_block_stop", j, "", Zero), Shuts(u)) :
                     j \in u.open}
           \cup {Fails(u, "error")}
      [] u.phase = "stopped" ->
           {Sends(Says("message_stop"), Goes(u, "tail")), Fails(u, "error")}
      [] OTHER -> {}

GeChunk(parts) == [parts |-> parts, extra |-> FALSE, finish |-> FALSE,
                   block |-> FALSE, error |-> FALSE, usage |-> Zero]
GeExtra        == [GeChunk(<<>>) EXCEPT !.extra = TRUE]
GeError        == [GeChunk(<<>>) EXCEPT !.error = TRUE]
GeBlocked(v)   == [GeChunk(<<>>) EXCEPT !.block = TRUE, !.usage = v]
GeLast(p, x, v) == [GeChunk(p) EXCEPT !.finish = TRUE, !.extra = x, !.usage = v]

(* gemini: parts in any order, several in a chunk; usage with the finish. *)
GeParts == {<<"thought">>, <<"text">>, <<"call">>, <<"thought", "text">>,
            <<"thought", "call">>, <<"text", "call">>, <<"call", "text">>,
            <<"call", "call">>}

GeminiSends(u) ==
    IF u.phase = "tail" THEN {Sends(GeLast(<<>>, FALSE, Zero), u)}
    ELSE {Sends(GeChunk(p), u) : p \in GeParts}
         \cup {Sends(GeExtra, u), Sends(GeError, Faulted(u))}
         \cup {Sends(GeBlocked(v), Ended(u, "tail", v)) : v \in {Zero, Final}}
         \cup {Sends(GeLast(p, x, v), Ended(u, "tail", v)) :
                  p \in {<<>>, <<"text">>, <<"call">>}, x \in BOOLEAN,
                  v \in {Zero, Final}}

RsFrame(t, i, k) == [type |-> t, index |-> i, kind |-> k, refusal |-> None,
                     stop |-> TRUE, usage |-> Zero]
RsEnd(s, x, v)   == [type |-> "completed", index |-> 0, kind |-> "", refusal |-> x,
                     stop |-> s, usage |-> v]

(* responses: items on consecutive indices, several open at a time, each a *)
(* pair of its index and kind; one part of text or reasoning in an item,   *)
(* and a refusal alone in its own.  "part" is a text item whose part is    *)
(* done.  A reasoning item may come without its output_item.added.         *)
RsOpens(u, k)    == [u EXCEPT !.open = @ \cup {<<NextIndex(u), k>>},
                              !.used = @ \cup {NextIndex(u)}]
RsParts(u, o)    == [u EXCEPT !.open = (@ \ {o}) \cup {<<o[1], "part">>}]
RsShuts(u, o)    == [u EXCEPT !.open = @ \ {o}]
RsOf(u, K)       == {o \in u.open : o[2] \in K}
RsDeltaOf(k)     == CASE k = "text"     -> "text.delta"
                      [] k = "thinking" -> "reasoning.delta"
                      [] k = "tool"     -> "args.delta"
RsSays(t)        == RsFrame(t, 0, "")
RsMore(o)        == RsFrame(RsDeltaOf(o[2]), o[1], o[2])
RsFinal(o)       == RsFrame("done", o[1], "")

ResponsesSends(u) ==
    LET next == {NextIndex(u)} \cap (0..MaxOpenTools)
    IN  CASE u.phase = "head" -> {Sends(RsSays("created"), Goes(u, "body"))}
          [] u.phase = "body" ->
               {Sends(RsFrame("item.added", i, k), RsOpens(u, k)) : i \in next, k \in Kinds}
               \cup {Sends(RsFrame("reasoning.delta", i, "thinking"),
                           RsOpens(u, "thinking")) : i \in next}
               \cup {Sends(RsMore(o), u) : o \in RsOf(u, Kinds)}
               \cup {Sends(RsFinal(o), RsParts(u, o)) : o \in RsOf(u, {"text"})}
               \cup {Sends(RsFinal(o), RsShuts(u, o)) :
                         o \in RsOf(u, {"part", "thinking", "tool"})}
               \cup {Sends(RsEnd(s, x, v), Ended(u, "tail", v)) :
                         s \in BOOLEAN, x \in {None, NextIndex(u)}, v \in {Zero, Final}}
               \cup {Sends(RsSays(t), Faulted(u)) : t \in {"failed", "error"}}
          [] OTHER -> {}

SendsOf(dialect, u) ==
    CASE dialect = "openai"    -> OpenAiSends(u)
      [] dialect = "cohere"    -> CohereSends(u)
      [] dialect = "bedrock"   -> BedrockSends(u)
      [] dialect = "anthropic" -> AnthropicSends(u)
      [] dialect = "gemini"    -> GeminiSends(u)
      [] dialect = "responses" -> ResponsesSends(u)
=============================================================================
