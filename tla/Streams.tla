------------------------------- MODULE Streams -------------------------------
(***************************************************************************)
(* The streaming translators (internal/translate): what a client reads     *)
(* while an upstream of another wire format streams its answer.            *)
(*                                                                         *)
(*   "chat"       Chat Completions -> Messages    AnthropicSSETranslator   *)
(*   "gemini"     Gemini -> Chat -> Messages      two translators chained  *)
(*   "responses"  Responses -> Messages           ResponsesToAnthropic-    *)
(*                                                Writer                   *)
(*   "codex"      Chat Completions -> Responses   ResponsesWriter          *)
(*   "geminiChat" Gemini -> Chat Completions      GeminiToOpenAISSE-       *)
(*                                                Translator               *)
(*   "native"     Messages -> Chat Completions    SSETranslator            *)
(*   "marked"     Messages -> Messages            AnthropicRoutingMarker-  *)
(*                                                Writer                   *)
(*                                                                         *)
(* A step is one upstream event with everything the translator does about  *)
(* it, or the end of the upstream call with Finalize.  A piece of content  *)
(* is the number of the event that carried it.  The footer writers stand   *)
(* between a translator and a Messages or Chat Completions client.         *)
(***************************************************************************)
EXTENDS Naturals, Sequences, FiniteSets, SequencesExt

CONSTANTS Paths,      \* the translators, of those above
          Slots,      \* indexes of tool calls, or of output items
          Marker,     \* whether a routing marker precedes the answer
          HadTools,   \* whether the request offered tools
          Footer,     \* whether a rating footer follows the answer
          MaxEvents   \* MaxEvents[p]: bound on the events of one upstream of p

ASSUME StreamsAssumption ==
  /\ Paths \subseteq {"chat", "gemini", "responses", "codex", "geminiChat", "native", "marked"}
  /\ Slots \subseteq Nat \ {0}    \* a slot is a name; 0 is kept for what is no call
  /\ MaxEvents \in [Paths -> Nat]
  /\ Marker \in BOOLEAN /\ HadTools \in BOOLEAN /\ Footer \in BOOLEAN

VARIABLES path,   \* the translator
          tags,   \* whether the model writes its reasoning between <think> tags
          t,      \* the translator, with the frames it wrote
          foot,   \* the footer writer, with the frames the client got
          g,      \* the Gemini translator of a chain
          fed,    \* history: the upstream's events
          state   \* "open", or how the call ended: "done", "cut", "refused"

vars == <<path, tags, t, foot, g, fed, state>>

\* The frames written before the upstream is called.
PreludeLength == IF Marker THEN 4 ELSE 1

MessagesClient == path \in {"chat", "gemini", "responses", "marked"}

\* The finish reasons of the formats, by their names in Messages.
FinishName(body) == CASE body = "tool_calls" -> "tool_use"
                      [] body = "length"     -> "max_tokens"
                      [] OTHER               -> "end_turn"

Nothing == [x \in {} |-> 0]

\* The fields of a translator.  flow is the text or thinking block that is
\* open; items the open tool blocks (every open item, on the Responses paths).
Fresh == [life |-> "idle", last |-> 0, output |-> FALSE,
          started |-> FALSE, closed |-> FALSE, err |-> "none",
          next |-> 0, flow |-> "none", held |-> <<>>, items |-> Nothing,
          kinds |-> Nothing, args |-> Nothing, refused |-> {}, calls |-> 0, finish |-> "none",
          split |-> "scanning", failed |-> FALSE, frames |-> <<>>]

With(f, k, v) == [x \in DOMAIN f \cup {k} |-> IF x = k THEN v ELSE f[x]]
Without(f, k) == [x \in DOMAIN f \ {k} |-> f[x]]

-----------------------------------------------------------------------------
(* StreamLifecycle.  A refused transition is an error of Write.            *)

Refuse(s) == [s EXCEPT !.err = "order"]

Start(s) == IF s.life = "idle" THEN [s EXCEPT !.life = "started"] ELSE Refuse(s)

Output(s, n) == IF s.life = "started" /\ (s.output => n >= s.last)
                THEN [s EXCEPT !.last = n, !.output = TRUE]
                ELSE Refuse(s)

Terminal(s) == IF s.life = "started" THEN [s EXCEPT !.life = "terminal"] ELSE Refuse(s)

Fail(s) == IF s.life = "started" THEN [s EXCEPT !.life = "failed"] ELSE s

\* Mutant: an upstream that ends has finished.
AnyEOF(s) == "none"

EOF(s) == CASE s.life = "idle"    -> "empty"
            [] s.life = "started" -> "incomplete"
            [] OTHER              -> "none"

\* The second of two steps is not taken when the first one fails.
Then(s, Op(_)) == IF s.err = "none" THEN Op(s) ELSE s

-----------------------------------------------------------------------------
(* Frames.                                                                 *)

Emit(s, frame, block, kind, data) ==
  [s EXCEPT !.frames = Append(@, [frame |-> frame, block |-> block, kind |-> kind, data |-> data])]

Say(s, frame, kind) == Emit(s, frame, 0, kind, <<>>)

Delta(s, block, kind, data) == Emit(s, "delta", block, kind, data)

Open(s, kind) == [Emit(s, "open", s.next, kind, <<>>) EXCEPT !.next = @ + 1]

Stop(s, block, kind) == Emit(s, "stop", block, kind, <<>>)

\* message_start and the marker, a block of its own.
MessageStart(s) ==
  LET m == Say([s EXCEPT !.started = TRUE], "start", "message")
  IN IF Marker
     THEN Stop(Delta(Open(m, "marker"), m.next, "marker", <<>>), m.next, "marker")
     ELSE m

MessageStop(s, reason) ==
  [Say(Say(s, "finish", reason), "end", "message") EXCEPT !.closed = TRUE]

ErrorFrame(s) == [Say(s, "error", "message") EXCEPT !.closed = TRUE]

-----------------------------------------------------------------------------
(* AnthropicSSETranslator.  The events of a chat upstream.                 *)

\* Mutant: the block is left open.
LeaveFlow(s) == [s EXCEPT !.flow = "none"]

CloseFlow(s) == IF s.flow = "none" THEN s
                ELSE [Stop(s, s.next - 1, s.flow) EXCEPT !.flow = "none"]

EnterFlow(s, kind) == IF s.flow = kind THEN s
                      ELSE [Open(CloseFlow(s), kind) EXCEPT !.flow = kind]

AppendThinking(s, piece) ==
  LET u == EnterFlow(s, "thinking") IN Delta(u, u.next - 1, "thinking", <<piece>>)

\* Blanks are held until there is text to precede.
AppendText(s, piece, blank) ==
  IF blank /\ s.flow # "text" THEN [s EXCEPT !.held = Append(@, piece)]
  ELSE LET u == EnterFlow(s, "text")
       IN [Delta(u, u.next - 1, "text", Append(u.held, piece)) EXCEPT !.held = <<>>]

\* The splitter of <think> tags: reasoning between a leading pair of tags.
Split(s, e) ==
  CASE s.split = "scanning" /\ e.body = "blank" -> s
    [] s.split = "scanning" /\ e.body = "open"  -> [s EXCEPT !.split = "inside"]
    [] s.split = "inside" /\ e.body = "close"   -> [s EXCEPT !.split = "through"]
    [] s.split = "inside" /\ e.body # "close"   -> AppendThinking(s, e.id)
    [] OTHER -> AppendText([s EXCEPT !.split = "through"], e.id, e.body = "blank")

Content(s, e) == IF tags THEN Split(s, e) ELSE AppendText(s, e.id, e.body = "blank")

\* Arguments are kept until the block is stopped.
KeepArgs(s, slot, e) ==
  IF e.body = "bare" THEN s
  ELSE [s EXCEPT !.args = With(@, slot, IF slot \in DOMAIN @ THEN Append(@[slot], e.id) ELSE <<e.id>>)]

\* A call without a name is refused, and every later fragment of it.
OpenCall(s, slot, named) ==
  IF ~named THEN [s EXCEPT !.refused = @ \cup {slot}]
  ELSE LET u == CloseFlow(s)
       IN [Open(u, "tool") EXCEPT !.items = With(@, slot, u.next), !.calls = @ + 1]

ToolCall(s, e) ==
  IF e.slot \in s.refused THEN s
  ELSE LET u == IF e.slot \in DOMAIN s.items THEN s ELSE OpenCall(s, e.slot, e.named)
       IN IF e.slot \in u.refused THEN u ELSE KeepArgs(u, e.slot, e)

StopCall(s, slot) ==
  LET b == s.items[slot]
      u == IF slot \in DOMAIN s.args THEN Delta(s, b, "tool", s.args[slot]) ELSE s
  IN [Stop(u, b, "tool") EXCEPT !.items = Without(@, slot)]

\* The tool blocks are stopped in no particular order (a Go map); they are
\* independent, so one order stands for all.
StopCalls(s) ==
  LET f[k \in 0..Len(SetToSeq(DOMAIN s.items))] ==
        IF k = 0 THEN s ELSE StopCall(f[k - 1], SetToSeq(DOMAIN s.items)[k])
  IN f[Len(SetToSeq(DOMAIN s.items))]

\* Text that does not open with the markup of a leaked call.
SawText(s) == \E n \in DOMAIN s.frames : s.frames[n].frame = "delta" /\ s.frames[n].kind = "text"

\* The request offered tools, none is called, and the answer is no answer; the
\* Gemini path stands for a Gemini 3 model, which is never nudged.
NeedsNudge(s) == /\ HadTools /\ s.calls = 0 /\ s.refused = {} /\ s.started
                 /\ s.finish # "length"
                 /\ s.finish \in {"stop", "none"} => ~SawText(s)
                 /\ path # "gemini"

Nudge(s) ==
  IF ~NeedsNudge(s) THEN s
  ELSE [Stop(Delta(Open(s, "nudge"), s.next, "nudge", <<>>), s.next, "nudge")
          EXCEPT !.calls = @ + 1]

\* tool_use and its blocks go together, whatever the upstream said.
StopReason(s) == IF s.calls > 0 THEN "tool_use"
                 ELSE IF s.finish = "length" THEN "max_tokens" ELSE "end_turn"

FinishStream(s) ==
  LET b == IF s.started THEN s ELSE MessageStart(s)
      u == StopCalls(CloseFlow(b))
  IN IF s.failed THEN ErrorFrame(u)
     ELSE LET n == Nudge(u) IN MessageStop(n, StopReason(n))

\* An Output and what it guards.
Put(s, Op(_)) == Then(Output(s, s.next), Op)

ChatChunk(s, e) ==
  LET b == IF s.started THEN s ELSE MessageStart(Start(s))
      thought(u) == AppendThinking(u, e.id)
      text(u)    == Content(u, e)
      call(u)    == ToolCall(u, e)
  IN CASE e.kind = "thought" -> Put(b, thought)
       [] e.kind = "text"    -> Put(b, text)
       [] e.kind = "call"    -> Put(b, call)
       [] e.kind = "finish"  -> Terminal([b EXCEPT !.finish = e.body])

\* [DONE] is a terminal of its own.
ChatDone(s) ==
  LET b == IF s.life = "idle" THEN Start(s) ELSE s
      u == IF b.life = "terminal" THEN b ELSE Terminal(b)
  IN Then(u, FinishStream)

ChatEvent(s, e) ==
  IF s.failed THEN s
  ELSE IF e.kind = "done" THEN ChatDone(s)
  ELSE IF e.kind = "status" THEN [s EXCEPT !.failed = TRUE]
  ELSE ChatChunk(s, e)

ChatFinalize(s) ==
  IF s.closed THEN s
  ELSE IF s.failed THEN FinishStream(Fail(s))
  ELSE IF EOF(s) = "none" THEN FinishStream(s)
  ELSE [(IF s.life = "started" THEN ErrorFrame(Fail(s)) ELSE s) EXCEPT !.err = EOF(s)]

-----------------------------------------------------------------------------
(* GeminiToOpenAISSETranslator: each part becomes chunks of a chat stream,  *)
(* for a chat client or for the translator above.                           *)

\* A chunk as a chat client reads it.
ChatFrame(s, e) ==
  CASE e.kind = "text"   -> Delta(s, 0, "text", <<e.id>>)
    [] e.kind = "call"   -> Delta(Emit(s, "open", e.slot, "tool", <<>>), e.slot, "tool", <<e.id>>)
    [] e.kind = "finish" -> Say([s EXCEPT !.finish = e.body], "finish", FinishName(e.body))
    [] e.kind = "done"   -> Say(s, "end", "message")
    [] OTHER             -> s

\* The Gemini translator accepts a part: its own lifecycle comes first.
GeminiAccepts(s, e) ==
  LET b == IF s.started THEN s ELSE Output(Start([s EXCEPT !.started = TRUE]), 0)
      done(u)   == [u EXCEPT !.closed = TRUE]
  IN CASE e.kind = "finish" -> Then(Terminal(b), done)
       [] e.kind = "call"   -> [Output(b, 0) EXCEPT !.calls = @ + 1]
       [] OTHER             -> Output(b, 0)

\* Calls are numbered as they come, and a finish is mapped and followed by [DONE].
GeminiChunks(s, e) ==
  CASE e.kind = "call"   -> <<[e EXCEPT !.slot = s.calls]>>
    [] e.kind = "finish" -> <<[e EXCEPT !.body = IF s.calls > 0 THEN "tool_calls" ELSE "stop"],
                              [e EXCEPT !.kind = "done"]>>
    [] OTHER             -> <<e>>

\* The chunks reach a chat client, after the role chunk of the first.
ToChatClient(s, e, chunks) ==
  LET b == IF s.frames = <<>> THEN Say(s, "start", "message") ELSE s
      u == ChatFrame(b, chunks[1])
  IN IF Len(chunks) = 1 THEN u ELSE ChatFrame(u, chunks[2])

ToMessagesClient(s, chunks) ==
  LET u == ChatEvent(s, chunks[1])
  IN IF Len(chunks) = 1 \/ u.err # "none" THEN u ELSE ChatEvent(u, chunks[2])

-----------------------------------------------------------------------------
(* ResponsesToAnthropicWriter.  Several output items may be open at once.  *)

ItemAdded(s, e) ==
  CASE e.body = "nameless" -> [s EXCEPT !.refused = @ \cup {e.slot}]
    [] e.body = "tool" ->
         LET u == [s EXCEPT !.items = With(@, e.slot, s.next), !.kinds = With(@, e.slot, "tool"),
                            !.calls = @ + 1]
             open(v) == Open(v, "tool")
         IN Then(Output(u, u.next), open)
    [] OTHER -> s

ItemDelta(s, e) ==
  IF e.body \in {"tool", "nameless"}
  THEN IF e.slot \in s.refused THEN s ELSE KeepArgs(s, e.slot, e)
  ELSE LET u == IF e.slot \in DOMAIN s.items THEN s
                ELSE [Open(s, e.body) EXCEPT !.items = With(@, e.slot, s.next),
                                             !.kinds = With(@, e.slot, e.body)]
           put(v) == Delta(v, v.items[e.slot], e.body, <<e.id>>)
       IN Then(Output(u, u.items[e.slot]), put)

Arguments(s, e) == IF e.slot \in DOMAIN s.args THEN s.args[e.slot] ELSE <<e.id>>

\* Mutant: an item whose deltas were lost is dropped.
DoneOnlyItemDropped(s, e) == s

\* The whole item arrives at once: its block is opened, filled and stopped.
DoneOnlyItem(s, e) ==
  IF e.body = "nameless" THEN [s EXCEPT !.args = Without(@, e.slot)]
  ELSE LET data == IF e.body = "tool" THEN Arguments(s, e) ELSE <<e.id>>
           u    == Stop(Delta(Open(s, e.body), s.next, e.body, data), s.next, e.body)
       IN [u EXCEPT !.calls = IF e.body = "tool" THEN @ + 1 ELSE @]

ItemDone(s, e) ==
  IF e.slot \in s.refused
  THEN [s EXCEPT !.refused = @ \ {e.slot}, !.args = Without(@, e.slot)]
  ELSE IF e.slot \notin DOMAIN s.items THEN DoneOnlyItem(s, e)
  ELSE LET b == s.items[e.slot]
           u == IF e.body = "tool" THEN Delta(s, b, "tool", Arguments(s, e)) ELSE s
       IN [Stop(u, b, e.body) EXCEPT !.items = Without(@, e.slot), !.args = Without(@, e.slot)]

\* An error before output goes back to the dispatch, one after it is framed.
ResponsesError(s) ==
  LET u == Fail(s)
  IN IF u.output THEN ErrorFrame(u) ELSE [u EXCEPT !.closed = TRUE, !.err = "upstream"]

FinishItem(s, k) ==
  LET b == s.items[k]
      u == IF s.kinds[k] = "tool"
           THEN Delta(s, b, "tool", IF k \in DOMAIN s.args THEN s.args[k] ELSE <<>>)
           ELSE s
  IN [Stop(u, b, s.kinds[k]) EXCEPT !.items = Without(@, k)]

\* The items a cut upstream left open.
FinishItems(s) ==
  LET f[k \in 0..Len(SetToSeq(DOMAIN s.items))] ==
        IF k = 0 THEN s ELSE FinishItem(f[k - 1], SetToSeq(DOMAIN s.items)[k])
      u == f[Len(SetToSeq(DOMAIN s.items))]
  IN MessageStop(u, StopReason(u))

ResponsesEvent(s, e) ==
  IF s.closed THEN s
  ELSE CASE e.kind = "added"  -> ItemAdded(s, e)
         [] e.kind = "delta"  -> ItemDelta(s, e)
         [] e.kind = "item"   -> ItemDone(s, e)
         [] e.kind = "failed" -> ResponsesError(s)
         [] e.kind = "finish" -> Terminal([s EXCEPT !.finish = e.body])

ResponsesFinalize(s) ==
  IF s.closed THEN s
  ELSE IF EOF(s) = "none" THEN FinishItems(s)
  ELSE LET u == IF s.life = "started" THEN ResponsesError(s) ELSE s
       IN IF u.err = "none" THEN [u EXCEPT !.err = EOF(s)] ELSE u

-----------------------------------------------------------------------------
(* ResponsesWriter.  One text item and one item for each call, all open     *)
(* until the end; item 0 is the text.                                       *)

OpenItem(s, key, kind) ==
  IF key \in DOMAIN s.items THEN s
  ELSE [Open(s, kind) EXCEPT !.items = With(@, key, s.next), !.kinds = With(@, s.next, kind)]

CodexText(s, e) ==
  LET u == OpenItem(s, 0, "text")
      put(v) == Delta(v, v.items[0], "text", <<e.id>>)
  IN Then(Output(u, u.items[0]), put)

CodexCall(s, e) ==
  LET u == OpenItem(s, e.slot, "tool")
      put(v) == IF e.body = "bare" THEN v ELSE Delta(v, v.items[e.slot], "tool", <<e.id>>)
  IN Then(Output(u, u.items[e.slot]), put)

CloseItem(s, b) == IF s.closed THEN s ELSE Stop(s, b, s.kinds[b])

CloseItems(s) ==
  LET f[k \in 0..Len(SetToSeq(DOMAIN s.kinds))] ==
        IF k = 0 THEN s ELSE CloseItem(f[k - 1], SetToSeq(DOMAIN s.kinds)[k])
  IN [f[Len(SetToSeq(DOMAIN s.kinds))] EXCEPT !.closed = TRUE]

\* response.completed follows the first of the finish reason and [DONE].
CodexCompleted(s) ==
  LET u == CloseItems(s)
      end(v) == Say(v, "end", "message")
  IN IF s.closed THEN u ELSE Then(Terminal(u), end)

CodexFailed(s) == ErrorFrame(CloseItems(Fail(s)))

CodexEvent(s, e) ==
  CASE e.kind = "text"   -> CodexText(s, e)
    [] e.kind = "call"   -> CodexCall(s, e)
    [] e.kind = "finish" -> CodexCompleted(s)
    [] e.kind = "done"   -> IF s.output THEN CodexCompleted(s) ELSE s
    [] OTHER             -> s

\* An error of any kind ends a stream that began with response.failed.
CodexFinalize(s) ==
  IF s.closed \/ (s.err = "none" /\ EOF(s) = "none") THEN s
  ELSE [CodexFailed(s) EXCEPT !.err = IF @ = "none" THEN EOF(s) ELSE @]

-----------------------------------------------------------------------------
(* SSETranslator: flow is the kind of the upstream's block.                 *)

NativeOutput(s, Op(_)) == Then(Output(s, 0), Op)

NativeEvent(s, e) ==
  LET begin(u)  == Say(u, "start", "message")
      open(u)   == Emit(u, "open", u.calls, "tool", <<>>)
      text(u)   == Delta(u, 0, "text", <<e.id>>)
      args(u)   == Delta(u, u.calls, "tool", <<e.id>>)
      finish(u) == Say([u EXCEPT !.finish = e.body], "finish", FinishName(e.body))
      end(u)    == Say(u, "end", "message")
      enter     == [s EXCEPT !.flow = e.body]
  IN CASE e.kind = "begin"  -> NativeOutput(Start(s), begin)
       [] e.kind = "open"   -> IF e.body = "tool" THEN NativeOutput(enter, open) ELSE enter
       [] e.kind = "delta"  -> CASE e.body = "text" -> NativeOutput(s, text)
                                 [] e.body = "tool" -> NativeOutput(s, args)
                                 [] OTHER           -> s
       [] e.kind = "stop"   -> [s EXCEPT !.calls = IF s.flow = "tool" THEN @ + 1 ELSE @,
                                         !.flow = "none"]
       [] e.kind = "finish" -> NativeOutput(s, finish)
       [] e.kind = "done"   -> Then(Terminal(IF s.life = "idle" THEN Start(s) ELSE s), end)

\* What a chat client reads at the end of a stream that broke off.
ChatClientFinalize(s) ==
  IF EOF(s) = "none" THEN s
  ELSE [(IF s.output THEN Say(Fail(s), "error", "message") ELSE s) EXCEPT !.err = EOF(s)]

-----------------------------------------------------------------------------
(* AnthropicRoutingMarkerWriter: the upstream's blocks follow the marker's, *)
(* and its own message_start is dropped.                                    *)

Shifted(s) == IF Marker THEN s.next + 1 ELSE s.next

MarkedEvent(s, e) ==
  CASE e.kind = "begin"  -> IF Marker THEN [s EXCEPT !.next = 0]
                            ELSE Say([s EXCEPT !.next = 0], "start", "message")
    [] e.kind = "open"   -> [Emit(s, "open", Shifted(s), e.body, <<>>) EXCEPT !.flow = e.body]
    [] e.kind = "delta"  -> Delta(s, Shifted(s), e.body, <<e.id>>)
    [] e.kind = "stop"   -> [Stop(s, Shifted(s), e.body) EXCEPT !.flow = "none", !.next = @ + 1]
    [] e.kind = "finish" -> Say([s EXCEPT !.finish = e.body], "finish", FinishName(e.body))
    [] e.kind = "done"   -> Say(s, "end", "message")

-----------------------------------------------------------------------------
(* The footer writers: what is delivered of the frames written to them.     *)

FooterDelta(b) == [frame |-> "delta", block |-> b, kind |-> "footer", data |-> <<>>]

\* A stop is held until the next frame shows whether its block is the last, and
\* the footer is put before it when the answer ends by itself.
FooterTarget(w, f) ==
  f.frame = "finish" /\ f.kind = "end_turn" /\ w.held # <<>> /\ w.held[1].kind \in {"text", "marker"}

FootMessages(w, f) ==
  LET footer == IF FooterTarget(w, f) THEN <<FooterDelta(w.held[1].block)>> ELSE <<>>
      flushed == w.out \o footer \o w.held
  IN IF f.frame = "stop" THEN [out |-> flushed, held |-> <<f>>]
     ELSE [out |-> Append(flushed, f), held |-> <<>>]

\* A chat client gets the footer before the finish reason of an answer with no call.
FootChat(w, f) ==
  LET called == \E n \in DOMAIN w.out : w.out[n].frame = "open" /\ w.out[n].kind = "tool"
      first  == ~\E n \in DOMAIN w.out : w.out[n].kind = "footer"
  IN IF f.frame = "finish" /\ f.kind = "end_turn" /\ ~called /\ first
     THEN [w EXCEPT !.out = @ \o <<FooterDelta(0), f>>]
     ELSE [w EXCEPT !.out = Append(@, f)]

Foot(w, f) == CASE Footer /\ MessagesClient -> FootMessages(w, f)
                [] Footer /\ path \in {"geminiChat", "native"} -> FootChat(w, f)
                [] OTHER -> [w EXCEPT !.out = Append(@, f)]

\* The writer after the frames that u has more than s.
Footed(w, s, u) ==
  LET new == SubSeq(u.frames, Len(s.frames) + 1, Len(u.frames))
      after[n \in 0..Len(new)] == IF n = 0 THEN w ELSE Foot(after[n - 1], new[n])
  IN after[Len(new)]

-----------------------------------------------------------------------------
(* The upstreams: the events each may send next.                            *)

Fed(kind) == \E n \in DOMAIN fed : fed[n].kind = kind

Event(kind, slot, body) ==
  [id |-> Len(fed) + 1, kind |-> kind, slot |-> slot, named |-> TRUE, body |-> body]

Finishes == {Event("finish", 0, b) : b \in {"stop", "tool_calls", "length"}}

\* A call is named in its first fragment or never.
ChatEvents ==
  IF Fed("done") \/ Fed("status") THEN {}
  ELSE {Event("thought", 0, "plain"), Event("done", 0, "plain")}
       \cup {Event("text", 0, b) :
               b \in {"plain", "blank"} \cup (IF tags THEN {"open", "close"} ELSE {})}
       \cup [id : {Len(fed) + 1}, kind : {"call"}, slot : Slots, named : BOOLEAN, body : {"bare", "args"}]
       \cup Finishes
       \cup (IF fed = <<>> /\ path = "chat" THEN {Event("status", 0, "plain")} ELSE {})

\* A finish reason is the last a Responses client is told of.
CodexEvents == IF Fed("finish") /\ ~Fed("done") THEN {Event("done", 0, "plain")}
               ELSE IF Fed("finish") THEN {}
               ELSE {e \in ChatEvents : e.kind # "thought" /\ e.body # "blank"}

GeminiEvents == {Event("text", 0, "plain"), Event("finish", 0, "stop"),
                 Event("call", 0, "args")}

\* An item is added and filled before it is done, and done once; its added
\* event or its deltas may be lost.  Its kind does not change.
Filled(k, kinds) == \E n \in DOMAIN fed : fed[n].slot = k /\ fed[n].kind \in kinds

Bodies(k) == IF Filled(k, {"added", "delta", "item"})
             THEN {fed[n].body : n \in {m \in DOMAIN fed : fed[m].slot = k}}
             ELSE {"text", "thinking", "tool", "nameless"}

\* The events of item k.
ItemEvents(k) ==
  LET parts == IF Filled(k, {"item"}) THEN {} ELSE Bodies(k)
  IN {Event("added", k, b) : b \in IF Filled(k, {"added", "delta", "item"}) THEN {} ELSE Bodies(k)}
     \cup {Event("delta", k, b) : b \in parts} \cup {Event("item", k, b) : b \in parts}

ResponsesEvents ==
  {Event("finish", 0, b) : b \in {"stop", "length"}} \cup {Event("failed", 0, "plain")}
  \cup UNION {ItemEvents(k) : k \in Slots}

\* The blocks of a Messages stream do not overlap.
InBlock == t.flow # "none"

NativeEvents ==
  IF Fed("done") THEN {}
  ELSE IF fed = <<>> THEN {Event("begin", 0, "plain")}
  ELSE IF InBlock THEN {Event("delta", 0, t.flow), Event("stop", 0, t.flow)}
  ELSE IF Fed("finish") THEN {Event("done", 0, "plain")}
  ELSE {Event("open", 0, b) : b \in {"text", "tool", "thinking"}} \cup Finishes

Sendable == CASE path = "chat" -> ChatEvents
              [] path = "codex" -> CodexEvents
              [] path \in {"gemini", "geminiChat"} -> GeminiEvents
              [] path = "responses" -> ResponsesEvents
              [] path \in {"native", "marked"} -> NativeEvents

-----------------------------------------------------------------------------
Init ==
  /\ path \in Paths
  /\ tags \in (IF path = "chat" THEN BOOLEAN ELSE {FALSE})
  /\ t = CASE path \in {"chat", "gemini", "responses"} -> MessageStart(Start(Fresh))
           [] path = "marked" /\ Marker -> MessageStart(Fresh)
           [] path = "codex" -> Say(Start(Fresh), "start", "message")
           [] OTHER          -> Fresh
  /\ foot = Footed([out |-> <<>>, held |-> <<>>], Fresh, t)
  /\ g = Fresh /\ fed = <<>> /\ state = "open"

\* The translator's error ends the copy of the upstream's body.
Took(u) == state' = IF u.err = "none" THEN "open" ELSE "refused"

Translated(e) ==
  CASE path = "chat"      -> ChatEvent(t, e)
    [] path = "codex"     -> CodexEvent(t, e)
    [] path = "responses" -> ResponsesEvent(t, e)
    [] path = "native"    -> NativeEvent(t, e)
    [] path = "marked"    -> MarkedEvent(t, e)

Translate(e) ==
  /\ path \notin {"gemini", "geminiChat"}
  /\ t' = Translated(e)
  /\ Took(t')
  /\ UNCHANGED g

TranslateGemini(e) ==
  /\ path \in {"gemini", "geminiChat"}
  /\ g' = GeminiAccepts(g, e)
  /\ t' = IF g'.err # "none" THEN t
          ELSE IF path = "gemini" THEN ToMessagesClient(t, GeminiChunks(g, e))
          ELSE ToChatClient(t, e, GeminiChunks(g, e))
  /\ state' = IF g'.err = "none" /\ t'.err = "none" THEN "open" ELSE "refused"

Receive ==
  /\ state = "open" /\ Len(fed) < MaxEvents[path]
  /\ \E e \in Sendable : /\ fed' = Append(fed, e)
                         /\ Translate(e) \/ TranslateGemini(e)
  /\ foot' = Footed(foot, t, t')
  /\ UNCHANGED <<path, tags>>

\* The upstream's body ends: Finalize, of both translators in a chain.
Finalized ==
  CASE path = "chat"       -> ChatFinalize(t)
    [] path = "codex"      -> CodexFinalize(t)
    [] path = "responses"  -> ResponsesFinalize(t)
    [] path = "native"     -> ChatClientFinalize(t)
    [] path = "marked"     -> t
    [] path = "gemini"     -> IF g.closed THEN ChatFinalize(t)
                              ELSE [t EXCEPT !.err = EOF(g)]
    [] path = "geminiChat" -> IF g.closed THEN t
                              ELSE IF g.output THEN Say([t EXCEPT !.err = EOF(g)], "error", "message")
                              ELSE [t EXCEPT !.err = EOF(g)]

Finalize ==
  /\ state = "open"
  /\ t' = Finalized
  /\ foot' = Footed(foot, t, t')
  /\ state' = IF t'.err = "none" THEN "done" ELSE "cut"
  /\ UNCHANGED <<path, tags, g, fed>>

\* An error of Write that the dispatch can frame, or that FinalizeError ends.
Dispatched ==
  /\ state = "refused"
  /\ t' = IF path = "codex" THEN CodexFinalize(t)
          ELSE IF t.err = "upstream" /\ Len(t.frames) > PreludeLength THEN ErrorFrame(t)
          ELSE t
  /\ foot' = Footed(foot, t, t')
  /\ state' = "cut"
  /\ UNCHANGED <<path, tags, g, fed>>

Next == Receive \/ Finalize \/ Dispatched

Spec == Init /\ [][Next]_vars

-----------------------------------------------------------------------------
(* Properties.                                                             *)

Frames == foot.out

\* The frames before the n-th that say this of that block.
Before(n, frame, b) ==
  {m \in 1..(n - 1) : Frames[m].frame = frame /\ Frames[m].block = b}

Opens(n) == {m \in 1..(n - 1) : Frames[m].frame = "open"}

\* A chat client has no frame that ends a call, nor one that opens its text.
Bracketed == path \notin {"geminiChat", "native"}

\* What a client's parser relies on: the message starts first; blocks are
\* numbered from 0 as they open, filled only while they are open, each with what
\* it was opened for, and all stopped before the message ends; nothing follows
\* the end or the error (stream.go, "closed guards against double-emission").
BlocksAreBracketed ==
  \A n \in DOMAIN Frames :
    LET f == Frames[n] IN
    /\ n = 1 <=> f.frame = "start"
    /\ f.frame \in {"end", "error"} => n = Len(Frames)
    /\ f.frame = "open" => f.block = Cardinality(Opens(n))
    /\ f.frame = "stop" \/ (f.frame = "delta" /\ (Bracketed \/ f.kind = "tool")) =>
         /\ \E m \in Before(n, "open", f.block) :
              Frames[m].kind \in (IF f.kind = "footer" THEN {"text", "marker"} ELSE {f.kind})
         /\ Before(n, "stop", f.block) = {}
    /\ f.frame = "end" /\ Bracketed =>
         \A m \in Opens(n) : Before(n, "stop", Frames[m].block) # {}

Ended == Frames # <<>> /\ Frames[Len(Frames)].frame = "end"

Said(frame, kinds) == \E n \in DOMAIN Frames : Frames[n].frame = frame /\ Frames[n].kind \in kinds

\* The client is told of a complete answer only when the upstream said so and
\* reported no error, and of calls to run exactly when it has some
\* (stream_lifecycle.go, EOF; stream.go, emitMessageDelta).
EndIsEarned ==
  Ended => /\ Fed("finish") \/ Fed("done")
           /\ ~Fed("status") /\ ~Fed("failed")
           /\ path \notin {"native", "marked"} => (Said("finish", {"tool_use"}) <=>
                                  path # "codex" /\ Said("open", {"tool", "nudge"}))

Nameless(n) ==
  IF path = "responses" THEN fed[n].body = "nameless"
  ELSE path = "chat" /\ ~fed[CHOOSE m \in DOMAIN fed : fed[m].kind = "call" /\ fed[m].slot = fed[n].slot
                               /\ \A l \in 1..(m - 1) : ~(fed[l].kind = "call" /\ fed[l].slot = fed[n].slot)].named

\* The n-th event carries content the client's format can hold and the
\* translator has not had before.
Owed(n) ==
  LET e == fed[n] IN
  /\ \A m \in 1..(n - 1) : fed[m].kind \notin {"finish", "done"}
  /\ \/ e.kind = "text" /\ e.body = "plain"
     \/ e.kind = "thought" /\ path = "chat"
     \/ e.kind = "call" /\ e.body = "args" /\ ~Nameless(n)
     \/ /\ e.kind = "delta" /\ ~Nameless(n)
        /\ path = "native" => e.body # "thinking"
        /\ path = "responses" /\ e.body = "tool" => Filled(e.slot, {"added", "item"})
     \/ /\ e.kind = "item" /\ ~Nameless(n)
        /\ ~\E m \in 1..(n - 1) : fed[m].kind = "delta" /\ fed[m].slot = e.slot

Carriers(n) == {m \in DOMAIN Frames : Frames[m].frame = "delta" /\ Contains(Frames[m].data, n)}

\* A complete answer holds every piece of the upstream's, once and in order: text
\* and reasoning as they came, the arguments of each call in its own block, of a
\* call without a name nothing, and the footer after all of it (stream.go, emitDelta;
\* responses_to_anthropic_writer.go, handleOutputItemDone; anthropic_footer.go).
NothingIsLost ==
  Ended =>
    /\ \A n \in DOMAIN fed : Owed(n) => Cardinality(Carriers(n)) = 1
    /\ \A n \in DOMAIN fed : fed[n].kind \in {"call", "delta", "item"} /\ path # "codex" /\ Nameless(n)
                              => Carriers(n) = {}
    /\ \A m \in DOMAIN Frames : \A j, k \in DOMAIN Frames[m].data :
         j < k => Frames[m].data[j] < Frames[m].data[k]
    /\ \A l, m \in DOMAIN Frames :
         /\ l < m /\ Frames[l].kind = Frames[m].kind /\ Frames[l].kind # "tool"
         => \A j \in DOMAIN Frames[l].data, k \in DOMAIN Frames[m].data :
              Frames[l].data[j] < Frames[m].data[k]
    /\ \A m \in DOMAIN Frames : Frames[m].kind = "footer" =>
         \A l \in (m + 1)..Len(Frames) : Frames[l].frame \notin {"open", "delta"}

\* An error after the stream began is rendered in the stream (service.go,
\* "Post-commit").
FailedStreamIsFramed ==
  state = "cut" /\ Len(Frames) > PreludeLength => Frames[Len(Frames)].frame \in {"error", "end"}

=============================================================================
