---------------------------- MODULE Transcripts ----------------------------
(***************************************************************************)
(* The transcript of an agent, as the client keeps it and as each turn     *)
(* sends it upstream: orphaned tool calls stripped (translate/handover.go),*)
(* loops broken (proxy/loop_detection.go, text_repetition.go), the history *)
(* compacted to the largest window (proxy/compaction.go), summarised on a  *)
(* switch of models (turnloop.go), and translated to the wire format of    *)
(* the model that serves (translate/emit_*.go).                            *)
(*                                                                         *)
(* The client's own transcript is never rewritten: every turn starts again *)
(* from it.  A message is a role and its parts; a part is a text, a call   *)
(* or a result of a tool.  The id of a call carries the signature that the *)
(* model which made it asks back.                                          *)
(***************************************************************************)
EXTENDS Naturals, Sequences, FiniteSets, SequencesExt

CONSTANTS Clients,      \* the kinds of clients, the models of each, and a bound on its transcript
          Weight,       \* Weight[tag]: the size of a part
          Window,       \* the largest eligible context window
          Trigger,      \* compactionTriggerPct of it
          KeepResults,  \* compactionToolResultKeep
          KeepRecent,   \* compactionRecentTurns
          Rescues,      \* the rescue trims, longest first
          LoopWindow, LoopRepeats,              \* the tight loop
          CycleWindow, CycleCalls, CycleTenths, \* the wide one
          TextWindow, TextRepeats               \* repeated narration

ASSUME TranscriptsAssumption ==
  /\ \A c \in Clients : c.targets \subseteq {"anthropic", "openai", "responses", "gemini"}
  /\ {Window, Trigger, KeepResults, KeepRecent} \subseteq Nat
  /\ {LoopWindow, LoopRepeats, CycleWindow, CycleCalls, CycleTenths,
      TextWindow, TextRepeats} \subseteq Nat \ {0}
  /\ Rescues \in Seq(Nat \ {0})

VARIABLES client,  \* its format, what it says and is told, and who may serve it
          conv,    \* its transcript
          phase,   \* who is to speak: "client", "router" or "model"
          sent     \* what became of the last turn

vars == <<client, conv, phase, sent>>

-----------------------------------------------------------------------------
(* Messages.                                                               *)

Part(kind, id, sig, tag) == [kind |-> kind, id |-> id, sig |-> sig, tag |-> tag, mark |-> "none"]

Text(tag)          == Part("text", 0, "none", tag)
Call(id, sig, tag) == Part("call", id, sig, tag)
Result(call, tag)  == Part("result", call.id, call.sig, tag)

\* A cache breakpoint on the last block.
Marked(parts, mark) == [parts EXCEPT ![Len(parts)].mark = mark]

\* by is history: "client", "router", "gemini" or another "model".
Message(role, parts, by) == [role |-> role, parts |-> parts, by |-> by]

OfKind(parts, kind) == SelectSeq(parts, LAMBDA p : p.kind = kind)

PartsOf(msgs) == FlattenSeq([i \in DOMAIN msgs |-> msgs[i].parts])

PartsBy(msgs, role) == PartsOf(SelectSeq(msgs, LAMBDA m : m.role = role))

\* The ids, with what they carry, that calls or results of msgs name.
Ids(msgs, kind) == {<<p.id, p.sig>> : p \in ToSet(OfKind(PartsOf(msgs), kind))}

LastOf(s, n) == IF Len(s) <= n THEN s ELSE SubSeq(s, Len(s) - n + 1, Len(s))

Newest(msgs, Is(_)) ==
  LET at == {i \in DOMAIN msgs : Is(msgs[i])}
  IN IF at = {} THEN 0 ELSE CHOOSE i \in at : \A j \in at : j <= i

\* userPromptTextGJSON, isHumanText: neither a result nor a client's own wrapper.
IsPrompt(m) == m.role = "user" /\ \E p \in ToSet(m.parts) : p.kind = "text" /\ p.tag # "reminder"

-----------------------------------------------------------------------------
(* SanitizeOrphanedToolCalls: a call without a result, then a result       *)
(* without a call.  A message left empty goes, save an OpenAI assistant's. *)

Without(msgs, kind, known, emptied) ==
  LET Kept(m) == [m EXCEPT !.parts =
                    SelectSeq(@, LAMBDA p : p.kind = kind => <<p.id, p.sig>> \in known)]
      kept == [i \in DOMAIN msgs |-> Kept(msgs[i])]
  IN SelectSeq(kept, LAMBDA m : m.parts # <<>> \/ m.role \in emptied)

StripResults(msgs) ==
  Without(msgs, "result", Ids(msgs, "call"), {"assistant"})

StripCalls(msgs, format) ==
  Without(msgs, "call", Ids(msgs, "result"), IF format = "openai" THEN {"assistant"} ELSE {})

\* Mutant: only the calls that nobody answered.
SanitizedCalls(msgs, format) == StripCalls(msgs, format)

Sanitized(msgs, format) == StripResults(StripCalls(msgs, format))

-----------------------------------------------------------------------------
(* The detectors, on the transcript since the last prompt.                 *)

SincePrompt(msgs) == SubSeq(msgs, Newest(msgs, IsPrompt) + 1, Len(msgs))

\* AssistantToolCallSignatures: a call without arguments is no call.
Signatures(msgs) ==
  LET calls == OfKind(PartsBy(SincePrompt(msgs), "assistant"), "call")
  IN [i \in DOMAIN calls |-> calls[i].tag]

Meaningful(sigs) == SelectSeq(sigs, LAMBDA s : s # "empty")

Times(s, x) == Cardinality({i \in DOMAIN s : s[i] = x})

Recurs(s, n) == \E x \in ToSet(s) : Times(s, x) >= n

\* Mutant: every call of the transcript counts, prompted or not.
EveryCall(msgs) ==
  Recurs(LastOf(Meaningful([i \in DOMAIN OfKind(PartsBy(msgs, "assistant"), "call") |->
                             OfKind(PartsBy(msgs, "assistant"), "call")[i].tag]), LoopWindow),
         LoopRepeats)

TightLoop(msgs) == Recurs(LastOf(Meaningful(Signatures(msgs)), LoopWindow), LoopRepeats)

Editing == {"edit"}

WideLoop(msgs) ==
  LET sigs   == Meaningful(Signatures(msgs))
      window == LastOf(sigs, CycleWindow)
  IN /\ Len(sigs) >= CycleCalls
     /\ ToSet(window) \cap Editing = {}
     /\ 10 * Cardinality(ToSet(window)) < CycleTenths * Len(window)

\* TrailingAssistantTexts; only of a Messages client.
Narration(msgs) ==
  LET said == SelectSeq(SincePrompt(msgs),
                LAMBDA m : m.role = "assistant" /\ OfKind(m.parts, "text") # <<>>)
  IN [i \in DOMAIN said |-> OfKind(said[i].parts, "text")]

TextLoop(msgs, format) ==
  format = "anthropic" /\ Recurs(LastOf(Narration(msgs), TextWindow), TextRepeats)

-----------------------------------------------------------------------------
(* Compaction.                                                             *)

\* ContextOverflowTokenEstimate.
Needed(msgs) == FoldLeft(LAMBDA n, p : n + Weight[p.tag], 0, PartsOf(msgs))

Fits(msgs) == Needed(msgs) <= Window

Systems(msgs) == SelectSeq(msgs, LAMBDA m : m.role = "system")
Others(msgs)  == SelectSeq(msgs, LAMBDA m : m.role # "system")

Cleared(m, n) ==
  [m EXCEPT !.parts = [i \in DOMAIN @ |->
     IF @[i].kind = "result" /\ Len(OfKind(SubSeq(@, 1, i), "result")) <= n
     THEN [@[i] EXCEPT !.tag = "cleared"] ELSE @[i]]]

\* ClearOldToolResults: all but the newest of them.
ClearOld(msgs) ==
  LET results(k) == Len(OfKind(PartsOf(SubSeq(msgs, 1, k)), "result"))
      cutoff     == IF results(Len(msgs)) > KeepResults THEN results(Len(msgs)) - KeepResults ELSE 0
  IN [i \in DOMAIN msgs |->
        Cleared(msgs[i], IF cutoff > results(i - 1) THEN cutoff - results(i - 1) ELSE 0)]

Summary == Message("assistant", <<Text("summary")>>, "router")

\* userAlignedStart.
AlignedStart(others) ==
  LET first == IF Len(others) > KeepRecent THEN Len(others) - KeepRecent + 1 ELSE 1
      users == {i \in first .. Len(others) : others[i].role = "user"}
  IN IF users # {} THEN CHOOSE i \in users : \A j \in users : i <= j
     ELSE Newest(others, LAMBDA m : m.role = "user")

\* RewriteForCompaction.
Summarized(msgs) ==
  LET others == Others(msgs)
      start  == AlignedStart(others)
      recent == IF start = 0 THEN <<>> ELSE SubSeq(others, start, Len(others))
  IN Systems(msgs) \o <<Summary>> \o StripResults(recent)

\* TrimLastNMessages.
Trimmed(msgs, n) ==
  LET others == Others(msgs)
  IN IF Len(others) <= n THEN msgs
     ELSE Systems(msgs) \o StripResults(LastOf(others, n))

\* Mutant: the rescue tries the longest of its trims only.
RescuedOnce(msgs) == Trimmed(msgs, Rescues[1])

\* One trim after another, until what is left fits.
Rescued(msgs) == FoldLeft(LAMBDA m, n : IF Fits(m) THEN m ELSE Trimmed(m, n), msgs, Rescues)

\* runCompactionSummary: no model is large enough, the tenant forbids the call,
\* it fails, or it has an answer.
Summaries == BOOLEAN

\* maybeCompact; summary: whether the summarizer answers.
Compacted(msgs, summary) ==
  LET cleared    == ClearOld(msgs)
      summarized == IF summary THEN Summarized(cleared) ELSE cleared
  IN CASE Needed(msgs) < Trigger -> msgs
       [] Needed(msgs) >= Trigger /\ Fits(cleared) -> cleared
       [] OTHER -> Rescued(summarized)

-----------------------------------------------------------------------------
(* RewriteForHandover, when a turn switches models.                        *)

HandedOver(msgs, format) ==
  LET user  == Newest(msgs, LAMBDA m : m.role = "user")
      stripped == IF user = 0 THEN <<>>
                  ELSE IF format = "openai" THEN <<msgs[user]>>
                  ELSE Without(<<msgs[user]>>, "result", {}, {})
  IN Systems(msgs) \o <<Summary>> \o stripped

-----------------------------------------------------------------------------
(* Translation to the format of the target.                                *)

\* extractThoughtSignature: a Gemini model asks for one on every call.
Unsigned(msgs) == \E p \in ToSet(PartsOf(msgs)) : p.kind = "call" /\ p.sig # "gemini"

\* clampOpenAIToolCallID: the Gemini signature goes, and an id that is still
\* too long, as with a reasoning signature, is hashed.
Clamped(p) == [p EXCEPT !.sig = IF @ = "openai" THEN "hash" ELSE "none"]

\* extractOpenAIReasoningSignatureFromID, then the same.
Bare(p) == [p EXCEPT !.sig = "none"]

Each(parts, Op(_)) == [i \in DOMAIN parts |-> Op(parts[i])]

\* writeAnthropicSystemAndMessages: a run of tool messages is one user's.
MergeTools(out, m) ==
  IF m.role # "tool" THEN Append(out, m)
  ELSE LET parts == Each(m.parts, LAMBDA p : [p EXCEPT !.mark = "none"])
       IN IF out # <<>> /\ Last(out).role = "user" /\ Last(out).by = "tools"
          THEN [out EXCEPT ![Len(out)].parts = @ \o parts]
          ELSE Append(out, Message("user", parts, "tools"))

ToAnthropic(msgs, format) ==
  IF format = "anthropic" THEN msgs ELSE FoldLeft(MergeTools, <<>>, Others(msgs))

\* writeOpenAIUserFromAnthropic, writeOpenAIAssistantFromAnthropic: the
\* results of a message first, one by one, then what its user wrote.
Split(m) ==
  LET of(kind) == Each(OfKind(m.parts, kind), Clamped)
      results  == [i \in DOMAIN of("result") |-> Message("tool", <<of("result")[i]>>, m.by)]
  IN IF m.role = "assistant" THEN <<[m EXCEPT !.parts = of("text") \o of("call")]>>
     ELSE results \o (IF of("text") = <<>> THEN <<>> ELSE <<Message("user", of("text"), m.by)>>)

ToOpenAI(msgs, format) ==
  IF format = "openai" THEN msgs ELSE FlattenSeq([i \in DOMAIN msgs |-> Split(msgs[i])])

\* writeResponsesInputFromAnthropic: one item for each part.
Items(m) == [i \in DOMAIN m.parts |-> Message(m.role, <<Bare(m.parts[i])>>, m.by)]

ToResponses(msgs) == FlattenSeq([i \in DOMAIN msgs |-> Items(msgs[i])])

\* A call without a signature takes that of a sibling.
Inherited(parts) ==
  LET signed == \E p \in ToSet(parts) : p.kind = "call" /\ p.sig = "gemini"
  IN Each(parts, LAMBDA p : IF p.kind = "call" /\ signed THEN [p EXCEPT !.sig = "gemini"] ELSE p)

\* A result of an unknown call is left out.
GeminiParts(m, known) ==
  Inherited(SelectSeq(m.parts, LAMBDA p : p.kind = "result" => <<p.id, p.sig>> \in known))

\* The messages of one role are one entry.
Collapse(out, m) ==
  IF out # <<>> /\ Last(out).role = m.role
  THEN [out EXCEPT ![Len(out)].parts = @ \o m.parts]
  ELSE Append(out, m)

ToGemini(msgs) ==
  LET Entry(m) == Message(IF m.role = "assistant" THEN "model" ELSE "user",
                          GeminiParts(m, Ids(msgs, "call")), m.by)
      others   == Others(msgs)
      entries  == [i \in DOMAIN others |-> Entry(others[i])]
  IN FoldLeft(Collapse, <<>>, SelectSeq(entries, LAMBDA m : m.parts # <<>>))

Emitted(target, msgs, format) ==
  CASE target = "anthropic" -> ToAnthropic(msgs, format)
    [] target = "openai"    -> ToOpenAI(msgs, format)
    [] target = "responses" -> ToResponses(msgs)
    [] target = "gemini"    -> ToGemini(msgs)

-----------------------------------------------------------------------------
(* applyAnthropicCachePolicy, on the marks in the order of the request:    *)
(* the tools, the system blocks, then the messages.                        *)

Capacity == 4

Breakpoints(marks) == SelectSeq(marks, LAMBDA k : k # "none")

Count(marks) == Len(Breakpoints(marks))

\* validateAnthropicCacheControls: no long-lived breakpoint after a short one.
Valid(marks) == \A i, j \in DOMAIN marks : i < j /\ marks[i] = "5m" => marks[j] # "1h"

\* Mutant: a breakpoint of the router's whatever the client's are.
SpareAnyway(marks, at) == IF marks[at] = "none" THEN [marks EXCEPT ![at] = "5m"] ELSE marks

\* A breakpoint of the router's, where it breaks nothing.
Spare(marks, at) ==
  LET more == [marks EXCEPT ![at] = "5m"]
  IN IF marks[at] = "none" /\ Count(marks) < Capacity /\ Valid(more) THEN more ELSE marks

\* The first two marks are the tools' and the system's.
Marks(c, msgs) ==
  LET parts == PartsOf(msgs)
  IN <<c.tools, c.system>> \o [i \in DOMAIN parts |-> parts[i].mark]

CacheRefused(marks) == ~Valid(marks) \/ Count(marks) > Capacity

CachePolicy(marks) == IF Len(marks) = 2 THEN Spare(marks, 2) ELSE Spare(Spare(marks, 2), Len(marks))

-----------------------------------------------------------------------------
(* The client.                                                             *)

Nothing == [kind |-> "nothing", why |-> "none", target |-> "none", handed |-> FALSE,
            env |-> <<>>, out |-> <<>>, marks |-> <<>>]

Init ==
  /\ client \in Clients
  /\ conv = IF client.format = "openai" THEN <<Message("system", <<Text("system")>>, "client")>> ELSE <<>>
  /\ phase = "client"
  /\ sent = Nothing

Asks(messages) ==
  /\ phase = "client"
  /\ Len(conv) + Len(messages) <= client.longest
  /\ conv' = conv \o messages
  /\ phase' = "router"
  /\ sent' = Nothing
  /\ UNCHANGED client

\* The user writes, whether or not every call has its result.
Prompt ==
  \E tag \in client.texts, mark \in client.marks :
    Asks(<<Message("user", Marked(<<Text(tag)>>, mark), "client")>>)

\* Some or all of the tools that the model called have run.
Answer ==
  \E size \in client.results, mark \in client.marks, note \in client.notes :
    \E ran \in SUBSET (IF conv # <<>> /\ Last(conv).role = "assistant"
                       THEN ToSet(OfKind(Last(conv).parts, "call")) ELSE {}) \ {{}} :
      LET calls   == SelectSeq(Last(conv).parts, LAMBDA p : p \in ran)
          results == [i \in DOMAIN calls |-> Result(calls[i], size)]
      IN Asks(IF client.format = "anthropic"
              THEN <<Message("user", Marked(results \o note, mark), "client")>>
              ELSE [i \in DOMAIN results |-> Message("tool", <<results[i]>>, "client")])

\* A session resumed without one of its assistant's messages.
Lose ==
  /\ phase = "client"
  /\ Ids(conv, "result") \subseteq Ids(conv, "call")
  /\ \E i \in 1 .. Len(conv) - 1 :
       /\ OfKind(conv[i].parts, "call") # <<>>
       /\ conv' = RemoveAt(conv, i)
  /\ sent' = Nothing
  /\ UNCHANGED <<client, phase>>

-----------------------------------------------------------------------------
(* The router: one turn, from the client's transcript to the request.      *)

Own(msgs) == msgs # <<>> /\ \E p \in ToSet(Last(msgs).parts) : p.tag = "compact"

Ends(outcome) == /\ sent' = outcome
                 /\ phase' = "client"
                 /\ UNCHANGED <<client, conv>>

\* The turn is answered by the router itself.
Breaks(why) ==
  /\ sent' = [Nothing EXCEPT !.kind = "broken", !.why = why]
  /\ conv' = Append(conv, Message("assistant", <<Text("stopped")>>, "router"))
  /\ phase' = "client"
  /\ UNCHANGED client

\* excludeGemini3xOnUnsignedHistory; the Responses API serves Messages only.
Eligible(msgs) == {t \in client.targets : /\ t = "gemini" => ~Unsigned(msgs)
                                          /\ t = "responses" => client.format = "anthropic"}

\* A summary instead of the history: on a switch of models, or when the client
\* cut its transcript itself and another vendor's model serves.
Handovers(target, compacted) ==
  {"none"} \cup (IF Own(conv) \/ ~\E m \in ToSet(conv) : m.role = "assistant" THEN {}
                ELSE {"switch"} \cup (IF target = "anthropic" \/ compacted THEN {} ELSE {"trimmed"}))

Dispatched(target, env, handed) ==
  LET out == Emitted(target, env, client.format)
      marks == Marks(client, out)
      request == [Nothing EXCEPT !.target = target, !.env = env, !.handed = handed, !.out = out]
  IN IF target = "anthropic" /\ CacheRefused(marks)
     THEN Ends([request EXCEPT !.kind = "cache", !.marks = marks])
     ELSE /\ sent' = [request EXCEPT !.kind = "sent",
                        !.marks = IF target = "anthropic" THEN CachePolicy(marks) ELSE <<>>]
          /\ phase' = "model"
          /\ UNCHANGED <<client, conv>>

Routed(target, env, compacted) ==
  \E handover \in Handovers(target, compacted) :
    LET handed  == HandedOver(env, client.format)
        checked == IF handover = "switch" THEN handed ELSE env
    IN IF ~Own(conv) /\ TextLoop(checked, client.format) THEN Breaks("text")
       ELSE Dispatched(target, IF handover = "none" THEN env ELSE handed, handover # "none")

Turn ==
  /\ phase = "router"
  /\ LET env == Sanitized(conv, client.format)
     IN IF TightLoop(env) /\ ~WideLoop(env) THEN Breaks("calls")
        ELSE \E summary \in Summaries :
               LET compacted == IF Own(conv) THEN env ELSE Compacted(env, summary)
               IN IF ~Own(conv) /\ Needed(env) >= Trigger /\ ~Fits(compacted)
                  THEN Ends([Nothing EXCEPT !.kind = "tooLong"])
                  ELSE \E target \in Eligible(compacted) : Routed(target, compacted, compacted # env)

-----------------------------------------------------------------------------
(* The model, and what the translators make of its answer.                 *)

\* The pending signature of a stream: all the calls of an answer carry it.
Signature(target) == CASE target = "gemini"    -> "gemini"
                       [] target = "responses" -> "openai"
                       [] OTHER                -> "none"

\* Mutant: whoever answers without a call is nudged.
NudgesAnyone(target, says, names) == client.format = "anthropic" /\ names = <<>> /\ says = "markup"

\* synthesizeTextOnlyTurnNudge: a call that no model made has no signature.
Nudges(target, says, names) ==
  /\ client.format = "anthropic" /\ target = "openai"
  /\ names = <<>> /\ says = "markup"

\* uniqueToolUseIDWithNonce: no id comes twice, whatever the upstream's are.
NextNonce == 1 + FoldLeft(LAMBDA n, p : IF p.id \div 10 > n THEN p.id \div 10 ELSE n, 0, PartsOf(conv))

Reply ==
  /\ phase = "model"
  /\ Len(conv) < client.longest
  /\ \E says \in client.says, names \in client.names :
       LET calls == [k \in DOMAIN names |-> Call(10 * NextNonce + k, Signature(sent.target), names[k])]
           nudge == IF Nudges(sent.target, says, names)
                    THEN <<Call(10 * NextNonce, "none", "nudge")>> ELSE <<>>
           parts == (IF says = "none" THEN <<>> ELSE <<Text(says)>>) \o calls \o nudge
       IN /\ parts # <<>>
          /\ conv' = Append(conv, Message("assistant", parts, IF sent.target = "gemini" THEN "gemini" ELSE "model"))
  /\ phase' = "client"
  /\ sent' = Nothing
  /\ UNCHANGED client

Next == Prompt \/ Answer \/ Lose \/ Turn \/ Reply

Spec == Init /\ [][Next]_vars

-----------------------------------------------------------------------------
(* Properties.                                                             *)

\* A strict provider takes every request: a result follows the assistant's
\* message that made its call, with nothing of the assistant's in between, and
\* a call has a result, whatever the client lost, the compaction cut and the
\* translation renamed.
PairedUpstream ==
  LET out == sent.out
      SameId(p, q) == p.id = q.id /\ (sent.target = "gemini" \/ p.sig = q.sig)
      Speaks(m)    == m.role \in {"assistant", "model"}
      Makes(i, p)  == \E q \in ToSet(out[i].parts) : q.kind = "call" /\ SameId(p, q)
  IN \A i \in DOMAIN out : \A p \in ToSet(out[i].parts) :
       /\ p.kind = "result" =>
            \E j \in 1 .. i - 1 : /\ Speaks(out[j]) /\ Makes(j, p)
                                 /\ \A k \in j + 1 .. i : Speaks(out[k]) => sent.target = "responses"
       /\ p.kind = "call" =>
            \E j \in i + 1 .. Len(out) : \E q \in ToSet(out[j].parts) : q.kind = "result" /\ SameId(p, q)

\* maybeCompact: a request goes out within the largest window, and is refused
\* only when the newest message alone is over it.
RefusedOnlyAtFloor ==
  LET env == Sanitized(conv, client.format)
  IN /\ sent.kind = "sent" /\ ~sent.handed /\ ~Own(conv) => Fits(sent.env)
     /\ sent.kind = "tooLong" => ~Fits(Systems(env) \o LastOf(Others(env), 1))

\* cache_control.go: what is sent has at most four breakpoints in an order that
\* Anthropic takes, the client's among them; it is refused for the client's own.
CachePolicyHolds ==
  LET own == Marks(client, sent.out)
  IN /\ sent.kind = "sent" /\ sent.target = "anthropic" =>
          /\ Valid(sent.marks) /\ Count(sent.marks) <= Capacity
          /\ \A i \in DOMAIN own : own[i] # "none" => sent.marks[i] = own[i]
     /\ sent.kind = "cache" => CacheRefused(own)

\* A turn is stopped for a loop of the calls that were answered, or of what was
\* said, since the user last wrote, and such a loop does not reach a model.
LoopsAreBroken ==
  LET since    == SincePrompt(conv)
      answered == SelectSeq(OfKind(PartsBy(since, "assistant"), "call"),
                            LAMBDA p : p.tag # "empty" /\ <<p.id, p.sig>> \in Ids(since, "result"))
      tags     == [i \in DOMAIN answered |-> answered[i].tag]
      looped   == \E x \in ToSet(tags) : Times(LastOf(tags, LoopWindow), x) >= LoopRepeats
  IN /\ sent.kind = "broken" /\ sent.why = "calls" => looped
     /\ sent.kind = "sent" /\ looped =>
          Len(tags) >= CycleCalls /\ ToSet(LastOf(tags, CycleWindow)) \cap Editing = {}

\* stream.go: "sig-less tool_use would poison next-turn history".  A session
\* that Gemini alone has answered can go on with Gemini.
GeminiStaysEligible ==
  (\A m \in ToSet(conv) : m.role = "assistant" => m.by \in {"gemini", "router"}) => ~Unsigned(conv)

\* turnloop.go: "Switches degrade safely - handover.RewriteEnvelope strips
\* orphaned tool_results": a request ends with what the client last said.
EndsWithTheClient ==
  sent.kind = "sent" => sent.out # <<>> /\ Last(sent.out).role \in {"user", "tool"}
=============================================================================
