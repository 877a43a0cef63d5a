------------------------------- MODULE Dispatch -------------------------------
(***************************************************************************)
(* The dispatch of one routed request to its upstreams, on each of the     *)
(* four surfaces it can come in on: Anthropic Messages, OpenAI Chat        *)
(* Completions and Responses, Gemini.  The walk over the bindings of the   *)
(* routed model (fallback.go), the two rescues of Messages (service.go:    *)
(* the baseline model on Anthropic, the deployment key after a throttled   *)
(* subscription), the buffer that holds back what a failed attempt wrote,  *)
(* the writer that turns Chat Completions into Responses (responses.go),   *)
(* and the envelope the handler writes last.                               *)
(*                                                                         *)
(* A chunk of the response is a kind and the number of the upstream call   *)
(* it came from, 0 when it is the router's own: "start" (headers and eager *)
(* prelude), "output", "stop", "errorFrame", "badGateway" (a translator's  *)
(* own 502 body), "envelope" (the upstream's error body) and "generic"     *)
(* (the router's).                                                         *)
(***************************************************************************)
EXTENDS Naturals, Sequences

CONSTANTS Providers,    \* upstream providers
          Anthropic,    \* the provider of the baseline model and of subscriptions
          Google,       \* the provider of the Gemini family
          OpenAI,       \* the provider that speaks Responses itself
          NoProvider,   \* no binding was walked (winnerIdx = -1)
          Catalogs,     \* the binding lists of the catalog's models, in order
          Workload,     \* the requests considered
          MaxSameBindingRetries

ASSUME DispatchAssumption ==
  /\ Anthropic \in Providers /\ Google \in Providers \ {Anthropic}
  /\ OpenAI \in Providers \ {Anthropic, Google}
  /\ NoProvider \notin Providers
  /\ Catalogs \subseteq Seq(Providers)
  /\ MaxSameBindingRetries \in Nat

Surfaces == {"messages", "chat", "responses", "gemini"}

FamilyFor(p) == IF p = Anthropic THEN "anthropic"
                ELSE IF p = Google THEN "gemini" ELSE "openai"

\* What the dispatch of a request depends on, all of it fixed before it begins.
Requests ==
  [surface      : Surfaces,
   verbatim     : BOOLEAN,              \* the Responses body is kept for OpenAI
   catalog      : Catalogs,             \* bindings of the routed model
   primary      : Providers,            \* decision.Provider
   keyed        : SUBSET Providers,     \* deploymentKeyedProviders
   excluded     : SUBSET Providers,     \* excludedProvidersForRequest
   registered   : SUBSET Providers,     \* clients wired at runtime
   failover     : BOOLEAN,              \* shouldFailover: no customer credential
   stream       : BOOLEAN,
   forced       : BOOLEAN,              \* the user forced the model
   authoritative: BOOLEAN,              \* the policy owns the model of each turn
   baseline     : BOOLEAN,              \* the requested model is another, Anthropic one
   subscription : BOOLEAN,              \* served on the caller's OAuth token
   fallbackKey  : BOOLEAN,              \* anthropicFallbackKeyAvailable
   deployKey    : BOOLEAN]              \* ... and it is the deployment's

ASSUME WorkloadAssumption == Workload \subseteq Requests

\* Errors of an attempt, up to what the code asks of them.
Buffered   == {"retry", "notFound", "capability", "client", "oauth"}
Retryable  == {"retry", "net", "unconfigured", "broken", "incomplete"}
Errors     == Buffered \cup Retryable \cup {"gone", "status"}

\* Errors of an upstream that wrote nothing.
Silent == Buffered \cup {"net", "gone"}

VARIABLES req,      \* the request
          phase,    \* "primary", "baseline" or "subscription"
          stage,    \* where the dispatch is
          walk,     \* the bindings of this phase
          i,        \* index of the binding in walk
          retries,  \* same-binding retries used
          auto,     \* the Gemini request was downgraded to AUTO
          err,      \* outcome of the last attempt, "none" when it served
          winner,   \* bindings[winnerIdx].Provider
          sink,     \* preludeBuffer and the client behind it
          expired,  \* the request's context is done
          calls     \* history variable: the upstream calls made

vars == <<req, phase, stage, walk, i, retries, auto, err, winner, sink, expired, calls>>

Phases == {"primary", "baseline", "subscription"}
Stages == {"resolve", "bind", "call", "upstream", "streaming", "failed", "backoff",
           "after", "reply", "done"}
Kinds  == {"start", "output", "stop", "errorFrame", "badGateway", "envelope", "generic"}
Chunk  == [kind : Kinds, call : Nat]
Call   == [phase : Phases, provider : Providers]

TypeOK ==
  /\ req \in Requests
  /\ phase \in Phases /\ stage \in Stages
  /\ walk \in Seq(Providers) /\ i \in Nat \ {0}
  /\ retries \in 0..MaxSameBindingRetries
  /\ auto \in BOOLEAN /\ expired \in BOOLEAN
  /\ err \in Errors \cup {"none"}
  /\ winner \in Providers \cup {NoProvider}
  /\ sink \in [held : Seq(Chunk), sealed : BOOLEAN, committed : BOOLEAN,
               body : Seq(Chunk), wire : Seq(Chunk), label : Providers]
  /\ calls \in Seq(Call)

-----------------------------------------------------------------------------
(* ResponsesWriter, between the buffer and a client of Responses.          *)

\* The upstream speaks Responses: its bytes pass as they are.
Verbatim == req.surface = "responses" /\ req.verbatim /\ req.primary = OpenAI

Rewritten == req.surface = "responses" /\ ~Verbatim

Created == [kind |-> "start", call |-> 0]

Greeted(w) == IF w = <<>> THEN <<Created>> ELSE w

\* An error frame of the other format, the last thing an attempt writes, is no
\* event of this one.
Events(cs) == IF cs[Len(cs)].kind = "errorFrame" THEN SubSeq(cs, 1, Len(cs) - 1) ELSE cs

\* A stream is rewritten event by event; a whole body is kept until the end.
Deliver(s, cs) ==
  IF ~Rewritten THEN [s EXCEPT !.wire = @ \o cs]
  ELSE IF req.stream
       THEN [s EXCEPT !.wire = Greeted(@) \o Events(cs)]
       ELSE [s EXCEPT !.body = @ \o cs]

\* One binding only: response.created is on the wire before any call.
Greet(s, w) == IF Rewritten /\ req.stream /\ Len(w) <= 1
               THEN [s EXCEPT !.wire = <<Created>>] ELSE s

Ends(w) == w # <<>> /\ w[Len(w)].kind = "stop"

OwnReply(k) == <<[kind |-> k, call |-> 0]>>

\* Mutant: a failed request leaves the stream as it is.
ClosingServed(s) ==
  IF ~Rewritten \/ err # "none" THEN s
  ELSE IF s.wire # <<>>
       THEN [s EXCEPT !.wire = IF Ends(@) THEN @ ELSE @ \o OwnReply("errorFrame")]
       ELSE [s EXCEPT !.wire = IF Ends(s.body) THEN s.body ELSE OwnReply("badGateway")]

\* Finalize, or FinalizeError when the dispatch failed.
Closing(s) ==
  IF ~Rewritten THEN s
  ELSE IF s.wire # <<>>
       THEN [s EXCEPT !.wire = IF Ends(@) THEN @ ELSE @ \o OwnReply("errorFrame")]
       ELSE IF err # "none" THEN s
       ELSE [s EXCEPT !.wire = IF Ends(s.body) THEN s.body ELSE OwnReply("badGateway")]

-----------------------------------------------------------------------------
(* preludeBuffer.                                                          *)

Write(s, c) ==
  IF s.committed THEN Deliver(s, <<c>>)
  ELSE IF s.sealed
       THEN Deliver([s EXCEPT !.committed = TRUE, !.held = <<>>], Append(s.held, c))
       ELSE [s EXCEPT !.held = Append(@, c)]

Seal(s) == [s EXCEPT !.sealed = TRUE]

\* The headers return to what they were before the first attempt.
Discard(s) ==
  IF s.committed THEN s
  ELSE [s EXCEPT !.held = <<>>, !.sealed = FALSE, !.label = req.primary]

\* flushErr, past the buffer: only a buffered upstream error has a body to show,
\* and ResponsesWriter keeps it to itself.
Flush(s, e) ==
  IF e \in Buffered /\ ~Rewritten
  THEN [s EXCEPT !.wire = Append(@, [kind |-> "envelope", call |-> Len(calls)])]
  ELSE s

-----------------------------------------------------------------------------
(* resolveBindingsForDispatch.                                             *)

\* The bindings of a list that are in a set, in order.
Within(list, set) ==
  LET kept[n \in 0..Len(list)] ==
        IF n = 0 THEN <<>>
        ELSE IF list[n] \in set THEN Append(kept[n - 1], list[n]) ELSE kept[n - 1]
  IN  kept[Len(list)]

\* Mutant: the exclusions filter the scorer's choice, not the failover's.
OpenUnfiltered(r) == Within(r.catalog, r.keyed)

Open(r) == Within(r.catalog, r.keyed \ r.excluded)

Bindings(r, failover) ==
  LET open    == Open(r)
      barred  == r.primary \in r.excluded
  IN  IF ~failover THEN <<r.primary>>
      ELSE IF open = <<>> THEN IF barred \/ r.forced THEN <<>> ELSE <<r.primary>>
      ELSE IF barred THEN open
      ELSE IF Len(open) = 1 THEN <<r.primary>>
      ELSE <<r.primary>> \o Within(open, Providers \ {r.primary})

\* Eligibility of the two rescues, computed before the first dispatch.
BaselineViable == /\ req.surface = "messages"
                  /\ ~req.forced /\ req.failover /\ req.baseline
                  /\ Anthropic \notin req.excluded
                  /\ req.primary # Anthropic

BaselineEligible == BaselineViable /\ ~req.authoritative

SubscriptionEligible == /\ req.surface = "messages" /\ req.primary = Anthropic
                        /\ req.subscription /\ req.fallbackKey

\* deferFlushOnExhaustion.
Deferred == phase = "primary" /\ (BaselineViable \/ SubscriptionEligible)

-----------------------------------------------------------------------------
(* dispatchWithFallback.                                                   *)

\* The decision cannot be dispatched: its provider has no client, or a Gemini
\* request was routed away from Google.
Undispatchable == IF req.surface = "gemini" THEN req.primary # Google
                  ELSE req.primary \notin req.registered

Refuse ==
  /\ stage = "resolve" /\ Undispatchable
  /\ err' = "unconfigured" /\ stage' = "reply"
  /\ UNCHANGED <<req, phase, walk, i, retries, auto, winner, sink, expired, calls>>

Resolve ==
  /\ stage = "resolve" /\ ~Undispatchable
  /\ walk' = Bindings(req, req.failover)
  /\ sink' = Greet(sink, walk')
  /\ stage' = "bind"
  /\ UNCHANGED <<req, phase, i, retries, auto, err, winner, expired, calls>>

\* The walk is empty: a forced model answers 503, any other request 502.
NoBinding ==
  /\ stage = "bind" /\ walk = <<>>
  /\ err' = IF req.forced THEN "retry" ELSE "status"
  /\ sink' = IF Deferred THEN sink ELSE Flush(sink, err')
  /\ winner' = NoProvider
  /\ stage' = "after"
  /\ UNCHANGED <<req, phase, walk, i, retries, auto, expired, calls>>

\* Mutant: the next binding writes after the one that failed.
KeptFor(n) == sink

\* Every binding but the first starts from a clean buffer.
FreshFor(n) == IF n > 1 THEN Discard(sink) ELSE sink

Bind ==
  /\ stage = "bind" /\ walk # <<>>
  /\ walk[i] \in req.registered
  /\ sink' = FreshFor(i)
  /\ retries' = 0
  /\ stage' = "call"
  /\ UNCHANGED <<req, phase, walk, i, auto, err, winner, expired, calls>>

\* Mutant: a binding without a client is tried again.
BindMissingInPlace ==
  /\ stage = "bind" /\ walk # <<>>
  /\ walk[i] \notin req.registered
  /\ UNCHANGED vars

BindMissing ==
  /\ stage = "bind" /\ walk # <<>>
  /\ walk[i] \notin req.registered
  /\ sink' = FreshFor(i)
  /\ IF i < Len(walk)
     THEN /\ i' = i + 1
          /\ UNCHANGED <<stage, err, winner>>
     ELSE /\ err' = "unconfigured" /\ winner' = walk[i] /\ stage' = "after"
          /\ UNCHANGED i
  /\ UNCHANGED <<req, phase, walk, retries, auto, expired, calls>>

\* What stands between the upstream and the buffer: nothing ("bytes"), the
\* Messages translator of OpenAI streams ("openai") or of Gemini ones ("gemini"),
\* a Chat Completions translator ("chat"), or the Gemini handler ("google").
Translator ==
  LET family == FamilyFor(req.primary)
  IN  IF phase # "primary" THEN "bytes"
      ELSE IF req.surface = "messages" THEN IF family = "anthropic" THEN "bytes" ELSE family
      ELSE IF req.surface = "gemini" THEN "google"
      ELSE IF family = "openai" THEN "bytes" ELSE "chat"

\* A stream's start is written before the upstream is called, by the Messages
\* translators and by Chat Completions' marker writer.
Prelude(s) ==
  IF req.stream /\ (Translator \in {"openai", "gemini"} \/ req.surface = "chat")
  THEN Write(s, [kind |-> "start", call |-> Len(calls) + 1]) ELSE s

\* Mutant: the header names the provider of the decision.
LabelledByDecision(s) == [s EXCEPT !.label = req.primary]

\* The headers name the provider while they can still be set.
Labelled(s) == [s EXCEPT !.label = IF s.committed THEN @ ELSE walk[i]]

\* The attempt sets the headers, writes the prelude, seals and calls.
CallUpstream ==
  /\ stage = "call"
  /\ sink' = Seal(Prelude(Labelled(sink)))
  /\ calls' = Append(calls, [phase |-> phase, provider |-> walk[i]])
  /\ auto' = FALSE
  /\ stage' = "upstream"
  /\ UNCHANGED <<req, phase, walk, i, retries, err, winner, expired>>

FromUpstream(k) == [kind |-> k, call |-> Len(calls)]

\* The upstream ends the attempt before any output.  A done context ends every
\* call, and nothing else does so with "gone".
UpstreamFails ==
  /\ stage = "upstream"
  /\ \E e \in Silent : /\ expired => e = "gone"
                       /\ expired' = (e = "gone")
                       /\ err' = e
  /\ stage' = "failed"
  /\ UNCHANGED <<req, phase, walk, i, retries, auto, winner, sink, calls>>

\* Gemini rejects the validated tool grammar: the same attempt calls once more.
RetryWithAuto ==
  /\ stage = "upstream" /\ Translator \in {"gemini", "chat"}
  /\ FamilyFor(req.primary) = "gemini"
  /\ ~auto /\ ~sink.committed /\ ~expired
  /\ auto' = TRUE
  /\ sink' = Seal(Prelude(Discard(sink)))
  /\ calls' = Append(calls, [phase |-> phase, provider |-> walk[i]])
  /\ UNCHANGED <<req, phase, stage, walk, i, retries, err, winner, expired>>

\* The attempt ends: served, or with the error e.
Served    == err' = "none" /\ stage' = "reply" /\ winner' = walk[i]
Failed(e) == err' = e /\ stage' = "failed" /\ UNCHANGED winner

\* An OpenAI-shaped failure of a translator, in the body or in the stream.
Complaint == FromUpstream(IF req.stream THEN "errorFrame" ELSE "badGateway")

\* A 200 that ends before any output: a success when the bytes pass, an error
\* body or a retryable error when something reads them.
UpstreamEmpty ==
  /\ stage = "upstream" /\ ~expired
  /\ \/ /\ Translator = "bytes" \/ (Translator = "google" /\ ~req.stream)
        /\ Served /\ UNCHANGED sink
     \/ /\ Translator = "openai" \/ (Translator = "chat" /\ ~req.stream)
        /\ Failed("incomplete") /\ sink' = Write(sink, Complaint)
     \/ /\ Translator = "gemini" \/ (Translator \in {"chat", "google"} /\ req.stream)
        /\ Failed("net") /\ UNCHANGED sink
  /\ UNCHANGED <<req, phase, walk, i, retries, auto, expired, calls>>

\* The first output goes on the wire unless a translator holds the body back.
PassesThrough == req.stream \/ Translator \in {"bytes", "google"}

UpstreamOutput ==
  /\ stage = "upstream" /\ ~expired /\ PassesThrough
  /\ sink' = Write(sink, FromUpstream("output"))
  /\ stage' = "streaming"
  /\ UNCHANGED <<req, phase, walk, i, retries, auto, err, winner, expired, calls>>

UpstreamCompletes ==
  /\ ~expired
  /\ \/ stage = "streaming" /\ sink' = Write(sink, FromUpstream("stop"))
     \/ /\ stage = "upstream" /\ ~PassesThrough
        /\ sink' = Write(Write(sink, FromUpstream("output")), FromUpstream("stop"))
  /\ Served
  /\ UNCHANGED <<req, phase, walk, i, retries, auto, expired, calls>>

\* The stream breaks or stalls after output; only the Gemini handler says so.
UpstreamBreaks ==
  /\ stage = "streaming"
  /\ \E gone \in BOOLEAN : /\ expired => gone
                           /\ expired' = gone
                           /\ Failed(IF gone THEN "gone" ELSE "broken")
  /\ sink' = IF Translator = "google" /\ req.stream
             THEN Write(sink, FromUpstream("errorFrame")) ELSE sink
  /\ UNCHANGED <<req, phase, walk, i, retries, auto, calls>>

\* The stream ends after output without its terminal event: passing bytes
\* cannot tell, a translator says so, the Messages chain of Gemini loses it.
UpstreamCut ==
  /\ stage = "streaming" /\ ~expired
  /\ \/ /\ Translator \in {"bytes", "google"}
        /\ Served /\ UNCHANGED sink
     \/ /\ Translator \in {"openai", "chat"}
        /\ Failed("incomplete") /\ sink' = Write(sink, FromUpstream("errorFrame"))
     \/ /\ Translator = "gemini"
        /\ Failed("incomplete") /\ UNCHANGED sink
  /\ UNCHANGED <<req, phase, walk, i, retries, auto, expired, calls>>

\* Bytes have reached the client: the attempt's error is final.
FailCommitted ==
  /\ stage = "failed" /\ sink.committed
  /\ winner' = walk[i] /\ stage' = "after"
  /\ UNCHANGED <<req, phase, walk, i, retries, auto, err, sink, expired, calls>>

RetriesSameBinding == /\ err \in Retryable /\ Len(walk) = 1
                      /\ retries < MaxSameBindingRetries

RetrySameBinding ==
  /\ stage = "failed" /\ ~sink.committed /\ RetriesSameBinding
  /\ sink' = Discard(sink)
  /\ stage' = "backoff"
  /\ UNCHANGED <<req, phase, walk, i, retries, auto, err, winner, expired, calls>>

BackoffElapses ==
  /\ stage = "backoff"
  /\ retries' = retries + 1
  /\ stage' = "call"
  /\ UNCHANGED <<req, phase, walk, i, auto, err, winner, sink, expired, calls>>

\* The context ends the sleep: the attempt's error is returned, not flushed.
BackoffAborts ==
  /\ stage = "backoff"
  /\ expired' = TRUE
  /\ winner' = walk[i] /\ stage' = "after"
  /\ UNCHANGED <<req, phase, walk, i, retries, auto, err, sink, calls>>

MovesOn == (err \in Retryable \/ err = "notFound") /\ i < Len(walk)

FailOver ==
  /\ stage = "failed" /\ ~sink.committed /\ ~RetriesSameBinding /\ MovesOn
  /\ i' = i + 1 /\ stage' = "bind"
  /\ UNCHANGED <<req, phase, walk, retries, auto, err, winner, sink, expired, calls>>

Exhausted ==
  /\ stage = "failed" /\ ~sink.committed /\ ~RetriesSameBinding /\ ~MovesOn
  /\ sink' = IF Deferred THEN Discard(sink) ELSE Flush(Discard(sink), err)
  /\ winner' = walk[i] /\ stage' = "after"
  /\ UNCHANGED <<req, phase, walk, i, retries, auto, err, expired, calls>>

-----------------------------------------------------------------------------
(* ProxyMessages after a failed dispatch.                                  *)

BaselineRescues == /\ phase = "primary" /\ ~sink.committed
                   /\ \/ BaselineEligible /\ (err \in Retryable \/ err = "notFound")
                      \/ BaselineViable /\ err = "capability"

SubscriptionRescues == /\ phase = "primary" /\ ~sink.committed /\ SubscriptionEligible
                       /\ err \in Retryable \/ err = "oauth"

\* A second walk begins in the phase p.
Rescue(p, w) ==
  /\ stage = "after"
  /\ phase' = p /\ walk' = w /\ i' = 1 /\ stage' = "bind"
  /\ UNCHANGED <<req, retries, auto, err, winner, sink, expired, calls>>

BaselineFailover == BaselineRescues /\ Rescue("baseline", <<Anthropic>>)

SubscriptionFailover ==
  /\ SubscriptionRescues
  /\ Bindings(req, req.deployKey) # <<>>
  /\ Rescue("subscription", Bindings(req, req.deployKey))

\* Mutant: only the baseline's deferral is made good.
SurfaceBaselineOnly ==
  /\ stage = "after" /\ Deferred
  /\ sink' = IF BaselineViable THEN Flush(sink, err) ELSE sink
  /\ stage' = "reply"
  /\ UNCHANGED <<req, phase, walk, i, retries, auto, err, winner, expired, calls>>

\* The rescue cannot be prepared, or does not apply: the deferred error is shown.
SurfaceDeferred ==
  /\ stage = "after" /\ Deferred
  /\ sink' = IF BaselineViable \/ ~sink.committed THEN Flush(sink, err) ELSE sink
  /\ stage' = "reply"
  /\ UNCHANGED <<req, phase, walk, i, retries, auto, err, winner, expired, calls>>

NothingDeferred ==
  /\ stage = "after" /\ ~Deferred
  /\ stage' = "reply"
  /\ UNCHANGED <<req, phase, walk, i, retries, auto, err, winner, sink, expired, calls>>

\* The provider usage, price and strikes are recorded against.
FinalProvider == IF winner # NoProvider THEN winner
                 ELSE IF phase = "baseline" THEN Anthropic ELSE req.primary

\* The handler: an error nothing was written for gets the router's envelope.
Reply ==
  /\ stage = "reply"
  /\ sink' = LET closed == Closing(sink)
             IN  IF err # "none" /\ closed.wire = <<>>
                 THEN [closed EXCEPT !.wire = OwnReply("generic")] ELSE closed
  /\ stage' = "done"
  /\ UNCHANGED <<req, phase, walk, i, retries, auto, err, winner, expired, calls>>

\* The request is answered; nothing follows.
Answered == stage = "done" /\ UNCHANGED vars

\* Requests the router can be asked to dispatch: the decision is a binding of
\* the model, the bindings of a model share a family, an OAuth credential
\* excludes failover, a deployment key is one the deployment has.
Reachable(r) ==
  /\ \E n \in DOMAIN r.catalog : r.catalog[n] = r.primary
  /\ \A n \in DOMAIN r.catalog : FamilyFor(r.catalog[n]) = FamilyFor(r.primary)
  /\ r.subscription => ~r.failover
  /\ r.deployKey => r.fallbackKey /\ Anthropic \in r.keyed
  /\ r.baseline => Anthropic \in r.registered
  /\ r.verbatim => r.surface = "responses"

Init == /\ req \in {r \in Workload : Reachable(r)}
        /\ phase = "primary" /\ stage = "resolve"
        /\ walk = <<>> /\ i = 1 /\ retries = 0 /\ auto = FALSE
        /\ err = "none" /\ winner = NoProvider
        /\ sink = [held |-> <<>>, sealed |-> FALSE, committed |-> FALSE,
                   body |-> <<>>, wire |-> <<>>, label |-> req.primary]
        /\ expired = FALSE /\ calls = <<>>

Step == \/ Refuse \/ Resolve \/ NoBinding \/ Bind \/ BindMissing \/ CallUpstream
        \/ UpstreamFails \/ RetryWithAuto \/ UpstreamEmpty \/ UpstreamOutput
        \/ UpstreamCompletes \/ UpstreamBreaks \/ UpstreamCut
        \/ FailCommitted \/ RetrySameBinding \/ BackoffElapses \/ BackoffAborts
        \/ FailOver \/ Exhausted
        \/ BaselineFailover \/ SubscriptionFailover
        \/ SurfaceDeferred \/ NothingDeferred \/ Reply

Next == Step \/ Answered

Spec == Init /\ [][Next]_vars

\* Every call ends (watchdogs and the request budget bound it) and the loop runs on.
FairSpec == Spec /\ WF_vars(Step)

-----------------------------------------------------------------------------
(* Properties.                                                             *)

Wire == sink.wire

\* The client reads one reply, in the voice of the last upstream asked: nothing
\* a failed attempt wrote precedes the attempt that was shown, an envelope is
\* never appended to a stream, and once an upstream's bytes have been read no
\* other is asked (fallback.go, preludeBuffer and Committed; service.go,
\* deferFlushOnExhaustion; responses.go, ResponsesWriter).
R == INSTANCE Reply WITH asked <- Len(calls), wire <- Wire, over <- (stage = "done")

OneReply == R!Spec

\* The bindings of a phase are the deployment's to choose, not a credential's.
DeploymentServes(p) == IF p = "subscription" THEN req.deployKey ELSE req.failover

CallAllowed(c) ==
  /\ DeploymentServes(c.phase) => c.provider \notin req.excluded
  /\ c.phase = "baseline" \/ c.provider \in req.keyed \cup {req.primary}
  /\ req.forced => c.phase # "baseline"

\* Where the deployment chooses, an excluded provider is not called, by failover
\* or by rescue (fallback.go, resolveBindingsForDispatch); a walk leaves the
\* decision's own provider only for one the deployment has a key of; and a model
\* the user forced is served by its own bindings or not at all.
CallsAreAllowed == \A n \in DOMAIN calls : CallAllowed(calls[n])

\* An error the upstream explained is shown with its own envelope, however
\* often its flush was put off (service.go, deferFlushOnExhaustion), wherever
\* no writer stands between the flush and the client.
ExplainedErrorIsShown ==
  stage = "done" /\ err \in Buffered /\ ~sink.committed /\ ~expired /\ ~Rewritten
    => Wire # <<>> /\ Wire[1].kind = "envelope"

\* The same on Responses (fallback.go, dispatchWithFallback).
ExplainedErrorReachesResponses ==
  stage = "done" /\ err \in Buffered /\ ~sink.committed /\ ~expired /\ Rewritten
    => Wire # <<>> /\ Wire[1].kind = "envelope"

\* Codex never sees a stream closed before its end: a rewritten stream that
\* began ends with response.completed or response.failed, and with the former
\* only when the upstream said it was done (service.go, ProxyOpenAIResponses).
\* A Gemini stream that failed after it began ends with an error frame.
StreamsTerminate ==
  stage = "done" /\ req.stream /\ Wire # <<>> =>
    LET last == Wire[Len(Wire)].kind
    IN  /\ Rewritten /\ Wire[1].kind = "start" =>
             last = "errorFrame" \/ (last = "stop" /\ err = "none")
        /\ req.surface = "gemini" /\ sink.committed /\ err # "none" =>
             last = "errorFrame"

\* Usage, price and strikes go to the provider of the last call, and a served
\* response carries its name in x-router-provider.
AttributedToCaller ==
  stage = "done" /\ calls # <<>> /\ err \notin {"unconfigured", "status"} =>
    /\ FinalProvider = calls[Len(calls)].provider
    /\ err = "none" => sink.label = FinalProvider

\* Every request is answered.
IsAnswered == <>(stage = "done")

=============================================================================
