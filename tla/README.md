# Router v2: TLA+ models

A verification development of the serving core of `router/`: the Go service
that takes a chat request, picks a model and a provider for it, dispatches it
upstream with failover, translates the answer, charges for it and learns from
what its user says. The specifications are model checked with TLC on small
instances; theorems about eight of them are checked with TLAPS for all.

    SessionPinStore   the SQL statements on router.session_pins, as operators
    SessionTurns      requests of one conversation reading and writing its pins
    Planner           whether a session leaves its model for another
    Scorer            how a strategy picks a model
    Routing           the routing of one session, turn after turn
    Reply             what a client is promised of one request (abstract)
    Dispatch          one routed request against its upstreams; implements Reply
    Streams           the translators of a streamed answer
    Transcripts       an agent's transcript on its way to each provider
    KeyCache          API keys: the caches of all replicas, administrative changes
    Billing           prepaid credits: gates, debits, recharge signals
    Subscriptions     what the router hears of a caller's own plan, and does about it
    Telemetry         the rows of served turns, the reports and the dashboard
    Feedback          ratings by link and by command, over Telemetry
    SessionTurnsProofs, RoutingProofs, DispatchProofs, KeyCacheProofs,
    StreamsProofs, BillingProofs, SubscriptionsProofs,
    FeedbackProofs    theorems
    MC*               the instances TLC checks

`PROJECT.json` lists the components, the runs, the source lines of each
definition, the findings, the hazards, the theorems, and for each property a
mutant of the code that it refutes. An operator whose comment begins with
"Mutant" is such a mutant and stands for no code.

Run a check with `tlc -config turns_cluster.cfg MCSessionTurns.tla`, the proofs
with `tlapm SessionTurnsProofs.tla`. Source paths below are relative to
`src/router/`; `proxy/`, `translate/`, `auth/` and the like stand for their
directories under `internal/`.

## 1. Inventory

| Component | State | Operations | What is hard | What makes it correct |
|---|---|---|---|---|
| Session pins (`router/sessionpin`, `session_pins.sql`) | one row per (session key, role): pinned model and provider, runner-up, expiry, two strike counters, disabled providers, switch history | Get, Upsert, UpdateUsage, two counters, DisableProvider, Sweep | columns kept or cleared by comparing the stored with the incoming model; no transactions across statements | no order of statements loses a strike-out, a switch, or the difference of pin and runner-up |
| Turn loop (`proxy/turnloop.go`, `service.go`) | locals of a request; two rows (`active`, `_hmm_history`) | commands, detectors, guards, routing branches, usage writeback, strikes, evictions, refusal re-pin | state read early and used late; two rows for one history; concurrent turns | a route knows what was served before; a struck-out provider serves nothing; every request ends |
| Planner, scorer, strategies, band swap (`router/planner`, `cluster`, `hmm`, `rl`, `bandit`, `banditexplore`, `policy`, `bandswap`) | bundles, settings, the pin | filters, blend, argmax and runner-up, exploration, sidecar verdicts, stay or switch, swap | exclusions from six sources that must bind every path; prices that turn around | what is served is offered to the caller; pairs are of peers; a switch made for money pays |
| Dispatch (`proxy/fallback.go`, `service.go`, `translate/responses.go`) | binding list, retry budget, prelude buffer, winner | walk, retry, failover, two rescues, deferred flush, four entry surfaces | a response writer shared by attempts; bytes cannot be taken back; errors deferred to a rescue that may fail | one reply from one upstream; correct attribution; every request is answered and every stream closed |
| Translation of answers (`translate/stream.go` and the other writers) | a state machine per stream | one upstream event, the end of the call | upstreams that are cut, interleave, omit or repeat | blocks nest; an end is earned; nothing is lost |
| Transcripts (`translate/emit_*.go`, `handover.go`, `proxy/compaction.go`, detectors) | the client's transcript | sanitise, break loops, compact, hand over, translate, place breakpoints | lost results, provider-specific ids, cuts in the wrong place | calls and results stay paired; a request fits; loops are broken and only loops |
| API-key cache (`auth`) and its invalidation (`pubsub`) | two LRUs, an index and a generation per replica; a lossy channel | VerifyAPIKey, Set, InvalidateInstallation, expiry; issue, rotate, delete, settings; publish, receive | fills race invalidations and the cleanup of expired entries; statements fail after others committed | a set across an invalidation leaves nothing behind; one successor per rotation; replicas converge |
| Credits (`billing`, `server/middleware`, `billing.sql`) | balance, ledger, spend counters | four gates, debit, recharge signal; top-ups outside | gates read long before the debit; lost answers of debits | the books balance; overshoot is bounded; each crossing is signalled once |
| Subscriptions (`proxy/usage`, `usage_bypass.go`, `subsidy.go`) | observed windows per credential | observe, merge, restamp, sweep; bypass, gate, failover to a key | readings out of order and of the wrong account | a plan near its cap is remembered; without credits only the plan serves |
| Telemetry and feedback (`observability`, `feedback`, `api/admin`, `proxy/router_feedback.go`, `frontend/src/app/(app)/dashboard`) | telemetry rows, ratings, submissions, sidecar reports | serve, land, reports by hour, day and week; load, choose, click; link, command | rows that land late or never; turns resolved by number; no transactions; answers of an earlier choice | a page shows only thumbs that were given; the right strategy is credited; the dashboard comes to show the last choice |
| Semantic cache, OTLP emitter, users, the rest of the front end, installers, sidecar, research code | | | | not modelled, section 11 |

How they interact. A handler (`ProxyMessages` and its three siblings)
authenticates through the key cache, passes the billing gates, looks at the
caller's plan, sanitises and compacts the transcript, and calls the turn loop for
a decision: one or several statements on the pin rows around a strategy and the
planner. It dispatches the decision, the translator writes the answer, and
afterwards the handler debits the organisation, updates the pins and sends the
telemetry row. Pins, billing tables, telemetry and ratings are shared by all
replicas; the key cache and the usage observer by the requests of one replica;
the response writer by the attempts of one request. The modules cut the system
along these shared objects. Each takes what the others decide as an arbitrary
input: the outcome of a dispatch is nondeterministic in SessionTurns and Routing,
the routed decision a workload of Dispatch, the upstream's events arbitrary in
Streams, and what a turn costs a set of costs in Billing.

Where modules are composed: SessionTurns EXTENDS SessionPinStore, Routing EXTENDS
Scorer EXTENDS Planner, Feedback EXTENDS Telemetry, and Dispatch instantiates
Reply with a refinement mapping.

## 2. The session pins: SessionPinStore, SessionTurns

SessionPinStore has one operator per SQL statement. A row is a record; the missing
row is `EmptyRow`, the zero value that `Get` returns. `pinned_until` is kept as
its relation to the clock: `past`, `ttl`, or `never` for a forced pin. Token counts
and `turn_count` are left out: nothing in the protocol of the statements reads
them (Routing has the one decision that does, the output cap). `upErr` and `ovErr`
are the two counters, `disabled` the array of disabled providers. It may hold
the empty string, because `DisableProvider` does not test for it.

In SessionTurns `rows["active"]` is the row of the tier role and `rows["history"]`
its `_hmm_history` sibling. Each request `t` has a stage, the next statement it
will execute, and its local variables `turn[t]`. **One action is the code between
two statements on the store**: the statements are atomic in PostgreSQL, everything
else a request does is private to it, and this is the finest interleaving any
number of replicas can show. `forced`, `answered` and `overloads`, and the locals
`seen` and `struck`, are history and exist only for the properties.

| Actions | Code |
|---|---|
| StartTurn, ForceModel, UnforceModel | entry of `ProxyMessages`, `force_model.go` |
| BreakActive, BreakHistory, NoProgressRead, TextRepetition | `handleToolCallLoopBreak`, `handleNoProgressBreak`, `handleTextRepetitionBreak` |
| EscalateRead, EscalateBudget, PinEscalation, RecordEscalation | `handleLoopEscalation` |
| LoadActive, LoadHistory | the two Gets of `runTurnLoop` and what is derived from them |
| RouteImmutable, RouteSticky, RouteFresh, RouteReanchor, RouteHmm, RouteFails | the branches of `runTurnLoop` |
| BypassServed, BypassFailed, RouteBypassed | usage bypass and the second run of the turn loop when it fails |
| Dispatch, DispatchUnbound | everything Dispatch.tla details, seen by the pins: who ended the turn and how |
| RecordUsage; ReadHistory, TouchHistory, RecordHistoryUsage | `recordTurnUsage`, `recordHMMTurnHistory` |
| EvictDegenerate, CountStrike, EvictStruck | `pin_eviction.go` |
| CountOverload, DisableOverloaded, OverloadActive, OverloadHistory | `provider_overload.go` |
| RefusalRead, RefusalRepin | `maybeRepinOnRefusal` |
| Lapse, Sweep, Crash | the TTL, the sweeper, a replica that dies |

What the code decides from data the model does not have is nondeterministic:
which open binding the scorer returns, whether the planner stays or switches,
whether a detector fires, whether a guard of the request drops the pin
(`Passes`). `Features` says which of these an instance allows, so that each run
can be deep in what it is about; `Scorers` is the set of strategies.

Simplifications: the failover walk is that of deployment keys (a request on a
customer's credential has one binding and no rescue; Dispatch has both); a
hard-pinned automatic turn (probe, title generation) touches no row and is left
out; `EnabledProviders` is never nil; errors of the store itself are not modelled,
but `Crash` stops a request between any two statements.

A turn that the usage bypass served is in `answered` and leaves no trace in the
pins. That is the code's behaviour: `RoutesKnowHistory` is claimed, checked and
proved for instances without the bypass.

| Run | Instance | Properties |
|---|---|---|
| turns_cluster | 1 slot, 7 requests, cluster scorer; forced pins, degenerate answers, refusals, lapses | StrikesAreSettled, StruckOutWasOverloadedTwice, RoutesKnowHistory |
| turns_detectors | 1 slot, 2 requests; every strategy, detector and command, bypass, rescue, crashes, sweeps | TypeOK, EscalatesOnce, RequestsFinish |
| turns_concurrent | 2 slots, 4 requests, band swaps, failed bypasses | PairNeverCollapses, StruckOutNeverServes, RowsRemember |

Bounds. Two models on two providers are the least with a switch, a runner-up, a
failover and a provider that serves only one of them. Striking out a provider
takes three turns, the first of them not sticky; turns_cluster has the seven it
takes to strike out both and find no open binding left. turns_detectors has the
second request for what the first left behind, with every feature on at once.
Two slots are the least for a race, and every race found takes three requests at
most. `SYMMETRY` is used on the slots of turns_concurrent, which differ in
nothing. `CHECK_DEADLOCK FALSE`, because a behaviour ends when its requests are
done.

The properties of turns_cluster, and EscalatesOnce, are for sequential requests.
With requests in flight a route cannot know what a turn still streaming will
serve, counters pass their thresholds between two statements, and the escalation
budget is check-then-act (v_escalates_twice). The seven properties that are not
about liveness or types are proved, for any models, providers and strategies and,
where they hold for them, any number of requests in flight; section 9 has the
hypotheses. TLC shows each hypothesis to be necessary on an instance that lacks it:

- StruckOutNeverServes needs that no guard drops a forced pin (the strike-out is
  lifted for the forced provider even where the pin is then dropped) and that no row
  is swept between the two loads of a request. Neither is among the features of
  turns_concurrent.
- EscalatesOnce needs requests that follow one another (`OneAtATime`), and so do the
  next three.
- StrikesAreSettled needs that no replica dies between the count of a strike and
  the eviction it asks for.
- RoutesKnowHistory needs that every answer leaves a trace (`TracesLeft`): an answer
  through the bypass writes none, nor does a decision after a failed bypass when the
  session has no row yet, a replica may die before the writeback, and the sweeper
  takes the trace away.
- StruckOutWasOverloadedTwice needs that only one provider can be to blame
  (`OneToBlame`). `overload_error_count` counts the turns of a row, not those of a
  provider: with a band swap, a baseline rescue or two bindings of the pinned model the
  two turns that strike a provider out need not both be its own; a turn routed after a
  failed bypass writes its provider beside a model it need not serve; an HMM stay counts
  on the history row, whatever model it was served by; and with requests in flight a
  count can land on the model that another request has pinned meanwhile.

Fairness of turns_detectors: weak fairness of each request's own steps. A handler
goroutine runs to its end: upstream calls have watchdogs (`httputil.go`), the
request a deadline (`server.go`, `middleware/timeout.go`), and the store's calls
a context. Nothing is assumed of clients, of the clock or of crashes.

## 3. What a turn is routed to: Planner, Scorer, Routing

SessionTurns leaves open which decision a branch takes; these modules compute it.
`Planner!Decide` is `planner.Decide` over integer prices, with cache multipliers
and subsidy factors out of `Whole`. `Scorer` has the cluster scorer's filters,
its blend with the dial's weights, the choice and the runner-up (`ClusterRoute`),
the explorer and the bandit that wrap it (`Explored`, `Sampled`), and the policy
sidecars with the resolver (`SidecarRoute`). Embeddings and clusters are
`Nearest`, `Quality`, `Press`, tables of the instance; sampling is nondeterministic.

In Routing a step is one turn from its request to the write of its usage, because
the interleavings of turns are SessionTurns'. What may change between turns
does: the policy, the settings of the deployment, the clock, the pin.

| Definitions | Code |
|---|---|
| Prefiltered, Saturated, BeforeFit, Excluded | the sources of exclusions, in their order (`service.go`, `turnloop.go`) |
| ForcedTurn, StickyTurn, RefusedTurn, AuthoritativeTurn, HMMTurn, ReanchorTurn, PlannedTurn | the branches of `runTurnLoop` |
| SwapServes, SwapsToPair | `bandSwapServed` |
| Pinned, Refreshed, Usage | the pin's writes |
| ChangePolicy, ChangeSetting, Lapse, ForceModel, UnforceModel | what happens between turns |

`alphas` holds the weights behind the dial; the code computes them when it loads a
bundle, and so does `Init`. `turn.breaches` records which exclusions the model that
served violated, computed from the pin and policy before the step.

The run `routing` has four models, one for each reason to exclude one (it reads
text only, it refuses unsigned histories, it has a small window, it is dear), seven
deployments (dial at either end or none, exploring, sampling, HMM, learned
policy), fourteen requests with each feature on its own and some together, a
policy that comes and goes, and two clusters that prefer different models.

- ServedIsOffered: no turn leaves the caller's keys, no exclusion from any source
  is lost on the way to any branch that serves, and a picture goes to a model that
  reads text only if the pool has no other. Only the pinned model itself may be on
  an exclusion that came after it.
- PairIsPeer: the runner-up that is stored is not the chosen model, for every
  strategy but the bandit (v_bandit_pair).
- EVSwitchesStand: two models never take turns for their price. Proved, section 9.
- SaturatedStepsAside: a model that ran into the output cap does not serve next.

All four are proved for any catalog, prices, scores and settings (section 9).

What reading the code for it brought up, and the model has:
an expired pin that ran into the cap is not excluded while HMM's history is; a
forced pin that a guard drops skips the output-cap guard of its row; the context
fit check lifts the exclusion of an unsigned history as well (`service.go:804`);
a new pin inherits `LastTurnEndedAt`, so that its cache counts as warm; the planner
prices the primary binding, whichever binding serves; the image filter
runs after the tool filters and may drop the only model with pictures that they
left (`cluster/scorer.go:581`). In the bundles v0.54 to v0.57 a `speed_weight` of .08
makes a `quality_bias` above .92 an error; no instance has such a bundle.

## 4. One request: Dispatch, Reply

`Reply` is the abstract specification: upstreams are asked one after another while
the client has read nothing of theirs; then it reads one stream, all of it from the
last one asked, or one error body; nothing follows the end.

`Dispatch` is one request after routing, on each of the four surfaces. `walk` is the
list `resolveBindingsForDispatch` returns, `phase` says which of the three walks is
running, `sink` is the `preludeBuffer` with the client and, on Responses, the
`ResponsesWriter` behind it. A chunk of the response is its kind and the number of
the upstream call that wrote it.

| Actions | Code |
|---|---|
| Resolve, NoBinding, Refuse, Bind, BindMissing | `resolveBindingsForDispatch`, the surfaces' own refusals, the loop head of `dispatchWithFallback` |
| CallUpstream, RetryWithAuto | the attempt closures of the four surfaces |
| UpstreamFails, UpstreamEmpty, UpstreamOutput, UpstreamCompletes, UpstreamBreaks, UpstreamCut | what client, `StreamBody` and translator do with an upstream that fails, ends early, completes, breaks or is cut |
| FailCommitted, RetrySameBinding, BackoffElapses, BackoffAborts, FailOver, Exhausted | the error side of the loop |
| BaselineFailover, SubscriptionFailover, SurfaceDeferred, NothingDeferred | `ProxyMessages` after a failed walk |
| Reply | the handlers, `Finalize` and `FinalizeError` of the writer |

`OneReply` is `R!Spec`, where `R` is Reply with the number of calls for `asked`,
the client's chunks for `wire`, and the last stage for `over`: every behaviour of
Dispatch is one of Reply. The other properties say what Reply does not: which
upstreams are called (CallsAreAllowed: no excluded one where the deployment chooses
the bindings, and another than the decision's only with a key for it), that an error the upstream explained is what
the client reads (ExplainedErrorIsShown), who is billed and named
(AttributedToCaller), that streams end (StreamsTerminate), and that a reply comes
(IsAnswered, under `WF_vars(Step)`, with the justification of section 2).

The run `dispatch` takes the union of four workloads: every catalog with every
set of keys, exclusions and clients; a model of one provider with every combination
of what the rescues depend on; streams of each family; and the three other
surfaces. At most two bindings suffice for first, next and last; the retry budget
is the code's own, 2. `AttributedToCaller` leaves out attempts without a client
and the 502 without a binding, where no upstream was called.

Met on the way and in the model: the Gemini surface does not strike a pin after an
upstream error; a decision for another provider gets there a 501 after the pin was
written; `response.created` passes the buffer by when there is a single binding; a
Gemini or native stream that is cut counts as served.

Not modelled: the order `prioritizeSelectedArmBinding` gives the list, agent shadow
evaluation, the native passthrough of Responses over a websocket, token counting.

## 5. Streams and transcripts: Streams, Transcripts

Streams has the translators that write an answer in another format than the
upstream's, seven paths in all, with the marker that precedes and the footer that
follows an answer. `t` is the translator with the frames it wrote, `foot` the footer
writer behind it, `g` the first translator of a chain. `Receive` takes one upstream
event and does everything the translator does about it; `Finalize` and
`Dispatched` are the end of the call and of the request. The upstream is external
and hardly constrained: it may omit an item's start, interleave items, repeat a
finish, fail in the middle, be cut anywhere.

The run `streams` gives each path two tool slots and the five, six or ten events it
takes to open two blocks and end. BlocksAreBracketed is what a client's parser relies
on: the message starts first, blocks are numbered as they open, filled only while
open and with what they were opened for, stopped once, all of them before the end,
and nothing follows an end or an error. A Chat Completions client (`geminiChat`,
`native`) has no frame that opens its text or ends a call, so only its calls are
held to that. EndIsEarned says that an end is announced only when the upstream
reached one, and a stop for tools exactly when there are some (on the two paths that
pass the upstream's reason on, `native` and `marked`, that part is the upstream's);
NothingIsLost that content the upstream completed reaches the client once and in
order. The first two are proved, for any slots and an upstream of any length.

Transcripts follows an agent's transcript: the client prompts, answers calls, loses
results (`Prompt`, `Answer`, `Lose`, external); a turn sanitises, looks for loops,
compacts, hands over and translates it (`Turn`, all of `ProxyMessages` that reads or
rewrites messages); the model replies (`Reply`). The client's transcript is never
rewritten, so each turn starts from all of it. A part is a text, a call or a result;
the signature in a call's id is what providers disagree on. Sizes are counts, with a
window of 7.

The run `transcripts` takes two long conversations through all four providers, three
that place cache breakpoints, four whose models repeat themselves. PairedUpstream:
calls and results stay paired in the form of whichever provider is next.
RefusedOnlyAtFloor: a request goes out within the window, and is refused only when
its newest message alone is too large. CachePolicyHolds: four breakpoints, in order,
the client's among them. LoopsAreBroken: a turn is stopped exactly for a loop.
GeminiStaysEligible: Gemini can continue what Gemini began.

## 6. KeyCache

Every replica has `positive`, its LRU with the revision each entry was read at,
`negative`, and `index`, which is `byInstallation` for the one installation modelled.
`invalidationGen` is only ever compared for equality, so what is kept is the
comparison: whoever holds an older generation is `overtaken`. A step is one critical
section of the cache's mutex, one operation of the LRU, or one database statement.
The LRU runs `onPositiveEvict` inside its own lock; that deletes one key from the
index, which commutes with every section that can come between, so `Remove` does
both at once.

An entry whose TTL has ended (`expired`) is a miss for `Lookup`, yet stays in the LRU
and in the index: until the LRU's cleanup comes by (`CleanUp`), a full LRU evicts it
(`MakeRoom`), or a fill adds its key anew, which runs no callback. A single lookup
can so be between the two sections of Set when the cleanup evicts the old entry of
its key and takes the slot of the new one. `bared` is history: the slot in the index
of this entry, or of this fill, was taken.

| Actions | Code |
|---|---|
| Lookup, Fill (Read, RememberBad, SetIndex, SetAdd, SetCheck, SetRemove) | `VerifyAPIKey`, `Set` |
| Administer (Begin, SoftDelete, Issue, Update, CreateExternal, Invalidate, Evict, Return) | `RotateAPIKey`, `DeleteAPIKey`, the settings and external keys; each statement may fail |
| Listen (Receive, ListenerEvicts, Ack) | `InvalidationListener.Run` |
| Expire, CleanUp, MakeRoom, ForgetBad | the LRUs (golang-lru, expirable) |

The channel (`told`) loses, delays, reorders and repeats messages: a replica waits
for at most one, since a second would invalidate what the first does, and a message
is redelivered until it is acknowledged.

The run `keys` has two replicas, two lookups of one key on the first and one
administrator on each, three keys and two changes: the least for two fills of one
key, a fill overtaken by the other replica's message, two rotations of one key, and
both their successors. Lookups and expiries are not bounded (2 million states, three
minutes). Fairness: a lookup's `Fill` and an entry's `Expire`, because a
goroutine that holds no answer goes on and an entry has a TTL; nothing of the
cleanup, messages, listeners or administrators. With no more than that,
ChangeReachesEveryReplica holds of what is served: the TTL is the last resort of the
code. OnlyBaredOutliveInvalidation is what the code's closing of the race achieves: an
entry outlives an invalidation only after its slot was taken, by the eviction of an
older entry of its key or by another fill that gave up its own. That this does happen
is v_entry_outlives.

A lookup reads the row, the external keys and the lists in one step. That a failed
read of the external keys is cached as "none" (`auth/service.go:351`) is a matter of
an entry's content and not covered.

## 7. Money: Billing, Subscriptions

Billing is the prepaid credits of one organisation. A slot carries a request through
the four gates, each a fresh read, serving, and the debits. `Debit` is the statement
`DebitOrgCredits` (balance, ledger rows and counters move together) with the
three outcomes a caller with a deadline of five seconds can see: landed, landed
with its answer lost, not landed. `Signal` is `maybeSignalRecharge`. `Pay` is
external: the control plane's top-up.

The override is read nondeterministically at the gate, because the control plane
may grant or end one at any time. The payer `deployment` also stands for a key the
client sent itself, which is charged in full. A turn owes at most one summary; the
code can owe two, which settle in the same way. Not modelled: the turn of the month,
an absent balance row, a change of caps.

The run `credits` has two slots, two keys, an engineer and one top-up against caps
that each request brings near: every gate is reached and overrun. With stored
provider keys, whose fees multiply the ways to pay, it has two requests, without
them three. OvershootBounded says that no limit is overrun by more than
one request per slot: slots bound the concurrency, and the code bounds it nowhere
else; it says nothing of stored keys, whose turns can pay a fee after the
gates were passed on the plan alone (v_subscription_only_debited). `SYMMETRY` is
on slots and keys, which no property or limit tells apart.

Subscriptions is what the router knows of a caller's own plans: `plan` is the
upstream's truth, `data` the observer's snapshots, `heard` what each plan last
reported. A request begins, takes the bypass or is routed, is guarded, sent and
answered; answers arrive in any order and report both windows, one, or none. `Use`
and `Tick` are external. A stale reading is dropped in two steps (`Begin` reads it
under the read lock, `Drop` takes the write lock), as in `Observer.Snapshot`. The
run has windows of length 2 and 4 on a clock of 3, so that one resets and the other
does not, and callers with one plan or two, with and without credits, on either
surface. NearCapIsRemembered, ReadingsAreOwn and WithoutCreditsOnlyThePlan are
stated in the module.

## 8. What users say and see: Telemetry, Feedback

A served turn fires the insert of its row from a goroutine: `Land` happens later,
after rows of younger turns, or never. `turns` is what was served, `rows` what has
landed. The reports are operators: the summary, the time series and the model
breakdown by hour, day and week, for an installation and for all, and the details.

| Actions | Code |
|---|---|
| Serve, Land | `fireTelemetry` and its goroutine, `InsertRequestTelemetry` |
| OpenDashboard, ChooseRange, ChooseGranularity (`Load`) | `dashboard/page.tsx`, the effect on its range and granularity |
| Answer, Show, Leave | the three requests of a load, each one statement on the table; `cancelled` |
| Click, Listed, CloseList | `useChartDrillDown`, `GetTelemetryRows` |
| FollowLink | the feedback page's form and one-click link |
| Type, Resolve, Record, Converge, Report | `/router-feedback`, whose statements are separate actions |
| SwitchStrategy, Tick | an administrator, the clock |

The dashboard is one page in one browser. A load is numbered by the choice it
is of and remembers in `since` which rows had landed when it was asked for (history);
its three answers are read from the table one at a time, in any order, and `Show` drops a
load that is not `Current`, as the page's `cancelled` does. The figures of the last
load stay on the screen until the next has come, and a bar clicked meanwhile is
asked for with the granularity chosen *now*.

The run `feedback` explores three scenarios of two turns each, days of two hours and
weeks of two days (8.4 million states, three minutes). Speaking: one session gives
feedback twice, by link or command, with the numbers -2 to 1, on five kinds of
turns (scored, pinned, by the bypass, by a tool, of another installation), while the
strategy is switched. Watching: one load, of an installation or of all, while two
hours of turns land. ChoosingAgain: two loads of one dashboard. Two suffice: a third
would be dropped, or show, as the second is.

ThumbsWereGiven: a thumb on a page is one somebody gave that turn, by its link or by
a submission on record, and a turn that got one by its link has one. It does not say
whose thumb stands when several were given (the last upsert's), nor that a
command's thumb arrives: its upsert may fail, and the user is thanked all the same
(`router_feedback.go:177`). CreditedToItsPolicy: a report goes to the strategy that
scored the turn, whichever is active now; of a turn nothing scored, to that of the
command's request, read when the request began. DashboardKeepsUp: once nothing the
user chose is still loading, the screen shows the figures of that choice, cards, bars
and models each comprising all rows that had landed when they were asked for and
none that has not landed; and an uncut list accounts for its bar, if the
bars were of the granularity chosen at the click. Rows that land later
make a list larger than its bar, never smaller. Without that last condition it is
ListIsOfItsBar, which fails (section 10).

In the model as in the code: bypass rows carry no session; a number can resolve to
another turn while a row is late; a failed upsert is only logged and the report
goes out all the same. Left out: the notes (in the code, a one-click rate and a
command overwrite a turn's note with NULL), the served model a submission is
attributed to, and time zones with their changes of the hour: hours, days and weeks
are of one zone and of one length.

## 9. What is proved

For all values of the constants that satisfy the modules' named assumptions, which
TLC evaluates on every run:

| Theorem | States |
|---|---|
| SessionTurnsProofs: TypeCorrect | `Spec => []TypeOK` |
| PairsStayDistinct | `Spec => []PairNeverCollapses` |
| StrikeOutsLast, SwitchesLatch, RowsAlwaysRemember | `Spec => StruckOutForLife`, `SwitchLatches`, and both, `RowsRemember` |
| StruckOutStaysOut | `~May("guards")` and `~May("sweep")` imply `Spec => []StruckOutNeverServes` |
| EscalatesOnlyOnce | `OneAtATime` implies `Spec => []EscalatesOnce` |
| StrikesAlwaysSettled | `OneAtATime` and `~May("crash")` imply `Spec => []StrikesAreSettled` |
| StruckOutAreToBlame | `OneToBlame` implies `Spec => []StruckOutWasOverloadedTwice` |
| HistoryAlwaysKnown | `OneAtATime` and `TracesLeft` imply `Spec => []RoutesKnowHistory` |
| RoutingProofs: SwitchPaysOneWay | of two models at most one is worth a switch to the other |
| EVSwitchesStandAlways | `Spec => []EVSwitchesStand` |
| ServedIsAlwaysOffered, PairIsAlwaysAPeer, SaturatedAlwaysStepsAside | `Spec => []ServedIsOffered`, `[]PairIsPeer`, `SaturatedStepsAside` |
| DispatchProofs: ClientReadsOneReply | `Spec => OneReply`, the refinement `Spec => R!Spec` of Reply |
| CallsAreAlwaysAllowed, ExplainedErrorIsAlwaysShown, StreamsAlwaysTerminate, AlwaysAttributedToCaller | `Spec => []` of CallsAreAllowed, ExplainedErrorIsShown, StreamsTerminate, AttributedToCaller |
| StreamsProofs: BlocksAlwaysBracketed, EndAlwaysEarned | `Spec => []` of BlocksAreBracketed, EndIsEarned |
| KeyCacheProofs: IndexedIsCachedAlways | `Spec => []IndexedIsCached` |
| OneSuccessorAlways | `Spec => []OneSuccessor` |
| OnlyBaredOutlive | `Spec => []OnlyBaredOutliveInvalidation` |
| BillingProofs: BooksAlwaysBalance, EveryCrossingAlwaysSeen, OvershootAlwaysBounded | `Spec => []` of BooksBalance, EveryCrossingSeen, OvershootBounded |
| SubscriptionsProofs: NearCapIsAlwaysRemembered, ReadingsAreAlwaysOwn, WithoutCreditsAlwaysOnlyThePlan | `Spec => []` of NearCapIsRemembered, ReadingsAreOwn, WithoutCreditsOnlyThePlan |
| FeedbackProofs: ThumbsWereAlwaysGiven, AlwaysCreditedToItsPolicy | `Spec => []` of ThumbsWereGiven, CreditedToItsPolicy |
| NumbersAreUnambiguous | a number in a command selects at most one turn |
| DashboardAlwaysKeepsUp | `Spec => []DashboardKeepsUp` |

**SessionTurnsProofs.** `PairNeverCollapses` is not inductive: a request that loaded
a row before others changed it writes the pair it loaded. The invariant is
`IInv == TypeOK /\ PairsDistinct`, where `PairsDistinct` says that the stored
rows *and the copies in the locals of every request* have a runner-up other than
the pin. Every action is reduced to one fact about rows, `RowStatement(a, b)`:
`b` is `a`, or the result of one SQL statement on `a`, with the upsert restricted
to writes whose runner-up differs from the pin (`DistinctWrites`). One lemma per
action shows that it changes each row by a `RowStatement` and keeps the locals
typed and distinct (`StepOK`); `EveryStep` collects them. The theorems are then
lemmas about single statements: an upsert keeps a pair only under the
model it was stored with, no statement takes a provider out of `disabled`, and
the writeback sets the latch whenever it replaces the last served model.
`PairsStayDistinct` rests on what SessionTurns takes from the strategies, a
runner-up other than the choice. The standalone bandit breaks that (v_bandit_pair),
and the theorem does not extend to it.

`StruckOutStaysOut` follows the strike-outs a request found at its first load
(`struck`) through its locals. `Heeds` says, stage by stage, where they are: in the
row it holds or in the history row as it is now, then in `disabled`, unless it holds a
live forced pin, and in `disabled` whenever it is dispatched for a reason other than
`force`. Rows only ever gain strike-outs, so no other request disturbs it.

The other four are about requests one at a time. `BudgetHeld`: a request between the
budget query and its event found a count of 0. `StrikeInv`: both counters of the
active row are below their thresholds unless the one request is about to evict or
disable (its locals say why: `Fits`), an evicted row has no model and a live one has
(`Sound`), and a row without a model has no counts (`Clean`), because an upsert that
changes the model clears them. `BlameInv`: an upsert that changes the model clears
the count, so what the active row counts is at most what its model's only provider
has ended turns with (`Counted`), strictly less while the request that met the last
one has not come to count it (`Owed`); for that the request must be served by the
model of the row (`Attached`), and whatever a row pins must name a provider that
serves it (`Bound`). It needs nothing of crashes, sweeps or lapses. `Informed`: every
model that has answered is told by the two rows together (`Tells`: the latch is on,
or it is the one served last) or recalled by the request that is about to write; a
writeback cannot lose it, because it sets the latch whenever it replaces a last
served model by another, the row's or the writer's.

**RoutingProofs.** A switch that pays needs the price of the pinned model, subsidy
and cache discount applied, to exceed that of the other (`PayingSwitchIsCheaper`,
since the eviction cost is not negative), and that is asymmetric; EVSwitchesStand is
then a fact about the planner in every state. The other three rest on `Sane`: the rows
are typed, a live pin has a model and its pair is of peers, nothing offered was
breached, and a turn that ran into the cap is on the row that it marked
(`Remembers`). Each branch that serves is shown to offer (`Offers`) only models that
survive `Excluded`, with a binding among the caller's keys, or the pinned model
itself; this needs that the argmax of a non-empty set exists, which is proved from
the well-foundedness of the naturals, for any scores.

**DispatchProofs.** The refinement needs an invariant that relates the writer to the
stage. `SinkInv`: before a commit nothing but a greeting is on the wire, what is
buffered or on the wire is of one call, the last, and what has ended is not
written to. `Outcome`: a failed attempt has an error, and never one whose body was
kept once the client has bytes. Each action is then a step of Reply or leaves
`asked`, `wire` and `over` alone (`ReplyStep`). The invariants of the other four are
the walk's providers (`WalkAllowed`), where an explained error is at each stage
(`Explained`), what may be on the wire of a rewritten stream (`Framed`), and whose
label the writer carries (`Attributed`).

**StreamsProofs.** Neither property is inductive: both are about frames already
delivered, and what the next event adds to them depends on the translator's own
record of what it has open. The *book* of a list of frames is the set of blocks it
opens and does not stop, each with its kind (`Book`); a frame is in its place
(`InPlace`) when it agrees with the book of those before it. Every translator keeps
another record: the flow of text and reasoning and the calls by index (`ChatOpen`, and
`GeminiOpen`, the same behind the translator of Gemini's chunks), the chunks of calls
(`GeminiChatOpen`), the items by output index (`CodexOpen`), the items by id with their
kinds and arguments (`ResponsesOpen`), the upstream's own blocks (`NativeOpen`), and
these shifted by the marker's (`MarkedOpen`). The invariant says, path by path, that
this record is the book, from which each operation (enter a flow, open a call, stop
the items in any order) is shown to write only frames in their place, and to leave
record and book equal. Loops over the items are recursive functions, and the lemma on
each is by induction on how many have been stopped.

The footer writer comes between: it holds back a stop, and may put a footer into the
block before it. The frames delivered and those written to it differ in length, so
they are compared by what matters of them (`Alike`): both in their places, with the
same open blocks, calls, reasons and ending. `Trails`: what is delivered is alike to
what was written, or to what was written before a stop that is held.

EndIsEarned needs that a translator which has not failed has a lifecycle that is
terminal only after the upstream's finish, and stands still after an error
(`Earned`, and the last conjuncts of the predicates above), and that the finish it
writes names calls exactly when the book ever had one (`Tells`), which for items
needs that an item keeps the kind it was announced with (`Itemized`). IInv is the
conjunction, with what may still be framed after a failed write (`Halted`).

**KeyCacheProofs.** `Types` is the type invariant, with the LRU a function on some
set of keys. For the index: a key that is indexed is cached or some lookup is
between the sections of Set for it. For rotations, `PlacesKept`: the active keys
and the rotations between their two statements together never outnumber the keys
issued at first; `OneSuccessor` alone is not inductive, because `Issue` adds a
key that only the count of rows matched by `SoftDelete` has made room for. For
the race, `KnownInv`: of every entry in an LRU, somebody is going to take it out or
knows that it is there (`Known`): it is being evicted, an overtaken Set of its key has
yet to give it up (`Cleaning`), or it is indexed and no invalidation came since; or its
slot was taken, and then it is `bared`. The same is so of the slot a Set is about to
add an entry for (`SlotsKnown`). Each step that takes a slot out of the index (an
eviction's callback, the check of an overtaken Set, an invalidation) either leaves
the entry one of the others or marks it; that only evictions in progress hold drained
keys (`NothingDrained`) keeps a new invalidation from losing an old one's list.
Nothing is assumed of which keys the lookups present, or when entries expire.

**BillingProofs.** `EveryCrossingSeen` is inductive with the types. For
`OvershootBounded` the charges are counted, not the requests: `Metered` says that a
limit is overrun by less than the greatest cost times the charges that the slots may
*no longer* make against it (a request makes two at most, its turn and a summary). A
slot may charge once it has passed the gate, which it does only while the limit
stands, and each charge that adds to the overrun is one it may not make again.
`BooksBalance` is inductive, but its sums are over the ledger and over sets of
accounts. That a sum over a finite set changes by what one of its members does is
proved by induction on its cardinality, and that the ledger's replay grows by its new
row by induction on its length.

**SubscriptionsProofs.** `Kept`: as long as a window that was heard near its cap has
not reset, the snapshot of its token says the same of it, and was taken no longer
than one window before the reset (`Remembers`). The difficulty is that
snapshots are merged, restamped and dropped when stale; a snapshot stays fresh at
least until the reset of each of its windows near the cap (`FreshWhileNear`), so the
sweep and the drop take only what has reset. `WithoutCreditsOnlyThePlan` is an invariant of each
request's phase and path.

**FeedbackProofs.** What a policy is told comes from a submission that names a turn
of the session and its strategy (`Spoken`: a turn a command has resolved is of its
session and carries the strategy to be credited, what is converged and reported has been
recorded, and the row of a turn never changes). ThumbsWereGiven is inductive with it: a
command writes a thumb only behind its recorded submission, to the turn it
resolved. That -1 and the other numbers select at most one turn needs that a
set of naturals with a bound has one greatest element (`GreatestExists`).

DashboardKeepsUp rests on `Kept`: the types; the user has chosen something
(`Choice`); a load under way or shown is of the choice with its number, and what is
chosen is shown or under way (`InTime`); each answer of a load tells the truth of
*some* table between `since` and now (`Asked`, `Tells`), the three of three different
tables perhaps; and an opened list is of a bar that stands for rows that had landed
(`Behind`, `StandsFor`). The table only grows and rows never change, so a sum over
more rows is no less (`CostsOfPart`); the cards, the bars and the lines are compared by
what grouping does to a sum: the sum over the groups of a finite set, by any key, is
the sum over the set (`SumGrouped`, by induction on its cardinality). A list contains
its bar's rows because these lie within the bounds of the bucket (`BarOfRows`).

Induction over data. The library's theorems of induction take an operator as a
parameter and cannot be used here. Where a proof needs induction it takes the set of
the naturals for which the statement holds and picks a least element of its
complement (`NatLessThanWellFounded`, `WFMin`; the lemma `Induction`); a recursive
function is first shown to exist, as the union of its finite parts.

The assumptions the proofs rest on are named in the modules: amounts, limits and
lengths are natural numbers, windows are not empty, slots, keys, engineers and
installations are finitely many, some cost is the greatest (a model's window and
output cap bound it), the reserved names are no models or providers, slots of calls
and items are positive naturals (0 stands for what is no call), and a caller held to
its plan has one. None bounds the number of requests, replicas, models, turns or
events (`MaxEvents` is any natural).

Only model-checked:

- RequestsFinish, IsAnswered and ChangeReachesEveryReplica are liveness under
  fairness.
- NothingIsLost is about the content of frames, each event's wherever it went, in the
  order of the upstream; the invariant of StreamsProofs keeps the kinds and blocks of
  frames only.
- Transcripts: its properties are about a transcript that a turn rewrites as a whole,
  in folds and filters over its messages; each would be an induction over data.

## 10. Findings

A configuration named `v_*` checks a statement of a comment against what the code
does, and TLC finds a behaviour that refutes it. `PROJECT.json` has the first as a
run; the others are reproduced with the configuration named, and are noted with
the hazards. The last five have no configuration of their own: put the property in
place of those of the run's.

| Configuration (module) | Property | What the code does | The text it differs from |
|---|---|---|---|
| `v_mispaired_pin` (MCSessionTurns) | DecisionIsBound | after a baseline rescue or a band swap the row pairs the pinned model with the provider that served another, and the next sticky turn routes to that pair | `router/sessionpin/store.go:20` |
| `v_forced_overwritten` | ForcedUntilUnforced | a forced pin that cannot serve one request is overwritten by that request's automatic decision | `proxy/turnloop.go:561` "a later request ... resumes serving it" |
| `v_forced_no_progress` | BreaksSpareForcedPin | the no-progress break expires a pin forced between its read and its write | `proxy/no_progress.go:264` |
| `v_eviction_undone` | EvictedPinIsNotRevived | a turn that loaded the pin before its eviction revives it | `proxy/pin_eviction.go:27` |
| `v_escalates_twice` | EscalatesOnce | the once-per-session budget is check-then-act | `proxy/loop_detection.go:209` |
| `v_bypass_struck` | DecisionAvoidsStruckOut | the re-route after a failed bypass may choose a struck-out provider; the dispatch then filters it | `proxy/turnloop.go:471` |
| `v_excluded_pin_served` (MCRouting) | PolicyBindsThePin | a live pin on a model the policy has come to exclude goes on serving | `proxy/turnloop.go:649` |
| `v_saturated_lifted` | SaturatedNeverReturns | the context check lifts the exclusion of a saturated model again | `proxy/turnloop.go:593` |
| `v_bandit_pair` | PairIsAlwaysPeer | the bandit serves the runner-up and keeps it as the runner-up | `bandit/bandit.go:175`, compare `banditexplore/explorer.go:87` |
| `v_responses_mute` (MCDispatch) | ExplainedErrorReachesResponses | an upstream's error flushed before a streamed Responses reply began never leaves the writer | `proxy/fallback.go:162` "renders the final-attempt upstream error ... in the entry point's wire format" |
| `v_stream_unframed` (MCStreams) | FailedStreamIsFramed | a stream broken by a transport error has no error frame | `proxy/service.go:2703` |
| `v_handover_ends_mute` (MCTranscripts) | EndsWithTheClient | a handover strips a final message that only held results, and the request ends with the assistant | `proxy/turnloop.go:728` |
| `v_change_not_applied` (MCKeyCache) | ChangeAppliesToNextRequest | a fill that read before a change is cached after it | `auth/service.go`, the comments of the settings and of `DeleteAPIKey` |
| `v_commit_not_invalidated` | CommitsAreInvalidated | a rotation that fails half way does not invalidate | `auth/service.go:106` |
| `v_entry_outlives` | NoEntryOutlivesInvalidation | while a lookup fills the cache with a key, the cleanup evicts the key's expired entry and takes the new one's slot in the index; no invalidation finds it. Two fills of one key do the same | `auth/apikey_cache.go:94` "Closes the race with InvalidateInstallation" |
| `v_subscription_only_debited` (MCBilling) | SubscriptionOnlyIsFree | a summary on a stored key debits a turn let through on its plan alone | `billing/service.go:36` "no debit" |
| `credits.cfg` with this property | KeyOvershootsByOneRequest | a key overshoots its cap once per request in flight | `server/middleware/api_key_spend_cap.go:24` |
| `subscriptions.cfg` with this property (MCSubscriptions) | SpentUntilReset | a plan is held spent after the window that was spent has reset | `proxy/usage/usage.go:85`, `proxy/subsidy.go:264` |
| `feedback.cfg` with this property (MCFeedback) | UnscoredAreNotCredited | a turn nothing scored is reported to the active strategy | `proxy/router_feedback.go:182`, `proxy/observation.go:77` |
| `feedback.cfg` with this property | DeltaIsOfTheRatedTurn | -1 is the last turn that landed; the conversation ends with another | `proxy/router_feedback.go:190` |
| `feedback.cfg` with this property | ListIsOfItsBar | a bar that is clicked after another granularity was chosen, and before its figures have come, lists the requests of a bucket of the new length (`dashboard/page.tsx:48`, `useChartDrillDown.ts:15`) | `model_router_request_telemetry.sql:400` "the underlying requests behind a chart bucket" |

## 11. Plan and limits

Written in order of importance: the pins (the router's own protocol), dispatch, the
key cache, credits; then the choice of a model, the translators, the transcript,
subscriptions, and what users say. Left of the plan:

1. Proofs: NothingIsLost of Streams, PairedUpstream of Transcripts.
2. Errors of the pin store in SessionTurns (a lost increment, a failed read).
3. The content of a cache entry in KeyCache, so that a failed read of the
   external keys is visible.
4. `Emitter`: the bounded queue of the OTLP exporter and its shutdown.

### Not modelled

- Semantic response cache: lookup by embedding similarity over per-cluster LRUs,
  consulted before the dispatch; no modelled protocol reads its state.
- Scorer numerics and artifacts, band-swap tables, the HMM sidecar: arbitrary
  scores and verdicts stand for them. Scores are integers, so nothing is said of
  floating point.
- Wire syntax field by field, headers, URLs, connections (`translate`, `sse`,
  `providers`): the models keep kinds of events, errors and parts.
- Users and end-user identities: single upserts keyed by an identity.
- The rest of the admin surface and of the front end, generated code beyond the
  statements of the modelled tables, installers, and the research code under
  `claude/`, `qwen/` and `router-bench/`: I/O, wiring, or not part of the
  serving system.
