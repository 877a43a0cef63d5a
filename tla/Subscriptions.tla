--------------------------- MODULE Subscriptions ---------------------------
(***************************************************************************)
(* A caller's own subscription: what its upstream says of the quota left   *)
(* (proxy/usage), and the turns that are served on it, around it or not at *)
(* all because of what was heard (usage_bypass.go, subsidy.go,             *)
(* ProxyMessages and ProxyOpenAIChatCompletion in service.go).             *)
(*                                                                         *)
(* The plans are the upstream's; the router knows of them what the headers *)
(* of its own answers say.  An answer may report both windows, one or none.*)
(***************************************************************************)
EXTENDS Naturals, FiniteSets, FiniteSetsExt

CONSTANTS Callers,      \* who may call: the slots and the kinds of their requests, the windows they use
          Spent,        \* levels of use: 0..Spent, Spent being exhaustedFraction
          Constrained,  \* windowConstrainedFraction
          Length,       \* Length[w]: how long window w of a plan is
          TTL,          \* the floor of a reading's life
          MaxTime       \* bound of the clock

Windows == {"primary", "secondary"}
Tokens == {"claude", "codex"}
TokenOf == [anthropic |-> "claude", openai |-> "codex"]
Surfaces == {"messages", "chat"}

\* A kind of request: what is presented, where, and the installation's settings for it.
Kind == [tokens : SUBSET Tokens, surface : Surfaces, wants : DOMAIN TokenOf, gate : Nat,
         only : BOOLEAN, off : BOOLEAN, key : BOOLEAN, owner : [Surfaces -> Tokens]]

ASSUME SubscriptionsAssumption ==
  /\ Constrained \in 1..Spent
  /\ Length \in [Windows -> Nat \ {0}]
  /\ {Spent, TTL, MaxTime} \subseteq Nat
  /\ \A who \in Callers : who.kinds \subseteq Kind /\ who.uses \subseteq Tokens \X Windows
  /\ \A who \in Callers : \A c \in who.kinds :
       c.only => c.owner[c.surface] \in c.tokens /\ ~c.off

VARIABLES caller, \* who calls
          now,    \* the observer's clock
          plan,   \* plan[c][w]: how much of the window is used, and when it resets
          data,   \* Observer.data: the snapshot of each credential heard of
          heard,  \* what each plan last reported to the observer
          req     \* the requests in flight

vars == <<caller, now, plan, data, heard, req>>

-----------------------------------------------------------------------------
(* Snapshots.                                                              *)

Unreported == [used |-> 0, len |-> 0, resetAt |-> 0]

Present(window) == window.len > 0 \/ window.used > 0

FreshFor(s) ==
  LET Life(window) == IF window.resetAt > s.at /\ window.resetAt - s.at < window.len
                        THEN window.resetAt - s.at ELSE window.len
  IN Max({TTL} \cup {Life(s.win[w]) : w \in {v \in Windows : s.win[v].used >= Constrained}})

Fresh(s) == now - s.at <= FreshFor(s)

Holds(c) == c \in DOMAIN data

Stale(c) == Holds(c) /\ ~Fresh(data[c])

Seen(c) == Holds(c) /\ Fresh(data[c])

Used(c) == Max({data[c].win[w].used : w \in Windows})

Exhausted(c) == Seen(c) /\ Used(c) >= Spent

\* CostFactor by its level; a credential never heard of is taken to have slack.
ObservedOrOptimisticFactor(c) == IF Seen(c) THEN Used(c) ELSE 0

Merged(c, said) ==
  [w \in Windows |-> IF Present(said[w]) THEN said[w]
                     ELSE IF Seen(c) THEN data[c].win[w] ELSE Unreported]

Record(c, said) ==
  IF \E w \in Windows : Present(said[w])
    THEN data' = [d \in DOMAIN data \cup {c} |->
                    IF d = c THEN [win |-> Merged(c, said), at |-> now] ELSE data[d]]
    ELSE UNCHANGED data

-----------------------------------------------------------------------------
(* Upstream.                                                               *)

\* What the headers of an answer say: Codex does not say when a window resets.
Report(c, ws, dated) ==
  [w \in Windows |-> IF w \in ws
                       THEN [used |-> plan[c][w].used, len |-> Length[w],
                             resetAt |-> IF dated THEN plan[c][w].resets ELSE 0]
                       ELSE Unreported]

Reports(c) ==
  {Report(c, ws, FALSE) : ws \in SUBSET Windows}
    \cup {Report(c, ws, c = "claude") : ws \in SUBSET Windows}

Statuses(c) == IF \E w \in Windows : plan[c][w].used = Spent
                 THEN {"throttled", "lost"}
                 ELSE {"final", "rejected", "throttled", "lost"}

\* Readings of the account behind the router's own key.
KeyReports == {[w \in Windows |-> [used |-> Spent, len |-> Length[w], resetAt |-> 0]]}

-----------------------------------------------------------------------------
(* Requests.                                                               *)

Idle == [phase |-> "idle"]

Begun(c) == [phase |-> "turn", client |-> c, provider |-> "none", with |-> "none",
             bypass |-> FALSE, again |-> FALSE, drop |-> {}]

\* presentSubscriptionTokens
Presents(q, t) == ~q.client.off /\ t \in q.client.tokens

Only(q) == q.client.only

Messages(q) == q.client.surface = "messages"

\* A provider with a key of the router's, or with a subscription of the caller's.
Enabled(q) ==
  LET own == {p \in DOMAIN TokenOf : TokenOf[p] \in q.client.tokens}
  IN IF Only(q) THEN own ELSE own \cup (IF q.client.key THEN {"anthropic"} ELSE {}) \cup {"openai", "other"}

Step(r, q) == req' = [req EXCEPT ![r] = q]

\* Between requests nothing happens before a read's own clean-up.
Ready(r, phase) == req[r].phase = phase /\ req[r].drop = {}

Expired(q, ts) == {t \in ts : Presents(q, t) /\ Stale(t)}

\* resolveAndInjectCredentials: "key" is the router's or the installation's, if there is one.
Resolved(q, provider, suppressed) ==
  IF /\ provider \in DOMAIN TokenOf
     /\ Presents(q, TokenOf[provider])
     /\ ~(provider = "anthropic" /\ suppressed)
    THEN TokenOf[provider]
    ELSE "key"

OnPlan(q) == q.with \in Tokens

ClaudeExhausted(q) == Presents(q, "claude") /\ Exhausted("claude")

Engaged(q) ==
  LET t == TokenOf[q.client.wants]
  IN /\ q.client.gate # 0
     /\ q.client.wants \in Enabled(q)
     /\ Presents(q, t)
     /\ Seen(t) => ~Exhausted(t) /\ (Only(q) \/ Used(t) < q.client.gate)

Init ==
  /\ caller \in Callers
  /\ now = 0
  /\ plan = [c \in Tokens |-> [w \in Windows |-> [used |-> 0, resets |-> Length[w]]]]
  /\ data = <<>>
  /\ heard = [c \in Tokens |-> [w \in Windows |-> [used |-> 0, resets |-> 0]]]
  /\ req = [r \in caller.slots |-> Idle]

Begin(r) ==
  /\ req[r].phase = "idle"
  /\ \E c \in caller.kinds : Step(r, Begun(c))
  /\ UNCHANGED <<caller, now, plan, data, heard>>

\* Observer.Snapshot found an expired entry: drop it, unless it was replaced.
DropUnchecked(r) ==
  /\ req[r].phase # "idle" /\ req[r].drop # {}
  /\ data' = [c \in DOMAIN data \ req[r].drop |-> data[c]]
  /\ Step(r, [req[r] EXCEPT !.drop = {}])
  /\ UNCHANGED <<caller, now, plan, heard>>

Drop(r) ==
  /\ req[r].phase # "idle" /\ req[r].drop # {}
  /\ data' = [c \in DOMAIN data \ {d \in req[r].drop : Stale(d)} |-> data[c]]
  /\ Step(r, [req[r] EXCEPT !.drop = {}])
  /\ UNCHANGED <<caller, now, plan, heard>>

\* The subsidy factors are read, then the gate; a pin or an authoritative strategy outranks it.
Bypass(r) ==
  LET q == req[r] IN
  /\ Ready(r, "turn")
  /\ Engaged(q)
  /\ Step(r, [q EXCEPT !.provider = q.client.wants, !.bypass = TRUE, !.drop = Expired(q, Tokens),
                       !.with = TokenOf[q.client.wants],
                       !.phase = IF Messages(q) /\ q.client.wants = "anthropic" THEN "bypassed" ELSE "dispatch"])
  /\ UNCHANGED <<caller, now, plan, data, heard>>

Route(r) ==
  LET q == req[r] IN
  /\ Ready(r, "turn")
  /\ \E p \in Enabled(q) :
       Step(r, [q EXCEPT !.provider = p, !.phase = "dispatch", !.drop = Expired(q, Tokens)])
  /\ UNCHANGED <<caller, now, plan, data, heard>>

\* A spent Claude token is left out where a key can serve the turn instead.
Suppressed(q) == Messages(q) /\ q.client.key /\ ClaudeExhausted(q)

Dispatch(r) ==
  LET q == req[r] IN
  /\ Ready(r, "dispatch")
  /\ Step(r, [q EXCEPT !.with = Resolved(q, q.provider, Suppressed(q)),
                       !.drop = IF Messages(q) /\ q.client.key THEN Expired(q, {"claude"}) ELSE {},
                       !.phase = IF Only(q) /\ ~(Messages(q) /\ q.bypass) THEN "guard" ELSE "sent"])
  /\ UNCHANGED <<caller, now, plan, data, heard>>

\* Without credits: a turn that its own plan does not serve is refused.
Guard(r) ==
  LET q == req[r] IN
  /\ Ready(r, "guard")
  /\ IF OnPlan(q) /\ ~(Messages(q) /\ ClaudeExhausted(q))
       THEN Step(r, [q EXCEPT !.phase = "sent", !.drop = Expired(q, {"claude"})])
       ELSE Step(r, Idle)
  /\ UNCHANGED <<caller, now, plan, data, heard>>

\* Mutant: by the provider that answered, whoever's account it was.
HeardAnyway(q, said) ==
  IF q.provider \in DOMAIN TokenOf THEN Record(TokenOf[q.provider], said) ELSE UNCHANGED data

\* The observer takes an answer for a token's only if that token was sent, and is the caller's.
Heard(q, said) ==
  IF q.with \in q.client.tokens THEN Record(q.with, said) ELSE UNCHANGED data

Answers(r, status) ==
  LET t == req[r].with IN
  IF status = "lost"
  THEN UNCHANGED <<data, heard>>
  ELSE \E said \in Reports(t) :
         /\ Heard(req[r], said)
         /\ heard' = [heard EXCEPT ![t] = [w \in Windows |->
              IF Present(said[w]) THEN [used |-> said[w].used, resets |-> plan[t][w].resets] ELSE @[w]]]

Retryable == {"throttled", "lost"}

BypassAnswered(r) ==
  LET q == req[r]
      Then(status) ==
        IF status \in Retryable /\ ~Only(q)
          THEN \E p \in Enabled(q) :
                 Step(r, [q EXCEPT !.bypass = FALSE, !.provider = p, !.with = "none", !.phase = "dispatch",
                                   !.drop = Expired(q, Tokens)])
          ELSE Step(r, Idle)
  IN /\ Ready(r, "bypassed")
     /\ \E status \in Statuses(req[r].with) : Answers(r, status) /\ Then(status)
     /\ UNCHANGED <<caller, now, plan>>

\* Mutant: credits are not looked at.
RetriesOnKeyAnyway(q, status) ==
  /\ Messages(q) /\ q.with = "claude" /\ q.client.key /\ ~q.again
  /\ status \in Retryable \cup {"rejected"}

\* Subscription failover: the same model, once, on the router's key.
RetriesOnKey(q, status) ==
  /\ Messages(q) /\ q.with = "claude" /\ q.client.key /\ ~Only(q) /\ ~q.again
  /\ status \in Retryable \cup {"rejected"}

PlanAnswered(r) ==
  LET q == req[r]
      Then(status) == Step(r, IF RetriesOnKey(q, status) THEN [q EXCEPT !.with = "key", !.again = TRUE] ELSE Idle)
  IN /\ Ready(r, "sent") /\ OnPlan(q)
     /\ \E status \in Statuses(req[r].with) : Answers(r, status) /\ Then(status)
     /\ UNCHANGED <<caller, now, plan>>

\* The router's key was answered; a failed model gives way to the requested one on Anthropic.
KeyAnswered(r) ==
  LET q == req[r] IN
  /\ Ready(r, "sent") /\ ~OnPlan(q)
  /\ \E said \in KeyReports : Heard(q, said)
  /\ \/ Step(r, Idle)
     \/ /\ Messages(q) /\ q.provider # "anthropic" /\ "anthropic" \in Enabled(q) /\ ~q.again
        /\ Step(r, [q EXCEPT !.provider = "anthropic", !.again = TRUE,
                             !.with = Resolved(q, "anthropic", Suppressed(q)),
                             !.drop = IF q.client.key THEN Expired(q, {"claude"}) ELSE {}])
  /\ UNCHANGED <<caller, now, plan, heard>>

Sweep ==
  /\ \E c \in DOMAIN data : Stale(c)
  /\ data' = [c \in {d \in DOMAIN data : ~Stale(d)} |-> data[c]]
  /\ UNCHANGED <<caller, now, plan, heard, req>>

\* The caller uses the plan, through the router or elsewhere.
Use(t, w) ==
  /\ plan[t][w].used < Spent
  /\ plan' = [plan EXCEPT ![t][w].used = @ + 1]
  /\ UNCHANGED <<caller, now, data, heard, req>>

\* A window whose time has come is as new.
Tick ==
  /\ now < MaxTime
  /\ now' = now + 1
  /\ plan' = [c \in Tokens |-> [w \in Windows |->
                IF plan[c][w].resets > now' THEN plan[c][w]
                ELSE [used |-> 0, resets |-> plan[c][w].resets + Length[w]]]]
  /\ UNCHANGED <<caller, data, heard, req>>

Next ==
  \/ \E r \in caller.slots : \/ Begin(r) \/ Drop(r) \/ Bypass(r) \/ Route(r) \/ Dispatch(r) \/ Guard(r)
                         \/ BypassAnswered(r) \/ PlanAnswered(r) \/ KeyAnswered(r)
  \/ \E u \in caller.uses : Use(u[1], u[2])
  \/ Sweep \/ Tick

Spec == Init /\ [][Next]_vars

-----------------------------------------------------------------------------
(* Properties.                                                             *)

(* A plan that answered near the cap of a window is not taken for slack    *)
(* before that window resets, whatever was answered, swept or dropped      *)
(* since: not by the gate, and not by the scorer's discount.               *)
NearCapIsRemembered ==
  \A t \in Tokens, w \in Windows :
    heard[t][w].used >= Constrained /\ now < heard[t][w].resets
      => ObservedOrOptimisticFactor(t) >= heard[t][w].used

(* What the observer holds of a token is what the upstream last said of    *)
(* that token's own plan: never what it said of the router's key, which    *)
(* served the turn after the token was spent, or of another token.         *)
ReadingsAreOwn ==
  \A t \in DOMAIN data, w \in Windows :
    Present(data[t].win[w]) => data[t].win[w].used = heard[t][w].used

(* A request of an organisation without credits is sent on its caller's    *)
(* own plan or not at all, through bypass, failover and retry, whatever    *)
(* the answers of other requests change between its checks and its call.   *)
WithoutCreditsOnlyThePlan ==
  \A r \in caller.slots : req[r].phase \in {"sent", "bypassed"} /\ Only(req[r]) => OnPlan(req[r])

(* usage.go, Exhausted: "the upstream 429s until the window resets".  A    *)
(* plan is held spent only while a spent window of it has yet to reset.    *)
SpentUntilReset ==
  \A t \in Tokens : Exhausted(t) =>
    \E w \in Windows : LET window == data[t].win[w]
                       IN window.used >= Spent /\ ~(window.resetAt \in 1..(now - 1))
=============================================================================
