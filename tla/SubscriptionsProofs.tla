------------------------ MODULE SubscriptionsProofs ------------------------
(***************************************************************************)
(* What Subscriptions keeps for any callers and any number of requests in  *)
(* flight, windows of any length and any bound of the clock:               *)
(* a plan heard to be near its cap is remembered until it resets, readings *)
(* are those of the token's own plan, and a request without credits is     *)
(* sent on its caller's plan or not at all.                                *)
(***************************************************************************)
EXTENDS Subscriptions, FiniteSetTheorems, TLAPS

-----------------------------------------------------------------------------
(* How long a reading lives.                                               *)

LEMMA MaxOfThree ==
  ASSUME NEW a \in Nat, NEW b \in Nat, NEW c \in Nat, NEW S \in SUBSET {a, b, c}, S # {}
  PROVE  Max(S) \in S /\ \A y \in S : Max(S) >= y
<1>1. \E x \in S : \A y \in S : x >= y
  <2> SUFFICES ASSUME \A x \in S : \E y \in S : y > x PROVE FALSE
    BY SMT
  <2>1. PICK w \in S : TRUE
    OBVIOUS
  <2>2. PICK x \in S : x > w
    OBVIOUS
  <2>3. PICK y \in S : y > x
    OBVIOUS
  <2>4. PICK z \in S : z > y
    OBVIOUS
  <2> QED
    BY <2>2, <2>3, <2>4
<1> QED
  BY <1>1 DEF Max

Level == 0..Spent
Window == [used : Level, len : Nat, resetAt : Nat]
Snapshot == [win : [Windows -> Window], at : Nat]

\* What freshFor waits for a window.
Life(s, window) ==
  IF window.resetAt > s.at /\ window.resetAt - s.at < window.len
    THEN window.resetAt - s.at ELSE window.len

LEMMA Constants ==
  /\ Spent \in Nat /\ TTL \in Nat /\ MaxTime \in Nat /\ Constrained \in Nat
  /\ 0 < Constrained /\ Constrained <= Spent
  /\ \A w \in Windows : Length[w] \in Nat /\ Length[w] > 0
<1>1. Spent \in Nat /\ TTL \in Nat /\ MaxTime \in Nat
  BY SubscriptionsAssumption
<1>2. Constrained \in 1..Spent
  BY SubscriptionsAssumption
<1>3. \A w \in Windows : Length[w] \in Nat \ {0}
  BY SubscriptionsAssumption
<1> QED
  BY <1>1, <1>2, <1>3

LEMMA LifeTyped ==
  ASSUME NEW s \in Snapshot, NEW window \in Window
  PROVE  Life(s, window) \in Nat
<1>1. s.at \in Nat /\ window.resetAt \in Nat /\ window.len \in Nat
  BY DEF Snapshot, Window
<1> QED
  BY <1>1 DEF Life

\* A snapshot outlives each of its windows that is near its cap.
LEMMA OutlivesItsWindows ==
  ASSUME NEW s \in Snapshot
  PROVE  /\ FreshFor(s) \in Nat
         /\ \A w \in Windows : s.win[w].used >= Constrained => FreshFor(s) >= Life(s, s.win[w])
<1> DEFINE near == {v \in Windows : s.win[v].used >= Constrained}
           lives == {TTL} \cup {Life(s, s.win[w]) : w \in near}
           p == Life(s, s.win["primary"])
           q == Life(s, s.win["secondary"])
<1>1. s.win["primary"] \in Window /\ s.win["secondary"] \in Window
  BY DEF Snapshot, Windows
<1>2. p \in Nat /\ q \in Nat /\ TTL \in Nat
  BY <1>1, LifeTyped, Constants
<1>3. FreshFor(s) = Max(lives)
  BY DEF FreshFor, Life
<1> HIDE DEF p, q
<1>4. lives \in SUBSET {TTL, p, q} /\ TTL \in lives
  BY DEF p, q, Windows
<1>5. \A w \in Windows : s.win[w].used >= Constrained => Life(s, s.win[w]) \in lives
  OBVIOUS
<1> HIDE DEF lives
<1>6. Max(lives) \in lives /\ \A y \in lives : Max(lives) >= y
  BY <1>2, <1>4, MaxOfThree
<1> QED
  BY <1>2, <1>3, <1>4, <1>5, <1>6

-----------------------------------------------------------------------------
(* Types.                                                                  *)

Phases == {"turn", "dispatch", "guard", "bypassed", "sent"}
Providers == {"none", "anthropic", "openai", "other"}

Request ==
  [phase : Phases, client : Kind, provider : Providers,
   with : Tokens \cup {"none", "key"}, bypass : BOOLEAN, again : BOOLEAN, drop : SUBSET Tokens]

\* A turn runs on a token only if its caller presents it; a turn that the gate
\* left to the dispatch of a Messages request runs on the Codex plan, and
\* whoever has no credits is sent on a plan.
Proper(q) ==
  /\ q.phase = "turn" => ~q.bypass
  /\ q.with \in Tokens => q.with \in q.client.tokens
  /\ q.phase = "bypassed" => q.with \in Tokens
  /\ q.phase = "dispatch" /\ q.bypass /\ Messages(q) => q.provider = "openai" /\ Presents(q, "codex")
  /\ q.phase = "sent" /\ Only(q) => OnPlan(q)

Fits(q) == q = Idle \/ (q \in Request /\ Proper(q))

Plans == [Tokens -> [Windows -> [used : Level, resets : Nat]]]

TypeOK ==
  /\ caller \in Callers
  /\ now \in Nat
  /\ plan \in Plans /\ \A c \in Tokens, w \in Windows :
       now < plan[c][w].resets /\ plan[c][w].resets <= now + Length[w]
  /\ DOMAIN data \subseteq Tokens /\ \A c \in DOMAIN data : data[c] \in Snapshot /\ data[c].at <= now
  /\ heard \in Plans
  /\ req = [r \in caller.slots |-> req[r]] /\ \A r \in caller.slots : Fits(req[r])

LEMMA KindTyped ==
  ASSUME NEW c \in Kind
  PROVE  /\ c.tokens \subseteq Tokens /\ c.surface \in Surfaces /\ c.wants \in {"anthropic", "openai"}
         /\ c.only \in BOOLEAN /\ c.off \in BOOLEAN /\ c.key \in BOOLEAN
  BY DEF Kind, TokenOf

LEMMA RequestTyped ==
  ASSUME TypeOK, NEW r \in caller.slots, req[r].phase # "idle"
  PROVE  /\ req[r] \in Request /\ Proper(req[r]) /\ req[r].client \in Kind
         /\ req[r].phase \in Phases /\ req[r].drop \subseteq Tokens
<1>1. Idle.phase = "idle"
  BY DEF Idle
<1>2. req[r] \in Request /\ Proper(req[r])
  BY <1>1 DEF TypeOK, Fits
<1> QED
  BY <1>2 DEF Request

LEMMA IdleFits == Fits(Idle)
  BY DEF Fits

\* A request step leaves every other request alone.
LEMMA StepFits ==
  ASSUME TypeOK, NEW r \in caller.slots, NEW q, Fits(q), Step(r, q), UNCHANGED caller
  PROVE  req' = [s \in caller'.slots |-> req'[s]] /\ \A s \in caller'.slots : Fits(req'[s])
<1>1. \A s \in caller.slots : req'[s] = IF s = r THEN q ELSE req[s]
  BY DEF TypeOK, Step
<1>2. req' = [s \in caller.slots |-> req'[s]]
  BY DEF TypeOK, Step
<1> QED
  BY <1>1, <1>2 DEF TypeOK

-----------------------------------------------------------------------------
(* Requests.                                                               *)

LEMMA EnabledProviders ==
  ASSUME NEW q
  PROVE  Enabled(q) \subseteq {"anthropic", "openai", "other"}
  BY DEF Enabled, TokenOf

LEMMA ExpiredTokens == ASSUME NEW q, NEW ts \in SUBSET Tokens PROVE Expired(q, ts) \subseteq Tokens
  BY DEF Expired

\* Whatever is resolved for a request, it is a key or a token it presents.
LEMMA ResolvedTyped ==
  ASSUME NEW q, NEW provider, NEW suppressed \in BOOLEAN
  PROVE  /\ Resolved(q, provider, suppressed) \in Tokens \cup {"key"}
         /\ Resolved(q, provider, suppressed) \in Tokens =>
              Resolved(q, provider, suppressed) \in q.client.tokens
         /\ provider = "openai" /\ Presents(q, "codex") =>
              Resolved(q, provider, suppressed) = "codex"
  BY DEF Resolved, Presents, TokenOf, Tokens

Requests(r) ==
  \/ Begin(r) \/ Drop(r) \/ Bypass(r) \/ Route(r) \/ Dispatch(r) \/ Guard(r)
  \/ BypassAnswered(r) \/ PlanAnswered(r) \/ KeyAnswered(r)

\* Every step of a request leaves it well formed.
LEMMA RequestSteps ==
  ASSUME TypeOK, NEW r \in caller.slots, Requests(r)
  PROVE  UNCHANGED <<caller, now, plan>> /\ \E q : Fits(q) /\ Step(r, q)
<1> DEFINE q == req[r]
<1>0. caller \in Callers
  BY DEF TypeOK
<1>1. CASE Begin(r)
  <2>1. PICK c \in Kind : Step(r, Begun(c))
    BY <1>0, <1>1, SubscriptionsAssumption DEF Begin
  <2>2. Begun(c) \in Request /\ Proper(Begun(c))
    BY DEF Begun, Request, Phases, Providers, Proper, Tokens, OnPlan, Only, Messages
  <2> QED
    BY <1>1, <2>1, <2>2 DEF Begin, Fits
<1>2. CASE Drop(r)
  <2> DEFINE x == [q EXCEPT !.drop = {}]
  <2>1. q \in Request /\ Proper(q) /\ Step(r, x)
    BY <1>2, RequestTyped DEF Drop
  <2> HIDE DEF q
  <2>2. x \in Request /\ x.phase = q.phase /\ x.client = q.client /\ x.with = q.with
        /\ x.bypass = q.bypass /\ x.provider = q.provider
    BY <2>1 DEF Request
  <2> HIDE DEF x
  <2>3. Proper(x)
    BY <2>1, <2>2 DEF Proper, OnPlan, Only, Messages, Presents
  <2> QED
    BY <1>2, <2>1, <2>2, <2>3 DEF Drop, Fits
<1>3. CASE Bypass(r)
  <2> DEFINE phase == IF Messages(q) /\ q.client.wants = "anthropic" THEN "bypassed" ELSE "dispatch"
             drop == Expired(q, Tokens)
             with == TokenOf[q.client.wants]
             x == [q EXCEPT !.provider = q.client.wants, !.bypass = TRUE, !.drop = drop,
                            !.with = with, !.phase = phase]
  <2>1. q \in Request /\ Proper(q) /\ q.client \in Kind /\ Step(r, x) /\ Engaged(q)
    BY <1>3, RequestTyped DEF Bypass, Ready
  <2>2. /\ q.client.wants \in {"anthropic", "openai"} /\ with \in Tokens
        /\ q.client.wants = "openai" => with = "codex"
    BY <2>1, KindTyped DEF TokenOf, Tokens
  <2>3. Presents(q, with) /\ with \in q.client.tokens
    BY <2>1 DEF Engaged, Presents
  <2>4. drop \subseteq Tokens /\ phase \in {"bypassed", "dispatch"}
        /\ (phase = "dispatch" /\ Messages(q) => q.client.wants = "openai")
    BY <2>2, ExpiredTokens
  <2> HIDE DEF q, phase, drop, with
  <2>5. x \in Request
    BY <2>1, <2>2, <2>4 DEF Request, Providers, Phases
  <2>6. x.phase = phase /\ x.client = q.client /\ x.with = with /\ x.provider = q.client.wants
    BY <2>1 DEF Request
  <2> HIDE DEF x
  <2>7. Proper(x)
    BY <2>2, <2>3, <2>4, <2>6 DEF Proper, OnPlan, Only, Messages, Presents
  <2> QED
    BY <1>3, <2>1, <2>5, <2>7 DEF Bypass, Fits
<1>4. CASE Route(r)
  <2>1. PICK p \in Enabled(q) :
          Step(r, [q EXCEPT !.provider = p, !.phase = "dispatch", !.drop = Expired(q, Tokens)])
    BY <1>4 DEF Route
  <2> DEFINE drop == Expired(q, Tokens)
             x == [q EXCEPT !.provider = p, !.phase = "dispatch", !.drop = drop]
  <2>2. q \in Request /\ Proper(q) /\ q.client \in Kind /\ q.phase = "turn"
    BY <1>4, RequestTyped DEF Route, Ready
  <2>3. drop \subseteq Tokens /\ p \in Providers
    BY <2>2, ExpiredTokens, EnabledProviders DEF Providers
  <2> HIDE DEF q, drop
  <2>4. x \in Request
    BY <2>2, <2>3 DEF Request, Phases
  <2>5. x.phase = "dispatch" /\ x.client = q.client /\ x.with = q.with /\ x.bypass = q.bypass
    BY <2>2 DEF Request
  <2> HIDE DEF x
  <2>6. Proper(x)
    BY <2>2, <2>5 DEF Proper, OnPlan, Only, Messages, Presents
  <2> QED
    BY <1>4, <2>1, <2>4, <2>6 DEF Route, Fits, x, drop, q
<1>5. CASE Dispatch(r)
  <2> DEFINE with == Resolved(q, q.provider, Suppressed(q))
             drop == IF Messages(q) /\ q.client.key THEN Expired(q, {"claude"}) ELSE {}
             phase == IF Only(q) /\ ~(Messages(q) /\ q.bypass) THEN "guard" ELSE "sent"
             x == [q EXCEPT !.with = with, !.drop = drop, !.phase = phase]
  <2>1. q \in Request /\ Proper(q) /\ q.phase = "dispatch" /\ Step(r, x)
    BY <1>5, RequestTyped DEF Dispatch, Ready
  <2>2. Suppressed(q) \in BOOLEAN
    BY DEF Suppressed
  <2>3. /\ with \in Tokens \cup {"key"} /\ (with \in Tokens => with \in q.client.tokens)
        /\ q.provider = "openai" /\ Presents(q, "codex") => with = "codex"
    BY <2>2, ResolvedTyped
  <2>4. drop \subseteq Tokens /\ phase \in {"guard", "sent"}
    BY ExpiredTokens DEF Tokens
  <2>5. phase = "sent" /\ Only(q) => Messages(q) /\ q.bypass
    OBVIOUS
  <2> HIDE DEF q, with, drop, phase
  <2>6. x \in Request
    BY <2>1, <2>3, <2>4 DEF Request, Phases
  <2>7. x.phase = phase /\ x.client = q.client /\ x.with = with
    BY <2>1 DEF Request
  <2> HIDE DEF x
  <2>8. Proper(x)
    BY <2>1, <2>3, <2>4, <2>5, <2>7 DEF Proper, OnPlan, Only, Messages, Tokens
  <2> QED
    BY <1>5, <2>1, <2>6, <2>8 DEF Dispatch, Fits
<1>6. CASE Guard(r)
  <2> DEFINE drop == Expired(q, {"claude"})
             x == [q EXCEPT !.phase = "sent", !.drop = drop]
  <2>1. q \in Request /\ Proper(q)
        /\ (Step(r, Idle) \/ (OnPlan(q) /\ Step(r, x)))
    BY <1>6, RequestTyped DEF Guard, Ready
  <2>2. drop \subseteq Tokens
    BY ExpiredTokens DEF Tokens
  <2> HIDE DEF q, drop
  <2>3. x \in Request
    BY <2>1, <2>2 DEF Request, Phases
  <2>4. x.phase = "sent" /\ x.client = q.client /\ x.with = q.with
    BY <2>1 DEF Request
  <2> HIDE DEF x
  <2>5. OnPlan(q) => Proper(x)
    BY <2>1, <2>4 DEF Proper, OnPlan, Only
  <2> QED
    BY <1>6, <2>1, <2>3, <2>5, IdleFits DEF Guard, Fits
<1>7. CASE BypassAnswered(r)
  <2>1. q \in Request /\ Proper(q) /\ UNCHANGED <<caller, now, plan>>
    BY <1>7, RequestTyped DEF BypassAnswered, Ready
  <2>2. CASE Step(r, Idle)
    BY <2>1, <2>2, IdleFits
  <2>3. CASE ~Step(r, Idle)
    <3> DEFINE drop == Expired(q, Tokens)
    <3>1. PICK p \in Enabled(q) :
            Step(r, [q EXCEPT !.bypass = FALSE, !.provider = p, !.with = "none",
                              !.phase = "dispatch", !.drop = drop])
      BY <1>7, <2>3 DEF BypassAnswered
    <3> DEFINE x == [q EXCEPT !.bypass = FALSE, !.provider = p, !.with = "none",
                              !.phase = "dispatch", !.drop = drop]
    <3>2. drop \subseteq Tokens /\ p \in Providers
      BY ExpiredTokens, EnabledProviders DEF Providers
    <3> HIDE DEF q, drop
    <3>3. x \in Request
      BY <2>1, <3>2 DEF Request, Phases
    <3>4. x.phase = "dispatch" /\ x.client = q.client /\ x.with = "none" /\ ~x.bypass
      BY <2>1 DEF Request
    <3> HIDE DEF x
    <3>5. Proper(x)
      BY <3>4 DEF Proper, OnPlan, Only, Tokens
    <3> QED
      BY <2>1, <3>1, <3>3, <3>5 DEF Fits, x
  <2> QED
    BY <2>2, <2>3
<1>8. CASE PlanAnswered(r)
  <2> DEFINE x == [q EXCEPT !.with = "key", !.again = TRUE]
  <2>1. /\ q \in Request /\ Proper(q) /\ q.phase = "sent" /\ UNCHANGED <<caller, now, plan>>
        /\ Step(r, Idle) \/ (Step(r, x) /\ ~Only(q))
    BY <1>8, RequestTyped DEF PlanAnswered, Ready, RetriesOnKey
  <2> HIDE DEF q
  <2>2. x \in Request
    BY <2>1 DEF Request
  <2>3. x.phase = "sent" /\ x.client = q.client /\ x.with = "key"
    BY <2>1 DEF Request
  <2> HIDE DEF x
  <2>4. ~Only(q) => Proper(x)
    BY <2>3 DEF Proper, OnPlan, Only, Tokens
  <2> QED
    BY <2>1, <2>2, <2>4, IdleFits DEF Fits
<1>9. CASE KeyAnswered(r)
  <2> DEFINE with == Resolved(q, "anthropic", Suppressed(q))
             drop == IF q.client.key THEN Expired(q, {"claude"}) ELSE {}
             x == [q EXCEPT !.provider = "anthropic", !.again = TRUE, !.with = with, !.drop = drop]
  <2>1. /\ q \in Request /\ Proper(q) /\ q.phase = "sent" /\ UNCHANGED <<caller, now, plan>>
        /\ ~OnPlan(q) /\ (Step(r, Idle) \/ Step(r, x))
    BY <1>9, RequestTyped DEF KeyAnswered, Ready
  <2>2. Suppressed(q) \in BOOLEAN
    BY DEF Suppressed
  <2>3. with \in Tokens \cup {"key"} /\ (with \in Tokens => with \in q.client.tokens)
    BY <2>2, ResolvedTyped
  <2>4. drop \subseteq Tokens
    BY ExpiredTokens DEF Tokens
  <2> HIDE DEF q, with, drop
  <2>5. x \in Request
    BY <2>1, <2>3, <2>4 DEF Request, Providers
  <2>6. x.phase = "sent" /\ x.client = q.client /\ x.with = with
    BY <2>1 DEF Request
  <2> HIDE DEF x
  <2>7. Proper(x)
    BY <2>1, <2>3, <2>6 DEF Proper, OnPlan, Only
  <2> QED
    BY <2>1, <2>5, <2>7, IdleFits DEF Fits
<1> QED
  BY <1>1, <1>2, <1>3, <1>4, <1>5, <1>6, <1>7, <1>8, <1>9 DEF Requests

-----------------------------------------------------------------------------
(* Readings.  While a window that was heard to be near its cap has yet to  *)
(* reset, the snapshot still has it as it was heard and is still fresh:    *)
(* the window's life ends no sooner than the window.                       *)

Hearing == [used : Level, resets : Nat]

Remembers(s, w, h) ==
  /\ s.win[w].used = h.used /\ s.win[w].len = Length[w]
  /\ s.win[w].resetAt \in {0, h.resets} /\ h.resets <= s.at + Length[w]

Remembered(t, w) ==
  heard[t][w].used >= Constrained /\ now < heard[t][w].resets =>
    t \in DOMAIN data /\ Remembers(data[t], w, heard[t][w])

Kept == \A t \in Tokens, w \in Windows : Remembered(t, w)

LEMMA FreshWhileNear ==
  ASSUME NEW s \in Snapshot, NEW w \in Windows, NEW h \in Hearing, Remembers(s, w, h),
         h.used >= Constrained, NEW n \in Nat, s.at <= n, n < h.resets
  PROVE  n - s.at <= FreshFor(s)
<1> DEFINE window == s.win[w]
           life == Life(s, window)
<1>1. s.at \in Nat /\ window \in Window /\ h.resets \in Nat /\ Length[w] \in Nat
  BY Constants DEF Snapshot, Hearing
<1>2. FreshFor(s) \in Nat /\ FreshFor(s) >= life
  BY OutlivesItsWindows DEF Remembers
<1>3. life \in Nat
  BY <1>1, LifeTyped
<1>4. window.len = Length[w] /\ window.resetAt \in {0, h.resets} /\ h.resets <= s.at + Length[w]
  BY DEF Remembers
<1>5. h.resets <= s.at + life
  <2>1. CASE window.resetAt = 0
    <3>1. ~(0 > s.at)
      BY <1>1
    <3>2. life = Length[w]
      BY <1>4, <2>1, <3>1 DEF Life
    <3> QED
      BY <1>4, <3>2
  <2>2. CASE window.resetAt = h.resets
    <3>1. CASE h.resets - s.at < Length[w]
      <4>1. h.resets > s.at
        BY <1>1
      <4>2. life = h.resets - s.at
        BY <1>4, <2>2, <3>1, <4>1 DEF Life
      <4> QED
        BY <1>1, <4>2
    <3>2. CASE ~(h.resets - s.at < Length[w])
      <4>1. life = Length[w]
        BY <1>4, <2>2, <3>2 DEF Life
      <4> QED
        BY <1>4, <4>1
    <3> QED
      BY <3>1, <3>2
  <2> QED
    BY <1>4, <2>1, <2>2
<1> HIDE DEF life, window
<1> QED
  BY <1>1, <1>2, <1>3, <1>5

LEMMA SeenWhileNear ==
  ASSUME TypeOK, Kept, NEW t \in Tokens, NEW w \in Windows,
         heard[t][w].used >= Constrained, now < heard[t][w].resets
  PROVE  Seen(t)
<1>1. t \in DOMAIN data /\ Remembers(data[t], w, heard[t][w])
  BY DEF Kept, Remembered
<1>2. data[t] \in Snapshot /\ data[t].at <= now /\ now \in Nat /\ heard[t][w] \in Hearing
  BY <1>1 DEF TypeOK, Plans, Hearing
<1>3. now - data[t].at <= FreshFor(data[t])
  BY <1>1, <1>2, FreshWhileNear
<1> QED
  BY <1>1, <1>3 DEF Seen, Holds, Fresh

Forgets(S) ==
  /\ data' = [c \in DOMAIN data \ {d \in S : Stale(d)} |-> data[c]]
  /\ UNCHANGED heard

Learns(t, said) ==
  /\ Record(t, said)
  /\ heard' = [heard EXCEPT ![t] = [w \in Windows |->
       IF Present(said[w]) THEN [used |-> said[w].used, resets |-> plan[t][w].resets]
       ELSE heard[t][w]]]

\* A step of a request either learns what an upstream said of the plan the
\* request ran on, or forgets what is stale, or neither.
LEMMA DataSteps ==
  ASSUME TypeOK, NEW r \in caller.slots, Requests(r)
  PROVE  \/ UNCHANGED <<data, heard>>
         \/ \E S : Forgets(S)
         \/ \E t \in Tokens : \E said \in Reports(t) : Learns(t, said)
<1> DEFINE q == req[r]
<1>1. CASE Begin(r) \/ Bypass(r) \/ Route(r) \/ Dispatch(r) \/ Guard(r)
  BY <1>1 DEF Begin, Bypass, Route, Dispatch, Guard
<1>2. CASE Drop(r)
  BY <1>2 DEF Drop, Forgets
<1>3. ASSUME NEW status, Answers(r, status), q.with \in Tokens, q.with \in q.client.tokens
      PROVE  \/ UNCHANGED <<data, heard>>
             \/ \E t \in Tokens : \E said \in Reports(t) : Learns(t, said)
  BY <1>3 DEF Answers, Heard, Learns
<1>4. CASE BypassAnswered(r)
  <2>1. q.with \in Tokens /\ q.with \in q.client.tokens
    BY <1>4, RequestTyped DEF BypassAnswered, Ready, Proper
  <2>2. PICK status : Answers(r, status)
    BY <1>4 DEF BypassAnswered
  <2> QED
    BY <1>3, <2>1, <2>2
<1>5. CASE PlanAnswered(r)
  <2>1. q.with \in Tokens /\ q.with \in q.client.tokens
    BY <1>5, RequestTyped DEF PlanAnswered, Ready, Proper, OnPlan
  <2>2. PICK status : Answers(r, status)
    BY <1>5 DEF PlanAnswered
  <2> QED
    BY <1>3, <2>1, <2>2
<1>6. CASE KeyAnswered(r)
  <2>1. q.with \notin Tokens /\ q.client \in Kind
    BY <1>6, RequestTyped DEF KeyAnswered, Ready, OnPlan
  <2>2. q.with \notin q.client.tokens
    BY <2>1, KindTyped
  <2> QED
    BY <1>6, <2>2 DEF KeyAnswered, Heard
<1> QED
  BY <1>1, <1>2, <1>4, <1>5, <1>6 DEF Requests

\* What an answer says of a window is what the plan has.
LEMMA ReportTyped ==
  ASSUME TypeOK, NEW t \in Tokens, NEW said \in Reports(t), NEW w \in Windows
  PROVE  /\ said[w] \in Window /\ plan[t][w].resets \in Nat
         /\ plan[t][w].resets <= now + Length[w]
         /\ Present(said[w]) =>
              /\ said[w].used = plan[t][w].used /\ said[w].len = Length[w]
              /\ said[w].resetAt \in {0, plan[t][w].resets}
<1>1. /\ plan[t][w].used \in Level /\ plan[t][w].resets \in Nat
      /\ plan[t][w].resets <= now + Length[w] /\ Length[w] \in Nat /\ 0 \in Level
  BY Constants DEF TypeOK, Plans, Level
<1>2. PICK ws \in SUBSET Windows, dated \in BOOLEAN : said = Report(t, ws, dated)
  BY DEF Reports
<1>3. said[w] = IF w \in ws THEN [used |-> plan[t][w].used, len |-> Length[w],
                                  resetAt |-> IF dated THEN plan[t][w].resets ELSE 0]
                ELSE Unreported
  BY <1>2 DEF Report
<1>4. CASE w \in ws
  <2>1. /\ said[w].used = plan[t][w].used /\ said[w].len = Length[w]
        /\ said[w].resetAt = IF dated THEN plan[t][w].resets ELSE 0
    BY <1>3, <1>4
  <2> QED
    BY <1>1, <1>3, <1>4, <2>1 DEF Window
<1>5. CASE w \notin ws
  <2>1. said[w] = Unreported /\ ~(0 > 0)
    BY <1>3, <1>5
  <2> QED
    BY <1>1, <2>1 DEF Window, Unreported, Present
<1> QED
  BY <1>4, <1>5

\* Every window after an answer: the one it reported, or what was known.
LEMMA Learned ==
  ASSUME TypeOK, NEW t \in Tokens, NEW said \in Reports(t), Learns(t, said)
  PROVE  /\ \A c \in Tokens, w \in Windows :
              heard'[c][w] = IF c = t /\ Present(said[w])
                             THEN [used |-> said[w].used, resets |-> plan[t][w].resets]
                             ELSE heard[c][w]
         /\ \A c \in DOMAIN data \ {t} : c \in DOMAIN data' /\ data'[c] = data[c]
         /\ DOMAIN data' \subseteq DOMAIN data \cup {t}
         /\ \/ UNCHANGED data /\ \A w \in Windows : ~Present(said[w])
            \/ /\ t \in DOMAIN data' /\ data'[t].at = now
               /\ data'[t].win = Merged(t, said)
               /\ data'[t] = [win |-> Merged(t, said), at |-> now]
<1>1. /\ \A c \in Tokens, w \in Windows :
           heard'[c][w] = IF c = t /\ Present(said[w])
                          THEN [used |-> said[w].used, resets |-> plan[t][w].resets]
                          ELSE heard[c][w]
  BY DEF Learns, TypeOK, Plans
<1>2. CASE \A w \in Windows : ~Present(said[w])
  BY <1>1, <1>2 DEF Learns, Record
<1>3. CASE \E w \in Windows : Present(said[w])
  <2> DEFINE new == [win |-> Merged(t, said), at |-> now]
  <2>1. data' = [d \in DOMAIN data \cup {t} |-> IF d = t THEN new ELSE data[d]]
    BY <1>3 DEF Learns, Record
  <2>2. new.at = now /\ new.win = Merged(t, said)
    OBVIOUS
  <2> HIDE DEF new
  <2>3. /\ DOMAIN data' = {t} \cup DOMAIN data
        /\ data'[t] = new /\ \A c \in DOMAIN data \ {t} : data'[c] = data[c]
    BY <2>1
  <2> QED
    BY <1>1, <2>2, <2>3 DEF new
<1> QED
  BY <1>2, <1>3

LEMMA MergedTyped ==
  ASSUME TypeOK, NEW t \in Tokens, NEW said \in Reports(t), NEW w \in Windows
  PROVE  /\ Merged(t, said) \in [Windows -> Window]
         /\ Merged(t, said)[w] = IF Present(said[w]) THEN said[w]
                                 ELSE IF Seen(t) THEN data[t].win[w] ELSE Unreported
<1>1. Unreported \in Window
  BY Constants DEF Unreported, Window, Level
<1>2. \A v \in Windows : Seen(t) => data[t].win[v] \in Window
  BY DEF Seen, Holds, TypeOK, Snapshot
<1>3. \A v \in Windows : said[v] \in Window
  BY ReportTyped
<1> QED
  BY <1>1, <1>2, <1>3 DEF Merged

\* The types, after a step of a request.
LEMMA DataTyped ==
  ASSUME TypeOK, UNCHANGED <<caller, now, plan>>,
         \/ UNCHANGED <<data, heard>>
         \/ \E S : Forgets(S)
         \/ \E t \in Tokens : \E said \in Reports(t) : Learns(t, said)
  PROVE  /\ DOMAIN data' \subseteq Tokens
         /\ \A c \in DOMAIN data' : data'[c] \in Snapshot /\ data'[c].at <= now'
         /\ heard' \in Plans
<1>1. /\ DOMAIN data \subseteq Tokens /\ heard \in Plans /\ now \in Nat
      /\ \A c \in DOMAIN data : data[c] \in Snapshot /\ data[c].at <= now
  BY DEF TypeOK
<1>2. CASE UNCHANGED <<data, heard>>
  BY <1>1, <1>2
<1>3. ASSUME NEW S, Forgets(S)
      PROVE  /\ DOMAIN data' \subseteq Tokens
             /\ \A c \in DOMAIN data' : data'[c] \in Snapshot /\ data'[c].at <= now'
             /\ heard' \in Plans
  BY <1>1, <1>3 DEF Forgets
<1>4. ASSUME NEW t \in Tokens, NEW said \in Reports(t), Learns(t, said)
      PROVE  /\ DOMAIN data' \subseteq Tokens
             /\ \A c \in DOMAIN data' : data'[c] \in Snapshot /\ data'[c].at <= now'
             /\ heard' \in Plans
  <2>1. [win |-> Merged(t, said), at |-> now] \in Snapshot
    <3>1. Merged(t, said) \in [Windows -> Window]
      <4>1. "primary" \in Windows
        BY DEF Windows
      <4> QED
        BY <4>1, MergedTyped
    <3> QED
      BY <1>1, <3>1 DEF Snapshot
  <2>2. /\ DOMAIN data' \subseteq Tokens
        /\ \A c \in DOMAIN data' : data'[c] \in Snapshot /\ data'[c].at <= now'
    <3>1. \A c \in DOMAIN data' : c # t => c \in DOMAIN data /\ data'[c] = data[c]
      BY <1>4, Learned
    <3>2. t \in DOMAIN data' =>
             \/ t \in DOMAIN data /\ data'[t] = data[t]
             \/ data'[t] = [win |-> Merged(t, said), at |-> now] /\ data'[t].at = now
      BY <1>4, Learned
    <3> QED
      BY <1>1, <1>4, <2>1, <3>1, <3>2, Learned
  <2>3. heard' \in Plans
    <3> DEFINE row == [w \in Windows |->
                         IF Present(said[w]) THEN [used |-> said[w].used, resets |-> plan[t][w].resets]
                         ELSE heard[t][w]]
    <3>1. ASSUME NEW w \in Windows PROVE row[w] \in Hearing
      <4>1. said[w].used \in Level /\ plan[t][w].resets \in Nat /\ heard[t][w] \in Hearing
        BY <1>1, ReportTyped DEF Window, Plans, Hearing
      <4> QED
        BY <4>1 DEF Hearing
    <3>2. row \in [Windows -> Hearing]
      BY <3>1
    <3>3. heard' = [heard EXCEPT ![t] = row]
      BY <1>4 DEF Learns
    <3> HIDE DEF row
    <3> QED
      BY <1>1, <3>2, <3>3 DEF Plans, Hearing
  <2> QED
    BY <2>2, <2>3
<1> QED
  BY <1>2, <1>3, <1>4

\* What is remembered and whose it is, after a step of a request.
LEMMA DataKept ==
  ASSUME TypeOK, Kept, ReadingsAreOwn, UNCHANGED <<caller, now, plan>>,
         \/ UNCHANGED <<data, heard>>
         \/ \E S : Forgets(S)
         \/ \E t \in Tokens : \E said \in Reports(t) : Learns(t, said)
  PROVE  Kept' /\ ReadingsAreOwn'
<1>1. CASE UNCHANGED <<data, heard>>
  BY <1>1 DEF Kept, Remembered, Remembers, ReadingsAreOwn, Present
<1>2. ASSUME NEW S, Forgets(S) PROVE Kept' /\ ReadingsAreOwn'
  <2>1. ASSUME NEW t \in Tokens, NEW w \in Windows,
               heard[t][w].used >= Constrained, now < heard[t][w].resets
        PROVE  t \in DOMAIN data' /\ data'[t] = data[t] /\ Remembers(data[t], w, heard[t][w])
    <3>1. Seen(t) /\ Remembered(t, w)
      BY <2>1, SeenWhileNear DEF Kept
    <3> QED
      BY <1>2, <2>1, <3>1 DEF Forgets, Stale, Seen, Holds, Remembered
  <2>2. Kept'
    BY <1>2, <2>1 DEF Kept, Remembered, Forgets, Remembers
  <2>3. \A t \in DOMAIN data' : t \in DOMAIN data /\ data'[t] = data[t]
    BY <1>2 DEF Forgets
  <2> QED
    BY <1>2, <2>2, <2>3 DEF Forgets, ReadingsAreOwn, Present
<1>3. ASSUME NEW t \in Tokens, NEW said \in Reports(t), Learns(t, said)
      PROVE  Kept' /\ ReadingsAreOwn'
  <2> DEFINE News(w) == [used |-> said[w].used, resets |-> plan[t][w].resets]
  <2>1. /\ \A c \in Tokens, w \in Windows :
             heard'[c][w] = IF c = t /\ Present(said[w]) THEN News(w) ELSE heard[c][w]
        /\ \A c \in DOMAIN data \ {t} : c \in DOMAIN data' /\ data'[c] = data[c]
        /\ DOMAIN data' \subseteq DOMAIN data \cup {t}
        /\ \/ UNCHANGED data /\ \A w \in Windows : ~Present(said[w])
           \/ /\ t \in DOMAIN data' /\ data'[t].at = now
              /\ data'[t].win = Merged(t, said)
    BY <1>3, Learned
  <2>2. \A w \in Windows : Merged(t, said)[w] = IF Present(said[w]) THEN said[w]
                                 ELSE IF Seen(t) THEN data[t].win[w] ELSE Unreported
    BY MergedTyped
  <2>3. \A w \in Windows : News(w).used = said[w].used /\ News(w).resets = plan[t][w].resets
    OBVIOUS
  <2>4. ~Present(Unreported)
    <3>1. ~(0 > 0)
      OBVIOUS
    <3> QED
      BY <3>1 DEF Unreported, Present
  <2> HIDE DEF News
  <2>5. ASSUME NEW c \in DOMAIN data', NEW w \in Windows, Present(data'[c].win[w])
        PROVE  data'[c].win[w].used = heard'[c][w].used
    <3>1. CASE c # t
      <4>1. c \in DOMAIN data /\ c \in Tokens /\ data'[c] = data[c] /\ heard'[c][w] = heard[c][w]
        BY <2>1, <3>1 DEF TypeOK
      <4> QED
        BY <2>5, <4>1 DEF ReadingsAreOwn
    <3>2. CASE c = t /\ UNCHANGED data /\ \A v \in Windows : ~Present(said[v])
      <4>1. heard'[c][w] = heard[c][w]
        BY <2>1, <3>2
      <4> QED
        BY <2>5, <3>2, <4>1 DEF ReadingsAreOwn
    <3>3. CASE c = t /\ data'[t].win = Merged(t, said)
      <4>1. CASE Present(said[w])
        BY <2>1, <2>2, <2>3, <3>3, <4>1
      <4>2. CASE ~Present(said[w])
        <5>1. data'[t].win[w] = IF Seen(t) THEN data[t].win[w] ELSE Unreported
          BY <2>2, <3>3, <4>2
        <5>2. Seen(t) /\ data'[t].win[w] = data[t].win[w]
          BY <2>4, <2>5, <3>3, <5>1
        <5>3. t \in DOMAIN data /\ heard'[t][w] = heard[t][w]
          BY <2>1, <4>2, <5>2 DEF Seen, Holds
        <5> QED
          BY <2>5, <3>3, <5>2, <5>3 DEF ReadingsAreOwn
      <4> QED
        BY <4>1, <4>2
    <3> QED
      BY <2>1, <3>1, <3>2, <3>3
  <2>6. ASSUME NEW c \in Tokens, NEW w \in Windows,
               heard'[c][w].used >= Constrained, now < heard'[c][w].resets
        PROVE  c \in DOMAIN data' /\ Remembers(data'[c], w, heard'[c][w])
    <3>1. CASE c # t
      <4>1. heard'[c][w] = heard[c][w]
        BY <2>1, <3>1
      <4>2. c \in DOMAIN data /\ Remembers(data[c], w, heard[c][w])
        BY <2>6, <4>1 DEF Kept, Remembered
      <4> QED
        BY <2>1, <3>1, <4>1, <4>2
    <3>2. CASE c = t /\ UNCHANGED data /\ \A v \in Windows : ~Present(said[v])
      <4>1. heard'[c][w] = heard[c][w]
        BY <2>1, <3>2
      <4>2. c \in DOMAIN data /\ Remembers(data[c], w, heard[c][w])
        BY <2>6, <4>1 DEF Kept, Remembered
      <4> QED
        BY <3>2, <4>1, <4>2
    <3>3. CASE c = t /\ t \in DOMAIN data' /\ data'[t].at = now /\ data'[t].win = Merged(t, said)
      <4>1. CASE Present(said[w])
        <5>1. data'[t].win[w] = said[w] /\ heard'[t][w] = News(w)
          BY <2>1, <2>2, <3>3, <4>1
        <5>2. /\ said[w].len = Length[w] /\ said[w].resetAt \in {0, plan[t][w].resets}
              /\ plan[t][w].resets <= now + Length[w]
          BY <4>1, ReportTyped
        <5> QED
          BY <2>3, <3>3, <5>1, <5>2 DEF Remembers
      <4>2. CASE ~Present(said[w])
        <5>1. heard'[t][w] = heard[t][w]
          BY <2>1, <4>2
        <5>2. Seen(t) /\ t \in DOMAIN data /\ Remembers(data[t], w, heard[t][w])
          BY <2>6, <3>3, <5>1, SeenWhileNear DEF Kept, Remembered
        <5>3. data'[t].win[w] = data[t].win[w]
          BY <2>2, <3>3, <4>2, <5>2
        <5>4. heard[t][w].resets <= now + Length[w]
          <6>1. /\ data[t].at <= now /\ data[t].at \in Nat /\ now \in Nat /\ Length[w] \in Nat
                /\ heard[t][w].resets \in Nat /\ heard[t][w].resets <= data[t].at + Length[w]
            BY <5>2, Constants DEF TypeOK, Snapshot, Plans, Remembers
          <6> QED
            BY <6>1
        <5> QED
          BY <3>3, <5>1, <5>2, <5>3, <5>4 DEF Remembers
      <4> QED
        BY <4>1, <4>2
    <3> QED
      BY <2>1, <3>1, <3>2, <3>3
  <2>7. ReadingsAreOwn'
    BY <2>5 DEF ReadingsAreOwn, Present
  <2>8. Kept'
    BY <2>6 DEF Kept, Remembered, Remembers
  <2> QED
    BY <2>7, <2>8
<1> QED
  BY <1>1, <1>2, <1>3

-----------------------------------------------------------------------------
(* The whole.                                                              *)

Invariant == TypeOK /\ Kept /\ ReadingsAreOwn

LEMMA InitHolds == Init => Invariant
<1> SUFFICES ASSUME Init PROVE Invariant
  OBVIOUS
<1>1. data = <<>> /\ DOMAIN data = {}
  BY DEF Init
<1>2. 0 \in Level /\ now = 0 /\ now \in Nat
  BY Constants DEF Init, Level
<1>3. /\ plan \in Plans
      /\ \A c \in Tokens, w \in Windows :
           now < plan[c][w].resets /\ plan[c][w].resets <= now + Length[w]
  <2>1. \A c \in Tokens, w \in Windows : plan[c][w] = [used |-> 0, resets |-> Length[w]]
    BY DEF Init
  <2>2. \A w \in Windows : 0 < Length[w] /\ Length[w] <= 0 + Length[w] /\ Length[w] \in Nat
    BY Constants
  <2>3. plan \in Plans
    BY <1>2, <2>2 DEF Init, Plans
  <2>4. ASSUME NEW c \in Tokens, NEW w \in Windows PROVE plan[c][w].resets = Length[w]
    <3> DEFINE whole == [used |-> 0, resets |-> Length[w]]
    <3>1. plan[c][w] = whole
      BY <2>1
    <3>2. whole.resets = Length[w]
      OBVIOUS
    <3> HIDE DEF whole
    <3> QED
      BY <3>1, <3>2
  <2> QED
    BY <1>2, <2>2, <2>3, <2>4
<1>4. heard \in Plans /\ \A c \in Tokens, w \in Windows : heard[c][w].used = 0
  BY <1>2 DEF Init, Plans
<1>5. TypeOK
  BY <1>1, <1>2, <1>3, <1>4, IdleFits DEF TypeOK, Init
<1>6. ~(0 >= Constrained)
  BY Constants
<1> QED
  BY <1>1, <1>4, <1>5, <1>6 DEF Invariant, Kept, Remembered, ReadingsAreOwn

LEMMA RequestKeeps ==
  ASSUME Invariant, NEW r \in caller.slots, Requests(r)
  PROVE  Invariant'
<1>1. TypeOK /\ Kept /\ ReadingsAreOwn
  BY DEF Invariant
<1>2. UNCHANGED <<caller, now, plan>> /\ \E q : Fits(q) /\ Step(r, q)
  BY <1>1, RequestSteps
<1>3. \/ UNCHANGED <<data, heard>>
      \/ \E S : Forgets(S)
      \/ \E t \in Tokens : \E said \in Reports(t) : Learns(t, said)
  BY <1>1, DataSteps
<1>4. Kept' /\ ReadingsAreOwn'
  BY <1>1, <1>2, <1>3, DataKept
<1>5. /\ DOMAIN data' \subseteq Tokens
      /\ \A c \in DOMAIN data' : data'[c] \in Snapshot /\ data'[c].at <= now'
      /\ heard' \in Plans
  BY <1>1, <1>2, <1>3, DataTyped
<1>6. req' = [s \in caller'.slots |-> req'[s]] /\ \A s \in caller'.slots : Fits(req'[s])
  BY <1>1, <1>2, StepFits
<1>7. TypeOK'
  BY <1>1, <1>2, <1>5, <1>6 DEF TypeOK
<1> QED
  BY <1>4, <1>7 DEF Invariant

LEMMA SweepKeeps == ASSUME Invariant, Sweep PROVE Invariant'
<1>1. TypeOK /\ Kept /\ ReadingsAreOwn /\ UNCHANGED <<caller, now, plan, heard, req>>
  BY DEF Invariant, Sweep
<1>2. Forgets(Tokens)
  <2>1. {d \in DOMAIN data : ~Stale(d)} = DOMAIN data \ {d \in Tokens : Stale(d)}
    BY <1>1 DEF TypeOK
  <2> QED
    BY <1>1, <2>1 DEF Sweep, Forgets
<1>3. Kept' /\ ReadingsAreOwn'
  BY <1>1, <1>2, DataKept
<1>4. /\ DOMAIN data' \subseteq Tokens
      /\ \A c \in DOMAIN data' : data'[c] \in Snapshot /\ data'[c].at <= now'
      /\ heard' \in Plans
  BY <1>1, <1>2, DataTyped
<1>5. TypeOK'
  BY <1>1, <1>4 DEF TypeOK
<1> QED
  BY <1>3, <1>5 DEF Invariant

LEMMA UseKeeps ==
  ASSUME Invariant, NEW t \in Tokens, NEW w \in Windows, Use(t, w)
  PROVE  Invariant'
<1>1. TypeOK /\ Kept /\ ReadingsAreOwn /\ UNCHANGED <<caller, now, data, heard, req>>
  BY DEF Invariant, Use
<1>2. plan[t][w].used \in Level /\ plan[t][w].used < Spent /\ plan \in Plans
  BY <1>1 DEF TypeOK, Plans, Use
<1>3. plan[t][w].used + 1 \in Level
  BY <1>2, Constants DEF Level
<1>4. plan' = [plan EXCEPT ![t][w].used = plan[t][w].used + 1]
  BY DEF Use
<1>5. plan' \in Plans /\ \A c \in Tokens, v \in Windows : plan'[c][v].resets = plan[c][v].resets
  BY <1>2, <1>3, <1>4 DEF Plans
<1>6. TypeOK'
  BY <1>1, <1>5 DEF TypeOK
<1> QED
  BY <1>1, <1>6 DEF Invariant, Kept, Remembered, Remembers, ReadingsAreOwn, Present

LEMMA TickKeeps == ASSUME Invariant, Tick PROVE Invariant'
<1>1. /\ TypeOK /\ Kept /\ ReadingsAreOwn /\ UNCHANGED <<caller, data, heard, req>>
      /\ now' = now + 1 /\ now \in Nat /\ plan \in Plans
  BY DEF Invariant, Tick, TypeOK
<1>2. \A c \in Tokens, w \in Windows :
        plan'[c][w] = IF plan[c][w].resets > now' THEN plan[c][w]
                      ELSE [used |-> 0, resets |-> plan[c][w].resets + Length[w]]
  BY DEF Tick
<1>3. ASSUME NEW c \in Tokens, NEW w \in Windows
      PROVE  /\ plan'[c][w] \in Hearing
             /\ now' < plan'[c][w].resets /\ plan'[c][w].resets <= now' + Length[w]
  <2> DEFINE p == plan[c][w]
             n == now'
  <2>1. /\ p \in Hearing /\ p.resets \in Nat /\ now < p.resets /\ p.resets <= now + Length[w]
        /\ Length[w] \in Nat /\ Length[w] > 0 /\ n \in Nat /\ n = now + 1 /\ 0 \in Level
    BY <1>1, Constants DEF TypeOK, Plans, Hearing, Level
  <2>2. plan'[c][w] = IF p.resets > n THEN p ELSE [used |-> 0, resets |-> p.resets + Length[w]]
    BY <1>2
  <2> HIDE DEF p, n
  <2>3. CASE p.resets > n
    <3>1. p.resets <= n + Length[w] /\ n < p.resets
      <4> DEFINE m == p.resets
                 long == Length[w]
      <4>1. m \in Nat /\ long \in Nat /\ now \in Nat /\ m <= now + long /\ n = now + 1 /\ m > n
        BY <1>1, <2>1, <2>3
      <4> HIDE DEF m, long
      <4>2. m <= n + long /\ n < m
        BY <4>1
      <4> QED
        BY <4>2 DEF m, long
    <3>2. plan'[c][w] = p
      BY <2>2, <2>3
    <3> QED
      BY <2>1, <3>1, <3>2 DEF n
  <2>4. CASE ~(p.resets > n)
    <3>0. p.resets = n
      <4> DEFINE m == p.resets
      <4>1. m \in Nat /\ now \in Nat /\ now < m /\ n = now + 1 /\ ~(m > n)
        BY <1>1, <2>1, <2>4
      <4> HIDE DEF m
      <4>2. m = n
        BY <4>1
      <4> QED
        BY <4>2 DEF m
    <3>1. p.resets = n /\ p.resets + Length[w] \in Nat
      BY <2>1, <3>0
    <3>2. plan'[c][w] \in Hearing /\ plan'[c][w].resets = n + Length[w]
      BY <2>1, <2>2, <2>4, <3>1 DEF Hearing
    <3>3. n < n + Length[w] /\ n + Length[w] <= n + Length[w]
      BY <2>1
    <3> QED
      BY <3>2, <3>3 DEF n
  <2> QED
    BY <2>3, <2>4
<1>4. plan' \in Plans
  BY <1>3 DEF Plans, Hearing, Tick
<1>5. \A c \in DOMAIN data : data[c].at <= now'
  <2>1. \A c \in DOMAIN data : data[c].at \in Nat /\ data[c].at <= now
    BY <1>1 DEF TypeOK, Snapshot
  <2> QED
    BY <1>1, <2>1
<1>6. TypeOK'
  <2>1. now' \in Nat
    BY <1>1
  <2>2. \A c \in Tokens, w \in Windows :
           now' < plan'[c][w].resets /\ plan'[c][w].resets <= now' + Length[w]
    BY <1>3
  <2>3. /\ caller \in Callers /\ DOMAIN data \subseteq Tokens
        /\ \A c \in DOMAIN data : data[c] \in Snapshot
        /\ heard \in Plans
        /\ req = [r \in caller.slots |-> req[r]] /\ \A r \in caller.slots : Fits(req[r])
    BY <1>1 DEF TypeOK
  <2> QED
    BY <1>1, <1>4, <1>5, <2>1, <2>2, <2>3 DEF TypeOK
<1>7. Kept'
  <2>1. \A c \in Tokens, w \in Windows : now' < heard[c][w].resets => now < heard[c][w].resets
    BY <1>1 DEF TypeOK, Plans
  <2> QED
    BY <1>1, <2>1 DEF Kept, Remembered, Remembers
<1> QED
  BY <1>1, <1>6, <1>7 DEF Invariant, ReadingsAreOwn, Present

LEMMA NextKeeps == Invariant /\ [Next]_vars => Invariant'
<1> SUFFICES ASSUME Invariant, [Next]_vars PROVE Invariant'
  OBVIOUS
<1>1. CASE \E r \in caller.slots : Requests(r)
  BY <1>1, RequestKeeps
<1>2. CASE \E u \in caller.uses : Use(u[1], u[2])
  <2>1. PICK u \in caller.uses : Use(u[1], u[2])
    BY <1>2
  <2>2. u[1] \in Tokens /\ u[2] \in Windows
    BY SubscriptionsAssumption DEF Invariant, TypeOK
  <2> QED
    BY <2>1, <2>2, UseKeeps
<1>3. CASE Sweep
  BY <1>3, SweepKeeps
<1>4. CASE Tick
  BY <1>4, TickKeeps
<1>5. CASE UNCHANGED vars
  <2>1. TypeOK'
    BY <1>5 DEF vars, Invariant, TypeOK
  <2> QED
    BY <1>5, <2>1 DEF vars, Invariant, Kept, Remembered, Remembers, ReadingsAreOwn, Present
<1> QED
  BY <1>1, <1>2, <1>3, <1>4, <1>5 DEF Next, Requests

LEMMA AlwaysInvariant == Spec => []Invariant
  BY InitHolds, NextKeeps, PTL DEF Spec

\* A plan that answered near the cap of a window is not taken for slack before
\* that window resets: Observer.freshFor keeps a reading at least as long,
\* Record keeps what an answer leaves out, and Snapshot and Sweep drop only
\* what is stale when they hold the lock.
THEOREM NearCapIsAlwaysRemembered == Spec => []NearCapIsRemembered
<1>1. Invariant => NearCapIsRemembered
  <2> SUFFICES ASSUME Invariant, NEW t \in Tokens, NEW w \in Windows,
                      heard[t][w].used >= Constrained, now < heard[t][w].resets
               PROVE  ObservedOrOptimisticFactor(t) >= heard[t][w].used
    BY DEF NearCapIsRemembered
  <2>1. Seen(t) /\ t \in DOMAIN data /\ data[t].win[w].used = heard[t][w].used
    BY SeenWhileNear DEF Invariant, Kept, Remembered, Remembers
  <2>2. ObservedOrOptimisticFactor(t) = Used(t)
    BY <2>1 DEF ObservedOrOptimisticFactor
  <2> DEFINE p == data[t].win["primary"].used
             q == data[t].win["secondary"].used
             S == {data[t].win[v].used : v \in Windows}
  <2>3. p \in Nat /\ q \in Nat
    BY <2>1 DEF Invariant, TypeOK, Snapshot, Windows, Window, Level
  <2>4. S = {p, q} /\ data[t].win[w].used \in S /\ Used(t) = Max(S)
    BY DEF Windows, Used
  <2> HIDE DEF p, q, S
  <2>5. S \in SUBSET {p, q, q} /\ S # {}
    BY <2>4
  <2>6. \A y \in S : Max(S) >= y
    BY <2>3, <2>5, MaxOfThree
  <2> QED
    BY <2>1, <2>2, <2>4, <2>6
<1> QED
  BY <1>1, AlwaysInvariant, PTL

\* What the observer holds of a token is what the upstream last said of that
\* token's own plan (withUsageObserver, ObserveUpstreamHeaders).
THEOREM ReadingsAreAlwaysOwn == Spec => []ReadingsAreOwn
<1>1. Invariant => ReadingsAreOwn
  BY DEF Invariant
<1> QED
  BY <1>1, AlwaysInvariant, PTL

\* Without credits, a request is sent on its caller's own plan or not at all,
\* through bypass, failover and retry (the guards of ProxyMessages and
\* ProxyOpenAIChatCompletion).
THEOREM WithoutCreditsAlwaysOnlyThePlan == Spec => []WithoutCreditsOnlyThePlan
<1>1. Invariant => WithoutCreditsOnlyThePlan
  <2> SUFFICES ASSUME Invariant, NEW r \in caller.slots,
                      req[r].phase \in {"sent", "bypassed"}, Only(req[r])
               PROVE  OnPlan(req[r])
    BY DEF WithoutCreditsOnlyThePlan
  <2>1. Proper(req[r])
    BY RequestTyped DEF Invariant
  <2> QED
    BY <2>1 DEF Proper, OnPlan
<1> QED
  BY <1>1, AlwaysInvariant, PTL

=============================================================================
