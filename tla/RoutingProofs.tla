--------------------------- MODULE RoutingProofs ---------------------------
(***************************************************************************)
(* For any catalog, settings, requests and policies: what is served is     *)
(* offered to the caller, a stored pair is of peers, a model that ran into *)
(* the output cap steps aside, and the planner never finds that both       *)
(* directions of a switch pay.                                             *)
(***************************************************************************)
EXTENDS Routing, WellFoundedInduction, TLAPS

\* Multiplying by a natural keeps the sign of what is multiplied.
LEMMA PositiveProduct ==
  ASSUME NEW x \in Int, NEW k \in Nat, x * k > 0
  PROVE  x > 0
  BY SMT

\* What a token costs a caller, with or without a plan.
LEMMA PriceType ==
  ASSUME NEW m \in Models, NEW factors, \A n \in DOMAIN factors : factors[n] \in 0..Whole
  PROVE  EffectivePrice(m, factors) \in Nat
<1>1. Price[m] \in Nat /\ Whole \in Nat
  BY PlannerAssumption DEF PlannerAssumption
<1>2. (IF m \in DOMAIN factors THEN factors[m] ELSE Whole) \in Nat
  BY <1>1
<1> QED
  BY <1>1, <1>2, SMT DEF EffectivePrice

LEMMA MultType ==
  ASSUME NEW m \in Models, NEW cold \in BOOLEAN
  PROVE  Mult(m, cold) \in 0..Whole /\ Mult(m, cold) \in Nat /\ Whole - Mult(m, cold) \in Nat
  BY PlannerAssumption, SMT DEF PlannerAssumption, Mult

LEMMA ProductType == \A a, b \in Nat : a * b \in Nat
  BY SMT

\* Moving a warm prompt costs something or nothing.
LEMMA EvictionCostsNoLess ==
  ASSUME NEW m \in Models, NEW factors, \A n \in DOMAIN factors : factors[n] \in 0..Whole,
         NEW tokens \in Nat, NEW cold \in BOOLEAN
  PROVE  EvictionCost(m, tokens, cold, factors) \in Nat
<1>1. EffectivePrice(m, factors) \in Nat /\ Whole - Mult(m, cold) \in Nat
  BY PriceType, MultType
<1>2. EffectivePrice(m, factors) * (Whole - Mult(m, cold)) \in Nat
  BY <1>1, ProductType
<1>3. EffectivePrice(m, factors) * (Whole - Mult(m, cold)) * tokens \in Nat
  BY <1>2, ProductType
<1> QED
  BY <1>3 DEF EvictionCost

\* A switch that pays goes to a model whose token costs the caller less, the
\* discount of the cache included.
LEMMA PayingSwitchIsCheaper ==
  ASSUME NEW a \in Models, NEW b \in Models, NEW factors,
         \A n \in DOMAIN factors : factors[n] \in 0..Whole,
         NEW tokens \in Nat, NEW cold \in BOOLEAN, EVPositive(a, b, tokens, cold, factors)
  PROVE  EffectivePrice(a, factors) * Mult(a, cold) > EffectivePrice(b, factors) * Mult(b, cold)
<1> DEFINE pa == EffectivePrice(a, factors) * Mult(a, cold)
           pb == EffectivePrice(b, factors) * Mult(b, cold)
           k  == tokens * Horizon
           e  == EvictionCost(b, tokens, cold, factors)
<1>1. pa \in Nat /\ pb \in Nat
  BY PriceType, MultType, ProductType
<1>2. k \in Nat
  BY PlannerAssumption, ProductType DEF PlannerAssumption
<1>3. e \in Nat
  BY EvictionCostsNoLess
<1>4. Threshold \in Nat
  BY PlannerAssumption DEF PlannerAssumption
<1>5. (pa - pb) * k - e > Threshold
  BY DEF EVPositive, Savings
<1> HIDE DEF pa, pb, k, e
<1>6. pa - pb \in Int /\ (pa - pb) * k \in Int
  BY <1>1, <1>2, SMT
<1>7. (pa - pb) * k > 0
  BY <1>3, <1>4, <1>5, <1>6, SMT
<1>8. pa - pb > 0
  BY <1>2, <1>6, <1>7, PositiveProduct
<1>9. pa > pb
  BY <1>1, <1>8, SMT
<1> QED
  BY <1>9 DEF pa, pb

\* No two models each save money over the other: the planner does not flap.
THEOREM SwitchPaysOneWay ==
  ASSUME NEW a \in Models, NEW b \in Models, NEW factors,
         \A n \in DOMAIN factors : factors[n] \in 0..Whole,
         NEW tokens \in Nat, NEW cold \in BOOLEAN, EVPositive(a, b, tokens, cold, factors)
  PROVE  ~EVPositive(b, a, tokens, cold, factors)
<1> DEFINE pa == EffectivePrice(a, factors) * Mult(a, cold)
           pb == EffectivePrice(b, factors) * Mult(b, cold)
<1>1. pa \in Nat /\ pb \in Nat
  BY PriceType, MultType, ProductType
<1>2. pa > pb
  BY PayingSwitchIsCheaper
<1>3. EVPositive(b, a, tokens, cold, factors) => pb > pa
  BY PayingSwitchIsCheaper
<1> HIDE DEF pa, pb
<1> QED
  BY <1>1, <1>2, <1>3, SMT

\* Every switch that the planner makes for money stands: in every state the
\* model left behind does not win the session back on the same prompt.
THEOREM EVSwitchesStandAlways == Spec => []EVSwitchesStand
<1>1. EVSwitchesStand
  <2> SUFFICES ASSUME NEW req \in Requests, NEW fresh \in Available,
                      NEW cold \in BOOLEAN, cold = (~Warm(pin, req) \/ req.trimmed),
                      pin.model \in Models, EVPositive(pin.model, fresh, req.size, cold, CostOf(req))
               PROVE  ~EVPositive(fresh, pin.model, req.size, cold, CostOf(req))
    BY Zenon DEF EVSwitchesStand
  <2>1. fresh \in Models
    BY PlannerAssumption DEF PlannerAssumption
  <2>2. req.size \in Nat
    BY RoutingAssumption DEF RoutingAssumption
  <2>3. \A n \in DOMAIN CostOf(req) : CostOf(req)[n] \in 0..Whole
    BY RoutingAssumption DEF RoutingAssumption, CostOf
  <2> QED
    BY <2>1, <2>2, <2>3, SwitchPaysOneWay
<1> QED
  BY <1>1, PTL

-----------------------------------------------------------------------------
(* Choosing from a list.                                                   *)

\* A set of naturals has a least element.
LEMMA LeastExists ==
  ASSUME NEW S \in SUBSET Nat, S # {}
  PROVE  Min(S) \in S
<1> DEFINE Below == {p \in Nat \X Nat : p[1] < p[2]}
<1>1. IsWellFoundedOn(Below, Nat)
  BY NatLessThanWellFounded DEF OpToRel
<1> HIDE DEF Below
<1>2. PICK m \in S : \A k \in S : ~(<<k, m>> \in Below)
  BY <1>1, WFMin
<1>3. ASSUME NEW k \in S
      PROVE  m <= k
  <2>1. m \in Nat /\ k \in Nat /\ ~(<<k, m>> \in Below)
    BY <1>2
  <2> QED
    BY <2>1 DEF Below
<1> QED
  BY <1>3 DEF Min

\* The first of a list in a set is in both, and missing only if none is.
LEMMA FirstIsOne ==
  ASSUME NEW T, NEW list \in Seq(T), NEW set, NEW none
  PROVE  \/ First(list, set, none) = none
         \/ First(list, set, none) \in set \cap T
<1> DEFINE at == {i \in DOMAIN list : list[i] \in set}
<1>1. CASE at = {}
  BY <1>1 DEF First
<1>2. CASE at # {}
  <2>1. at \in SUBSET Nat
    OBVIOUS
  <2>2. Min(at) \in at
    BY <1>2, <2>1, LeastExists
  <2>3. First(list, set, none) = list[Min(at)]
    BY <1>2 DEF First
  <2> QED
    BY <2>2, <2>3
<1> QED
  BY <1>1, <1>2

LEMMA ResolveIsOffered ==
  ASSUME NEW m \in Models, NEW providers
  PROVE  \/ Resolve(m, providers) = NoProvider
         \/ Resolve(m, providers) \in providers \cap Providers
<1>1. Bindings[m] \in Seq(Providers)
  BY ScorerAssumption DEF ScorerAssumption
<1> QED
  BY <1>1, FirstIsOne DEF Resolve

LEMMA ArgmaxIsOne ==
  ASSUME NEW scores, NEW pool
  PROVE  Argmax(scores, pool) = NoModel \/ Argmax(scores, pool) \in pool \cap Models
<1> DEFINE best == {m \in pool : \A n \in pool : scores[n] <= scores[m]}
<1>1. Names \in Seq(Models)
  BY ScorerAssumption DEF ScorerAssumption
<1>2. First(Names, best, NoModel) = NoModel \/ First(Names, best, NoModel) \in best \cap Models
  BY <1>1, FirstIsOne
<1> QED
  BY <1>2 DEF Argmax

-----------------------------------------------------------------------------
(* Fresh decisions.                                                        *)

Slots == Models \cup {NoModel}
Holders == Providers \cup {NoProvider}

\* What a strategy is asked: the fields that bear on what it may answer.
Question(q) == q.providers \subseteq Providers

Whys == {"cluster", "explore", "bandit", "hmm", "rl"}

\* What a strategy answers: an open model of the pool at one of the caller's
\* providers, and a pair of peers unless the bandit drew it.
Answers(q, d) ==
  /\ d.model \in Models \ q.excluded
  /\ d.provider \in q.providers
  /\ q.images => d.model \notin TextOnly \/ Blind(d)
  /\ d.pair \in Slots /\ d.pairProvider \in Holders
  /\ d.why \in Whys
  /\ d.why # "bandit" => d.pair # d.model

\* A pool a decision may be drawn from.
Sound(q, pool) ==
  /\ pool \subseteq Models \ q.excluded
  /\ \A m \in pool : Resolve(m, q.providers) # NoProvider
  /\ q.images => pool \cap TextOnly = {} \/ pool \subseteq TextOnly

LEMMA SoftKeeps ==
  ASSUME NEW pool, NEW drop
  PROVE  /\ Soft(pool, drop) \subseteq pool
         /\ Soft(pool, drop) \cap drop = {} \/ Soft(pool, drop) \subseteq drop
  BY DEF Soft

LEMMA PoolIsSound ==
  ASSUME NEW q
  PROVE  Sound(q, Pool(q))
<1>1. Candidates \subseteq Models
  BY ScorerAssumption DEF ScorerAssumption, Candidates, ToSet
<1>2. Eligible(q) \subseteq Models \ q.excluded
      /\ \A m \in Eligible(q) : Resolve(m, q.providers) # NoProvider
  BY <1>1 DEF Eligible
<1> DEFINE tooled == IF q.tools THEN ToolPool(Eligible(q)) ELSE Eligible(q)
<1>3. tooled \subseteq Eligible(q)
  BY SoftKeeps DEF ToolPool
<1>4. Pool(q) = IF q.images THEN Soft(tooled, TextOnly) ELSE tooled
  BY DEF Pool
<1> HIDE DEF tooled
<1>5. Pool(q) \subseteq tooled
      /\ (q.images => Pool(q) \cap TextOnly = {} \/ Pool(q) \subseteq TextOnly)
  BY <1>4, SoftKeeps
<1> QED
  BY <1>2, <1>3, <1>5 DEF Sound

LEMMA OfferIsSound ==
  ASSUME NEW q
  PROVE  Sound(q, Offered(q))
<1> DEFINE base == {m \in ToSet(Names) \ q.excluded :
                      Window[m] >= q.size /\ Resolve(m, q.providers) # NoProvider}
           seen == IF q.images THEN Soft(base, TextOnly) ELSE base
<1>1. base \subseteq Models \ q.excluded /\ \A m \in base : Resolve(m, q.providers) # NoProvider
  BY ScorerAssumption DEF ScorerAssumption, ToSet
<1>2. Offered(q) = IF q.tools THEN Soft(seen, ToolUseLow) ELSE seen
  BY DEF Offered
<1> HIDE DEF base
<1>3. seen \subseteq base /\ (q.images => seen \cap TextOnly = {} \/ seen \subseteq TextOnly)
  BY SoftKeeps
<1> HIDE DEF seen
<1>4. Offered(q) \subseteq seen
  BY <1>2, SoftKeeps
<1> QED
  BY <1>1, <1>3, <1>4 DEF Sound

\* A model of a sound pool that is served at its own binding.
LEMMA ServedFromPool ==
  ASSUME NEW q, Question(q), NEW pool, Sound(q, pool), NEW m \in pool, NEW d,
         d.model = m, d.provider = Resolve(m, q.providers), DOMAIN d.scores = pool
  PROVE  /\ d.model \in Models \ q.excluded
         /\ d.provider \in q.providers
         /\ q.images => d.model \notin TextOnly \/ Blind(d)
<1>1. m \in Models \ q.excluded /\ Resolve(m, q.providers) # NoProvider
  BY DEF Sound
<1>2. Resolve(m, q.providers) \in q.providers
  BY <1>1, ResolveIsOffered
<1> QED
  BY <1>1, <1>2 DEF Sound, Blind

LEMMA PairedAnswers ==
  ASSUME NEW q, Question(q), NEW scores, Sound(q, DOMAIN scores), NEW m \in DOMAIN scores,
         NEW why \in Whys
  PROVE  /\ Answers(q, Paired(q, scores, m, why))
         /\ Paired(q, scores, m, why).scores = scores
<1> DEFINE pair == RunnerUp(scores, DOMAIN scores, m)
           d == Paired(q, scores, m, why)
<1>1. /\ d.model = m /\ d.provider = Resolve(m, q.providers)
      /\ d.pair = pair /\ d.scores = scores /\ d.why = why
      /\ d.pairProvider = IF pair = NoModel THEN NoProvider ELSE Resolve(pair, q.providers)
  BY DEF Paired, Decision
<1> HIDE DEF d
<1>2. pair \in Slots /\ (pair = NoModel \/ pair \in Models \ {m})
  BY ArgmaxIsOne DEF RunnerUp, Slots
<1>3. m # NoModel
  BY PlannerAssumption DEF PlannerAssumption, Sound
<1> HIDE DEF pair
<1>4. d.pairProvider \in Holders
  BY <1>1, <1>2, ResolveIsOffered DEF Holders, Slots
<1>5. d.pair # d.model
  BY <1>1, <1>2, <1>3
<1>6. /\ d.model \in Models \ q.excluded
      /\ d.provider \in q.providers
      /\ q.images => d.model \notin TextOnly \/ Blind(d)
  BY <1>1, ServedFromPool
<1> QED
  BY <1>1, <1>2, <1>4, <1>5, <1>6 DEF Answers, d

\* The scorer's decision: a model of its pool with the best of the others.
LEMMA ClusterAnswers ==
  ASSUME NEW q, Question(q), NEW weights, NEW d \in ClusterRoute(q, weights)
  PROVE  /\ d = Paired(q, d.scores, d.model, "cluster")
         /\ Sound(q, DOMAIN d.scores)
         /\ d.model \in DOMAIN d.scores
<1> DEFINE scores == Blend(q.near, weights[q.dial], Pool(q), q.factors, q.prefs)
           m == Argmax(scores, Pool(q))
<1>1. DOMAIN scores = Pool(q)
  BY DEF Blend
<1>2. m # NoModel /\ d = Scored(q, scores)
  BY DEF ClusterRoute
<1> HIDE DEF scores
<1>3. m \in Pool(q)
  BY <1>2, ArgmaxIsOne
<1>4. d = Paired(q, scores, m, "cluster")
  BY <1>1, <1>2 DEF Scored
<1> HIDE DEF m
<1>5. d.scores = scores /\ d.model = m
  BY <1>4 DEF Paired, Decision
<1> QED
  BY <1>1, <1>3, <1>4, <1>5, PoolIsSound

\* What the explorer or the bandit makes of it.
LEMMA WrappedAnswers ==
  ASSUME NEW q, Question(q), NEW weights, NEW d \in ClusterRoute(q, weights), NEW e \in Wrapped(d, q)
  PROVE  Answers(q, e)
<1> DEFINE pool == DOMAIN d.scores
<1>1. /\ d = Paired(q, d.scores, d.model, "cluster")
      /\ Sound(q, pool) /\ d.model \in pool
  BY ClusterAnswers
<1>2. "cluster" \in Whys /\ "explore" \in Whys /\ "bandit" \in Whys
  BY DEF Whys
<1>3. Answers(q, d)
  BY <1>1, <1>2, PairedAnswers
<1>4. CASE e = d
  BY <1>3, <1>4
<1>5. CASE e \in Explored(d, q) /\ e # d
  <2>1. PICK m \in pool : e = Paired(q, d.scores, m, "explore")
    BY <1>5 DEF Explored
  <2> QED
    BY <1>1, <1>2, <2>1, PairedAnswers
<1>6. CASE e \in Sampled(d, q) /\ e # d
  <2>1. PICK m \in pool : e = [d EXCEPT !.model = m, !.provider = Resolve(m, q.providers), !.why = "bandit"]
    BY <1>6 DEF Sampled
  <2>2. PICK pair, holder, provider : d = Decision(d.model, provider, pair, holder, d.scores, "cluster")
    BY <1>1 DEF Paired
  <2>3. /\ e.model = m /\ e.provider = Resolve(m, q.providers) /\ e.why = "bandit"
        /\ e.scores = d.scores /\ e.pair = d.pair /\ e.pairProvider = d.pairProvider
    BY <2>1, <2>2 DEF Decision
  <2>4. /\ e.model \in Models \ q.excluded
        /\ e.provider \in q.providers
        /\ q.images => e.model \notin TextOnly \/ Blind(e)
    BY <1>1, <2>3, ServedFromPool
  <2> QED
    BY <1>2, <1>3, <2>3, <2>4 DEF Answers
<1> QED
  BY <1>4, <1>5, <1>6 DEF Wrapped

\* A sidecar's answer counts only if it was offered.
LEMMA SidecarAnswers ==
  ASSUME NEW q, Question(q), NEW allow, NEW why \in {"hmm", "rl"}, NEW d \in SidecarRoute(q, allow, why)
  PROVE  Answers(q, d)
<1> DEFINE offer == Offered(q)
<1>1. PICK m \in offer :
        d = Decision(m, Resolve(m, q.providers), NoModel, NoProvider, [o \in offer |-> 0], why)
  BY DEF SidecarRoute
<1>2. Sound(q, offer)
  BY OfferIsSound
<1> HIDE DEF offer
<1>3. /\ d.model = m /\ d.provider = Resolve(m, q.providers) /\ DOMAIN d.scores = offer
      /\ d.pair = NoModel /\ d.pairProvider = NoProvider /\ d.why = why
  BY <1>1 DEF Decision
<1>4. /\ d.model \in Models \ q.excluded
      /\ d.provider \in q.providers
      /\ q.images => d.model \notin TextOnly \/ Blind(d)
  BY <1>2, <1>3, ServedFromPool
<1> QED
  BY <1>3, <1>4, PlannerAssumption DEF Answers, Slots, Holders, Whys, PlannerAssumption

LEMMA RoutesAnswer ==
  ASSUME NEW req \in Requests, NEW excluded, NEW d \in Routes(req, excluded)
  PROVE  Answers(Asked(req, excluded), d)
<1> DEFINE q == Asked(req, excluded)
<1>1. Question(q)
  BY RoutingAssumption DEF Question, Asked, RoutingAssumption
<1> HIDE DEF q
<1>2. CASE setting.strategy \in {"hmm", "rl"}
  <2>1. d \in SidecarRoute(q, setting.allow, setting.strategy)
    BY <1>2 DEF Routes, q
  <2> QED
    BY <1>1, <1>2, <2>1, SidecarAnswers DEF q
<1>3. CASE setting.strategy \notin {"hmm", "rl"}
  <2>1. PICK c \in ClusterRoute(q, alphas) : d \in Wrapped(c, q)
    BY <1>3 DEF Routes, q
  <2> QED
    BY <1>1, <2>1, WrappedAnswers DEF q
<1> QED
  BY <1>2, <1>3

\* A decision that a turn may serve: nothing that is excluded, at one of the
\* caller's providers, and blind to a picture only if the pool is.
Fit(req, d) ==
  /\ d.model \in Models \ Excluded(req)
  /\ d.provider \in req.providers
  /\ req.images => d.model \notin TextOnly \/ Blind(d)
  /\ d.pair \in Slots /\ d.pairProvider \in Holders
  /\ d.why \in Whys
  /\ d.why # "bandit" => d.pair # d.model

LEMMA FreshIsFit ==
  ASSUME NEW req \in Requests, NEW d \in FreshDecisions(req, Excluded(req))
  PROVE  Fit(req, d)
<1> DEFINE excluded == Excluded(req)
<1>1. PICK more : excluded \subseteq more /\ d \in Routes(req, more)
  <2>1. excluded \subseteq Restricted(excluded, TierFloor(req))
    BY DEF Restricted
  <2> HIDE DEF excluded
  <2> QED
    BY <2>1 DEF FreshDecisions, excluded
<1>2. Answers(Asked(req, more), d)
  BY <1>1, RoutesAnswer
<1> QED
  BY <1>1, <1>2 DEF Answers, Asked, Fit

-----------------------------------------------------------------------------
(* Turns.                                                                  *)

Row == [model : Slots, provider : Holders, pair : Slots, pairProvider : Holders,
        by : Whys \cup {"none", "history"}, reason : {"none", "auto", "force"},
        live : BOOLEAN, ended : BOOLEAN, maxed : BOOLEAN, served : Slots]

Caps == {"no", "pin", "forced", "hmm"}
Breach == {"keys", "excluded", "picture"}

Typed ==
  /\ pin \in Row /\ history \in Row
  /\ turn \in [served : Slots, capped : Caps, breaches : SUBSET Breach]

Peer(row) == row.pair # NoModel /\ row.by # "bandit" => row.pair # row.model

\* A row that serves has a model, and its pair is of peers.
Serves(row) == (row.live => row.model \in Models) /\ Peer(row)

\* What a turn may serve: an excluded model only where a pin stands on it.
Offers(req, m, p, blind) ==
  /\ m \in Models /\ p \in req.providers
  /\ ServesImages(m, req) \/ blind
  /\ m \in Excluded(req) => m = pin.model /\ (Forced \/ Standing(req))

\* The row that a turn leaves behind.
Leaves(m, p, how, outcome) ==
  \E row \in Row :
    /\ row.live /\ Serves(row)
    /\ \/ /\ how \in {"pin", "forced"}
          /\ pin' = Usage(row, m, p, outcome) /\ history' = history
       \/ /\ how = "hmm" /\ row.by = "history"
          /\ history' = Usage(row, m, p, outcome) /\ pin' = pin

Answered(req, outcome) ==
  \E m \in Models, p \in Providers, how \in Caps, blind \in BOOLEAN :
    /\ Offers(req, m, p, blind)
    /\ Served(req, m, p, how, blind, outcome)
    /\ Leaves(m, p, how, outcome)

LEMMA NoPinTyped == NoPin \in Row /\ NoPin.live = FALSE /\ NoPin.pair = NoModel
  BY DEF NoPin, Row, Slots, Holders

\* The row of the session's role serves a turn.
LEMMA PinAnswers ==
  ASSUME Typed, Serves(pin), NEW req \in Requests, NEW outcome \in Outcomes,
         NEW row \in Row, row.model = pin.model, row.pair = pin.pair, row.by = pin.by, row.live,
         pin.model \in Models,
         NEW m, NEW p, NEW how \in {"pin", "forced"},
         Offers(req, m, p, FALSE), OnPin(req, row, m, p, how, outcome)
  PROVE  Answered(req, outcome)
<1>1. m \in Models /\ p \in Providers
  BY RoutingAssumption DEF Offers, RoutingAssumption
<1>2. Serves(row)
  BY DEF Serves, Peer
<1>3. Leaves(m, p, how, outcome)
  BY <1>2 DEF Leaves, OnPin
<1>4. Served(req, m, p, how, FALSE, outcome) /\ how \in Caps
  BY DEF OnPin, Caps
<1> QED
  BY <1>1, <1>3, <1>4 DEF Answered

\* Refreshing a pin keeps what it pins.
LEMMA RefreshedTyped ==
  ASSUME Typed
  PROVE  /\ Refreshed \in Row /\ Refreshed.live
         /\ Refreshed.model = pin.model /\ Refreshed.pair = pin.pair /\ Refreshed.by = pin.by
  BY DEF Typed, Row, Refreshed

LEMMA ForcedAnswers ==
  ASSUME Typed, Serves(pin), NEW req \in Requests, NEW outcome \in Outcomes, ForcedTurn(req, outcome)
  PROVE  Answered(req, outcome)
<1>1. /\ Forced /\ pin.live /\ pin.provider \in req.providers /\ ServesImages(pin.model, req)
      /\ OnPin(req, Refreshed, pin.model, pin.provider, "forced", outcome)
  BY DEF ForcedTurn, ForcedServes, Forced
<1>2. pin.model \in Models
  BY <1>1 DEF Serves
<1>3. Offers(req, pin.model, pin.provider, FALSE)
  BY <1>1, <1>2 DEF Offers
<1> QED
  BY <1>1, <1>2, <1>3, RefreshedTyped, PinAnswers

\* What is kept may serve.
LEMMA KeptOffers ==
  ASSUME Serves(pin), NEW req, Kept(req)
  PROVE  pin.model \in Models /\ Offers(req, pin.model, pin.provider, FALSE)
  BY DEF Serves, Kept, Standing, Offers

LEMMA StickyAnswers ==
  ASSUME Typed, Serves(pin), NEW req \in Requests, NEW outcome \in Outcomes, StickyTurn(req, outcome)
  PROVE  Answered(req, outcome)
<1>1. Kept(req) /\ OnPin(req, Refreshed, pin.model, pin.provider, "pin", outcome)
  BY DEF StickyTurn
<1> QED
  BY <1>1, KeptOffers, RefreshedTyped, PinAnswers

\* A fresh decision serves and is pinned.
LEMMA FreshAnswers ==
  ASSUME Typed, Serves(pin), NEW req \in Requests, NEW outcome \in Outcomes,
         NEW d, Fit(req, d), OnFresh(req, d, "pin", outcome)
  PROVE  Answered(req, outcome)
<1> DEFINE row == Pinned(d)
<1>1. d.model \in Models /\ d.provider \in Providers /\ Blind(d) \in BOOLEAN
  BY RoutingAssumption DEF Fit, RoutingAssumption, Blind
<1>2. Offers(req, d.model, d.provider, Blind(d))
  BY DEF Fit, Offers, ServesImages, AcceptsImages
<1>3. d.pair \in Slots /\ d.pairProvider \in Holders /\ d.why \in Whys
  BY DEF Fit
<1>4. /\ row \in Row /\ row.live /\ row.model = d.model
      /\ row.pair = IF d.pair # NoModel THEN d.pair ELSE IF d.model = pin.model THEN pin.pair ELSE NoModel
      /\ row.by = IF d.pair # NoModel THEN d.why ELSE pin.by
  <2>1. d.model \in Slots /\ d.provider \in Holders
    BY <1>1 DEF Slots, Holders
  <2>2. pin \in Row
    BY DEF Typed
  <2> DEFINE same == d.model = pin.model
             pair == IF d.pair # NoModel THEN d.pair ELSE IF same THEN pin.pair ELSE NoModel
             holder == IF d.pair # NoModel THEN d.pairProvider
                       ELSE IF same THEN pin.pairProvider ELSE NoProvider
             by == IF d.pair # NoModel THEN d.why ELSE pin.by
  <2>3. row = [pin EXCEPT !.model = d.model, !.provider = d.provider, !.reason = "auto", !.live = TRUE,
                          !.pair = pair, !.pairProvider = holder, !.by = by]
    BY <2>2 DEF Pinned, Row
  <2>4. pair \in Slots /\ holder \in Holders /\ by \in Whys \cup {"none", "history"}
    BY <1>3, <2>2 DEF Row, Slots, Holders
  <2>5. pair = IF d.pair # NoModel THEN d.pair ELSE IF d.model = pin.model THEN pin.pair ELSE NoModel
    OBVIOUS
  <2>6. by = IF d.pair # NoModel THEN d.why ELSE pin.by
    OBVIOUS
  <2> HIDE DEF pair, holder, by, row
  <2>7. row \in Row /\ row.live /\ row.model = d.model /\ row.pair = pair /\ row.by = by
    BY <2>1, <2>2, <2>3, <2>4 DEF Row
  <2> QED
    BY <2>5, <2>6, <2>7
<1> HIDE DEF row
<1>5. Peer(row)
  BY <1>4 DEF Peer, Fit, Serves
<1>6. Serves(row)
  BY <1>1, <1>4, <1>5 DEF Serves
<1>7. Leaves(d.model, d.provider, "pin", outcome)
  BY <1>4, <1>6 DEF Leaves, OnFresh, row
<1>8. Served(req, d.model, d.provider, "pin", Blind(d), outcome) /\ "pin" \in Caps
  BY DEF OnFresh, Caps
<1> QED
  BY <1>1, <1>2, <1>7, <1>8 DEF Answered

LEMMA ReanchorAnswers ==
  ASSUME Typed, Serves(pin), NEW req \in Requests, NEW outcome \in Outcomes, NEW d,
         ReanchorTurn(req, d, outcome)
  PROVE  Answered(req, outcome)
<1> DEFINE row == [Refreshed EXCEPT !.reason = "auto"]
<1>1. OnPin(req, row, pin.model, pin.provider, "pin", outcome) /\ Reanchors(req, d)
  BY DEF ReanchorTurn
<1>2. /\ row \in Row /\ row.live
      /\ row.model = pin.model /\ row.pair = pin.pair /\ row.by = pin.by
  BY DEF Typed, Row, Refreshed
<1> HIDE DEF row
<1>3. pin.model \in Models
  BY <1>1, PlannerAssumption DEF Reanchors, PlannerAssumption
<1>4. Offers(req, pin.model, pin.provider, FALSE)
  BY <1>1, <1>3 DEF Reanchors, Offers
<1> QED
  BY <1>1, <1>2, <1>3, <1>4, PinAnswers

\* Without a pin the planner does not stay.
LEMMA NoPinNoStay ==
  ASSUME NEW d, NEW req
  PROVE  ~Stays(Verdict(NoPin, d, req))
<1>1. NoPin.model = NoModel
  BY DEF NoPin
<1>2. Verdict(NoPin, d, req) = "no_pin"
  BY <1>1 DEF Verdict, Decide
<1> QED
  BY <1>2 DEF Stays

LEMMA PlannedAnswers ==
  ASSUME Typed, Serves(pin), NEW req \in Requests, NEW outcome \in Outcomes, NEW d, Fit(req, d),
         NEW band, PlannedTurn(req, d, band, outcome)
  PROVE  Answered(req, outcome)
<1> DEFINE row == IF Kept(req) THEN pin ELSE NoPin
           v == IF setting.planner THEN Verdict(row, d, req) ELSE "no_pin"
<1>1. IF Stays(v)
      THEN IF SwapsToPair(req, band)
           THEN OnPin(req, Refreshed, pin.pair, pin.pairProvider, "pin", outcome)
           ELSE OnPin(req, Refreshed, pin.model, pin.provider, "pin", outcome)
      ELSE OnFresh(req, d, "pin", outcome)
  BY DEF PlannedTurn
<1>2. Stays(v) => Kept(req)
  BY NoPinNoStay DEF Stays
<1> HIDE DEF v
<1>3. CASE ~Stays(v)
  BY <1>1, <1>3, FreshAnswers
<1>4. CASE Stays(v) /\ ~SwapsToPair(req, band)
  BY <1>1, <1>2, <1>4, KeptOffers, RefreshedTyped, PinAnswers
<1>5. CASE Stays(v) /\ SwapsToPair(req, band)
  <2>1. pin.pair \in Models
    BY <1>5, PlannerAssumption DEF SwapsToPair, SwapServes, PlannerAssumption
  <2>2. Offers(req, pin.pair, pin.pairProvider, FALSE)
    BY <1>5, <2>1 DEF SwapsToPair, SwapServes, Offers
  <2> QED
    BY <1>1, <1>2, <1>5, <2>2, KeptOffers, RefreshedTyped, PinAnswers
<1> QED
  BY <1>3, <1>4, <1>5

\* The row that HMM may stay on is a row of history, open to the request.
LEMMA StayRowOffers ==
  ASSUME Typed, NEW req \in Requests, StayRow(req) # NoPin
  PROVE  /\ StayRow(req).model \in Models \ Excluded(req)
         /\ StayRow(req).provider \in req.providers
         /\ ServesImages(StayRow(req).model, req)
<1> DEFINE m == LastServed(history)
           bound == IF history.provider \in req.providers /\ history.provider \in ToSet(Bindings[m])
                    THEN history.provider ELSE Resolve(m, req.providers)
<1>1. /\ m \notin Excluded(req) /\ m \in Available /\ ServesImages(m, req)
      /\ Resolve(m, req.providers) # NoProvider
      /\ StayRow(req) = [history EXCEPT !.model = m, !.provider = bound]
  BY DEF StayRow, Typed, Row
<1>2. m \in Models
  BY <1>1, PlannerAssumption DEF PlannerAssumption
<1>3. bound \in req.providers
  BY <1>1, <1>2, ResolveIsOffered
<1> HIDE DEF m, bound
<1>4. StayRow(req).model = m /\ StayRow(req).provider = bound
  BY <1>1 DEF Typed, Row
<1> QED
  BY <1>1, <1>2, <1>3, <1>4

LEMMA HMMAnswers ==
  ASSUME Typed, NEW req \in Requests, NEW outcome \in Outcomes, NEW d, Fit(req, d),
         NEW says, HMMTurn(req, d, says, outcome)
  PROVE  Answered(req, outcome)
<1> DEFINE row == StayRow(req)
           v == HMMVerdict(row, d, req, says)
           m == IF Stays(v) THEN row.model ELSE d.model
           p == IF Stays(v) /\ m # d.model THEN row.provider ELSE d.provider
           blind == ~Stays(v) /\ Blind(d)
           new == [NoPin EXCEPT !.model = m, !.provider = p, !.reason = "auto", !.live = TRUE,
                                !.by = "history", !.ended = history.ended, !.maxed = history.maxed,
                                !.served = history.served]
<1>1. Served(req, m, p, "hmm", blind, outcome) /\ history' = Usage(new, m, p, outcome) /\ pin' = pin
  BY DEF HMMTurn
<1>2. Stays(v) => row # NoPin
  BY DEF HMMVerdict, Stays
<1>3. /\ d.model \in Models \ Excluded(req) /\ d.provider \in req.providers
      /\ req.images => d.model \notin TextOnly \/ Blind(d)
  BY DEF Fit
<1>4. blind \in BOOLEAN
  BY DEF Blind
<1> HIDE DEF v
<1>5. /\ m \in Models \ Excluded(req) /\ p \in req.providers
      /\ ServesImages(m, req) \/ blind
  BY <1>2, <1>3, StayRowOffers DEF ServesImages, AcceptsImages
<1> HIDE DEF row, m, p, blind
<1>6. p \in Providers /\ Offers(req, m, p, blind)
  BY <1>5, RoutingAssumption DEF Offers, RoutingAssumption
<1>7. new \in Row /\ new.live /\ new.model = m /\ new.by = "history" /\ new.pair = NoModel
  <2>1. m \in Slots /\ p \in Holders
    BY <1>5, <1>6 DEF Slots, Holders
  <2>2. history.ended \in BOOLEAN /\ history.maxed \in BOOLEAN /\ history.served \in Slots
    BY DEF Typed, Row
  <2> QED
    BY <2>1, <2>2, NoPinTyped DEF Row
<1> HIDE DEF new
<1>8. Serves(new)
  BY <1>5, <1>7 DEF Serves, Peer
<1>9. Leaves(m, p, "hmm", outcome)
  BY <1>1, <1>7, <1>8 DEF Leaves
<1>10. "hmm" \in Caps
  BY DEF Caps
<1> QED
  BY <1>1, <1>4, <1>5, <1>6, <1>9, <1>10 DEF Answered

\* Every turn is refused or answered with what it may serve.
LEMMA TurnAnswers ==
  ASSUME Typed, Serves(pin), Turn
  PROVE  \/ turn' = NoTurn /\ UNCHANGED <<pin, history>>
         \/ \E req \in Requests, outcome \in Outcomes : Answered(req, outcome)
<1>1. PICK req \in Requests :
        \/ \E outcome \in Outcomes : ForcedTurn(req, outcome) \/ StickyTurn(req, outcome)
        \/ RefusedTurn(req)
        \/ /\ Consulted(req)
           /\ \E d \in FreshDecisions(req, Excluded(req)), outcome \in Outcomes :
                \/ AuthoritativeTurn(req, d, outcome)
                \/ \E says \in {"confident", "unsure", "phase_changed"} : HMMTurn(req, d, says, outcome)
                \/ ReanchorTurn(req, d, outcome)
                \/ \E band \in {"none", "large", "small"} : PlannedTurn(req, d, band, outcome)
  BY DEF Turn
<1>2. ASSUME NEW outcome \in Outcomes, ForcedTurn(req, outcome) \/ StickyTurn(req, outcome)
      PROVE  Answered(req, outcome)
  BY <1>2, ForcedAnswers, StickyAnswers
<1>3. CASE RefusedTurn(req)
  BY <1>3 DEF RefusedTurn
<1>4. ASSUME NEW d \in FreshDecisions(req, Excluded(req)), NEW outcome \in Outcomes
      PROVE  /\ AuthoritativeTurn(req, d, outcome) => Answered(req, outcome)
             /\ ReanchorTurn(req, d, outcome) => Answered(req, outcome)
             /\ \A says : HMMTurn(req, d, says, outcome) => Answered(req, outcome)
             /\ \A band : PlannedTurn(req, d, band, outcome) => Answered(req, outcome)
  <2>1. Fit(req, d)
    BY FreshIsFit
  <2>2. AuthoritativeTurn(req, d, outcome) => Answered(req, outcome)
    BY <2>1, FreshAnswers DEF AuthoritativeTurn
  <2>3. ReanchorTurn(req, d, outcome) => Answered(req, outcome)
    BY ReanchorAnswers
  <2>4. ASSUME NEW says, HMMTurn(req, d, says, outcome) PROVE Answered(req, outcome)
    BY <2>1, <2>4, HMMAnswers
  <2>5. ASSUME NEW band, PlannedTurn(req, d, band, outcome) PROVE Answered(req, outcome)
    BY <2>1, <2>5, PlannedAnswers
  <2> QED
    BY <2>2, <2>3, <2>4, <2>5
<1> QED
  BY <1>1, <1>2, <1>3, <1>4

-----------------------------------------------------------------------------
(* What a conversation keeps.                                              *)

\* Nothing that the Offers of a turn allow breaches what it was asked.
LEMMA OfferedIsNoBreach ==
  ASSUME NEW req, NEW m, NEW p, NEW blind, Offers(req, m, p, blind)
  PROVE  Breaches(req, m, p, blind) = {}
<1>1. p \in req.providers /\ (ServesImages(m, req) \/ blind)
  BY DEF Offers
<1>2. m \in BeforeFit(req) => m = pin.model
  BY DEF Offers, Excluded
<1> QED
  BY <1>1, <1>2 DEF Breaches

LEMMA UsageTyped ==
  ASSUME NEW row \in Row, NEW m \in Models, NEW p \in Providers, NEW outcome \in Outcomes
  PROVE  LET u == Usage(row, m, p, outcome) IN
         /\ u \in Row
         /\ u.model = row.model /\ u.pair = row.pair /\ u.by = row.by /\ u.live = row.live
         /\ outcome = "maxed" => u.maxed /\ u.served = m
<1> DEFINE u == Usage(row, m, p, outcome)
           served == IF outcome = "maxed" \/ row.by = "history" THEN m ELSE NoModel
           maxed == outcome = "maxed"
<1>1. CASE outcome = "cut"
  BY <1>1 DEF Usage
<1>2. CASE outcome # "cut"
  <2>1. u = [row EXCEPT !.ended = TRUE, !.maxed = maxed, !.provider = p, !.served = served]
    BY <1>2 DEF Usage, Row
  <2>2. served \in Slots /\ maxed \in BOOLEAN /\ p \in Holders
    BY DEF Slots, Holders
  <2>3. outcome = "maxed" => maxed /\ served = m
    OBVIOUS
  <2> HIDE DEF u, served, maxed
  <2>4. /\ u \in Row /\ u.maxed = maxed /\ u.served = served
        /\ u.model = row.model /\ u.pair = row.pair /\ u.by = row.by /\ u.live = row.live
    BY <2>1, <2>2 DEF Row
  <2> QED
    BY <2>3, <2>4 DEF u
<1> QED
  BY <1>1, <1>2

\* The cap that the last turn ran into is on the row that it left behind.
Remembers ==
  turn.capped # "no" =>
    /\ turn.served \in Models
    /\ turn.capped = "pin" => pin.maxed /\ pin.served = turn.served
    /\ turn.capped = "hmm" => history.maxed /\ history.served = turn.served

Sane ==
  /\ Typed /\ Serves(pin) /\ ServedIsOffered /\ Remembers

LEMMA NoTurnTyped == NoTurn \in [served : Slots, capped : Caps, breaches : SUBSET Breach]
                     /\ NoTurn.capped = "no" /\ NoTurn.breaches = {}
  BY DEF NoTurn, Slots, Caps

LEMMA InitSane == Init => Sane
<1> SUFFICES ASSUME Init PROVE Sane
  OBVIOUS
<1>1. pin = NoPin /\ history = NoPin /\ turn = NoTurn
  BY DEF Init
<1>2. Typed
  BY <1>1, NoPinTyped, NoTurnTyped DEF Typed
<1>3. Serves(pin)
  BY <1>1, NoPinTyped DEF Serves, Peer
<1>4. ServedIsOffered /\ Remembers
  BY <1>1, NoTurnTyped DEF ServedIsOffered, Remembers
<1> QED
  BY <1>2, <1>3, <1>4 DEF Sane

\* A turn that is answered.
LEMMA AnswerIsSane ==
  ASSUME Sane, NEW req \in Requests, NEW outcome \in Outcomes, Answered(req, outcome)
  PROVE  Sane'
<1>1. PICK m \in Models, p \in Providers, how \in Caps, blind \in BOOLEAN :
        /\ Offers(req, m, p, blind)
        /\ Served(req, m, p, how, blind, outcome)
        /\ Leaves(m, p, how, outcome)
  BY DEF Answered
<1>2. Breaches(req, m, p, blind) = {}
  BY <1>1, OfferedIsNoBreach
<1>3. /\ turn' \in [served : Slots, capped : Caps, breaches : SUBSET Breach]
      /\ turn'.served = m /\ turn'.breaches = {}
      /\ turn'.capped = IF outcome = "maxed" THEN how ELSE "no"
  BY <1>1, <1>2 DEF Served, Slots, Caps
<1>4. PICK row \in Row :
        /\ row.live /\ Serves(row)
        /\ \/ /\ how \in {"pin", "forced"}
              /\ pin' = Usage(row, m, p, outcome) /\ history' = history
           \/ /\ how = "hmm" /\ row.by = "history"
              /\ history' = Usage(row, m, p, outcome) /\ pin' = pin
  BY <1>1 DEF Leaves
<1> DEFINE u == Usage(row, m, p, outcome)
<1>5. /\ u \in Row
      /\ u.model = row.model /\ u.pair = row.pair /\ u.by = row.by /\ u.live = row.live
      /\ outcome = "maxed" => u.maxed /\ u.served = m
  BY UsageTyped
<1> HIDE DEF u
<1>6. pin' \in Row /\ history' \in Row /\ Serves(pin')
  <2>1. Serves(u)
    BY <1>4, <1>5 DEF Serves, Peer
  <2>2. Serves(pin) /\ pin \in Row /\ history \in Row
    BY DEF Sane, Typed
  <2> QED
    BY <1>4, <1>5, <2>1, <2>2 DEF u
<1>7. turn'.capped # "no" =>
        /\ turn'.served \in Models
        /\ turn'.capped = "pin" => pin'.maxed /\ pin'.served = turn'.served
        /\ turn'.capped = "hmm" => history'.maxed /\ history'.served = turn'.served
  BY <1>1, <1>3, <1>4, <1>5 DEF u
<1> QED
  BY <1>3, <1>6, <1>7 DEF Sane, Typed, Serves, Peer, ServedIsOffered, Remembers

\* Between turns the pins change, and neither the cap nor a pair is lost.
LEMMA PinChangeIsSane ==
  ASSUME Sane, pin' \in Row, history' \in Row, Serves(pin'), turn' = turn,
         pin'.maxed = pin.maxed, pin'.served = pin.served,
         history'.maxed = history.maxed, history'.served = history.served
  PROVE  Sane'
  BY DEF Sane, Typed, Serves, Peer, ServedIsOffered, Remembers

LEMMA LapseIsSane == ASSUME Sane, Lapse PROVE Sane'
<1>1. pin \in Row /\ history \in Row /\ Serves(pin) /\ turn' = turn
  BY DEF Sane, Typed, Lapse
<1>2. CASE pin' = [pin EXCEPT !.live = FALSE] /\ UNCHANGED history
  <2>1. /\ pin' \in Row /\ pin'.live = FALSE
        /\ pin'.pair = pin.pair /\ pin'.by = pin.by /\ pin'.model = pin.model
        /\ pin'.maxed = pin.maxed /\ pin'.served = pin.served
    BY <1>1, <1>2 DEF Row
  <2>2. Serves(pin')
    BY <1>1, <2>1 DEF Serves, Peer
  <2> QED
    BY <1>1, <1>2, <2>1, <2>2, PinChangeIsSane
<1>3. CASE history' = [history EXCEPT !.live = FALSE] /\ UNCHANGED pin
  <2>1. history' \in Row /\ history'.maxed = history.maxed /\ history'.served = history.served
    BY <1>1, <1>3 DEF Row
  <2> QED
    BY <1>1, <1>3, <2>1, PinChangeIsSane
<1> QED
  BY <1>2, <1>3 DEF Lapse

LEMMA ForceIsSane == ASSUME Sane, ForceModel PROVE Sane'
<1>1. pin \in Row /\ history \in Row /\ Serves(pin) /\ turn' = turn /\ history' = history
  BY DEF Sane, Typed, ForceModel
<1>2. PICK m \in Candidates \ policy :
        pin' = [pin EXCEPT !.model = m, !.provider = Resolve(m, Wired), !.reason = "force", !.live = TRUE,
                           !.pair = IF m = pin.model THEN @ ELSE NoModel,
                           !.pairProvider = IF m = pin.model THEN @ ELSE NoProvider]
  BY DEF ForceModel
<1>3. m \in Models
  BY ScorerAssumption DEF ScorerAssumption, Candidates, ToSet
<1> DEFINE provider == Resolve(m, Wired)
           pair == IF m = pin.model THEN pin.pair ELSE NoModel
           holder == IF m = pin.model THEN pin.pairProvider ELSE NoProvider
<1>4. m \in Slots /\ provider \in Holders /\ pair \in Slots /\ holder \in Holders
  BY <1>1, <1>3, ResolveIsOffered DEF Slots, Holders, Row
<1>5. pin' = [pin EXCEPT !.model = m, !.provider = provider, !.reason = "force", !.live = TRUE,
                         !.pair = pair, !.pairProvider = holder]
  BY <1>1, <1>2 DEF Row
<1>6. pair # NoModel => m = pin.model /\ pair = pin.pair
  OBVIOUS
<1> HIDE DEF provider, pair, holder
<1>7. /\ pin' \in Row /\ pin'.model = m /\ pin'.pair = pair /\ pin'.by = pin.by
      /\ pin'.maxed = pin.maxed /\ pin'.served = pin.served
  BY <1>1, <1>4, <1>5 DEF Row
<1>8. Serves(pin')
  BY <1>1, <1>3, <1>6, <1>7 DEF Serves, Peer
<1> QED
  BY <1>1, <1>7, <1>8, PinChangeIsSane

LEMMA UnforceIsSane == ASSUME Sane, UnforceModel PROVE Sane'
<1>1. pin \in Row /\ history \in Row /\ turn' = turn /\ history' = history
  BY DEF Sane, Typed, UnforceModel
<1>2. NoModel \in Slots /\ NoProvider \in Holders
  BY DEF Slots, Holders
<1>3. /\ pin' \in Row /\ pin'.live = FALSE /\ pin'.pair = NoModel
      /\ pin'.maxed = pin.maxed /\ pin'.served = pin.served
  BY <1>1, <1>2 DEF UnforceModel, Row
<1>4. Serves(pin')
  BY <1>3 DEF Serves, Peer
<1> QED
  BY <1>1, <1>3, <1>4, PinChangeIsSane

LEMMA NextSane == Sane /\ [Next]_vars => Sane'
<1> SUFFICES ASSUME Sane, [Next]_vars PROVE Sane'
  OBVIOUS
<1>1. CASE Turn
  <2>1. Typed /\ Serves(pin)
    BY DEF Sane
  <2>2. CASE turn' = NoTurn /\ UNCHANGED <<pin, history>>
    BY <2>2, NoTurnTyped DEF Sane, Typed, Serves, Peer, ServedIsOffered, Remembers
  <2> QED
    BY <1>1, <2>1, <2>2, TurnAnswers, AnswerIsSane
<1>2. CASE ChangePolicy \/ ChangeSetting \/ UNCHANGED vars
  <2>1. UNCHANGED <<pin, history, turn>>
    BY <1>2 DEF ChangePolicy, ChangeSetting, vars
  <2> QED
    BY <2>1 DEF Sane, Typed, Serves, Peer, ServedIsOffered, Remembers
<1> QED
  BY <1>1, <1>2, LapseIsSane, ForceIsSane, UnforceIsSane DEF Next

LEMMA AlwaysSane == Spec => []Sane
  BY InitSane, NextSane, PTL DEF Spec

\* Every turn is served by a model and a provider that the caller may use,
\* whatever the policy, the settings and the pins have become meanwhile.
THEOREM ServedIsAlwaysOffered == Spec => []ServedIsOffered
<1>1. Sane => ServedIsOffered
  BY DEF Sane
<1> QED
  BY <1>1, AlwaysSane, PTL

\* The stored runner-up is never the pinned model, unless the bandit drew it.
THEOREM PairIsAlwaysAPeer == Spec => []PairIsPeer
<1>1. Sane => PairIsPeer
  BY DEF Sane, Serves, Peer, PairIsPeer
<1> QED
  BY <1>1, AlwaysSane, PTL

-----------------------------------------------------------------------------
(* The model that ran into the output cap.                                 *)

\* Where a model that the last turn ran into the cap with may serve again.
Exempt ==
  \/ Forced \/ turn.capped = "forced"
  \/ ~pin.live /\ turn.capped # "hmm"
  \/ pin.live /\ ~pin.maxed /\ pin.model = turn.served

\* Unless exempt, that model is saturated when the next request comes.
LEMMA CappedIsSaturated ==
  ASSUME Sane, turn.capped # "no", ~Exempt
  PROVE  turn.served \in Saturated
<1>1. turn.capped \in {"pin", "hmm"}
  BY DEF Exempt, Sane, Typed, Caps
<1>2. turn.served \in Models /\ turn.served # NoModel
  BY PlannerAssumption DEF Sane, Remembers, PlannerAssumption
<1>3. CASE turn.capped = "pin"
  BY <1>2, <1>3 DEF Sane, Remembers, Exempt, Saturated, LastServed
<1>4. CASE turn.capped = "hmm"
  BY <1>2, <1>4 DEF Sane, Remembers, Saturated, LastServed
<1> QED
  BY <1>1, <1>3, <1>4

LEMMA StepsAside ==
  ASSUME Sane, [Next]_vars, turn' # turn, turn.capped # "no", turn'.served = turn.served
  PROVE  Exempt
<1> SUFFICES ASSUME ~Exempt PROVE FALSE
  OBVIOUS
<1>1. turn.served \in Saturated /\ turn.served \in Models
  BY CappedIsSaturated DEF Sane, Remembers
<1>2. Turn
  BY DEF Next, vars, ChangePolicy, ChangeSetting, Lapse, ForceModel, UnforceModel
<1>3. turn' # NoTurn
  BY <1>1, PlannerAssumption DEF NoTurn, PlannerAssumption
<1>4. PICK req \in Requests, outcome \in Outcomes : Answered(req, outcome)
  BY <1>2, <1>3, TurnAnswers DEF Sane
<1>5. PICK m, p, blind : Offers(req, m, p, blind) /\ turn'.served = m
  BY <1>4 DEF Answered, Served
<1>6. m \in BeforeFit(req)
  BY <1>1, <1>5 DEF BeforeFit
<1>7. m = pin.model /\ (Forced \/ Standing(req))
  BY <1>5, <1>6 DEF Offers, Excluded
<1> QED
  BY <1>5, <1>7 DEF Standing, Exempt

\* The agent's automatic continuation of an answer that was cut at the output
\* cap goes to another model, whichever branch of runTurnLoop decides.
THEOREM SaturatedAlwaysStepsAside == Spec => SaturatedStepsAside
<1>1. Sane /\ [Next]_vars =>
        [turn' # turn /\ turn.capped # "no" /\ turn'.served = turn.served => Exempt]_vars
  BY StepsAside
<1> QED
  BY <1>1, AlwaysSane, PTL DEF SaturatedStepsAside, Exempt, Spec
=============================================================================
