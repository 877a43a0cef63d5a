------------------------------- MODULE Scorer -------------------------------
(***************************************************************************)
(* How a strategy picks the model of one request: the cluster scorer       *)
(* (router/cluster), the explorer and the bandit that wrap it, and the     *)
(* policy sidecars with their resolver (router/policy).  Scores are        *)
(* integers: a blend of one cluster is in 0..Whole * Whole.                *)
(***************************************************************************)
EXTENDS Planner, FiniteSets, Sequences, SequencesExt

CONSTANTS Providers, NoProvider,
          Wired,       \* providers with a client in this deployment
          Bindings,    \* the ordered provider bindings of a model
          Window,      \* its context window
          Names,       \* the deployed models, sorted by name
          ToolUseLow, AgenticLow, TextOnly,
          Clusters,
          Quality,     \* Quality[k][m]: quality_means
          Nearest,     \* Nearest[k]: the top-P clusters of the centroid of k
          Alpha, AlphaFloor,  \* the bundle's default knobs
          Press,       \* the bonus of each rank of a preference
          Band         \* the explorer's band width

ASSUME ScorerAssumption ==
  /\ NoProvider \notin Providers /\ Wired \subseteq Providers
  /\ Bindings \in [Models -> Seq(Providers)]
  /\ Window \in [Models -> Nat]
  /\ Names \in Seq(Models)
  /\ ToolUseLow \cup AgenticLow \cup TextOnly \subseteq Models
  /\ Alpha \in [Clusters -> 0..Whole] /\ AlphaFloor \in [Clusters -> 0..Whole]
  /\ \A k \in Clusters : Nearest[k] \subseteq Clusters

None == [model |-> NoModel, provider |-> NoProvider]

\* The first of a list that is in a set.
First(list, set, none) ==
  LET at == {i \in DOMAIN list : list[i] \in set}
  IN  IF at = {} THEN none ELSE list[Min(at)]

\* The first binding whose provider is in the set.
Resolve(m, available) == First(Bindings[m], available, NoProvider)

\* The deployed entries that a wired provider can serve.
Candidates == {m \in ToSet(Names) : Resolve(m, Wired) # NoProvider}

AcceptsImages(m) == m \notin TextOnly

-----------------------------------------------------------------------------
(* The pool: hard filters, then preferences that never empty it.           *)

Eligible(req) == {m \in Candidates : Resolve(m, req.providers) # NoProvider} \ req.excluded

Soft(pool, drop) == IF pool \subseteq drop THEN pool ELSE pool \ drop

ToolPool(pool) == Soft(Soft(pool, ToolUseLow), AgenticLow)

Pool(req) ==
  LET tooled == IF req.tools THEN ToolPool(Eligible(req)) ELSE Eligible(req)
  IN  IF req.images THEN Soft(tooled, TextOnly) ELSE tooled

-----------------------------------------------------------------------------
(* The blend.                                                              *)

Least(f, S)    == CHOOSE v \in {f[m] : m \in S} : \A m \in S : v <= f[m]
Greatest(f, S) == CHOOSE v \in {f[m] : m \in S} : \A m \in S : v >= f[m]

\* Where a value lies between the least and the greatest deployed one.
Normal(f, m) ==
  LET lo == Least(f, Candidates)
      hi == Greatest(f, Candidates)
  IN  IF hi = lo THEN 0 ELSE ((f[m] - lo) * Whole) \div (hi - lo)

NormalQuality == [k \in Clusters |-> [m \in Candidates |-> Normal(Quality[k], m)]]

NormalCost == [m \in Candidates |-> Normal(Price, m)]

\* The preferences that survived, each with the bonus of its rank among them.
Bonus(prefs, pool, m) ==
  LET ranked == SelectSeq(prefs, LAMBDA p : p \in pool)
      places == {i \in DOMAIN ranked : ranked[i] = m}
      rank(i) == Cardinality({ranked[j] : j \in 1..i})
  IN  IF places = {} THEN 0
      ELSE LET i == CHOOSE i \in places : \A j \in places : i <= j
           IN  IF rank(i) \in DOMAIN Press THEN Press[rank(i)] ELSE 0

Sum(f, S) == FoldFunctionOnSet(+, 0, f, S)

Blend(near, alpha, pool, factors, prefs) ==
  [m \in pool |->
     Sum([k \in near |->
            alpha[k] * NormalQuality[k][m] + (Whole - alpha[k]) * (Whole - NormalCost[m])
              + (IF m \in DOMAIN factors THEN Whole * (Whole - factors[m]) ELSE 0)
              + Bonus(prefs, pool, m)], near)]

\* The best of the pool, the first by name among equals.
Argmax(scores, pool) ==
  First(Names, {m \in pool : \A n \in pool : scores[n] <= scores[m]}, NoModel)

RunnerUp(scores, pool, chosen) == Argmax(scores, pool \ {chosen})

-----------------------------------------------------------------------------
(* The price dial: 0..Whole.                                               *)

\* The mix of models over the centroids at one weight of quality.
Mix(a) ==
  [k \in Clusters |->
     Argmax(Blend(Nearest[k], [c \in Clusters |-> a], Candidates, <<>>, <<>>), Candidates)]

\* Two mixes are one when they hold the same models equally often.
SameMix(x, y) == \A m \in Candidates : Cardinality({k \in Clusters : x[k] = m})
                                     = Cardinality({k \in Clusters : y[k] = m})

\* Where the mix changes, the first moved to 0 and the last to Whole.
Breakpoints ==
  LET mix == [a \in 0..Whole |-> Mix(a)]
      at  == SelectSeq([i \in 1..(Whole + 1) |-> i - 1],
                       LAMBDA a : a = 0 \/ ~SameMix(mix[a], mix[a - 1]))
  IN  IF Len(at) < 2 THEN <<>> ELSE [at EXCEPT ![1] = 0, ![Len(at)] = Whole]

\* Between two breakpoints a position is interpolated.
DialToAlpha(t, bp) ==
  LET x == t * (Len(bp) - 1)
      i == x \div Whole
  IN  IF t = 0 \/ t = Whole \/ bp = <<>> THEN t
      ELSE bp[i + 1] + ((x % Whole) * (bp[i + 2] - bp[i + 1])) \div Whole

\* The dial never takes a cluster below its floor; without a dial, the defaults.
NoDial == -1

Weights(dial) ==
  IF dial = NoDial THEN Alpha
  ELSE LET a == DialToAlpha(dial, Breakpoints)
       IN  [k \in Clusters |-> IF AlphaFloor[k] > a THEN AlphaFloor[k] ELSE a]

-----------------------------------------------------------------------------
(* The strategies.  A decision carries the pool it was taken from.         *)

Decision(m, p, pair, pairProvider, scores, why) ==
  [model |-> m, provider |-> p, pair |-> pair, pairProvider |-> pairProvider,
   scores |-> scores, why |-> why]

\* A model of the scored pool and the best of the others, which may be missing.
Paired(req, scores, m, why) ==
  LET pair == RunnerUp(scores, DOMAIN scores, m)
  IN  Decision(m, Resolve(m, req.providers), pair,
               IF pair = NoModel THEN NoProvider ELSE Resolve(pair, req.providers), scores, why)

Scored(req, scores) == Paired(req, scores, Argmax(scores, DOMAIN scores), "cluster")

\* alphas is the weight that each position of the dial stands for; without a
\* best model the scorer is unavailable.
ClusterRoute(req, alphas) ==
  LET scores == Blend(req.near, alphas[req.dial], Pool(req), req.factors, req.prefs)
  IN  {Scored(req, scores) : m \in {Argmax(scores, Pool(req))} \ {NoModel}}

\* Mutant: the pair is left as the argmax had it.
ExploredUnrepaired(dec, req) ==
  {[dec EXCEPT !.model = m, !.provider = Resolve(m, req.providers), !.why = "explore"] : m \in DOMAIN dec.scores}

\* The explorer draws from the band below the best and repairs the pair.
Explored(dec, req) ==
  LET scores == dec.scores
      best   == Greatest(scores, DOMAIN scores)
      band   == {m \in DOMAIN scores : scores[m] >= best - Band}
  IN  IF Cardinality(DOMAIN scores) < 2 \/ Cardinality(band) < 2 THEN {dec}
      ELSE {IF m = dec.model THEN dec ELSE Paired(req, scores, m, "explore") : m \in band}

\* The bandit serves any candidate that its samples may favour; the pair stays.
Sampled(dec, req) ==
  IF Cardinality(DOMAIN dec.scores) < 2 THEN {dec}
  ELSE {[dec EXCEPT !.model = m, !.provider = Resolve(m, req.providers), !.why = "bandit"] :
          m \in DOMAIN dec.scores}

-----------------------------------------------------------------------------
(* Policy sidecars: the resolver offers, the sidecar answers, the router   *)
(* checks the answer against the offer and applies the key's allowlists.   *)

\* The resolver checks the window itself, and asks for images before tools.
Offered(req) ==
  LET base  == {m \in ToSet(Names) \ req.excluded :
                  Window[m] >= req.size /\ Resolve(m, req.providers) # NoProvider}
      seen  == IF req.images THEN Soft(base, TextOnly) ELSE base
  IN  IF req.tools THEN Soft(seen, ToolUseLow) ELSE seen

\* ranked: the groups of the answer; allow: the models the key allows a group.
Override(allow, ranked, offer, answer) ==
  LET arms(g) == IF g.name \in DOMAIN allow
                 THEN SelectSeq(allow[g.name], LAMBDA m : m \in offer) ELSE g.arms
      open    == SelectSeq(ranked, LAMBDA g : arms(g) # <<>>)
  IN  IF DOMAIN allow = {} \/ open = <<>> THEN answer ELSE Head(arms(Head(open)))

\* What the sidecar may answer: any model at all, and any ranking of one group.
\* It scores nothing.
SidecarRoute(req, allow, why) ==
  LET offer   == Offered(req)
      answers == Models
      ranks   == {<<>>} \cup {<<[name |-> "group", arms |-> <<m>>]>> : m \in Models}
      picks   == {Override(allow, r, offer, a) : r \in ranks, a \in answers}
  IN  {Decision(m, Resolve(m, req.providers), NoModel, NoProvider, [o \in offer |-> 0], why) :
         m \in picks \cap offer}
=============================================================================
