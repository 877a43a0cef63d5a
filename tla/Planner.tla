------------------------------ MODULE Planner ------------------------------
(***************************************************************************)
(* The cache-aware switch planner (router/planner/policy.go): whether a    *)
(* session leaves the model it is pinned to for the one that the scorer    *)
(* now prefers.  Prices are integers per token and the cache multipliers   *)
(* and subsidy factors integers out of Whole, so that every amount of      *)
(* money here carries the factor Whole * Whole.                            *)
(***************************************************************************)
EXTENDS Integers

CONSTANTS Models, NoModel,
          Available,   \* the models the deployment can serve
          Tier,        \* 0 is TierUnknown
          Price,       \* input price of the primary binding
          ReadMult,    \* share of it that a cached token costs
          Whole,
          Horizon,     \* ExpectedRemainingTurns
          Threshold    \* ThresholdUSD

ASSUME PlannerAssumption ==
  /\ NoModel \notin Models
  /\ Available \subseteq Models
  /\ Whole \in Nat \ {0} /\ Horizon \in Nat /\ Threshold \in Nat
  /\ Tier \in [Models -> 0..3]
  /\ Price \in [Models -> Nat]
  /\ ReadMult \in [Models -> 0..Whole]

\* applySubsidy: factors is a function on the models a plan covers.
EffectivePrice(m, factors) == Price[m] * (IF m \in DOMAIN factors THEN factors[m] ELSE Whole)

\* What a cached token costs; a cold cache discounts nothing.
Mult(m, cold) == IF cold THEN Whole ELSE ReadMult[m]

\* Mutant: the plan discounts the fresh model alone.
SavingsFreshCovered(from, to, tokens, cold, factors) ==
  (Price[from] * Whole * Mult(from, cold) - EffectivePrice(to, factors) * Mult(to, cold)) * (tokens * Horizon)

Savings(from, to, tokens, cold, factors) ==
  (EffectivePrice(from, factors) * Mult(from, cold) - EffectivePrice(to, factors) * Mult(to, cold))
    * (tokens * Horizon)

EvictionCost(to, tokens, cold, factors) ==
  IF cold THEN 0 ELSE EffectivePrice(to, factors) * (Whole - Mult(to, cold)) * tokens

EVPositive(from, to, tokens, cold, factors) ==
  Savings(from, to, tokens, cold, factors) - EvictionCost(to, tokens, cold, factors) > Threshold

TierUpgrade(from, to) == Tier[from] # 0 /\ Tier[to] # 0 /\ Tier[to] > Tier[from]

\* cfg: the two guards that overturn a stay; ended: a turn completed on the pin.
Decide(pinned, fresh, ended, tokens, cold, factors, cfg) ==
  IF pinned = NoModel THEN "no_pin"
  ELSE IF fresh = pinned THEN "same_model"
  ELSE IF pinned \notin Available THEN "pin_model_missing"
  ELSE IF ~ended THEN "no_prior_usage"
  ELSE IF EVPositive(pinned, fresh, tokens, cold, factors) THEN "ev_positive"
  ELSE IF cfg.tierUpgrade /\ TierUpgrade(pinned, fresh) THEN "tier_upgrade"
  ELSE IF cfg.coldFollow /\ cold THEN "cold_pin_follow_fresh"
  ELSE "ev_negative"

Stays(verdict) == verdict \in {"same_model", "no_prior_usage", "ev_negative", "upgrade_confidence_low", "same_tier_pinned"}
=============================================================================
