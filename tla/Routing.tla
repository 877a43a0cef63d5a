------------------------------ MODULE Routing ------------------------------
(***************************************************************************)
(* The routing of one session, turn after turn (proxy/turnloop.go): the    *)
(* pins that outlive what they were chosen for, the guards that drop them, *)
(* the strategy that is asked when none serves, the planner between the    *)
(* pin and the fresh decision, and the swap within a pinned pair.          *)
(*                                                                         *)
(* A turn is one step from its request to the write of its usage.  The     *)
(* interleavings of turns on one pin are SessionTurns'; here the facts the *)
(* guards read change between turns: the policy of the installation, the   *)
(* keys of the caller, the clock, and what the request carries.            *)
(***************************************************************************)
EXTENDS Scorer

CONSTANTS Settings,  \* the deployments: strategy, switches, dial, preferences
          Requests,  \* what a turn may carry
          Policies,  \* the exclusion lists an administrator may set
          Gemini3,   \* models that refuse a history they did not sign
          Factors    \* the subsidy of a caller with a plan

ASSUME RoutingAssumption ==
  /\ \A req \in Requests : req.size \in Nat /\ req.providers \subseteq Providers
  /\ DOMAIN Factors \subseteq Models
  /\ \A m \in DOMAIN Factors : Factors[m] \in 0..Whole

VARIABLES alphas, \* the weight behind the dial of each setting
          setting, policy, pin, history, turn

vars == <<alphas, setting, policy, pin, history, turn>>

\* The pin of the session's role and the row that keeps HMM's history.
\* by: the strategy that gave the pair; ended: a turn completed on the row;
\* maxed: that turn ran into the output cap; served: the model it was served by.
NoPin == [model |-> NoModel, provider |-> NoProvider, pair |-> NoModel, pairProvider |-> NoProvider,
          by |-> "none", reason |-> "none", live |-> FALSE, ended |-> FALSE, maxed |-> FALSE, served |-> NoModel]

\* The last turn: its model, the path it took when it ran into the output
\* cap, and what it broke.
NoTurn == [served |-> NoModel, capped |-> "no", breaches |-> {}]

-----------------------------------------------------------------------------
(* Exclusions.                                                             *)

Overflowing(size) == {m \in Available : Window[m] < size}

Unsigned(req) == IF req.unsigned THEN Gemini3 \cap Available ELSE {}

\* What the entry of a request excludes.
Prefiltered(req) == policy \cup Overflowing(req.size) \cup Unsigned(req)

ServesImages(m, req) == req.images => AcceptsImages(m)

Forced == pin.live /\ pin.reason = "force"

ForcedServes(req) ==
  /\ Forced
  /\ pin.model \notin Prefiltered(req)
  /\ pin.provider \in req.providers
  /\ ServesImages(pin.model, req)

\* The tier a dropped forced pin leaves behind; 0 asks for none.
TierFloor(req) ==
  IF Forced /\ (pin.model \in Prefiltered(req) \/ ~ServesImages(pin.model, req)) THEN Tier[pin.model] ELSE 0

\* Mutant: the pin's model is taken for the one that served.
LastServedPin(row) == row.model

LastServed(row) == IF row.served = NoModel THEN row.model ELSE row.served

\* The model that the previous turn ran into the output cap with.
Saturated ==
  (IF pin.live /\ ~Forced /\ pin.maxed THEN {LastServed(pin)} ELSE {})
    \cup (IF history.maxed THEN {LastServed(history)} ELSE {})

BeforeFit(req) ==
  Prefiltered(req) \cup Saturated
    \cup (IF Forced /\ ~ServesImages(pin.model, req) THEN {pin.model} ELSE {})

Fits(m, req) == Window[m] >= req.size

\* A live pin that no saturation or overflow has dropped.
Standing(req) ==
  pin.live /\ ~Forced /\ ~pin.maxed /\ (pin.model \in BeforeFit(req) => Fits(pin.model, req))

\* The fit check lifts the exclusion of a standing pin unless it is the policy's.
Excluded(req) ==
  BeforeFit(req) \ (IF Standing(req) /\ pin.model \notin policy THEN {pin.model} ELSE {})

\* The pin that the turn may serve.
Kept(req) == Standing(req) /\ pin.provider \in req.providers /\ ServesImages(pin.model, req)

\* An expired pin is remembered for the turn, unless a guard has cleared it.
Lapsed == ~pin.live /\ pin.model # NoModel

-----------------------------------------------------------------------------
(* Fresh decisions.                                                        *)

Authoritative == setting.strategy = "rl"

CostOf(req) == IF req.covered THEN Factors ELSE <<>>

Asked(req, excluded) ==
  [images |-> req.images, tools |-> req.tools, size |-> req.size, providers |-> req.providers,
   near |-> req.near, excluded |-> excluded,
   dial |-> setting.dial, prefs |-> setting.prefs, factors |-> CostOf(req)]

\* The explorer and the bandit wrap the cluster scorer.
Wrapped(d, q) ==
  CASE setting.strategy = "explore" -> Explored(d, q)
    [] setting.strategy = "bandit"  -> Sampled(d, q)
    [] OTHER -> {d}

Routes(req, excluded) ==
  LET q == Asked(req, excluded)
  IN  IF setting.strategy \in {"hmm", "rl"} THEN SidecarRoute(q, setting.allow, setting.strategy)
      ELSE UNION {Wrapped(d, q) : d \in ClusterRoute(q, alphas)}

\* restrictToTier: nothing is restricted when the tier has no model left.
Restricted(excluded, tier) ==
  IF \E m \in Available \ excluded : Tier[m] = tier
  THEN excluded \cup {m \in Available : Tier[m] # tier} ELSE excluded

\* The tier of a dropped forced pin first, then any.
FreshDecisions(req, excluded) ==
  LET floor == TierFloor(req)
      first == Routes(req, IF floor = 0 THEN excluded ELSE Restricted(excluded, floor))
  IN  IF floor # 0 /\ first = {} THEN Routes(req, excluded) ELSE first

-----------------------------------------------------------------------------
(* The pin against the fresh decision.                                     *)

Warm(row, req) == row.ended /\ ~req.late

Verdict(row, fresh, req) ==
  Decide(row.model, fresh.model, row.ended, req.size, ~Warm(row, req) \/ req.trimmed, CostOf(req), setting)

\* Mutant: the pair is swapped in without a look at the exclusions.
SwapServesAnyway(req) ==
  /\ pin.pair \in Available /\ ServesImages(pin.pair, req)
  /\ pin.pairProvider \in Wired \cap req.providers

\* The paired model serves only where the anchor could have.
SwapServes(req) ==
  /\ pin.pair \in Available
  /\ ServesImages(pin.pair, req)
  /\ pin.pair \notin Excluded(req)
  /\ pin.pairProvider \in Wired \cap req.providers

LargeHalf ==
  IF Tier[pin.model] # Tier[pin.pair] THEN IF Tier[pin.model] > Tier[pin.pair] THEN "anchor" ELSE "pair"
  ELSE IF Price[pin.model] >= Price[pin.pair] THEN "anchor" ELSE "pair"

\* band: what the head predicts, or "none".
SwapsToPair(req, band) ==
  /\ setting.swap /\ pin.pair # NoModel /\ req.main /\ band # "none"
  /\ LargeHalf = (IF band = "large" THEN "pair" ELSE "anchor")
  /\ SwapServes(req)

\* The row an HMM turn may stay on.
StayRow(req) ==
  LET m == LastServed(history)
  IN  IF /\ m # NoModel /\ history.ended /\ history.live /\ ~history.maxed
         /\ m \notin Excluded(req) /\ m \in Available /\ ServesImages(m, req)
         /\ Resolve(m, req.providers) # NoProvider
      THEN [history EXCEPT !.model = m,
                           !.provider = IF @ \in req.providers /\ @ \in ToSet(Bindings[m]) THEN @
                                        ELSE Resolve(m, req.providers)]
      ELSE NoPin

\* HMM's own rules over the planner: confident upgrades, and lateral moves held.
\* says: what its reason and its score tell.
HMMVerdict(row, fresh, req, says) ==
  LET base == Decide(row.model, fresh.model, row.ended, req.size, ~Warm(row, req) \/ req.trimmed,
                     CostOf(req), [setting EXCEPT !.tierUpgrade = FALSE])
      dearer == EffectivePrice(fresh.model, CostOf(req)) > EffectivePrice(row.model, CostOf(req))
  IN  IF row = NoPin THEN "no_pin"
      ELSE IF says = "phase_changed" THEN "phase_change"
      ELSE IF dearer /\ says = "confident" THEN "confident_upgrade"
      ELSE IF dearer /\ Stays(base) THEN "upgrade_confidence_low"
      ELSE IF /\ setting.sameTier /\ base = "ev_positive" /\ Tier[row.model] # 0
              /\ Tier[row.model] = Tier[fresh.model]
           THEN "same_tier_pinned"
      ELSE base

-----------------------------------------------------------------------------
(* The writes.                                                             *)

\* A new pin over the old row: only UpdateUsage touches the usage columns.
Pinned(d) ==
  LET pairGiven == d.pair # NoModel
      same      == d.model = pin.model
  IN  [pin EXCEPT !.model = d.model, !.provider = d.provider, !.reason = "auto", !.live = TRUE,
                  !.pair = IF pairGiven THEN d.pair ELSE IF same THEN @ ELSE NoModel,
                  !.pairProvider = IF pairGiven THEN d.pairProvider ELSE IF same THEN @ ELSE NoProvider,
                  !.by = IF pairGiven THEN d.why ELSE @]

Refreshed == [pin EXCEPT !.live = TRUE]

\* outcome: the turn completed, ran into the output cap, or never finished.
Usage(row, served, provider, outcome) ==
  IF outcome = "cut" THEN row
  ELSE [row EXCEPT !.ended = TRUE, !.maxed = (outcome = "maxed"), !.provider = provider,
                   !.served = IF outcome = "maxed" \/ row.by = "history" THEN served ELSE NoModel]

\* What a turn served against what it was asked to respect.  blind: it was
\* drawn from a pool that reads text only.
Breaches(req, m, p, blind) ==
  {b \in {"keys", "excluded", "picture"} :
     \/ b = "keys" /\ p \notin req.providers
     \/ b = "excluded" /\ m \in BeforeFit(req) /\ m # pin.model
     \/ b = "picture" /\ ~ServesImages(m, req) /\ ~blind}

Served(req, m, p, how, blind, outcome) ==
  turn' = [served |-> m, capped |-> IF outcome = "maxed" THEN how ELSE "no", breaches |-> Breaches(req, m, p, blind)]

\* The turn is answered from the row of the session's role.
OnPin(req, row, m, p, how, outcome) ==
  /\ Served(req, m, p, how, FALSE, outcome)
  /\ pin' = Usage(row, m, p, outcome)
  /\ UNCHANGED history

Blind(d) == DOMAIN d.scores \subseteq TextOnly

OnFresh(req, d, how, outcome) ==
  /\ Served(req, d.model, d.provider, how, Blind(d), outcome)
  /\ pin' = Usage(Pinned(d), d.model, d.provider, outcome)
  /\ UNCHANGED history

Quiet == UNCHANGED <<alphas, setting, policy>>

-----------------------------------------------------------------------------
(* Turns.                                                                  *)

Outcomes == {"done", "maxed", "cut"}

ForcedTurn(req, outcome) ==
  /\ ForcedServes(req)
  /\ OnPin(req, Refreshed, pin.model, pin.provider, "forced", outcome)
  /\ Quiet

\* Tool results by default, and every turn without a planner, follow the pin.
StickyTurn(req, outcome) ==
  /\ ~ForcedServes(req) /\ Kept(req) /\ ~Authoritative
  /\ ~setting.planner \/ (~setting.scoreTools /\ ~req.main)
  /\ OnPin(req, Refreshed, pin.model, pin.provider, "pin", outcome)
  /\ Quiet

\* The strategy is asked.
Consulted(req) ==
  /\ ~ForcedServes(req)
  /\ ~(Kept(req) /\ ~Authoritative /\ (~setting.planner \/ (~setting.scoreTools /\ ~req.main)))

\* No candidate, or the embedder or the sidecar failed: the turn is refused.
RefusedTurn(req) ==
  /\ Consulted(req)
  /\ turn' = NoTurn
  /\ UNCHANGED <<pin, history>> /\ Quiet

AuthoritativeTurn(req, d, outcome) ==
  /\ Authoritative
  /\ OnFresh(req, d, "pin", outcome)
  /\ Quiet

HMMTurn(req, d, says, outcome) ==
  /\ setting.strategy = "hmm"
  /\ LET row == StayRow(req)
         v   == HMMVerdict(row, d, req, says)
         m   == IF Stays(v) THEN row.model ELSE d.model
         p   == IF Stays(v) /\ m # d.model THEN row.provider ELSE d.provider
     IN  /\ Served(req, m, p, "hmm", ~Stays(v) /\ Blind(d), outcome)
         /\ history' = Usage([NoPin EXCEPT !.model = m, !.provider = p, !.reason = "auto", !.live = TRUE,
                                           !.by = "history", !.ended = history.ended, !.maxed = history.maxed,
                                           !.served = history.served], m, p, outcome)
         /\ UNCHANGED pin
  /\ Quiet

\* An expired pin holds off a lateral move.
Reanchors(req, d) ==
  /\ Lapsed /\ ~req.trimmed
  /\ Tier[pin.model] # 0 /\ Tier[d.model] # 0 /\ Tier[d.model] <= Tier[pin.model]
  /\ pin.model \notin Excluded(req) /\ pin.model \in Available
  /\ pin.provider \in req.providers /\ ~pin.maxed /\ ServesImages(pin.model, req)

\* Strategies that leave the pin to the planner.
Pinnable == setting.strategy \in {"cluster", "explore", "bandit"}

ReanchorTurn(req, d, outcome) ==
  /\ Pinnable /\ Reanchors(req, d)
  /\ OnPin(req, [Refreshed EXCEPT !.reason = "auto"], pin.model, pin.provider, "pin", outcome)
  /\ Quiet

PlannedTurn(req, d, band, outcome) ==
  /\ Pinnable /\ ~Reanchors(req, d)
  /\ LET row == IF Kept(req) THEN pin ELSE NoPin
         v   == IF setting.planner THEN Verdict(row, d, req) ELSE "no_pin"
     IN  IF Stays(v)
         THEN IF SwapsToPair(req, band)
              THEN OnPin(req, Refreshed, pin.pair, pin.pairProvider, "pin", outcome)
              ELSE OnPin(req, Refreshed, pin.model, pin.provider, "pin", outcome)
         ELSE OnFresh(req, d, "pin", outcome)
  /\ Quiet

Turn ==
  \E req \in Requests :
    \/ \E outcome \in Outcomes : ForcedTurn(req, outcome) \/ StickyTurn(req, outcome)
    \/ RefusedTurn(req)
    \/ /\ Consulted(req)
       /\ \E d \in FreshDecisions(req, Excluded(req)), outcome \in Outcomes :
            \/ AuthoritativeTurn(req, d, outcome)
            \/ \E says \in {"confident", "unsure", "phase_changed"} : HMMTurn(req, d, says, outcome)
            \/ ReanchorTurn(req, d, outcome)
            \/ \E band \in {"none", "large", "small"} : PlannedTurn(req, d, band, outcome)

-----------------------------------------------------------------------------
(* What happens between turns.                                             *)

ChangePolicy ==
  /\ policy' \in Policies /\ policy' # policy
  /\ UNCHANGED <<alphas, setting, pin, history, turn>>

\* The strategy and the switches are read anew for every request; the
\* settings of one site are the ones that a session may meet.
ChangeSetting ==
  /\ setting' \in {s \in Settings : s.site = setting.site /\ s # setting}
  /\ UNCHANGED <<alphas, policy, pin, history, turn>>

\* The pins outlive their time to live, or were evicted.
Lapse ==
  /\ \/ pin.live /\ pin.reason # "force" /\ pin' = [pin EXCEPT !.live = FALSE] /\ UNCHANGED history
     \/ history.live /\ history' = [history EXCEPT !.live = FALSE] /\ UNCHANGED pin
  /\ UNCHANGED <<alphas, setting, policy, turn>>

\* /force-model binds the first provider of the model that is wired.
ForceModel ==
  /\ ~Forced
  /\ \E m \in Candidates \ policy :
       pin' = [pin EXCEPT !.model = m, !.provider = Resolve(m, Wired), !.reason = "force", !.live = TRUE,
                          !.pair = IF m = pin.model THEN @ ELSE NoModel,
                          !.pairProvider = IF m = pin.model THEN @ ELSE NoProvider]
  /\ UNCHANGED <<alphas, setting, policy, history, turn>>

\* /unforce-model empties the row and expires it.
UnforceModel ==
  /\ Forced
  /\ pin' = [pin EXCEPT !.model = NoModel, !.provider = NoProvider, !.reason = "auto", !.live = FALSE,
                        !.pair = NoModel, !.pairProvider = NoProvider]
  /\ UNCHANGED <<alphas, setting, policy, history, turn>>

Init ==
  /\ alphas = [dial \in {s.dial : s \in Settings} |-> Weights(dial)]
  /\ setting \in Settings
  /\ policy = {}
  /\ pin = NoPin /\ history = NoPin
  /\ turn = NoTurn

Next == Turn \/ ChangePolicy \/ ChangeSetting \/ Lapse \/ ForceModel \/ UnforceModel

Spec == Init /\ [][Next]_vars

-----------------------------------------------------------------------------
(* Properties.                                                             *)

\* No turn leaves the caller's keys, and an exclusion - of the policy, of the
\* context window, of an unsigned history, of a saturated model - binds every
\* path to a model, the swap within the pair, the re-anchored pin and HMM's
\* history among them; only the pinned model itself may outlive it.  A picture
\* goes to a text-only model only if the pool has no other.
ServedIsOffered == turn.breaches = {}

\* The pinned pair is two models, whichever strategy drew it and whatever
\* has been pinned, forced or lapsed since; the bandit's pairs are a finding.
PairIsPeer == pin.pair # NoModel /\ pin.by # "bandit" => pin.pair # pin.model

\* A model that ran into the output cap does not serve the turn that follows,
\* or the agent's automatic continuation would repeat it: not from the pin, its
\* pair, HMM's history or the scorer.  Exempt are the user's own choice, a pin
\* that lapsed or was evicted meanwhile, and a model that a live pin of another
\* strategy is on, whose exclusion the fit check lifts.
SaturatedStepsAside ==
  [][turn' # turn /\ turn.capped # "no" /\ turn'.served = turn.served
       => \/ Forced \/ turn.capped = "forced"
          \/ ~pin.live /\ turn.capped # "hmm"
          \/ pin.live /\ ~pin.maxed /\ pin.model = turn.served]_vars

\* What the planner would leave a pin for, to save money, it would not leave
\* again for that pin on the same prompt, cache and subsidy: no pair of models
\* has a session pay for both prompts at every turn.
EVSwitchesStand ==
  \A req \in Requests, fresh \in Available :
    LET cold == ~Warm(pin, req) \/ req.trimmed
    IN  pin.model \in Models /\ EVPositive(pin.model, fresh, req.size, cold, CostOf(req))
          => ~EVPositive(fresh, pin.model, req.size, cold, CostOf(req))

-----------------------------------------------------------------------------
(* What the code says of itself and does not do.                           *)

\* turnloop.go: "an operator/installation policy exclusion (a hard constraint
\* that must not be bypassed just because context happens to fit)".  A live pin
\* on a model excluded since goes on serving.
PolicyBindsThePin == [][turn' # turn => turn'.served \notin policy]_vars

\* router.go: the paired model is the runner-up of the chosen one.  The bandit
\* serves any candidate and leaves the pair of the argmax as it was.
PairIsAlwaysPeer == pin.pair # NoModel => pin.pair # pin.model

\* turnloop.go: the exclusion of a saturated model is "a hard loop-breaking
\* constraint".  The fit check lifts it for a session that a live pin of the
\* cluster scorer holds on the model that HMM ran into the cap.
SaturatedNeverReturns ==
  [][turn' # turn /\ turn.capped = "hmm" => Forced \/ turn'.served # turn.served]_vars
=============================================================================
