----------------------------- MODULE MCRouting -----------------------------
EXTENDS Routing

\* opus and haiku take pictures, glm reads text only, flash signs its calls.
MCModels   == {"opus", "haiku", "glm", "flash"}
MCTier     == [opus |-> 3, haiku |-> 1, glm |-> 2, flash |-> 1]
MCPrice    == [opus |-> 10, haiku |-> 4, glm |-> 3, flash |-> 1]
MCReadMult == [opus |-> 1, haiku |-> 1, glm |-> 5, flash |-> 1]
MCWindow   == [opus |-> 1, haiku |-> 1, glm |-> 1, flash |-> 2]
MCBindings == [opus |-> <<"anthropic">>, haiku |-> <<"anthropic">>,
               glm |-> <<"fireworks", "openrouter">>, flash |-> <<"google">>]
MCNames    == <<"flash", "glm", "haiku", "opus">>
MCQuality  == <<[opus |-> 10, haiku |-> 4, glm |-> 8, flash |-> 0],
                [opus |-> 9, haiku |-> 8, glm |-> 10, flash |-> 2]>>
MCNearest  == <<{1}, {2}>>
MCAlpha    == <<9, 6>>
MCFloor    == <<7, 0>>
MCPress    == <<15, 8>>
MCFactors  == [opus |-> 1, haiku |-> 1]

Every == {"anthropic", "fireworks", "openrouter", "google"}

Plain == [images |-> FALSE, tools |-> FALSE, size |-> 1, unsigned |-> FALSE, main |-> TRUE, trimmed |-> FALSE,
          late |-> FALSE, covered |-> FALSE, providers |-> Every, near |-> {1}, excluded |-> {}]

\* Every feature on its own, on a prompt of either cluster where that matters
\* to the scorer's choice, and some together.
MCRequests ==
  UNION {{r, [r EXCEPT !.images = TRUE], [r EXCEPT !.late = TRUE], [r EXCEPT !.covered = TRUE]} :
           r \in {Plain, [Plain EXCEPT !.near = {2}]}}
    \cup {[Plain EXCEPT !.tools = TRUE, !.main = FALSE],
          [Plain EXCEPT !.unsigned = TRUE, !.size = 2],
          [Plain EXCEPT !.providers = {"openrouter", "google"}],
          [Plain EXCEPT !.size = 2, !.trimmed = TRUE],
          [Plain EXCEPT !.images = TRUE, !.tools = TRUE, !.providers = {"fireworks", "google"}],
          [Plain EXCEPT !.unsigned = TRUE]}

Default == [strategy |-> "cluster", planner |-> TRUE, scoreTools |-> TRUE, tierUpgrade |-> TRUE, coldFollow |-> FALSE,
            swap |-> TRUE, sameTier |-> FALSE, dial |-> NoDial, prefs |-> <<>>, allow |-> <<>>, site |-> "dialled"]

\* Sites that turn the dial or the planner off, that explore, that sample, and
\* that leave the turns to HMM or to a learned policy.
MCSettings == {Default,
               [Default EXCEPT !.planner = FALSE, !.dial = 0],
               [Default EXCEPT !.scoreTools = FALSE, !.tierUpgrade = FALSE, !.coldFollow = TRUE, !.dial = 5,
                               !.site = "exploring"],
               [Default EXCEPT !.strategy = "explore", !.prefs = <<"haiku", "opus">>, !.site = "exploring"],
               [Default EXCEPT !.strategy = "bandit", !.site = "sampling"],
               [Default EXCEPT !.strategy = "hmm", !.sameTier = TRUE, !.site = "phased"],
               [Default EXCEPT !.strategy = "rl", !.allow = [group |-> <<"glm", "flash">>], !.site = "learning"]}

\* A session that goes to HMM and back.
MCMoving == {[Default EXCEPT !.tierUpgrade = FALSE, !.site = "moving"],
             [Default EXCEPT !.strategy = "hmm", !.sameTier = TRUE, !.site = "moving"]}

MCPolicies == {{}, {"glm", "opus"}}
MCGemini3  == {"flash"}
MCLow      == {}
MCAgentic  == {"flash"}
MCText     == {"glm"}
=============================================================================
