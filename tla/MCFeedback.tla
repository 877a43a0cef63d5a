---------------------------- MODULE MCFeedback ----------------------------
(* Two sessions of two installations; days of two hours, weeks of two days. *)
EXTENDS Feedback, TLC

CONSTANTS i1, i2, s1, s2, opus, haiku, cluster, hmm

MCInstallationOf == s1 :> i1 @@ s2 :> i2
MCNumbers == {-2, -1, 0, 1}
MCPrice == opus :> 5 @@ haiku :> 1
MCDateRanges == {[back |-> 2, granularity |-> "day"], [back |-> 1, granularity |-> "week"]}

\* What users say of their turns while an administrator switches strategies.
Speaking ==
    [hours |-> 1,
     demand |-> { <<s1, "main_loop", "scored", opus, haiku>>,
                  <<s1, "main_loop", "pinned", opus, opus>>,
                  <<s1, "tool_result", "scored", opus, opus>>,
                  <<s1, "main_loop", "bypass", opus, opus>>,
                  <<s2, "main_loop", "scored", haiku, haiku>> },
     offered |-> i1 :> {cluster, hmm} @@ i2 :> {cluster},
     submissions |-> 2, scopes |-> {}, loads |-> 0]

\* The dashboard of an installation or of all, while turns are served.
Watching ==
    [hours |-> 2,
     demand |-> { <<s1, "main_loop", "scored", opus, haiku>>,
                  <<s2, "main_loop", "pinned", opus, opus>> },
     offered |-> [i \in {i1, i2} |-> {cluster}],
     submissions |-> 0, scopes |-> {i1, None}, loads |-> 1]

\* A user who chooses again before the figures have come.
ChoosingAgain ==
    [hours |-> 2,
     demand |-> { <<s1, "main_loop", "pinned", opus, opus>> },
     offered |-> [i \in {i1, i2} |-> {cluster}],
     submissions |-> 0, scopes |-> {None}, loads |-> 2]

MCScenarios == {Speaking, Watching, ChoosingAgain}

============================================================================
