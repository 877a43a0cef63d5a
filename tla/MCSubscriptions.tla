-------------------------- MODULE MCSubscriptions --------------------------
EXTENDS Subscriptions, TLC

CONSTANTS r1, r2

Owners == [messages |-> "claude", chat |-> "codex"]

\* Claude Code, with and without credits, with and without a key to fall back on.
Claude == [tokens |-> {"claude"}, surface |-> "messages", wants |-> "anthropic",
           gate |-> 2, only |-> FALSE, off |-> FALSE, key |-> TRUE, owner |-> Owners]

\* One at a time: opencode presents both tokens; others have the feature off, or nothing to fall back on.
Both == [Claude EXCEPT !.tokens = Tokens]

Single == {Both, [Both EXCEPT !.only = TRUE, !.wants = "openai"],
           [Claude EXCEPT !.tokens = Tokens, !.surface = "chat", !.wants = "openai", !.only = TRUE],
           [Claude EXCEPT !.key = FALSE], [Claude EXCEPT !.off = TRUE]}

AllCallers == {[slots |-> {r1, r2}, uses |-> {"claude"} \X Windows,
                kinds |-> {Claude, [Claude EXCEPT !.only = TRUE, !.gate = 1]}],
               [slots |-> {r1}, uses |-> {<<"claude", "secondary">>, <<"codex", "secondary">>}, kinds |-> Single]}

Slots == Permutations({r1, r2})

Lengths == [primary |-> 2, secondary |-> 4]
=============================================================================
