--------------------------- MODULE MCSessionTurns ---------------------------
EXTENDS SessionTurns, TLC

CONSTANTS opus, kimi, anthropic, together, groq, t1, t2

\* opus is served by Anthropic alone; kimi by one provider, or by two.
BindSingle == (opus :> {anthropic}) @@ (kimi :> {together})
BindDouble == (opus :> {anthropic}) @@ (kimi :> {together, groq})

\* Requests of one conversation differ in nothing but their order.
TurnsAlike == Permutations(Turns)
=============================================================================
