------------------------------ MODULE MCStreams ------------------------------
EXTENDS Streams

AllPaths == {"chat", "gemini", "responses", "codex", "geminiChat", "native", "marked"}

GeminiChain == {"gemini"}

\* Long enough for two blocks and a terminal event on every path.
EnoughEvents == [p \in Paths |-> IF p \in {"native", "marked"} THEN 10
                                ELSE IF p \in {"gemini", "geminiChat"} THEN 6 ELSE 5]
=============================================================================
