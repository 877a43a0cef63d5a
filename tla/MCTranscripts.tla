--------------------------- MODULE MCTranscripts ---------------------------
EXTENDS Transcripts

Plain == [format |-> "anthropic", tools |-> "none", system |-> "none", marks |-> {"none"},
          texts |-> {"prompt"}, notes |-> {<<>>}, results |-> {"small"},
          says |-> {"none"}, names |-> {<<>>, <<"read">>}, targets |-> {"anthropic"}, longest |-> 6]

Every == {"anthropic", "openai", "responses", "gemini"}

\* Clients whose sessions run out of the window.
Longs == {[Plain EXCEPT !.results = {"big"}, !.names = {<<"read">>, <<"empty", "edit">>}, !.targets = Every],
          [Plain EXCEPT !.format = "openai", !.results = {"small", "big"}, !.says = {"said"},
                        !.names = {<<"empty">>, <<"read", "edit">>}, !.targets = {"anthropic", "gemini"},
                        !.longest = 7]}

\* Clients that place cache breakpoints.
Marking == {[Plain EXCEPT !.tools = m[1], !.system = m[2], !.marks = {"none", "5m", "1h"}, !.names = {<<"empty">>}] :
              m \in {<<"none", "none">>, <<"1h", "none">>, <<"1h", "5m">>}}

\* Clients whose models repeat themselves.
Looping == {[Plain EXCEPT !.says = {"none", "said"}, !.texts = {"prompt", "reminder"}, !.names = {<<>>, <<"empty">>}],
            [Plain EXCEPT !.names = {<<"read", "grep">>, <<"grep">>, <<"edit">>}, !.texts = {"prompt", "compact"},
                          !.notes = {<<>>, <<Text("reminder")>>}, !.targets = {"openai"}, !.longest = 7],
            [Plain EXCEPT !.says = {"markup"}, !.targets = {"openai", "gemini"}],
            [Plain EXCEPT !.format = "openai", !.names = {<<"read">>, <<"edit">>}, !.longest = 7]}

Trims == <<3, 2, 1>>

AllClients == Longs \cup Marking \cup Looping

Sizes == [tag \in {"big", "small", "error", "cleared", "summary", "system", "prompt", "reminder",
                   "compact", "said", "fresh", "markup", "stopped",
                   "read", "grep", "edit", "empty", "nudge"} |->
            CASE tag = "big" -> 5 [] tag \in {"cleared", "system"} -> 0 [] OTHER -> 1]
=============================================================================
