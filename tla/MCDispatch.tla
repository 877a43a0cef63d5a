------------------------------ MODULE MCDispatch ------------------------------
EXTENDS Dispatch, TLC

CONSTANTS anthropic, google, openai, groq, together

Bound == {<<anthropic>>, <<google>>, <<openai>>, <<groq, together>>, <<groq>>}

\* A deployment that has every key, every client, and excludes nobody.
Plain == [surface |-> "messages", verbatim |-> FALSE, catalog |-> <<groq, together>>, primary |-> groq, keyed |-> Providers,
          excluded |-> {}, registered |-> Providers, failover |-> TRUE,
          stream |-> TRUE, forced |-> FALSE, authoritative |-> FALSE,
          baseline |-> FALSE, subscription |-> FALSE, fallbackKey |-> FALSE,
          deployKey |-> FALSE]

\* A model and the binding it was routed to.
Routed == UNION {{<<c, c[n]>> : n \in DOMAIN c} : c \in Bound}

\* Walks: every set of keys, clients and exclusions.
Walks ==
  {[Plain EXCEPT !.catalog = r[1], !.primary = r[2], !.keyed = k, !.excluded = x,
                 !.registered = g \cup {anthropic}, !.failover = f, !.stream = s,
                 !.forced = o, !.baseline = b]
     : r \in Routed, k \in {Providers, {anthropic, groq}, {together}, {}},
       x \in {{}, {groq}, {together}, {groq, together}, {anthropic}},
       g \in {Providers, {groq}}, f, s, o, b \in BOOLEAN}

\* Rescues: a model of one provider, with every way to be rescued.
Rescues ==
  {[Plain EXCEPT !.catalog = c, !.primary = c[1], !.excluded = x, !.failover = f,
                 !.stream = s, !.forced = o, !.authoritative = a, !.baseline = b,
                 !.subscription = u, !.fallbackKey = k, !.deployKey = d]
     : c \in {<<anthropic>>, <<google>>, <<groq>>}, x \in {{}, {anthropic}},
       f, s, o, a, b, u, k, d \in BOOLEAN}

\* Streams of each family, on one provider or two.
Streams ==
  {[Plain EXCEPT !.catalog = c, !.primary = c[1], !.stream = s, !.baseline = b,
                 !.registered = g]
     : c \in Bound, s, b \in BOOLEAN, g \in {Providers, {anthropic, together}}}

\* The other surfaces: every catalog, walk and translator; no rescue applies,
\* though one is allowed.
Others ==
  {[Plain EXCEPT !.surface = u, !.verbatim = v, !.catalog = r[1], !.primary = r[2],
                 !.excluded = x, !.registered = g, !.failover = f, !.stream = s,
                 !.forced = o, !.baseline = TRUE]
     : u \in Surfaces \ {"messages"}, v \in BOOLEAN, r \in Routed,
       x \in {{}, {groq}, {groq, together}},
       g \in {Providers, Providers \ {together}, {anthropic, together}},
       f, s, o \in BOOLEAN}

Everything == Walks \cup Rescues \cup Streams \cup Others
=============================================================================
