---------------------------- MODULE SessionTurns ----------------------------
(***************************************************************************)
(* The session-pin protocol of internal/proxy: requests of one             *)
(* conversation (one session key, one tier role) that read the pin rows,   *)
(* route, dispatch upstream and then write usage, strikes and evictions    *)
(* back.  Several requests of a conversation may be in flight, on several  *)
(* replicas: the only shared state is the table, every statement on it is  *)
(* atomic, and nothing else is.  One action is the code between two        *)
(* statements.                                                             *)
(*                                                                         *)
(* rows["active"] is the row of the tier role, rows["history"] the row of  *)
(* its _hmm_history sibling.                                               *)
(***************************************************************************)
EXTENDS SessionPinStore, FiniteSets

CONSTANTS Turns,            \* slots for requests in flight
          MaxRequests,      \* bound on the requests of a behaviour
          Bind,             \* Bind[m]: providers that can serve model m
          Scorers,          \* strategies of the deployment
          Baseline,         \* model a failed cheap model is rescued with
          EscalateModel,    \* model a cyclic loop is escalated to
          Anthropic,        \* provider of Baseline and EscalateModel
          RefusalFallback,  \* cyberRefusalFallbackModel
          Features          \* what the environment of this instance does

AllFeatures == {"force", "bypass", "bypassFails", "toolLoop", "cyclicLoop", "noProgress",
                "textLoop", "bandSwap", "baseline", "refusal", "degenerate",
                "guards", "lapse", "sweep", "crash"}

ASSUME TurnsAssumption ==
  /\ MaxRequests \in Nat
  /\ Bind \in [Models -> (SUBSET Providers) \ {{}}]
  /\ Scorers \subseteq {"cluster", "hmm", "perTurn"}
  /\ Baseline \in Models /\ EscalateModel \in Models
  /\ Anthropic \in Bind[Baseline] \cap Bind[EscalateModel]
  /\ RefusalFallback \in Models
  /\ Features \subseteq AllFeatures

VARIABLES rows,         \* the two rows of router.session_pins
          stage,        \* stage[t]: the next statement of request t
          turn,         \* turn[t]: the local variables of request t
          started,      \* requests begun so far
          clock,        \* order of usage writebacks (last_turn_ended_at)
          escalations,  \* this session's rows of loop_escalation_events
          forced,       \* history variable: the model the user has forced
          answered,     \* history variable: models that have answered a turn
          overloads     \* history variable: 529s each provider has ended a turn with

store == <<rows, clock, escalations>>
hist  == <<forced, answered, overloads>>
vars  == <<rows, stage, turn, started, clock, escalations, forced, answered, overloads>>

Roles == {"active", "history"}

Stages == {"idle", "escalate", "budget", "pinEscalation", "recordEscalation",
           "break", "breakHistory", "load", "loadHistory", "route", "routed",
           "noProgress", "readHistory", "usage", "usageHistory", "degenerate",
           "strike", "evict", "overload", "disable", "overloadActive",
           "overloadHistory", "refusal", "repin"}

Outcomes == {"none", "ok", "e4xx", "e529", "other"}

Locals == [act : Row, past : Row, model : Models \cup {NoModel},
           provider : Providers \cup {NoProvider}, reason : Reasons,
           sticky : BOOLEAN, role : Roles, hmm : BOOLEAN,
           prior : Models \cup {NoModel}, ever : BOOLEAN,
           bypassed : BOOLEAN, out : Outcomes, tokens : BOOLEAN,
           baseline : BOOLEAN, refused : BOOLEAN, poor : BOOLEAN,
           disabled : SUBSET (Providers \cup {NoProvider}),
           seen : SUBSET Models, struck : SUBSET (Providers \cup {NoProvider})]

Blank == [act |-> EmptyRow, past |-> EmptyRow, model |-> NoModel,
          provider |-> NoProvider, reason |-> "none", sticky |-> FALSE,
          role |-> "active", hmm |-> FALSE, prior |-> NoModel, ever |-> FALSE,
          bypassed |-> FALSE, out |-> "none", tokens |-> FALSE,
          baseline |-> FALSE, refused |-> FALSE, poor |-> FALSE, disabled |-> {},
          seen |-> {}, struck |-> {}]

Init == /\ rows = [r \in Roles |-> EmptyRow]
        /\ stage = [t \in Turns |-> "idle"]
        /\ turn = [t \in Turns |-> Blank]
        /\ started = 0
        /\ clock = 0
        /\ escalations = 0
        /\ forced = NoModel
        /\ answered = {}
        /\ overloads = [p \in Providers |-> 0]

May(f) == f \in Features

At(t, s) == stage[t] = s

\* Request t continues at stage s with locals l; a finished request forgets them.
Continue(t, s, l) ==
  /\ stage' = [stage EXCEPT ![t] = s]
  /\ turn' = [turn EXCEPT ![t] = IF s = "idle" THEN Blank ELSE l]

SetRow(r, row) == rows' = [rows EXCEPT ![r] = row]

PrimaryProvider(m) == CHOOSE p \in Bind[m] : TRUE

\* catalog.EnumerateBindings: a name that is no catalog model has none.
Bindings(m) == IF m \in Models THEN Bind[m] ELSE {}

-----------------------------------------------------------------------------
(* Entry of ProxyMessages: commands, the force header, loop detectors.     *)

Entries == {"load"} \cup (IF May("toolLoop") THEN {"break"} ELSE {})
                    \cup (IF May("cyclicLoop") THEN {"escalate"} ELSE {})

Begin(t) == /\ At(t, "idle")
            /\ started < MaxRequests
            /\ started' = started + 1

StartTurn(t) ==
  /\ Begin(t)
  /\ \E s \in Entries : Continue(t, s, Blank)
  /\ UNCHANGED <<store, hist>>

\* /force-model answers at once; the header writes the same pin and goes on
\* to route.  setForceModelPin's Get feeds a column that Upsert does not write.
ForceModel(t) ==
  /\ May("force")
  /\ Begin(t)
  /\ \E m \in Models, s \in {"idle"} \cup Entries :
       /\ SetRow("active", Upsert(rows["active"],
            PinWrite(m, PrimaryProvider(m), NoModel, NoProvider, "force")))
       /\ forced' = m
       /\ Continue(t, s, Blank)
  /\ UNCHANGED <<clock, escalations, answered, overloads>>

UnforceModel(t) ==
  /\ May("force")
  /\ Begin(t)
  /\ SetRow("active", Upsert(rows["active"], ExpiredPin))
  /\ forced' = NoModel
  /\ UNCHANGED <<stage, turn, clock, escalations, answered, overloads>>

\* expireSessionPin as a step of request t.
Expire(t, r, next, l) ==
  /\ SetRow(r, Upsert(rows[r], ExpiredPin))
  /\ Continue(t, next, l)
  /\ UNCHANGED <<started, clock, escalations, hist>>

\* handleToolCallLoopBreak, handleTextRepetitionBreak, handleNoProgressBreak.
BreakActive(t)  == At(t, "break") /\ Expire(t, "active", "breakHistory", turn[t])
BreakHistory(t) == At(t, "breakHistory") /\ Expire(t, "history", "idle", turn[t])

\* handleLoopEscalation up to the budget query: the pin is read whether or not
\* it has expired.
EscalateRead(t) ==
  /\ At(t, "escalate")
  /\ LET pin == rows["active"]
     IN  IF pin.reason = "loop"
         THEN Continue(t, "load", Blank)
         ELSE \E requested \in Models :
                Continue(t, "budget",
                  [Blank EXCEPT !.reason = pin.reason,
                                !.model = IF pin.model # NoModel THEN pin.model
                                          ELSE requested])
  /\ UNCHANGED <<started, store, hist>>

\* Mutant: the durable budget is not consulted.
EscalateWithoutBudget(t) ==
  /\ At(t, "budget")
  /\ \/ Continue(t, "recordEscalation", turn[t])
     \/ /\ turn[t].reason # "force" /\ turn[t].model # EscalateModel
        /\ Continue(t, "pinEscalation", turn[t])
  /\ UNCHANGED <<started, store, hist>>

\* The kill switch and the holdout record the event without the rescue.
EscalateBudget(t) ==
  /\ At(t, "budget")
  /\ IF escalations > 0 THEN Continue(t, "load", Blank)
     ELSE \/ Continue(t, "recordEscalation", turn[t])
          \/ /\ turn[t].reason # "force" /\ turn[t].model # EscalateModel
             /\ Continue(t, "pinEscalation", turn[t])
  /\ UNCHANGED <<started, store, hist>>

PinEscalation(t) ==
  /\ At(t, "pinEscalation")
  /\ SetRow("active", Upsert(rows["active"],
       PinWrite(EscalateModel, Anthropic, NoModel, NoProvider, "loop")))
  /\ Continue(t, "recordEscalation", turn[t])
  /\ UNCHANGED <<started, clock, escalations, hist>>

RecordEscalation(t) ==
  /\ At(t, "recordEscalation")
  /\ escalations' = escalations + 1
  /\ Continue(t, "load", Blank)
  /\ UNCHANGED <<rows, started, clock, hist>>

-----------------------------------------------------------------------------
(* runTurnLoop.                                                            *)

\* struck is what the first load of the request found.
LoadActive(t) ==
  /\ At(t, "load")
  /\ Continue(t, "loadHistory", [turn[t] EXCEPT
       !.act    = rows["active"],
       !.seen   = answered,
       !.struck = IF turn[t].bypassed THEN @ ELSE rows["active"].disabled \cup rows["history"].disabled])
  /\ UNCHANGED <<started, store, hist>>

\* switchHistoryFromPins.
PriorServed(act, past) ==
  IF /\ past.lastServed # NoModel
     /\ act.lastServed = NoModel \/ past.endedAt > act.endedAt
  THEN past.lastServed ELSE act.lastServed

EverSwitched(act, past) ==
  \/ act.everSwitched \/ past.everSwitched
  \/ /\ act.lastServed # NoModel
     /\ past.lastServed # NoModel
     /\ act.lastServed # past.lastServed

\* Mutant: an expired row carries no evidence.
DisabledByLivePins(act, past) ==
  (IF Live(act) THEN act.disabled ELSE {}) \cup (IF Live(past) THEN past.disabled ELSE {})

\* Providers struck out for the session; a live forced pin exempts its own.
Disabled(act, past) ==
  LET all == act.disabled \cup past.disabled
  IN  IF Live(act) /\ act.reason = "force" THEN all \ {act.provider} ELSE all

\* The reload after a failed bypass refreshes the switch history alone.
LoadHistory(t) ==
  /\ At(t, "loadHistory")
  /\ LET act  == turn[t].act
         past == rows["history"]
     IN  Continue(t, "route", [turn[t] EXCEPT
           !.past     = past,
           !.prior    = PriorServed(act, past),
           !.ever     = EverSwitched(act, past),
           !.disabled = IF turn[t].bypassed THEN @ ELSE Disabled(act, past)])
  /\ UNCHANGED <<started, store, hist>>

Immutable(pin) == pin.reason \in {"force", "loop"}

\* The pin survives the image, exclusion, context and maxed-out guards, which
\* read only the request: "guards" lets any of them drop it.
Passes == IF May("guards") THEN BOOLEAN ELSE {TRUE}

\* Decisions the scorer can make: an open binding and a runner-up or none.
\* routeFor after a failed bypass gets the request without the session's
\* disabled providers.
Fresh(l) ==
  LET open == [m \in Models |-> Bind[m] \ (IF l.bypassed THEN {} ELSE l.disabled)]
      picks == {d \in Models \X Providers : d[2] \in open[d[1]]}
  IN  {f \in picks \X (picks \cup {<<NoModel, NoProvider>>}) : f[2][1] # f[1][1]}

Decide(l, m, p, why, sticky, role, isHmm) ==
  [l EXCEPT !.act = EmptyRow, !.past = EmptyRow, !.model = m, !.provider = p,
            !.reason = why, !.sticky = sticky, !.role = role, !.hmm = isHmm]

\* A forced or loop-escalation pin that can serve is refreshed and used.
RouteImmutable(t) ==
  LET pin == turn[t].act
  IN  /\ At(t, "route") /\ ~turn[t].bypassed
      /\ Live(pin) /\ Immutable(pin)
      /\ pin.provider \notin turn[t].disabled
      /\ SetRow("active", Upsert(rows["active"],
           PinWrite(pin.model, pin.provider, pin.pairModel, pin.pairProvider, pin.reason)))
      /\ Continue(t, "routed", Decide(turn[t], pin.model, pin.provider, pin.reason,
                                      TRUE, "active", FALSE))
      /\ UNCHANGED <<started, clock, escalations, hist>>

\* The pin the branches after the guards see: none when a guard dropped it.
Kept(l, passes) == /\ Live(l.act)
                   /\ passes
                   /\ ~Immutable(l.act)
                   /\ l.act.provider \notin l.disabled

\* A live immutable pin that still serves never reaches the later branches.
PastForced(l, passes) ==
  ~(Live(l.act) /\ Immutable(l.act) /\ passes /\ l.act.provider \notin l.disabled)

\* Usage bypass: the subscription serves the requested model and the request
\* returns without a pin or usage write.
BypassServed(t) ==
  /\ May("bypass") /\ At(t, "route") /\ ~turn[t].bypassed
  /\ \E passes \in Passes : PastForced(turn[t], passes)
  /\ \E m \in Models : Anthropic \in Bind[m] /\ answered' = answered \cup {m}
  /\ Continue(t, "idle", Blank)
  /\ UNCHANGED <<started, store, forced, overloads>>

\* Mutant: the re-route forgets that the bypass was tried.
BypassRetried(t) ==
  /\ May("bypassFails") /\ At(t, "route") /\ ~turn[t].bypassed
  /\ \E passes \in Passes : PastForced(turn[t], passes)
  /\ Continue(t, "load", turn[t])
  /\ UNCHANGED <<started, store, hist>>

\* The bypass met a retryable error: reload the history, route without pins.
BypassFailed(t) ==
  /\ May("bypassFails") /\ At(t, "route") /\ ~turn[t].bypassed
  /\ \E passes \in Passes : PastForced(turn[t], passes)
  /\ Continue(t, "load", [turn[t] EXCEPT !.bypassed = TRUE])
  /\ UNCHANGED <<started, store, hist>>

RouteBypassed(t) ==
  /\ At(t, "route") /\ turn[t].bypassed
  /\ \E f \in Fresh(turn[t]), isHmm \in BOOLEAN :
       /\ isHmm => "hmm" \in Scorers
       /\ Continue(t, "routed", Decide(turn[t], f[1][1], f[1][2],
            IF isHmm THEN "hmm" ELSE "scorer", FALSE, "active", isHmm))
  /\ UNCHANGED <<started, store, hist>>

\* Sticky turns: planner off, legacy tool-result reuse, or the planner stays;
\* only the last one (a cluster decision) may serve the other half of the band.
RouteSticky(t) ==
  LET pin == turn[t].act
  IN  /\ At(t, "route") /\ ~turn[t].bypassed
      /\ Scorers \cap {"cluster", "hmm"} # {}
      /\ Kept(turn[t], TRUE)
      /\ SetRow("active", Upsert(rows["active"],
           PinWrite(pin.model, pin.provider, pin.pairModel, pin.pairProvider, pin.reason)))
      /\ \E d \in {<<pin.model, pin.provider>>} \cup
                  (IF May("bandSwap") /\ "cluster" \in Scorers /\ pin.pairModel # NoModel
                      /\ pin.pairProvider \notin turn[t].disabled
                   THEN {<<pin.pairModel, pin.pairProvider>>} ELSE {}) :
           Continue(t, "routed", Decide(turn[t], d[1], d[2], pin.reason,
                                        TRUE, "active", pin.reason = "hmm"))
      /\ UNCHANGED <<started, clock, escalations, hist>>

WriteNewPin(t, m, p, e, why, sticky) ==
  /\ SetRow("active", Upsert(rows["active"], PinWrite(m, p, e[1], e[2], why)))
  /\ Continue(t, "routed", Decide(turn[t], m, p, why, sticky, "active", why = "hmm"))
  /\ UNCHANGED <<started, clock, escalations, hist>>

\* A fresh cluster decision, an authoritative per-turn one, or a planner
\* switch: the decision becomes the pin of the tier role.
RouteFresh(t) ==
  /\ At(t, "route") /\ ~turn[t].bypassed
  /\ \E passes \in Passes : PastForced(turn[t], passes)
  /\ \E f \in Fresh(turn[t]), why \in {"scorer", "hmm"} :
       /\ IF why = "hmm" THEN "perTurn" \in Scorers
                         ELSE Scorers \cap {"cluster", "perTurn"} # {}
       /\ WriteNewPin(t, f[1][1], f[1][2], f[2], why, FALSE)

\* Expired-pin re-anchor: the lapsed pin is written back with a fresh TTL.
RouteReanchor(t) ==
  LET pin == turn[t].act
  IN  /\ At(t, "route") /\ ~turn[t].bypassed
      /\ "cluster" \in Scorers
      /\ ~Live(pin) /\ pin.model # NoModel
      /\ pin.provider \notin turn[t].disabled
      /\ Fresh(turn[t]) # {}
      /\ WriteNewPin(t, pin.model, pin.provider, <<NoModel, NoProvider>>, pin.reason, TRUE)

\* normalizeHMMStayPin: the last served model on a binding that can serve it.
StayCandidates(l, pin) ==
  LET m    == IF pin.lastServed # NoModel THEN pin.lastServed ELSE pin.model
      open == Bindings(m) \ l.disabled
  IN  IF open = {} \/ pin.endedAt = 0 \/ pin.until = "past" THEN {}
      ELSE {[model |-> m, reason |-> pin.reason, endedAt |-> pin.endedAt,
             provider |-> IF pin.provider \in open THEN pin.provider
                          ELSE CHOOSE p \in open : TRUE]}

\* hmmStayPin: the candidate that ended last, the active row on a tie.
HmmStay(l, passes) ==
  LET fromAct  == IF l.act.reason = "hmm" /\ Kept(l, TRUE) THEN StayCandidates(l, l.act) ELSE {}
      fromPast == StayCandidates(l, l.past)
      newer    == {c \in fromPast : \A a \in fromAct : c.endedAt > a.endedAt}
  IN  IF ~passes THEN {} ELSE IF newer # {} THEN newer ELSE fromAct

\* An HMM decision writes no active pin; a stay is sticky on the history row.
RouteHmm(t) ==
  /\ At(t, "route") /\ ~turn[t].bypassed
  /\ "hmm" \in Scorers
  /\ \E passes \in Passes :
       /\ PastForced(turn[t], passes)
       /\ \E f \in Fresh(turn[t]) :
            \/ Continue(t, "routed", Decide(turn[t], f[1][1], f[1][2], "hmm",
                                            FALSE, "active", TRUE))
            \/ \E c \in HmmStay(turn[t], passes) :
                 /\ c.model # f[1][1]
                 /\ Continue(t, "routed", Decide(turn[t], c.model, c.provider, c.reason,
                                                 TRUE, "history", TRUE))
  /\ UNCHANGED <<started, store, hist>>

\* No model has an open binding: the request fails before dispatch.
RouteFails(t) ==
  /\ At(t, "route")
  /\ \E passes \in Passes : PastForced(turn[t], passes)
  /\ Fresh(turn[t]) = {}
  /\ Continue(t, "idle", Blank)
  /\ UNCHANGED <<started, store, hist>>

-----------------------------------------------------------------------------
(* After routing: loop breaks, dispatch, and the writes that follow it.    *)

\* handleNoProgressBreak reads the pin to spare a forced one.
NoProgressRead(t) ==
  /\ May("noProgress") /\ At(t, "routed")
  /\ LET pin == rows["active"]
     IN  Continue(t, IF Live(pin) /\ pin.reason = "force" THEN "idle" ELSE "break", Blank)
  /\ UNCHANGED <<started, store, hist>>

TextRepetition(t) ==
  /\ May("textLoop") /\ At(t, "routed")
  /\ Continue(t, "break", Blank)
  /\ UNCHANGED <<started, store, hist>>

\* The policies that count and evict leave user-forced turns alone.
Judged(l) == l.sticky /\ l.reason # "force"

AfterOverload(l) == IF l.refused /\ l.reason # "force" THEN "refusal" ELSE "idle"

\* Mutant: a client error counts as an overload.
AfterStrikeAnyError(l) ==
  IF Judged(l) /\ ~l.baseline /\ l.out \in {"ok", "e4xx", "e529"} THEN "overload"
  ELSE AfterOverload(l)

AfterStrike(l) ==
  IF Judged(l) /\ ~l.baseline /\ l.out \in {"ok", "e529"} THEN "overload"
  ELSE AfterOverload(l)

AfterDegenerate(l) ==
  IF Judged(l) /\ l.out \in {"ok", "e4xx"} THEN "strike" ELSE AfterStrike(l)
AfterUsage(l) ==
  IF Judged(l) /\ l.out = "ok" /\ l.poor THEN "degenerate" ELSE AfterDegenerate(l)
AfterDispatch(l) ==
  IF l.hmm THEN IF l.tokens THEN "usage" ELSE "readHistory"
  ELSE IF l.tokens THEN "usage" ELSE AfterUsage(l)

\* The bindings the dispatch walks: the decision's own provider and the other
\* bindings of the model, less the session's disabled providers.
Walk(l) == ({l.provider} \cup Bindings(l.model)) \ l.disabled

\* Where a turn can end up being served: a binding of the walk, or the baseline
\* rescue of a non-Anthropic model that some binding failed.
ServedBy(l) ==
  {<<l.model, p, FALSE>> : p \in Walk(l)}
  \cup (IF May("baseline") /\ l.reason # "force" /\ l.provider # Anthropic
           /\ l.model # Baseline /\ Walk(l) # {} /\ Anthropic \notin l.disabled
        THEN {<<Baseline, Anthropic, TRUE>>} ELSE {})

\* How a dispatched turn can end.  A failed turn may still have reported tokens
\* before it broke.
Endings == {e \in [out : Outcomes \ {"none"}, tokens : BOOLEAN, refused : BOOLEAN, poor : BOOLEAN] :
              /\ e.refused => May("refusal") /\ e.out = "ok"
              /\ e.poor => May("degenerate") /\ e.out = "ok"
              /\ e.out = "ok" => e.tokens}

\* The locals the writebacks use; what only routing needed is forgotten.
Ended(l, m, p, baseline, e) ==
  [l EXCEPT !.model = m, !.provider = p, !.baseline = baseline, !.out = e.out,
            !.tokens = e.tokens, !.refused = e.refused, !.poor = e.poor,
            !.disabled = {}, !.seen = {}, !.struck = {}]

\* Dispatch and its fallbacks, seen by the pin protocol: who ended the turn
\* and how.
Dispatch(t) ==
  /\ At(t, "routed")
  /\ \E s \in ServedBy(turn[t]), e \in Endings :
       /\ LET l == Ended(turn[t], s[1], s[2], s[3], e)
          IN  Continue(t, AfterDispatch(l), l)
       /\ answered' = IF e.tokens THEN answered \cup ({s[1]} \ {NoModel}) ELSE answered
       /\ overloads' = IF e.out = "e529" THEN [overloads EXCEPT ![s[2]] = @ + 1] ELSE overloads
  /\ UNCHANGED <<started, store, forced>>

\* No binding is left to walk: the client gets a 502 and no provider is called.
DispatchUnbound(t) ==
  /\ At(t, "routed")
  /\ Walk(turn[t]) = {}
  /\ LET l == Ended(turn[t], turn[t].model, turn[t].provider, FALSE,
                    [out |-> "other", tokens |-> FALSE, refused |-> FALSE, poor |-> FALSE])
     IN  Continue(t, AfterDispatch(l), l)
  /\ UNCHANGED <<started, store, hist>>

\* recordTurnUsage of a turn that is not HMM-routed.
RecordUsage(t) ==
  /\ At(t, "usage") /\ ~turn[t].hmm
  /\ clock' = clock + 1
  /\ LET l == turn[t]
     IN  /\ SetRow("active", UpdateUsage(rows["active"], l.model, l.provider,
                                         l.prior, l.ever, clock'))
         /\ Continue(t, AfterUsage(l), l)
  /\ UNCHANGED <<started, escalations, hist>>

\* recordHMMTurnHistory: a failed turn reads the row first, to keep its provider.
ReadHistory(t) ==
  /\ At(t, "readHistory")
  /\ Continue(t, "usage", [turn[t] EXCEPT !.past = rows["history"]])
  /\ UNCHANGED <<started, store, hist>>

TouchHistory(t) ==
  /\ At(t, "usage") /\ turn[t].hmm
  /\ LET l  == turn[t]
         by == IF ~l.tokens /\ l.past.provider # NoProvider THEN l.past.provider
               ELSE l.provider
     IN  /\ SetRow("history", Upsert(rows["history"],
              PinWrite(NoModel, by, NoModel, NoProvider, "hmm")))
         /\ Continue(t, IF l.tokens THEN "usageHistory" ELSE AfterUsage(l),
                     [l EXCEPT !.past = EmptyRow])
  /\ UNCHANGED <<started, clock, escalations, hist>>

RecordHistoryUsage(t) ==
  /\ At(t, "usageHistory")
  /\ clock' = clock + 1
  /\ LET l == turn[t]
     IN  /\ SetRow("history", UpdateUsage(rows["history"], l.model, l.provider,
                                          l.prior, l.ever, clock'))
         /\ Continue(t, AfterUsage(l), l)
  /\ UNCHANGED <<started, escalations, hist>>

\* evictPinAfterDegenerateResponse.
EvictDegenerate(t) ==
  /\ At(t, "degenerate")
  /\ Expire(t, turn[t].role, AfterDegenerate(turn[t]), turn[t])

\* maybeEvictPinAfterUpstreamErr: count or reset, then evict at two strikes.
StrikeThreshold == 2

CountStrike(t) ==
  /\ At(t, "strike")
  /\ LET l     == turn[t]
         after == IF l.out = "ok" THEN ResetUpstreamErrors(rows[l.role])
                  ELSE IncrementUpstreamErrors(rows[l.role])
     IN  /\ SetRow(l.role, after)
         /\ Continue(t, IF l.out = "e4xx" /\ after.upErr >= StrikeThreshold
                        THEN "evict" ELSE AfterStrike(l), l)
  /\ UNCHANGED <<started, clock, escalations, hist>>

EvictStruck(t) == At(t, "evict") /\ Expire(t, turn[t].role, AfterStrike(turn[t]), turn[t])

\* maybeDisableProviderAfterOverload: strike the provider out, expire both rows.
OverloadThreshold == 2

CountOverload(t) ==
  /\ At(t, "overload")
  /\ LET l     == turn[t]
         after == IF l.out = "ok" THEN ResetOverloadErrors(rows[l.role])
                  ELSE IncrementOverloadErrors(rows[l.role])
     IN  /\ SetRow(l.role, after)
         /\ Continue(t, IF l.out = "e529" /\ after.ovErr >= OverloadThreshold
                        THEN "disable" ELSE AfterOverload(l), l)
  /\ UNCHANGED <<started, clock, escalations, hist>>

DisableOverloaded(t) ==
  /\ At(t, "disable")
  /\ SetRow(turn[t].role, DisableProvider(rows[turn[t].role], turn[t].provider))
  /\ Continue(t, "overloadActive", turn[t])
  /\ UNCHANGED <<started, clock, escalations, hist>>

OverloadActive(t)  == At(t, "overloadActive") /\ Expire(t, "active", "overloadHistory", turn[t])
OverloadHistory(t) == At(t, "overloadHistory")
                      /\ Expire(t, "history", AfterOverload(turn[t]), turn[t])

\* maybeRepinOnRefusal: read the runner-up, then pin it over the refusing model.
RefusalRead(t) ==
  /\ At(t, "refusal")
  /\ LET row    == rows[turn[t].role]
         paired == row.pairModel # NoModel
         m      == IF paired THEN row.pairModel ELSE RefusalFallback
         p      == IF paired THEN row.pairProvider ELSE PrimaryProvider(RefusalFallback)
     IN  Continue(t, IF m = turn[t].model THEN "idle" ELSE "repin",
                  [turn[t] EXCEPT !.model = m, !.provider = p])
  /\ UNCHANGED <<started, store, hist>>

RefusalRepin(t) ==
  /\ At(t, "repin")
  /\ LET l == turn[t]
     IN  SetRow(l.role, Upsert(rows[l.role],
           PinWrite(l.model, l.provider, NoModel, NoProvider, "refusal")))
  /\ Continue(t, "idle", Blank)
  /\ UNCHANGED <<started, clock, escalations, hist>>

-----------------------------------------------------------------------------
(* The clock, the sweeper, and replicas that die with requests in flight.  *)

\* More than the TTL passes without a write.
Lapse(r) ==
  /\ May("lapse")
  /\ rows[r].until = "ttl"
  /\ SetRow(r, [rows[r] EXCEPT !.until = "past"])
  /\ UNCHANGED <<stage, turn, started, clock, escalations, hist>>

\* SweepExpired: the row has been expired for a day.
Sweep(r) ==
  /\ May("sweep")
  /\ rows[r].exists /\ rows[r].until = "past"
  /\ SetRow(r, EmptyRow)
  /\ UNCHANGED <<stage, turn, started, clock, escalations, hist>>

Crash(t) ==
  /\ May("crash")
  /\ ~At(t, "idle")
  /\ Continue(t, "idle", Blank)
  /\ UNCHANGED <<started, store, hist>>

Entering(t) == \/ StartTurn(t) \/ ForceModel(t) \/ UnforceModel(t)
               \/ BreakActive(t) \/ BreakHistory(t)
               \/ EscalateRead(t) \/ EscalateBudget(t)
               \/ PinEscalation(t) \/ RecordEscalation(t)

Routing(t) == \/ LoadActive(t) \/ LoadHistory(t)
              \/ RouteImmutable(t) \/ RouteSticky(t) \/ RouteFresh(t)
              \/ RouteReanchor(t) \/ RouteHmm(t) \/ RouteFails(t)
              \/ BypassServed(t) \/ BypassFailed(t) \/ RouteBypassed(t)

Serving(t) == \/ NoProgressRead(t) \/ TextRepetition(t) \/ Dispatch(t)
              \/ DispatchUnbound(t) \/ RecordUsage(t) \/ ReadHistory(t)
              \/ TouchHistory(t) \/ RecordHistoryUsage(t)

\* What the request does to the pins by itself, after the client was answered.
Judging(t) == \/ EvictDegenerate(t) \/ CountStrike(t) \/ EvictStruck(t)
              \/ CountOverload(t) \/ DisableOverloaded(t)
              \/ OverloadActive(t) \/ OverloadHistory(t)
              \/ RefusalRead(t) \/ RefusalRepin(t)

Step(t) == Entering(t) \/ Routing(t) \/ Serving(t) \/ Judging(t)

Next == \/ \E t \in Turns : Step(t) \/ Crash(t)
        \/ \E r \in Roles : Lapse(r) \/ Sweep(r)

Spec == Init /\ [][Next]_vars

\* A replica runs the handler of a request to its end; clients need not send.
FairSpec == Spec /\ \A t \in Turns : WF_vars(~At(t, "idle") /\ Step(t))

-----------------------------------------------------------------------------
(* Properties.                                                             *)

TypeOK == /\ rows \in [Roles -> Row]
          /\ stage \in [Turns -> Stages]
          /\ turn \in [Turns -> Locals]
          /\ started \in Nat /\ clock \in Nat /\ escalations \in Nat
          /\ forced \in Models \cup {NoModel}
          /\ answered \subseteq Models
          /\ overloads \in [Providers -> Nat]

\* The stored band pair never collapses: no interleaving of refreshes, fresh
\* decisions, forced pins and evictions leaves a row whose runner-up is the
\* pinned model itself (session_pins.sql, pair maintenance).
PairNeverCollapses ==
  \A r \in Roles : rows[r].pairModel # NoModel => rows[r].pairModel # rows[r].model

\* A provider struck out of a session stays out while the row lives: no write
\* of any request in flight re-admits it, only the sweep drops the row.
StruckOutForLife ==
  [][\A r \in Roles : rows'[r].exists => rows[r].disabled \subseteq rows'[r].disabled]_vars

\* While a row lives its switch latch never unlatches, and replacing the model
\* that served last by another latches it.
SwitchLatches ==
  [][\A r \in Roles : rows'[r].exists =>
       /\ rows[r].everSwitched => rows'[r].everSwitched
       /\ rows[r].lastServed \notin {NoModel, rows'[r].lastServed} => rows'[r].everSwitched]_vars

\* A row remembers, whatever the requests in flight write over it: the next
\* request finds every strike-out and every switch there ever was.
RowsRemember == StruckOutForLife /\ SwitchLatches

\* A request routes knowing what the session was served before it began: two
\* models mean the stale-signature latch is on, and a model other than the one
\* it is about to use shows as a switch (modelSwitched; turnloop.go).
RoutesKnowHistory ==
  \A t \in Turns : At(t, "routed") =>
    LET l == turn[t]
    IN  /\ Cardinality(l.seen) > 1 => l.ever
        /\ l.seen \ {l.model} # {} => l.ever \/ l.prior \notin {NoModel, l.model}

\* A loop break does not take a pin the user has forced (no_progress.go,
\* handleNoProgressBreak; service.go, pinNeverExpires).
BreaksSpareForcedPin ==
  [][(rows["active"].reason = "force" /\ \E t \in Turns : At(t, "break") /\ stage'[t] # "break")
      => rows'["active"].reason = "force"]_vars

\* What has been evicted is re-routed: a turn that loaded the pin before its
\* eviction does not refresh it back to life (pin_eviction.go, expireSessionPin).
EvictedPinIsNotRevived ==
  [][\A t \in Turns :
       (At(t, "route") /\ stage'[t] = "routed" /\ turn'[t].sticky /\ turn'[t].role = "active")
         => rows["active"].reason # "evicted"]_vars

\* A forced pin stays until /unforce-model (service.go, pinNeverExpires).
ForcedUntilUnforced ==
  forced # NoModel => rows["active"].reason = "force" /\ rows["active"].model = forced

Quiet == \A t \in Turns : At(t, "idle")

\* Between requests the strikes are settled: a live pin holds fewer than evict
\* it, and an evicted active row starts from a clean slate, neither counter
\* surviving into the pin that replaces it (pin_eviction.go, overload_eviction;
\* session_pins.sql, reset on switch).
StrikesAreSettled ==
  /\ Quiet /\ Live(rows["active"]) => /\ rows["active"].upErr < StrikeThreshold
                                      /\ rows["active"].ovErr < OverloadThreshold
  /\ Quiet /\ rows["active"].reason = "evicted" => rows["active"].upErr = 0 /\ rows["active"].ovErr = 0

\* A provider is struck out only after it ended two turns of the session with 529.
StruckOutWasOverloadedTwice ==
  \A r \in Roles : \A p \in rows[r].disabled : overloads[p] >= OverloadThreshold

\* The decision a turn dispatches with names a provider that serves the model.
DecisionIsBound ==
  \A t \in Turns : At(t, "routed") => turn[t].provider \in Bindings(turn[t].model)

\* A provider struck out before a request loaded its pins does not serve that
\* request, by decision, failover or rescue, unless the user forced it
\* (turnloop.go, SessionDisabledProviders; fallback.go, exclusions in failover).
StruckOutNeverServes ==
  \A t \in Turns : At(t, "routed") /\ turn[t].reason # "force" =>
    \A s \in ServedBy(turn[t]) : s[2] \notin turn[t].struck

\* The scorer is steered away from the struck-out providers: the decision
\* itself does not name one (turnloop.go, DisabledProviders).
DecisionAvoidsStruckOut ==
  \A t \in Turns : At(t, "routed") /\ turn[t].reason # "force" =>
    turn[t].provider \notin turn[t].struck

\* One escalation event per session and role (loop_detection.go).
EscalatesOnce == escalations <= 1

\* Every request that began ends: at every stage some branch of the code
\* applies, and the re-route after a failed bypass happens once.
RequestsFinish == \A t \in Turns : ~At(t, "idle") ~> At(t, "idle")

=============================================================================
