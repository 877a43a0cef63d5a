----------------------------- MODULE Telemetry -----------------------------
(***************************************************************************)
(* The rows of router.model_router_request_telemetry, the reports read     *)
(* from them and the dashboard that shows the reports.                     *)
(*                                                                         *)
(* A served turn fires the insert of one row from a goroutine of its own:  *)
(* the row lands later, after rows of younger turns, or, when the insert   *)
(* fails or the process dies, never.  A request id is a fresh uuid, so a   *)
(* turn's place in turns stands for it, and the table is the set of the    *)
(* turns whose row has landed.  A row is stamped with the start of its     *)
(* request.                                                                *)
(*                                                                         *)
(* The dashboard is one page in one browser.  It loads three reports of    *)
(* the range its user has chosen, each by a request of its own, and a      *)
(* click on a bar of its chart opens the list of the requests behind it;   *)
(* rows land, and the user chooses again, in between.                      *)
(*                                                                         *)
(* Time is counted in hours, of one time zone.  A model's price stands for *)
(* the tokens and the costs of a turn on it.                               *)
(***************************************************************************)
EXTENDS Integers, FiniteSets, FiniteSetsExt, Sequences

CONSTANTS
    Installations,
    Sessions,          \* a session key with its role
    InstallationOf,    \* the installation whose key opened a session
    Models,
    Price,
    Strategies,
    DefaultStrategy,   \* the strategy of an installation nobody configured
    None,              \* SQL's NULL
    HoursPerDay, DaysPerWeek,
    DateRanges,        \* the ranges to choose from: the hours each goes back
                       \* and the granularity it comes with
    DetailLimit,       \* the most requests a list shows
    MaxTurns,          \* bound on the turns served
    Scenarios          \* bound: what users and administrators do in a behaviour

\* MainLoop is a turn the user asked for; the agent's own follow-ups with the
\* results of its tools are turns too, and make most of a conversation.
Kinds == {"main_loop", "tool_result"}

\* How a turn found its model: a strategy scored it, a hard pin named it and
\* nothing scored it, or the usage bypass sent it straight to the provider.
Lanes == {"scored", "pinned", "bypass"}

Granularities == {"hour", "day", "week"}

DateRange == [back : Nat, granularity : Granularities]

\* How long it lasts; the turns asked for, as session, kind, lane, requested
\* model and served model; the strategies each installation may be switched to; how much
\* feedback is submitted; who looks at the dashboard and how often it loads.
Scenario == [hours : Nat,
             demand : SUBSET (Sessions \X Kinds \X Lanes \X Models \X Models),
             offered : [Installations -> SUBSET Strategies],
             submissions : Nat,
             scopes : SUBSET (Installations \cup {None}),
             loads : Nat]

Filter == [scope : Installations \cup {None}, range : DateRange, from : Nat, to : Nat,
           granularity : Granularities]

ASSUME TelemetryAssumption ==
    /\ IsFiniteSet(Installations)
    /\ InstallationOf \in [Sessions -> Installations]
    /\ Price \in [Models -> Nat]
    /\ DefaultStrategy \in Strategies
    /\ None \notin Models \cup Strategies \cup Sessions \cup Installations \cup Filter
    /\ {HoursPerDay, DaysPerWeek} \subseteq Nat \ {0}
    /\ DateRanges \subseteq DateRange
    /\ Scenarios \subseteq Scenario
    /\ \A c \in Scenarios : \A d \in c.demand : d[3] = "bypass" => d[4] = d[5]
    /\ {DetailLimit, MaxTurns} \subseteq Nat

VARIABLES
    now,
    active,   \* the strategy that routes each installation
    turns,    \* the turns served, oldest first
    rows,     \* the turns whose row is in the table
    filter,   \* what the dashboard's user has chosen; None: no dashboard
    chosen,   \* how often something was chosen, which numbers the loads
    loads,    \* the loads of the reports that are under way
    shown,    \* the load that is on the screen
    list,     \* the list opened by a click on a bar
    scenario

dashboardVars == <<filter, chosen, loads, shown, list>>
telemetryVars == <<now, active, turns, rows, dashboardVars, scenario>>

\* The columns of a row that the reports and the feedback read.  Only a turn
\* that was scored names a strategy; the bypass leaves the session out.
Turn == [session : Sessions, key : Sessions \cup {None}, at : Nat,
         kind : Kinds, requested : Models, model : Models,
         strategy : Strategies \cup {None}]

StrategyColumn(s, lane) ==
    IF lane = "scored" THEN active[InstallationOf[s]] ELSE None

BypassRow(s, kind, asked) ==
    [session |-> s, key |-> None, at |-> now, kind |-> kind,
     requested |-> asked, model |-> asked, strategy |-> None]

RoutedRow(s, kind, lane, asked, model) ==
    [session |-> s, key |-> s, at |-> now, kind |-> kind,
     requested |-> asked, model |-> model,
     strategy |-> StrategyColumn(s, lane)]

RowFor(s, kind, lane, asked, model) ==
    IF lane = "bypass" THEN BypassRow(s, kind, asked)
    ELSE RoutedRow(s, kind, lane, asked, model)

\* The turn ends and its insert is fired.
Serve(s, kind, lane, asked, model) ==
    /\ Len(turns) < MaxTurns
    /\ turns' = Append(turns, RowFor(s, kind, lane, asked, model))
    /\ UNCHANGED <<now, active, rows, dashboardVars, scenario>>

\* INSERT ... ON CONFLICT DO NOTHING.
Land(id) ==
    /\ id \in DOMAIN turns \ rows
    /\ rows' = rows \cup {id}
    /\ UNCHANGED <<now, active, turns, dashboardVars, scenario>>

\* An administrator gives an installation another strategy.
SwitchStrategy(i, strategy) ==
    /\ strategy \in scenario.offered[i] \ {active[i]}
    /\ active' = [active EXCEPT ![i] = strategy]
    /\ UNCHANGED <<now, turns, rows, dashboardVars, scenario>>

Tick ==
    /\ now < scenario.hours
    /\ now' = now + 1
    /\ UNCHANGED <<active, turns, rows, dashboardVars, scenario>>

----------------------------------------------------------------------------
(* The reports.  A window is open to the right; an installation's key sees *)
(* that installation, an administrator all of them.                        *)

InWindow(id, w) == w.from <= turns[id].at /\ turns[id].at < w.to

OfInstallation(i, w) ==
    {id \in rows : InstallationOf[turns[id].session] = i /\ InWindow(id, w)}

OfAll(w) == {id \in rows : InWindow(id, w)}

Within(scope, w) == IF scope = None THEN OfAll(w) ELSE OfInstallation(scope, w)

RequestedCost(ids) == SumFunction([id \in ids |-> Price[turns[id].requested]])
ActualCost(ids) == SumFunction([id \in ids |-> Price[turns[id].model]])

Totals(ids) ==
    [requests |-> Cardinality(ids),
     requested |-> RequestedCost(ids),
     actual |-> ActualCost(ids)]

Summary(i, w) == Totals(OfInstallation(i, w))
SummaryAll(w) == Totals(OfAll(w))

HoursPerWeek == HoursPerDay * DaysPerWeek

\* date_trunc, to units of so many hours.
Trunc(t, hours) == t - (t % hours)

\* GROUP BY date_trunc(...).
Bucketed(ids, hours) ==
    LET In(b) == {id \in ids : Trunc(turns[id].at, hours) = b}
    IN  {[bucket |-> b, requested |-> RequestedCost(In(b)),
          actual |-> ActualCost(In(b))] : b \in {Trunc(turns[id].at, hours) : id \in ids}}

TimeseriesHourly(ids) == Bucketed(ids, 1)
TimeseriesDaily(ids) == Bucketed(ids, HoursPerDay)
TimeseriesWeekly(ids) == Bucketed(ids, HoursPerWeek)

Timeseries(ids, granularity) ==
    CASE granularity = "week" -> TimeseriesWeekly(ids)
      [] granularity = "day" -> TimeseriesDaily(ids)
      [] OTHER -> TimeseriesHourly(ids)

\* GROUP BY date_trunc(...), decision_model.
PerModel(ids, hours) ==
    LET In(b, m) == {id \in ids : Trunc(turns[id].at, hours) = b /\ turns[id].model = m}
    IN  {[bucket |-> g[1], model |-> g[2], requests |-> Cardinality(In(g[1], g[2])),
          actual |-> ActualCost(In(g[1], g[2]))] :
            g \in {<<Trunc(turns[id].at, hours), turns[id].model>> : id \in ids}}

BreakdownHourly(ids) == PerModel(ids, 1)
BreakdownDaily(ids) == PerModel(ids, HoursPerDay)
BreakdownWeekly(ids) == PerModel(ids, HoursPerWeek)

ModelBreakdown(ids, granularity) ==
    CASE granularity = "week" -> BreakdownWeekly(ids)
      [] granularity = "day" -> BreakdownDaily(ids)
      [] OTHER -> BreakdownHourly(ids)

\* ORDER BY timestamp DESC LIMIT n: the lists the query may answer with.
Newest(ids, n) ==
    {page \in kSubset(IF n < Cardinality(ids) THEN n ELSE Cardinality(ids), ids) :
        \A id \in page, other \in ids \ page : turns[id].at >= turns[other].at}

Details(i, w, n) == Newest(OfInstallation(i, w), n)
DetailsAll(w, n) == Newest(OfAll(w), n)

----------------------------------------------------------------------------
(* The dashboard. *)

Reports == {"cards", "bars", "models"}

Blank == [n |-> 0, of |-> None, since |-> {}, answers |-> [r \in Reports |-> {}]]

Closed == [step |-> "closed", bar |-> None, of |-> None, by |-> None, window |-> None,
           ids |-> {}]

ReportOf(report, f) ==
    CASE report = "cards" -> IF f.scope = None THEN SummaryAll(f) ELSE Summary(f.scope, f)
      [] report = "bars" -> Timeseries(Within(f.scope, f), f.granularity)
      [] OTHER -> ModelBreakdown(Within(f.scope, f), f.granularity)

\* What the user chose is loaded; what is on the screen stays there until
\* then.
Load(f) ==
    /\ chosen < scenario.loads
    /\ filter' = f
    /\ chosen' = chosen + 1
    /\ loads' = loads \cup {[n |-> chosen + 1, of |-> f, since |-> rows, answers |-> << >>]}
    /\ UNCHANGED <<now, active, turns, rows, shown, list, scenario>>

\* A range ends at the moment it is chosen, at or after the beginning of the
\* hour.
Chosen(scope, range) ==
    [scope : {scope}, range : {range}, granularity : {range.granularity},
     from : {IF range.back < now THEN now - range.back ELSE 0}, to : {now, now + 1}]

OpenDashboard(scope) ==
    /\ filter = None
    /\ \E range \in DateRanges : \E f \in Chosen(scope, range) : Load(f)

ChooseRange(range) ==
    /\ filter # None /\ list.step = "closed"
    /\ range # filter.range
    /\ \E f \in Chosen(filter.scope, range) : Load(f)

\* The range stays what it is.
ChooseGranularity(g) ==
    /\ filter # None /\ list.step = "closed"
    /\ g # filter.granularity
    /\ Load([filter EXCEPT !.granularity = g])

\* One of the three requests of a load is answered from the table.
Answer(load, report) ==
    /\ report \notin DOMAIN load.answers
    /\ loads' = (loads \ {load}) \cup
          {[load EXCEPT !.answers =
              [r \in DOMAIN load.answers \cup {report} |->
                  IF r = report THEN ReportOf(report, load.of) ELSE load.answers[r]]]}
    /\ UNCHANGED <<now, active, turns, rows, filter, chosen, shown, list, scenario>>

\* Mutant: a load is shown although the user has chosen again since.
ShowsWhateverCame(load) == TRUE

\* Only the last load is of what is chosen; the others were cancelled.
Current(load) == load.n = chosen

\* All three are answered.  A chart without bars is not drawn, and its list
\* goes with it.
Show(load) ==
    /\ DOMAIN load.answers = Reports
    /\ loads' = loads \ {load}
    /\ IF Current(load)
       THEN /\ shown' = load
            /\ list' = IF load.answers.bars = {} THEN Closed ELSE list
       ELSE UNCHANGED <<shown, list>>
    /\ UNCHANGED <<now, active, turns, rows, filter, chosen, scenario>>

\* The user leaves, or a request of the current load fails and all there is
\* is its error.  A request of a cancelled load fails unseen.
Leave ==
    /\ filter # None
    /\ filter' = None
    /\ loads' = {}
    /\ shown' = Blank
    /\ list' = Closed
    /\ UNCHANGED <<now, active, turns, rows, chosen, scenario>>

BucketBounds(b, granularity) ==
    [from |-> b,
     to |-> b + (CASE granularity = "week" -> HoursPerWeek
                   [] granularity = "day" -> HoursPerDay
                   [] OTHER -> 1)]

\* A click on a bar asks for the requests of the bucket, which is as long as
\* the granularity chosen now says.
Click(bar) ==
    /\ list.step = "closed"
    /\ list' = [step |-> "asked", bar |-> bar, of |-> shown.of.granularity,
                by |-> filter.granularity,
                window |-> BucketBounds(bar.bucket, filter.granularity), ids |-> {}]
    /\ UNCHANGED <<now, active, turns, rows, filter, chosen, loads, shown, scenario>>

Listed ==
    /\ list.step = "asked"
    /\ \E ids \in IF filter.scope = None THEN DetailsAll(list.window, DetailLimit)
                  ELSE Details(filter.scope, list.window, DetailLimit) :
          list' = [list EXCEPT !.step = "open", !.ids = ids]
    /\ UNCHANGED <<now, active, turns, rows, filter, chosen, loads, shown, scenario>>

CloseList ==
    /\ list.step # "closed"
    /\ list' = Closed
    /\ UNCHANGED <<now, active, turns, rows, filter, chosen, loads, shown, scenario>>

Dashboard ==
    \/ \E scope \in scenario.scopes : OpenDashboard(scope)
    \/ \E range \in DateRanges : ChooseRange(range)
    \/ \E g \in Granularities : ChooseGranularity(g)
    \/ \E load \in loads : Show(load) \/ \E r \in Reports : Answer(load, r)
    \/ Leave
    \/ \E bar \in shown.answers.bars : Click(bar)
    \/ Listed
    \/ CloseList

----------------------------------------------------------------------------

TelemetryInit ==
    /\ now = 0
    /\ active = [i \in Installations |-> DefaultStrategy]
    /\ turns = <<>>
    /\ rows = {}
    /\ filter = None
    /\ chosen = 0
    /\ loads = {}
    /\ shown = Blank
    /\ list = Closed
    /\ scenario \in Scenarios

TelemetryNext ==
    \/ \E d \in scenario.demand : Serve(d[1], d[2], d[3], d[4], d[5])
    \/ \E id \in DOMAIN turns : Land(id)
    \/ \E i \in Installations, strategy \in Strategies : SwitchStrategy(i, strategy)
    \/ Tick
    \/ Dashboard

----------------------------------------------------------------------------
(* Properties *)

TelemetryTypeOK ==
    /\ now \in 0 .. scenario.hours
    /\ active \in [Installations -> Strategies]
    /\ turns \in Seq(Turn) /\ Len(turns) <= MaxTurns
    /\ rows \subseteq DOMAIN turns
    /\ scenario \in Scenarios

\* Nothing the user chose is still being loaded.
Settled == filter # None /\ \A load \in loads : load.n # chosen

\* The requests of a table that a filter selects.
Selected(f, table) ==
    {id \in table : /\ f.scope \in {None, InstallationOf[turns[id].session]}
                    /\ InWindow(id, f)}

\* The cards, the bars together and the lines of the models together are each
\* of the filter's rows, of all that had landed when they were asked for and of
\* none that has not landed yet.
Comprises(figures) ==
    LET least == ActualCost(Selected(figures.of, figures.since))
        most == ActualCost(Selected(figures.of, rows))
        Together(lines) == SumFunction([line \in lines |-> line.actual])
    IN  /\ figures.answers.cards.actual \in least .. most
        /\ Together(figures.answers.bars) \in least .. most
        /\ Together(figures.answers.models) \in least .. most

\* A list that was not cut has requests for all that its bar stands for.
Accounts(l) ==
    Cardinality(l.ids) < DetailLimit =>
        /\ RequestedCost(l.ids) >= l.bar.requested
        /\ ActualCost(l.ids) >= l.bar.actual

\* ... if the bars were of the granularity chosen when it was opened.
Explains(l) == l.step = "open" /\ l.of = l.by => Accounts(l)

\* Once nothing the user chose is still loading, the screen shows the figures
\* of that choice, whichever earlier loads were answered since; and the list
\* behind a bar accounts for the bar, whatever landed between the two.
DashboardKeepsUp ==
    /\ Settled => shown.n = chosen /\ shown.of = filter /\ Comprises(shown)
    /\ Explains(list)

\* The list shows the requests behind its bar, whatever the user has chosen since
\* the bars were loaded (model_router_request_telemetry.sql, "the underlying
\* requests behind a chart bucket").
ListIsOfItsBar == list.step = "open" => Accounts(list)
============================================================================
