---------------------------- MODULE FeedbackProofs ----------------------------
(***************************************************************************)
(* What Feedback and Telemetry keep for every set of sessions, ranges,     *)
(* numbers, scenarios and bounds: a page shows only thumbs that were       *)
(* given, what a policy is told was said of the turn it is told of, and    *)
(* the dashboard comes to show what its user chose last, with lists that   *)
(* account for its bars.                                                   *)
(***************************************************************************)
EXTENDS Feedback, FiniteSetTheorems, SequenceTheorems, WellFoundedInduction, TLAPS

-----------------------------------------------------------------------------
(* Maxima, for the last answer of a session.                               *)

\* A set of naturals with a bound has a greatest element.
LEMMA GreatestExists ==
  ASSUME NEW S \in SUBSET Nat, S # {}, NEW n \in Nat, \A x \in S : x <= n
  PROVE  Max(S) \in S
<1> DEFINE Below == {p \in Nat \X Nat : p[1] < p[2]}
           Bounds == {m \in Nat : \A x \in S : x <= m}
<1>1. IsWellFoundedOn(Below, Nat)
  BY NatLessThanWellFounded DEF OpToRel
<1>2. Bounds \subseteq Nat /\ Bounds # {}
  OBVIOUS
<1> HIDE DEF Below
<1>3. PICK m \in Bounds : \A k \in Bounds : ~(<<k, m>> \in Below)
  BY <1>1, <1>2, WFMin
<1>4. m \in S
  <2>1. SUFFICES ASSUME m \notin S PROVE FALSE
    OBVIOUS
  <2>2. PICK x \in S : TRUE
    OBVIOUS
  <2>3. m - 1 \in Nat /\ \A y \in S : y <= m - 1
    BY <2>1, <2>2
  <2>4. m - 1 \in Bounds /\ <<m - 1, m>> \in Below
    BY <2>3 DEF Below
  <2> QED
    BY <1>3, <2>4
<1>5. \E x \in S : \A y \in S : x >= y
  BY <1>3, <1>4
<1> QED
  BY <1>5 DEF Max

-----------------------------------------------------------------------------
(* Types.                                                                  *)

LEMMA Bounded ==
  ASSUME TelemetryTypeOK
  PROVE  /\ Len(turns) \in Nat /\ DOMAIN turns = 1..Len(turns) /\ DOMAIN turns \subseteq Ids
         /\ \A id \in DOMAIN turns : turns[id] \in Turn
  BY LenProperties, ElementOfSeq, FeedbackAssumption, TelemetryAssumption
     DEF TelemetryTypeOK, Ids, TelemetryAssumption

LEMMA ScenarioTyped ==
  ASSUME TelemetryTypeOK
  PROVE  scenario \in Scenario
  BY TelemetryAssumption DEF TelemetryAssumption, TelemetryTypeOK

LEMMA RowTyped ==
  ASSUME TelemetryTypeOK, NEW d \in scenario.demand
  PROVE  /\ RowFor(d[1], d[2], d[3], d[4], d[5]) \in Turn
         /\ RowFor(d[1], d[2], d[3], d[4], d[5]).key \in {None, d[1]}
         /\ RowFor(d[1], d[2], d[3], d[4], d[5]).session = d[1]
<1>1. /\ d[1] \in Sessions /\ d[2] \in Kinds /\ d[4] \in Models /\ d[5] \in Models
      /\ InstallationOf[d[1]] \in Installations
  BY TelemetryAssumption, ScenarioTyped DEF TelemetryAssumption, Scenario
<1>2. now \in Nat /\ StrategyColumn(d[1], d[3]) \in Strategies \cup {None}
  BY <1>1, TelemetryAssumption, ScenarioTyped
     DEF TelemetryTypeOK, TelemetryAssumption, Scenario, StrategyColumn
<1> QED
  BY <1>1, <1>2 DEF RowFor, BypassRow, RoutedRow, Turn

LEMMA DashboardReads == Dashboard => UNCHANGED <<now, active, turns, rows, scenario>>
  BY DEF Dashboard, OpenDashboard, ChooseRange, ChooseGranularity, Load, Show, Answer, Leave,
         Click, Listed, CloseList

\* Turns are only added, and keep their place and their columns.
LEMMA TurnsGrow ==
  ASSUME TelemetryTypeOK, [Next]_vars
  PROVE  /\ DOMAIN turns \subseteq DOMAIN turns'
         /\ \A id \in DOMAIN turns : turns'[id] = turns[id]
         /\ \A id \in DOMAIN turns' \ DOMAIN turns :
              turns'[id].key \in {None, turns'[id].session}
         /\ TelemetryTypeOK'
<1> USE TelemetryAssumption DEF TelemetryAssumption
<1>0. Len(turns) \in Nat /\ DOMAIN turns = 1..Len(turns) /\ turns \in Seq(Turn)
  BY Bounded DEF TelemetryTypeOK
<1>1. ASSUME NEW d \in scenario.demand, Serve(d[1], d[2], d[3], d[4], d[5])
      PROVE  /\ DOMAIN turns \subseteq DOMAIN turns'
             /\ \A id \in DOMAIN turns : turns'[id] = turns[id]
             /\ \A id \in DOMAIN turns' \ DOMAIN turns :
                  turns'[id].key \in {None, turns'[id].session}
             /\ TelemetryTypeOK'
  <2> DEFINE row == RowFor(d[1], d[2], d[3], d[4], d[5])
  <2>1. row \in Turn /\ row.key \in {None, row.session}
    BY RowTyped
  <2>2. turns' = Append(turns, row) /\ Len(turns) < MaxTurns /\ UNCHANGED <<now, active, rows, dashboardVars, scenario>>
    BY <1>1 DEF Serve
  <2> HIDE DEF row
  <2>3. /\ turns' \in Seq(Turn) /\ Len(turns') = Len(turns) + 1
        /\ \A id \in 1..Len(turns) : turns'[id] = turns[id]
        /\ turns'[Len(turns) + 1] = row
    BY <1>0, <2>1, <2>2, AppendProperties
  <2>4. DOMAIN turns' = 1..(Len(turns) + 1)
    BY <2>3, LenProperties
  <2>5. TelemetryTypeOK'
    BY <1>0, <2>2, <2>3, <2>4 DEF TelemetryTypeOK
  <2> QED
    BY <1>0, <2>1, <2>3, <2>4, <2>5
<1>2. ASSUME NEW id \in DOMAIN turns, Land(id) PROVE UNCHANGED turns /\ TelemetryTypeOK'
  BY <1>2 DEF Land, TelemetryTypeOK
<1>3. ASSUME NEW j \in Installations, NEW strategy \in Strategies, SwitchStrategy(j, strategy)
      PROVE  UNCHANGED turns /\ TelemetryTypeOK'
  BY <1>3 DEF SwitchStrategy, TelemetryTypeOK
<1>4. CASE Tick
  BY <1>4, ScenarioTyped DEF Tick, TelemetryTypeOK, Scenario
<1>5. CASE UNCHANGED telemetryVars
  BY <1>5 DEF telemetryVars, TelemetryTypeOK
<1>6. CASE Telemeter
  <2>1. CASE Dashboard
    BY <2>1, DashboardReads DEF TelemetryTypeOK
  <2> QED
    BY <1>1, <1>2, <1>3, <1>4, <1>6, <2>1 DEF Telemeter, TelemetryNext, Tick
<1>7. ASSUME Next, ~Telemeter PROVE UNCHANGED telemetryVars
  BY <1>7 DEF Next, FollowLink, Type, Resolve, Record, Converge, Report
<1> QED
  BY <1>5, <1>6, <1>7 DEF vars, telemetryVars

LEMMA LastAnswerTyped ==
  ASSUME TelemetryTypeOK, NEW s \in Sessions
  PROVE  LastAnswer(s) \in Ids \cup {NoTurn}
<1> DEFINE served == {id \in DOMAIN turns : turns[id].session = s}
<1>1. Len(turns) \in Nat /\ DOMAIN turns = 1..Len(turns) /\ DOMAIN turns \subseteq Ids
  BY Bounded
<1>2. served \in SUBSET Nat /\ \A x \in served : x <= Len(turns)
  BY <1>1
<1>3. CASE served = {}
  BY <1>3 DEF LastAnswer
<1>4. CASE served # {}
  <2>1. Max(served) \in served
    BY <1>1, <1>2, <1>4, GreatestExists
  <2> QED
    BY <1>1, <1>4, <2>1 DEF LastAnswer
<1> QED
  BY <1>3, <1>4

LEMMA IdleTyped == Idle \in Command
  BY DEF Idle, Command

LEMMA InitTyped == Init => TypeOK
<1> SUFFICES ASSUME Init PROVE TypeOK
  OBVIOUS
<1>0. scenario \in Scenario /\ scenario \in Scenarios
  BY TelemetryAssumption DEF Init, TelemetryInit, TelemetryAssumption
<1>1. TelemetryTypeOK
  BY <1>0, EmptySeq, TelemetryAssumption
     DEF Init, TelemetryInit, TelemetryTypeOK, TelemetryAssumption, Scenario
<1>2. command \in [Sessions -> Command]
  BY IdleTyped DEF Init
<1>3. spoken \in 0 .. scenario.submissions
  BY <1>0 DEF Init, Scenario
<1> QED
  BY <1>1, <1>2, <1>3 DEF Init, TypeOK

\* Where a number leads.
LEMMA ResolvedTo ==
  ASSUME NEW s \in Sessions, command \in [Sessions -> Command], Resolve(s)
  PROVE  \/ \E id \in BySequence(s, command[s].number) :
               command' = [command EXCEPT ![s].step = "record", ![s].turn = id,
                                          ![s].strategy = Scored(id, command[s].strategy)]
         \/ command' = [command EXCEPT ![s] = Idle]
         \/ command' = [command EXCEPT ![s].step = "record"]
  BY DEF Resolve, Command

\* The steps of a command, each for the types of what it writes.
LEMMA CommandTyped ==
  ASSUME TypeOK, NEW s \in Speakers,
         \/ \E number \in Numbers, rating \in Thumbs \cup {None} : Type(s, number, rating)
         \/ Resolve(s) \/ Record(s) \/ Converge(s) \/ Report(s)
  PROVE  /\ command' \in [Sessions -> Command]
         /\ recorded' \subseteq [session : Sessions, turn : Ids \cup {NoTurn},
                                 rating : Thumbs \cup {None}]
         /\ reports' \subseteq [to : Strategies, session : Sessions, turn : Ids \cup {NoTurn},
                                rating : Thumbs \cup {None}, delta : Ids \cup {NoTurn}]
         /\ spoken' \in 0 .. scenario.submissions'
<1>1. /\ s \in Sessions /\ Reporters \subseteq Strategies /\ scenario.submissions \in Nat
      /\ UNCHANGED scenario
      /\ command[s] \in Command /\ spoken \in 0 .. scenario.submissions
      /\ command \in [Sessions -> Command]
  BY FeedbackAssumption, ScenarioTyped
     DEF FeedbackAssumption, TypeOK, Scenario, Type, Resolve, Record, Converge, Report, telemetryVars
<1>2. ASSUME NEW number \in Numbers, NEW rating \in Thumbs \cup {None}, Type(s, number, rating)
      PROVE  UNCHANGED <<recorded, reports>> /\ command' \in [Sessions -> Command]
             /\ spoken' \in 0 .. scenario.submissions'
  <2>0. active[InstallationOf[s]] \in Strategies
    BY <1>1, TelemetryAssumption DEF TelemetryAssumption, TypeOK, TelemetryTypeOK
  <2>1. [Idle EXCEPT !.step = IF number = 0 THEN "record" ELSE "resolve",
                     !.number = number, !.rating = rating,
                     !.strategy = active[InstallationOf[s]]] \in Command
    BY <2>0 DEF Idle, Command
  <2>2. command' \in [Sessions -> Command]
    <3> DEFINE typed == [Idle EXCEPT !.step = IF number = 0 THEN "record" ELSE "resolve",
                                     !.number = number, !.rating = rating,
                                     !.strategy = active[InstallationOf[s]]]
    <3>1. command' = [command EXCEPT ![s] = typed]
      BY <1>2 DEF Type
    <3>2. typed \in Command
      BY <2>1
    <3> HIDE DEF typed
    <3> QED
      BY <1>1, <3>1, <3>2
  <2>3. spoken < scenario.submissions /\ spoken' = spoken + 1 /\ UNCHANGED <<recorded, reports>>
    BY <1>2 DEF Type
  <2>4. spoken' \in 0 .. scenario.submissions'
    BY <1>1, <2>3
  <2> QED
    BY <2>2, <2>3, <2>4
<1>3. CASE Resolve(s)
  <2>1. ASSUME NEW id \in BySequence(s, command[s].number)
        PROVE  id \in Ids /\ Scored(id, command[s].strategy) \in Strategies \cup {None}
    <3>1. id \in rows
      BY DEF BySequence, BySessionAsc, BySessionDesc, Counted
    <3>2. id \in DOMAIN turns
      BY <3>1 DEF TypeOK, TelemetryTypeOK
    <3> QED
      BY <1>1, <3>2, Bounded DEF TypeOK, Turn, Command, Scored
  <2>2. ASSUME NEW id \in Ids, NEW strategy \in Strategies \cup {None}
        PROVE  [command EXCEPT ![s].step = "record", ![s].turn = id,
                               ![s].strategy = strategy] \in [Sessions -> Command]
    BY <1>1, <2>2 DEF Command
  <2>3. [command EXCEPT ![s].step = "record"] \in [Sessions -> Command]
    BY <1>1 DEF Command
  <2>4. [command EXCEPT ![s] = Idle] \in [Sessions -> Command]
    BY <1>1, IdleTyped
  <2>5. \/ \E id \in BySequence(s, command[s].number) :
             command' = [command EXCEPT ![s].step = "record", ![s].turn = id,
                                        ![s].strategy = Scored(id, command[s].strategy)]
        \/ command' = [command EXCEPT ![s] = Idle]
        \/ command' = [command EXCEPT ![s].step = "record"]
    BY <1>1, <1>3, ResolvedTo
  <2>6. command' \in [Sessions -> Command]
    <3>1. ASSUME NEW id \in BySequence(s, command[s].number),
                 command' = [command EXCEPT ![s].step = "record", ![s].turn = id,
                                            ![s].strategy = Scored(id, command[s].strategy)]
          PROVE  command' \in [Sessions -> Command]
      BY <2>1, <2>2, <3>1
    <3> QED
      BY <2>3, <2>4, <2>5, <3>1
  <2> QED
    BY <1>1, <1>3, <2>6 DEF Resolve, TypeOK
<1>4. CASE Record(s)
  <2>1. [session |-> s, turn |-> command[s].turn, rating |-> command[s].rating]
          \in [session : Sessions, turn : Ids \cup {NoTurn}, rating : Thumbs \cup {None}]
    BY <1>1 DEF Command
  <2>2. [command EXCEPT ![s].step = "upsert"] \in [Sessions -> Command]
    BY <1>1 DEF Command
  <2>3. [command EXCEPT ![s] = Idle] \in [Sessions -> Command]
    BY <1>1, IdleTyped
  <2> QED
    BY <1>1, <1>4, <2>1, <2>2, <2>3 DEF Record, TypeOK
<1>5. CASE Converge(s)
  <2>1. [command EXCEPT ![s].step = "report"] \in [Sessions -> Command]
    BY <1>1 DEF Command
  <2> QED
    BY <1>1, <1>5, <2>1 DEF Converge, TypeOK
<1>6. CASE Report(s)
  <2>1. [command EXCEPT ![s] = Idle] \in [Sessions -> Command]
    BY <1>1, IdleTyped
  <2>2. TrainingDelta(s) \in Ids \cup {NoTurn}
    BY <1>1, LastAnswerTyped DEF TrainingDelta, TypeOK
  <2>3. ASSUME CreditedStrategy(s) \in Reporters
        PROVE  PolicyReport(s) \in [to : Strategies, session : Sessions, turn : Ids \cup {NoTurn},
                                    rating : Thumbs \cup {None}, delta : Ids \cup {NoTurn}]
    BY <1>1, <2>2, <2>3 DEF PolicyReport, Command
  <2> QED
    BY <1>1, <1>6, <2>1, <2>3 DEF Report, TypeOK
<1> QED
  BY <1>2, <1>3, <1>4, <1>5, <1>6 DEF TypeOK

LEMMA ScenarioStays ==
  ASSUME TypeOK, [Next]_vars
  PROVE  scenario' = scenario /\ scenario.submissions \in Nat
<1>0. SUFFICES scenario' = scenario
  BY ScenarioTyped DEF TypeOK, Scenario
<1>1. CASE Telemeter
  <2>1. CASE \E d \in scenario.demand : Serve(d[1], d[2], d[3], d[4], d[5])
    BY <2>1 DEF Serve
  <2>2. CASE \/ \E id \in DOMAIN turns : Land(id)
             \/ \E i \in Installations, strategy \in Strategies : SwitchStrategy(i, strategy)
             \/ Tick
    BY <2>2 DEF Land, SwitchStrategy, Tick
  <2> QED
    BY <1>1, <2>1, <2>2, DashboardReads DEF Telemeter, TelemetryNext
<1>2. CASE ~Telemeter
  <2>1. UNCHANGED telemetryVars
    BY <1>2 DEF Next, FollowLink, Type, Resolve, Record, Converge, Report, vars
  <2> QED
    BY <2>1 DEF telemetryVars
<1> QED
  BY <1>1, <1>2

\* What each step does to the thumbs.
LEMMA ThumbSteps ==
  ASSUME TypeOK, [Next]_vars
  PROVE  \/ UNCHANGED <<thumbs, linked>>
         \/ \E id \in Ids, rating \in Thumbs :
              /\ thumbs' = [thumbs EXCEPT ![id] = rating]
              /\ linked' = [linked EXCEPT ![id] = linked[id] \cup {rating}]
         \/ \E s \in Speakers :
              /\ Converge(s) /\ UNCHANGED linked
              /\ command[s].turn \in Ids /\ command[s].rating \in Thumbs
              /\ thumbs' = [thumbs EXCEPT ![command[s].turn] = command[s].rating]
<1> USE FeedbackAssumption DEF FeedbackAssumption, Thumbs
<1>1. ASSUME NEW id \in DOMAIN turns, NEW rating \in Thumbs, FollowLink(id, rating)
      PROVE  /\ id \in Ids
             /\ thumbs' = [thumbs EXCEPT ![id] = rating]
             /\ linked' = [linked EXCEPT ![id] = linked[id] \cup {rating}]
  BY <1>1, Bounded DEF FollowLink, Upsert, TypeOK
<1>2. ASSUME NEW s \in Speakers, Converge(s), ~UNCHANGED <<thumbs, linked>>
      PROVE  /\ UNCHANGED linked
             /\ command[s].turn \in Ids /\ command[s].rating \in Thumbs
             /\ thumbs' = [thumbs EXCEPT ![command[s].turn] = command[s].rating]
  <2>1. command[s] \in Command
    BY DEF TypeOK
  <2>2. /\ Converges(command[s]) /\ UNCHANGED linked
        /\ Upsert(command[s].turn, command[s].rating)
    BY <1>2 DEF Converge
  <2> QED
    BY <2>1, <2>2 DEF Converges, Command, Upsert
<1>3. ASSUME NEW s \in Speakers, Resolve(s) \/ Record(s) \/ Report(s)
      PROVE  UNCHANGED <<thumbs, linked>>
  BY <1>3 DEF Resolve, Record, Report
<1>4. ASSUME NEW s \in Speakers, NEW number, NEW rating, Type(s, number, rating)
      PROVE  UNCHANGED <<thumbs, linked>>
  BY <1>4 DEF Type
<1>5. CASE Telemeter \/ UNCHANGED vars
  BY <1>5 DEF Telemeter, vars, feedbackVars
<1>6. CASE \E id \in DOMAIN turns, rating \in Thumbs : FollowLink(id, rating)
  BY <1>1, <1>6
<1>7. CASE \E s \in Speakers :
          \/ \E number \in Numbers, rating \in Thumbs \cup {None} : Type(s, number, rating)
          \/ Resolve(s) \/ Record(s) \/ Converge(s) \/ Report(s)
  BY <1>2, <1>3, <1>4, <1>7
<1> QED
  BY <1>5, <1>6, <1>7 DEF Next

LEMMA NextTyped == TypeOK /\ [Next]_vars => TypeOK'
<1> SUFFICES ASSUME TypeOK, [Next]_vars PROVE TypeOK'
  OBVIOUS
<1>1. TelemetryTypeOK'
  BY TurnsGrow DEF TypeOK
<1>2. thumbs' \in [Ids -> Thumbs \cup {None}] /\ linked' \in [Ids -> SUBSET Thumbs]
  BY ThumbSteps DEF TypeOK
<1>3. /\ command' \in [Sessions -> Command]
      /\ recorded' \subseteq [session : Sessions, turn : Ids \cup {NoTurn},
                              rating : Thumbs \cup {None}]
      /\ reports' \subseteq [to : Strategies, session : Sessions, turn : Ids \cup {NoTurn},
                             rating : Thumbs \cup {None}, delta : Ids \cup {NoTurn}]
      /\ spoken' \in 0 .. scenario.submissions'
  <2>1. CASE Telemeter
    BY <2>1, ScenarioStays DEF Telemeter, feedbackVars, TypeOK
  <2>2. CASE UNCHANGED vars
    BY <2>2 DEF vars, telemetryVars, feedbackVars, TypeOK
  <2>3. CASE \E id \in DOMAIN turns, rating \in Thumbs : FollowLink(id, rating)
    BY <2>3, ScenarioStays DEF FollowLink, TypeOK
  <2>4. CASE \E s \in Speakers :
          \/ \E number \in Numbers, rating \in Thumbs \cup {None} : Type(s, number, rating)
          \/ Resolve(s) \/ Record(s) \/ Converge(s) \/ Report(s)
    BY <2>4, CommandTyped
  <2> QED
    BY <2>1, <2>2, <2>3, <2>4 DEF Next
<1> QED
  BY <1>1, <1>2, <1>3 DEF TypeOK

\* Every variable of Feedback keeps its type, the rows it reads included.
THEOREM TypedAlways == Spec => []TypeOK
  BY InitTyped, NextTyped, PTL DEF Spec

-----------------------------------------------------------------------------
(* The numbers.                                                            *)

\* Two elements of a finite total order with as many elements before them are
\* one.
LEMMA PlacesDiffer ==
  ASSUME NEW S, IsFiniteSet(S), NEW Before,
         \A x, y \in S : x # y => <<x, y>> \in Before \/ <<y, x>> \in Before,
         \A x \in S : <<x, x>> \notin Before,
         \A x, y, z \in S : <<x, y>> \in Before /\ <<y, z>> \in Before => <<x, z>> \in Before,
         NEW a \in S, NEW b \in S,
         Cardinality({x \in S : <<x, a>> \in Before})
           = Cardinality({x \in S : <<x, b>> \in Before})
  PROVE  a = b
<1>1. SUFFICES ASSUME a # b PROVE FALSE
  OBVIOUS
<1>2. ASSUME NEW p \in S, NEW q \in S, <<p, q>> \in Before,
             Cardinality({x \in S : <<x, p>> \in Before})
               = Cardinality({x \in S : <<x, q>> \in Before})
      PROVE  FALSE
  <2> DEFINE P == {x \in S : <<x, p>> \in Before}
             Q == {x \in S : <<x, q>> \in Before}
  <2>1. P \subseteq Q /\ p \in Q /\ p \notin P
    BY <1>2
  <2>2. IsFiniteSet(Q)
    BY FS_Subset
  <2> HIDE DEF P, Q
  <2>3. P # Q /\ Cardinality(P) = Cardinality(Q)
    BY <1>2, <2>1 DEF P, Q
  <2> QED
    BY <2>1, <2>2, <2>3, FS_Subset
<1> QED
  BY <1>1, <1>2

\* A number selects one turn, however many turns began in the same instant.
UnambiguousNumbers ==
  \A s \in Sessions, number \in Numbers :
    \A a, b \in BySequence(s, number) : a = b

LEMMA NumberSelectsOneTurn ==
  ASSUME TypeOK, NEW s \in Sessions, NEW number \in Numbers,
         NEW a \in BySequence(s, number), NEW b \in BySequence(s, number)
  PROVE  a = b
<1> DEFINE S == Counted(s)
           Forth == {p \in S \X S : Earlier(p[1], p[2])}
           Back == {p \in S \X S : Earlier(p[2], p[1])}
<1>1. /\ Len(turns) \in Nat /\ DOMAIN turns = 1..Len(turns)
      /\ \A id \in DOMAIN turns : turns[id].at \in Nat
  BY Bounded DEF TypeOK, Turn
<1>2. S \subseteq DOMAIN turns
  BY DEF Counted, TypeOK, TelemetryTypeOK
<1>3. IsFiniteSet(S)
  <2>1. IsFiniteSet(1..Len(turns))
    BY <1>1, FS_Interval
  <2> QED
    BY <1>1, <1>2, <2>1, FS_Subset
<1>4. \A x \in S : x \in Nat /\ turns[x].at \in Nat
  BY <1>1, <1>2
<1> HIDE DEF S
<1>5. /\ \A x, y \in S : x # y => Earlier(x, y) \/ Earlier(y, x)
      /\ \A x \in S : ~Earlier(x, x)
      /\ \A x, y, z \in S : Earlier(x, y) /\ Earlier(y, z) => Earlier(x, z)
  BY <1>4 DEF Earlier
<1>6. CASE number > 0
  <2>1. /\ a \in S /\ b \in S
        /\ {x \in S : Earlier(x, a)} = {x \in S : <<x, a>> \in Forth}
        /\ {x \in S : Earlier(x, b)} = {x \in S : <<x, b>> \in Forth}
    BY <1>6 DEF BySequence, BySessionAsc, S
  <2>2. Cardinality({x \in S : <<x, a>> \in Forth}) = Cardinality({x \in S : <<x, b>> \in Forth})
    BY <1>6, <2>1 DEF BySequence, BySessionAsc, S
  <2>3. /\ \A x, y \in S : x # y => <<x, y>> \in Forth \/ <<y, x>> \in Forth
        /\ \A x \in S : <<x, x>> \notin Forth
        /\ \A x, y, z \in S : <<x, y>> \in Forth /\ <<y, z>> \in Forth => <<x, z>> \in Forth
    BY <1>5
  <2> HIDE DEF Forth
  <2> QED
    BY <1>3, <2>1, <2>2, <2>3, PlacesDiffer
<1>7. CASE ~(number > 0)
  <2>1. /\ a \in S /\ b \in S
        /\ {x \in S : Earlier(a, x)} = {x \in S : <<x, a>> \in Back}
        /\ {x \in S : Earlier(b, x)} = {x \in S : <<x, b>> \in Back}
    BY <1>7 DEF BySequence, BySessionDesc, S
  <2>2. Cardinality({x \in S : <<x, a>> \in Back}) = Cardinality({x \in S : <<x, b>> \in Back})
    BY <1>7, <2>1 DEF BySequence, BySessionDesc, S
  <2>3. /\ \A x, y \in S : x # y => <<x, y>> \in Back \/ <<y, x>> \in Back
        /\ \A x \in S : <<x, x>> \notin Back
        /\ \A x, y, z \in S : <<x, y>> \in Back /\ <<y, z>> \in Back => <<x, z>> \in Back
    BY <1>5
  <2> HIDE DEF Back
  <2> QED
    BY <1>3, <2>1, <2>2, <2>3, PlacesDiffer
<1> QED
  BY <1>6, <1>7

\* Whatever rows have landed and in whatever order, a number of a command
\* selects no more than one turn: the ORDER BY timestamp, request_id of
\* GetTelemetryBySessionAsc and GetTelemetryBySessionDesc leaves no tie.
THEOREM NumbersAreUnambiguous == Spec => []UnambiguousNumbers
<1>1. TypeOK => UnambiguousNumbers
  BY NumberSelectsOneTurn DEF UnambiguousNumbers
<1> QED
  BY <1>1, TypedAlways, PTL

-----------------------------------------------------------------------------
(* The reports.                                                            *)

\* A row that names a session names the one it was served in.
Rowed == \A id \in DOMAIN turns : turns[id].key \in {None, turns[id].session}

\* A turn a command has resolved is one of its session, and the strategy it
\* will be credited to is the turn's, if one scored it.
Resolved ==
  \A s \in Sessions :
    command[s].turn # NoTurn =>
      /\ command[s].turn \in DOMAIN turns
      /\ turns[command[s].turn].session = s
      /\ turns[command[s].turn].strategy \in {None, command[s].strategy}

\* What is converged and reported has been recorded.
Submission(s) == [session |-> s, turn |-> command[s].turn, rating |-> command[s].rating]

Recorded ==
  \A s \in Sessions : command[s].step \in {"upsert", "report"} => Submission(s) \in recorded

Credited ==
  \A r \in reports :
    /\ [session |-> r.session, turn |-> r.turn, rating |-> r.rating] \in recorded
    /\ r.turn # NoTurn =>
          /\ r.turn \in DOMAIN turns
          /\ turns[r.turn].session = r.session
          /\ turns[r.turn].strategy \in {None, r.to}

Spoken == TypeOK /\ Rowed /\ Resolved /\ Recorded /\ Credited

LEMMA InitSpoken == Init => Spoken
<1> SUFFICES ASSUME Init PROVE Spoken
  OBVIOUS
<1>1. TypeOK
  BY InitTyped
<1>2. Rowed
  BY DEF Init, TelemetryInit, Rowed
<1> QED
  BY <1>1, <1>2 DEF Init, Spoken, Resolved, Recorded, Credited, Idle

LEMMA RowedKept == ASSUME TypeOK, Rowed, [Next]_vars PROVE Rowed'
<1>1. /\ DOMAIN turns \subseteq DOMAIN turns'
      /\ \A id \in DOMAIN turns : turns'[id] = turns[id]
      /\ \A id \in DOMAIN turns' \ DOMAIN turns : turns'[id].key \in {None, turns'[id].session}
  BY TurnsGrow DEF TypeOK
<1> QED
  BY <1>1 DEF Rowed

\* A number is resolved to a turn of the session that typed it.
LEMMA SelectedIsOwn ==
  ASSUME TypeOK, Rowed, NEW s \in Sessions, NEW number, NEW id \in BySequence(s, number)
  PROVE  id \in DOMAIN turns /\ turns[id].session = s /\ id # NoTurn
<1>1. id \in Counted(s)
  BY DEF BySequence, BySessionAsc, BySessionDesc
<1>2. id \in DOMAIN turns /\ turns[id].key = s
  BY <1>1 DEF Counted, TypeOK, TelemetryTypeOK
<1>3. s # None
  BY TelemetryAssumption DEF TelemetryAssumption
<1> QED
  BY <1>2, <1>3, Bounded DEF Rowed, TypeOK, NoTurn, Ids

\* What was resolved, recorded and credited stays so when turns are added and
\* nothing else changes.
LEMMA GrowthKept ==
  ASSUME Spoken, [Next]_vars, UNCHANGED <<recorded, reports, command>>
  PROVE  Resolved' /\ Recorded' /\ Credited'
<1>1. /\ DOMAIN turns \subseteq DOMAIN turns'
      /\ \A id \in DOMAIN turns : turns'[id] = turns[id]
  BY TurnsGrow DEF Spoken, TypeOK
<1>2. Resolved'
  BY <1>1 DEF Spoken, Resolved
<1>3. Recorded'
  BY DEF Spoken, Recorded, Submission
<1>4. Credited'
  BY <1>1 DEF Spoken, Credited
<1> QED
  BY <1>2, <1>3, <1>4

LEMMA CommandsKept ==
  ASSUME Spoken, NEW s \in Speakers,
         \/ \E number \in Numbers, rating \in Thumbs \cup {None} : Type(s, number, rating)
         \/ Resolve(s) \/ Record(s) \/ Converge(s) \/ Report(s)
  PROVE  Resolved' /\ Recorded' /\ Credited'
<1>1. s \in Sessions /\ command \in [Sessions -> Command] /\ command[s] \in Command
  BY FeedbackAssumption DEF FeedbackAssumption, Spoken, TypeOK
<1>2. UNCHANGED turns
  BY DEF Type, Resolve, Record, Converge, Report, telemetryVars
\* It is enough to look at the session whose command makes the step.
<1>3. ASSUME recorded \subseteq recorded',
             \A t \in Sessions \ {s} : command'[t] = command[t],
             command'[s].turn # NoTurn =>
               /\ command'[s].turn \in DOMAIN turns
               /\ turns[command'[s].turn].session = s
               /\ turns[command'[s].turn].strategy \in {None, command'[s].strategy},
             command'[s].step \in {"upsert", "report"} => Submission(s)' \in recorded',
             \A r \in reports' \ reports :
               /\ r.turn # NoTurn =>
                    /\ r.turn \in DOMAIN turns
                    /\ turns[r.turn].session = r.session
                    /\ turns[r.turn].strategy \in {None, r.to}
               /\ [session |-> r.session, turn |-> r.turn, rating |-> r.rating] \in recorded
      PROVE  Resolved' /\ Recorded' /\ Credited'
  <2>1. Resolved'
    BY <1>2, <1>3 DEF Spoken, Resolved
  <2>2. Recorded'
    <3>1. \A t \in Sessions \ {s} : Submission(t)' = Submission(t)
      BY <1>3 DEF Submission
    <3> QED
      BY <1>3, <3>1 DEF Spoken, Recorded
  <2>3. Credited'
    BY <1>2, <1>3 DEF Spoken, Credited
  <2> QED
    BY <2>1, <2>2, <2>3
<1>4. ASSUME NEW number \in Numbers, NEW rating \in Thumbs \cup {None}, Type(s, number, rating)
      PROVE  Resolved' /\ Recorded' /\ Credited'
  <2>1. UNCHANGED <<recorded, reports>>
    BY <1>4 DEF Type
  <2>2. \A t \in Sessions \ {s} : command'[t] = command[t]
    BY <1>1, <1>4 DEF Type
  <2>3. command'[s].turn = NoTurn /\ command'[s].step \in {"record", "resolve"}
    BY <1>1, <1>4 DEF Type, Idle, NoTurn
  <2> QED
    BY <1>3, <2>1, <2>2, <2>3
<1>5. CASE Resolve(s)
  <2>1. UNCHANGED <<recorded, reports>> /\ command[s].step = "resolve"
    BY <1>5 DEF Resolve
  <2>2. ASSUME NEW id \in BySequence(s, command[s].number),
               command' = [command EXCEPT ![s].step = "record", ![s].turn = id,
                                          ![s].strategy = Scored(id, command[s].strategy)]
        PROVE  Resolved' /\ Recorded' /\ Credited'
    <3>1. id \in DOMAIN turns /\ turns[id].session = s
      BY <1>1, SelectedIsOwn DEF Spoken
    <3>2. \A t \in Sessions \ {s} : command'[t] = command[t]
      BY <1>1, <2>2
    <3>3. /\ command'[s].turn = id /\ command'[s].step = "record"
          /\ turns[id].strategy \in {None, command'[s].strategy}
      BY <1>1, <2>2 DEF Command, Scored
    <3> QED
      BY <1>3, <2>1, <3>1, <3>2, <3>3
  <2>3. ASSUME command' = [command EXCEPT ![s] = Idle] PROVE Resolved' /\ Recorded' /\ Credited'
    <3>1. command'[s].turn = NoTurn /\ command'[s].step = "idle"
      BY <1>1, <2>3 DEF Idle
    <3> QED
      BY <1>1, <1>3, <2>1, <2>3, <3>1
  <2>4. ASSUME command' = [command EXCEPT ![s].step = "record"]
        PROVE  Resolved' /\ Recorded' /\ Credited'
    <3>1. /\ command'[s].turn = command[s].turn /\ command'[s].strategy = command[s].strategy
          /\ command'[s].step = "record"
      BY <1>1, <2>4 DEF Command
    <3> QED
      BY <1>1, <1>3, <2>1, <2>4, <3>1 DEF Spoken, Resolved
  <2> QED
    BY <1>1, <1>5, <2>2, <2>3, <2>4, ResolvedTo
<1>6. CASE Record(s)
  <2>1. UNCHANGED reports
    BY <1>6 DEF Record
  <2>2. ASSUME command' = [command EXCEPT ![s] = Idle], UNCHANGED recorded
        PROVE Resolved' /\ Recorded' /\ Credited'
    <3>1. command'[s].turn = NoTurn /\ command'[s].step = "idle"
      BY <1>1, <2>2 DEF Idle
    <3> QED
      BY <1>1, <1>3, <2>1, <2>2, <3>1
  <2>3. ASSUME command' = [command EXCEPT ![s].step = "upsert"],
               recorded' = recorded \cup {Submission(s)}
        PROVE  Resolved' /\ Recorded' /\ Credited'
    <3>1. /\ command'[s].turn = command[s].turn /\ command'[s].strategy = command[s].strategy
          /\ command'[s].rating = command[s].rating
      BY <1>1, <2>3 DEF Command
    <3>2. Submission(s)' = Submission(s)
      BY <3>1 DEF Submission
    <3> QED
      BY <1>1, <1>3, <2>1, <2>3, <3>1, <3>2 DEF Spoken, Resolved
  <2> QED
    BY <1>6, <2>2, <2>3 DEF Record, Submission
<1>7. CASE Converge(s)
  <2>1. /\ UNCHANGED <<recorded, reports>> /\ command[s].step = "upsert"
        /\ command' = [command EXCEPT ![s].step = "report"]
    BY <1>7 DEF Converge
  <2>2. /\ command'[s].turn = command[s].turn /\ command'[s].strategy = command[s].strategy
        /\ command'[s].rating = command[s].rating
    BY <1>1, <2>1 DEF Command
  <2>3. Submission(s)' = Submission(s)
    BY <2>2 DEF Submission
  <2> QED
    BY <1>1, <1>3, <2>1, <2>2, <2>3 DEF Spoken, Resolved, Recorded
<1>8. CASE Report(s)
  <2>1. /\ UNCHANGED recorded /\ command[s].step = "report"
        /\ command' = [command EXCEPT ![s] = Idle]
        /\ reports' \subseteq reports \cup {PolicyReport(s)}
    BY <1>8 DEF Report
  <2>2. command'[s].turn = NoTurn /\ command'[s].step = "idle"
    BY <1>1, <2>1 DEF Idle
  <2>3. PolicyReport(s).turn # NoTurn =>
           /\ PolicyReport(s).turn \in DOMAIN turns
           /\ turns[PolicyReport(s).turn].session = PolicyReport(s).session
           /\ turns[PolicyReport(s).turn].strategy \in {None, PolicyReport(s).to}
    BY <1>1 DEF PolicyReport, CreditedStrategy, Spoken, Resolved
  <2>4. [session |-> PolicyReport(s).session, turn |-> PolicyReport(s).turn,
         rating |-> PolicyReport(s).rating] \in recorded
    BY <1>1, <2>1 DEF PolicyReport, Spoken, Recorded, Submission
  <2> QED
    BY <1>1, <1>3, <2>1, <2>2, <2>3, <2>4
<1> QED
  BY <1>4, <1>5, <1>6, <1>7, <1>8

LEMMA NextSpoken == Spoken /\ [Next]_vars => Spoken'
<1> SUFFICES ASSUME Spoken, [Next]_vars PROVE Spoken'
  OBVIOUS
<1>1. TypeOK' /\ Rowed'
  BY NextTyped, RowedKept DEF Spoken
<1>2. CASE Telemeter \/ UNCHANGED vars
  BY <1>1, <1>2, GrowthKept DEF Telemeter, vars, feedbackVars, Spoken
<1>3. CASE \E id \in DOMAIN turns, rating \in Thumbs : FollowLink(id, rating)
  BY <1>1, <1>3, GrowthKept DEF FollowLink, Spoken
<1>4. CASE \E s \in Speakers :
        \/ \E number \in Numbers, rating \in Thumbs \cup {None} : Type(s, number, rating)
        \/ Resolve(s) \/ Record(s) \/ Converge(s) \/ Report(s)
  BY <1>1, <1>4, CommandsKept DEF Spoken
<1> QED
  BY <1>2, <1>3, <1>4 DEF Next

\* What a sidecar is told of a turn was recorded first, is said of a turn of
\* the session that spoke and goes to the strategy that scored the turn,
\* whichever strategy the installation was switched to between any two steps
\* of Service.handleRouterFeedbackCommand.
THEOREM AlwaysCreditedToItsPolicy == Spec => []CreditedToItsPolicy
<1>1. Spoken => CreditedToItsPolicy
  BY DEF Spoken, Credited, CreditedToItsPolicy
<1> QED
  BY <1>1, InitSpoken, NextSpoken, PTL DEF Spec

-----------------------------------------------------------------------------
(* The thumbs.                                                             *)

LEMMA GivenKept ==
  ASSUME Spoken, ThumbsWereGiven, [Next]_vars
  PROVE  ThumbsWereGiven'
<1>1. /\ DOMAIN turns \subseteq DOMAIN turns' /\ recorded \subseteq recorded'
      /\ \A id \in DOMAIN turns : turns'[id] = turns[id]
  <2>1. recorded \subseteq recorded'
    BY DEF Next, Telemeter, FollowLink, Type, Resolve, Record, Converge, Report, vars, feedbackVars
  <2> QED
    BY <2>1, TurnsGrow DEF Spoken, TypeOK
<1>2. thumbs \in [Ids -> Thumbs \cup {None}] /\ linked \in [Ids -> SUBSET Thumbs]
  BY DEF Spoken, TypeOK
<1>3. None \notin Thumbs
  BY FeedbackAssumption DEF FeedbackAssumption, Thumbs
<1>4. CASE UNCHANGED <<thumbs, linked>>
  BY <1>1, <1>4 DEF ThumbsWereGiven, Page
<1>5. ASSUME NEW id \in Ids, NEW rating \in Thumbs,
             thumbs' = [thumbs EXCEPT ![id] = rating],
             linked' = [linked EXCEPT ![id] = linked[id] \cup {rating}]
      PROVE  ThumbsWereGiven'
  BY <1>1, <1>2, <1>3, <1>5 DEF ThumbsWereGiven, Page
<1>6. ASSUME NEW s \in Speakers, Converge(s), UNCHANGED linked,
             command[s].turn \in Ids, command[s].rating \in Thumbs,
             thumbs' = [thumbs EXCEPT ![command[s].turn] = command[s].rating]
      PROVE  ThumbsWereGiven'
  <2> DEFINE id == command[s].turn
  <2>1. s \in Sessions /\ command[s].step = "upsert" /\ id # NoTurn
    BY <1>6, FeedbackAssumption DEF FeedbackAssumption, Converge, Ids, NoTurn
  <2>2. Submission(s) \in recorded /\ id \in DOMAIN turns /\ turns[id].session = s
    BY <2>1 DEF Spoken, Recorded, Resolved
  <2>3. [session |-> turns[id].session, turn |-> id, rating |-> thumbs'[id]] \in recorded
    BY <1>2, <1>6, <2>2 DEF Submission
  <2>4. \A other \in Ids \ {id} : thumbs'[other] = thumbs[other]
    BY <1>2, <1>6
  <2>5. thumbs'[id] # None
    BY <1>2, <1>3, <1>6
  <2> HIDE DEF id
  <2> QED
    BY <1>1, <1>6, <2>2, <2>3, <2>4, <2>5 DEF ThumbsWereGiven, Page
<1> QED
  BY <1>4, <1>5, <1>6, ThumbSteps DEF Spoken

\* Every thumb on a turn's page is one that was given that turn, by its link
\* or by a submission on record, whatever rows were lost and whatever failed
\* on the way: the command writes a rating only behind the insert of its
\* submission, to the turn of its own session it resolved.
THEOREM ThumbsWereAlwaysGiven == Spec => []ThumbsWereGiven
<1>1. Init => ThumbsWereGiven
  BY DEF Init, ThumbsWereGiven, Page
<1>2. Spoken /\ ThumbsWereGiven /\ [Next]_vars => ThumbsWereGiven'
  BY GivenKept
<1> QED
  BY <1>1, <1>2, InitSpoken, NextSpoken, PTL DEF Spec

-----------------------------------------------------------------------------
(* Sums over finite sets.  The facts of BillingProofs, stated again here   *)
(* because the two modules cannot be extended together, and what grouping  *)
(* needs: the sum over the groups is the sum over what was grouped.        *)

\* A set of naturals that holds zero and, of each, the next, holds them all.
LEMMA Induction ==
  ASSUME NEW T, 0 \in T, \A n \in Nat : n \in T => n + 1 \in T
  PROVE  Nat \subseteq T
<1> DEFINE Below == {p \in Nat \X Nat : p[1] < p[2]}
<1>1. IsWellFoundedOn(Below, Nat)
  BY NatLessThanWellFounded DEF OpToRel
<1> HIDE DEF Below
<1>2. SUFFICES ASSUME Nat \ T # {} PROVE FALSE
  OBVIOUS
<1>3. PICK n \in Nat \ T : \A m \in Nat \ T : ~(<<m, n>> \in Below)
  BY <1>1, <1>2, WFMin
<1>4. n # 0 /\ n - 1 \in Nat
  BY <1>3
<1>5. <<n - 1, n>> \in Below
  BY <1>4 DEF Below
<1>6. n - 1 \in T
  BY <1>3, <1>4, <1>5
<1> QED
  BY <1>3, <1>4, <1>6


OneOf(s) == CHOOSE x \in s : TRUE

SumStep(f, g, s) == IF s = {} THEN 0 ELSE f[OneOf(s)] + g[s \ {OneOf(s)}]

SumsOver(f, g, D) == g = [s \in D |-> SumStep(f, g, s)]

SumOf(f, S) == CHOOSE g : SumsOver(f, g, SUBSET S)

LEMMA SumUnfolded ==
  ASSUME NEW f, NEW S
  PROVE  SumFunctionOnSet(f, S) = SumOf(f, S)[S]
  BY DEF SumFunctionOnSet, FoldFunctionOnSet, MapThenFoldSet, SumOf, SumsOver, SumStep, OneOf

\* A set without one of its elements.
LEMMA Smaller ==
  ASSUME NEW s, IsFiniteSet(s), s # {}
  PROVE  /\ OneOf(s) \in s
         /\ IsFiniteSet(s \ {OneOf(s)})
         /\ Cardinality(s) \in Nat /\ Cardinality(s) > 0
         /\ Cardinality(s \ {OneOf(s)}) = Cardinality(s) - 1
<1>1. OneOf(s) \in s
  BY DEF OneOf
<1>2. Cardinality(s) \in Nat /\ Cardinality(s) # 0
  BY FS_CardinalityType, FS_EmptySet
<1>3. IsFiniteSet(s \ {OneOf(s)}) /\ Cardinality(s \ {OneOf(s)}) = Cardinality(s) - 1
  BY <1>1, FS_RemoveElement
<1> QED
  BY <1>1, <1>2, <1>3

LEMMA SumExists ==
  ASSUME NEW f, NEW S, IsFiniteSet(S)
  PROVE  SumsOver(f, SumOf(f, S), SUBSET S)
<1> DEFINE Small(n) == {s \in SUBSET S : Cardinality(s) <= n}
           T == {n \in Nat : \E g : SumsOver(f, g, Small(n))}
<1>1. \A s \in SUBSET S : IsFiniteSet(s) /\ Cardinality(s) \in Nat
  BY FS_Subset, FS_CardinalityType
<1>2. 0 \in T
  <2> DEFINE g == [s \in Small(0) |-> 0]
  <2>1. \A s \in Small(0) : s = {}
    BY <1>1, FS_EmptySet
  <2>2. SumsOver(f, g, Small(0))
    BY <2>1 DEF SumsOver, SumStep
  <2> QED
    BY <2>2
<1>3. ASSUME NEW n \in Nat, n \in T PROVE n + 1 \in T
  <2>1. PICK g : SumsOver(f, g, Small(n))
    BY <1>3
  <2> DEFINE h == [s \in Small(n + 1) |-> SumStep(f, g, s)]
  <2>2. ASSUME NEW s \in Small(n + 1) PROVE SumStep(f, g, s) = SumStep(f, h, s)
    <3>1. CASE s = {}
      BY <3>1 DEF SumStep
    <3>2. CASE s # {}
      <4> DEFINE rest == s \ {OneOf(s)}
      <4>1. rest \in Small(n) /\ rest \in Small(n + 1)
        BY <1>1, <3>2, Smaller
      <4>2. g[rest] = SumStep(f, g, rest)
        BY <2>1, <4>1 DEF SumsOver
      <4>3. h[rest] = SumStep(f, g, rest)
        BY <4>1
      <4> HIDE DEF h
      <4> QED
        BY <3>2, <4>2, <4>3 DEF SumStep
    <3> QED
      BY <3>1, <3>2
  <2>3. SumsOver(f, h, Small(n + 1))
    BY <2>2 DEF SumsOver
  <2> HIDE DEF h, Small
  <2> QED
    BY <2>3
<1>4. Cardinality(S) \in T
  <2> HIDE DEF T
  <2> QED
    BY <1>1, <1>2, <1>3, Induction
<1>5. Small(Cardinality(S)) = SUBSET S
  <2>1. ASSUME NEW s \in SUBSET S PROVE Cardinality(s) <= Cardinality(S)
    BY FS_Subset
  <2> QED
    BY <2>1
<1>6. \E g : SumsOver(f, g, SUBSET S)
  BY <1>4, <1>5
<1> QED
  BY <1>6 DEF SumOf

LEMMA SumApplied ==
  ASSUME NEW f, NEW S, IsFiniteSet(S), NEW s \in SUBSET S
  PROVE  SumOf(f, S)[s] = SumStep(f, SumOf(f, S), s)
<1> DEFINE g == SumOf(f, S)
<1>1. SumsOver(f, g, SUBSET S)
  BY SumExists
<1> HIDE DEF g
<1>2. g[s] = SumStep(f, g, s)
  BY <1>1 DEF SumsOver
<1> QED
  BY <1>2 DEF g

\* Sums over two sets agree on what both have.
LEMMA SumsAgree ==
  ASSUME NEW f, NEW S, NEW R, R \subseteq S, IsFiniteSet(S)
  PROVE  SumOf(f, S)[R] = SumOf(f, R)[R]
<1> DEFINE g == SumOf(f, S)
           h == SumOf(f, R)
           T == {n \in Nat : \A s \in SUBSET R : Cardinality(s) = n => g[s] = h[s]}
<1>1. IsFiniteSet(R) /\ \A s \in SUBSET R : IsFiniteSet(s) /\ Cardinality(s) \in Nat
  BY FS_Subset, FS_CardinalityType
<1>2. /\ \A s \in SUBSET S : g[s] = SumStep(f, g, s)
      /\ \A s \in SUBSET R : h[s] = SumStep(f, h, s)
  BY <1>1, SumApplied
<1> HIDE DEF g, h
<1>3. 0 \in T
  <2>1. \A s \in SUBSET R : Cardinality(s) = 0 => s = {}
    BY <1>1, FS_EmptySet
  <2> QED
    BY <1>2, <2>1 DEF SumStep
<1>4. ASSUME NEW n \in Nat, n \in T PROVE n + 1 \in T
  <2> SUFFICES ASSUME NEW s \in SUBSET R, Cardinality(s) = n + 1 PROVE g[s] = h[s]
    OBVIOUS
  <2>1. s # {}
    BY FS_EmptySet
  <2>2. s \ {OneOf(s)} \in SUBSET R /\ Cardinality(s \ {OneOf(s)}) = n
    BY <1>1, <2>1, Smaller
  <2>3. g[s \ {OneOf(s)}] = h[s \ {OneOf(s)}]
    BY <1>4, <2>2
  <2> QED
    BY <1>2, <2>1, <2>3 DEF SumStep
<1>5. Cardinality(R) \in T
  <2> HIDE DEF T
  <2> QED
    BY <1>1, <1>3, <1>4, Induction
<1> QED
  BY <1>5 DEF g, h

LEMMA SumEmpty == ASSUME NEW f PROVE SumFunctionOnSet(f, {}) = 0
<1>1. SumOf(f, {})[{}] = SumStep(f, SumOf(f, {}), {})
  BY FS_EmptySet, SumApplied
<1> QED
  BY <1>1, SumUnfolded DEF SumStep

LEMMA SumChosen ==
  ASSUME NEW f, NEW S, IsFiniteSet(S), S # {}
  PROVE  SumFunctionOnSet(f, S) = f[OneOf(S)] + SumFunctionOnSet(f, S \ {OneOf(S)})
<1>1. SumOf(f, S)[S] = f[OneOf(S)] + SumOf(f, S)[S \ {OneOf(S)}]
  <2>1. SumOf(f, S)[S] = SumStep(f, SumOf(f, S), S)
    BY SumApplied
  <2> QED
    BY <2>1 DEF SumStep
<1>2. SumOf(f, S)[S \ {OneOf(S)}] = SumFunctionOnSet(f, S \ {OneOf(S)})
  BY SumsAgree, SumUnfolded
<1> QED
  BY <1>1, <1>2, SumUnfolded

\* A sum is an integer, depends on nothing else of the function, and is that
\* of any element and of the rest.
LEMMA SumTyped ==
  ASSUME NEW f, NEW S, IsFiniteSet(S), \A x \in S : f[x] \in Int
  PROVE  SumFunctionOnSet(f, S) \in Int
<1> DEFINE T == {n \in Nat : \A s \in SUBSET S : Cardinality(s) = n => SumFunctionOnSet(f, s) \in Int}
<1>1. \A s \in SUBSET S : IsFiniteSet(s) /\ Cardinality(s) \in Nat
  BY FS_Subset, FS_CardinalityType
<1>2. 0 \in T
  BY <1>1, FS_EmptySet, SumEmpty
<1>3. ASSUME NEW n \in Nat, n \in T PROVE n + 1 \in T
  <2> SUFFICES ASSUME NEW s \in SUBSET S, Cardinality(s) = n + 1
               PROVE  SumFunctionOnSet(f, s) \in Int
    OBVIOUS
  <2>1. s # {}
    BY FS_EmptySet
  <2>2. OneOf(s) \in s /\ s \ {OneOf(s)} \in SUBSET S /\ Cardinality(s \ {OneOf(s)}) = n
    BY <1>1, <2>1, Smaller
  <2>3. SumFunctionOnSet(f, s \ {OneOf(s)}) \in Int
    BY <1>3, <2>2
  <2> QED
    BY <1>1, <2>1, <2>2, <2>3, SumChosen
<1>4. Cardinality(S) \in T
  <2> HIDE DEF T
  <2> QED
    BY <1>1, <1>2, <1>3, Induction
<1> QED
  BY <1>4

LEMMA SumSame ==
  ASSUME NEW f, NEW g, NEW S, IsFiniteSet(S), \A x \in S : f[x] = g[x]
  PROVE  SumFunctionOnSet(f, S) = SumFunctionOnSet(g, S)
<1> DEFINE T == {n \in Nat : \A s \in SUBSET S :
                    Cardinality(s) = n => SumFunctionOnSet(f, s) = SumFunctionOnSet(g, s)}
<1>1. \A s \in SUBSET S : IsFiniteSet(s) /\ Cardinality(s) \in Nat
  BY FS_Subset, FS_CardinalityType
<1>2. 0 \in T
  BY <1>1, FS_EmptySet, SumEmpty
<1>3. ASSUME NEW n \in Nat, n \in T PROVE n + 1 \in T
  <2> SUFFICES ASSUME NEW s \in SUBSET S, Cardinality(s) = n + 1
               PROVE  SumFunctionOnSet(f, s) = SumFunctionOnSet(g, s)
    OBVIOUS
  <2>1. s # {}
    BY FS_EmptySet
  <2>2. OneOf(s) \in s /\ s \ {OneOf(s)} \in SUBSET S /\ Cardinality(s \ {OneOf(s)}) = n
    BY <1>1, <2>1, Smaller
  <2>3. SumFunctionOnSet(f, s \ {OneOf(s)}) = SumFunctionOnSet(g, s \ {OneOf(s)})
    BY <1>3, <2>2
  <2> QED
    BY <1>1, <2>1, <2>2, <2>3, SumChosen
<1>4. Cardinality(S) \in T
  <2> HIDE DEF T
  <2> QED
    BY <1>1, <1>2, <1>3, Induction
<1> QED
  BY <1>4

LEMMA SumWithout ==
  ASSUME NEW f, NEW S, IsFiniteSet(S), \A x \in S : f[x] \in Int, NEW e \in S
  PROVE  SumFunctionOnSet(f, S) = f[e] + SumFunctionOnSet(f, S \ {e})
<1> DEFINE T == {n \in Nat : \A s \in SUBSET S : Cardinality(s) = n =>
                    \A x \in s : SumFunctionOnSet(f, s) = f[x] + SumFunctionOnSet(f, s \ {x})}
<1>1. \A s \in SUBSET S : /\ IsFiniteSet(s) /\ Cardinality(s) \in Nat
                          /\ SumFunctionOnSet(f, s) \in Int
  BY FS_Subset, FS_CardinalityType, SumTyped
<1>2. 0 \in T
  BY <1>1, FS_EmptySet
<1>3. ASSUME NEW n \in Nat, n \in T PROVE n + 1 \in T
  <2> SUFFICES ASSUME NEW s \in SUBSET S, Cardinality(s) = n + 1, NEW x \in s
               PROVE  SumFunctionOnSet(f, s) = f[x] + SumFunctionOnSet(f, s \ {x})
    OBVIOUS
  <2> DEFINE y == OneOf(s)
             both == (s \ {x}) \ {y}
  <2>1. /\ y \in s /\ s \ {y} \in SUBSET S /\ Cardinality(s \ {y}) = n
        /\ SumFunctionOnSet(f, s) = f[y] + SumFunctionOnSet(f, s \ {y})
    <3>1. s # {} /\ IsFiniteSet(s)
      BY <1>1
    <3> QED
      BY <3>1, Smaller, SumChosen
  <2>2. s \ {x} \in SUBSET S /\ Cardinality(s \ {x}) = n
    BY <1>1, FS_RemoveElement
  <2> HIDE DEF y
  <2>3. CASE x = y
    BY <2>1, <2>3
  <2>4. CASE x # y
    <3>1. SumFunctionOnSet(f, s \ {y}) = f[x] + SumFunctionOnSet(f, both)
      <4>1. x \in s \ {y} /\ (s \ {y}) \ {x} = both
        BY <2>4
      <4> HIDE DEF both
      <4> QED
        BY <1>3, <2>1, <4>1
    <3>2. SumFunctionOnSet(f, s \ {x}) = f[y] + SumFunctionOnSet(f, both)
      <4>1. y \in s \ {x}
        BY <2>1, <2>4
      <4> QED
        BY <1>3, <2>2, <4>1
    <3>3. SumFunctionOnSet(f, both) \in Int /\ f[x] \in Int /\ f[y] \in Int
      BY <1>1, <2>1
    <3> QED
      BY <2>1, <3>1, <3>2, <3>3
  <2> QED
    BY <2>3, <2>4
<1>4. Cardinality(S) \in T
  <2> HIDE DEF T
  <2> QED
    BY <1>1, <1>2, <1>3, Induction
<1> QED
  BY <1>4

LEMMA SumOfNothing ==
  ASSUME NEW f, NEW S, IsFiniteSet(S), \A x \in S : f[x] = 0
  PROVE  SumFunctionOnSet(f, S) = 0
<1> DEFINE T == {n \in Nat : \A s \in SUBSET S : Cardinality(s) = n => SumFunctionOnSet(f, s) = 0}
<1>1. \A s \in SUBSET S : IsFiniteSet(s) /\ Cardinality(s) \in Nat
  BY FS_Subset, FS_CardinalityType
<1>2. 0 \in T
  BY <1>1, FS_EmptySet, SumEmpty
<1>3. ASSUME NEW n \in Nat, n \in T PROVE n + 1 \in T
  <2> SUFFICES ASSUME NEW s \in SUBSET S, Cardinality(s) = n + 1
               PROVE  SumFunctionOnSet(f, s) = 0
    OBVIOUS
  <2>1. s # {}
    BY FS_EmptySet
  <2>2. OneOf(s) \in s /\ s \ {OneOf(s)} \in SUBSET S /\ Cardinality(s \ {OneOf(s)}) = n
    BY <1>1, <2>1, Smaller
  <2>3. SumFunctionOnSet(f, s \ {OneOf(s)}) = 0 /\ f[OneOf(s)] = 0
    BY <1>3, <2>2
  <2> QED
    BY <1>1, <2>1, <2>3, SumChosen
<1>4. Cardinality(S) \in T
  <2> HIDE DEF T
  <2> QED
    BY <1>1, <1>2, <1>3, Induction
<1> QED
  BY <1>4

\* A sum changes by what one of its members does.
LEMMA SumChanges ==
  ASSUME NEW f, NEW g, NEW B, IsFiniteSet(B), NEW e \in B, NEW d \in Int,
         \A x \in B : f[x] \in Int, g[e] = f[e] + d,
         \A x \in B \ {e} : g[x] = f[x]
  PROVE  SumFunctionOnSet(g, B) = SumFunctionOnSet(f, B) + d
<1>1. \A x \in B : g[x] \in Int
  OBVIOUS
<1>2. IsFiniteSet(B \ {e})
  BY FS_RemoveElement
<1>3. /\ SumFunctionOnSet(f, B) = f[e] + SumFunctionOnSet(f, B \ {e})
      /\ SumFunctionOnSet(g, B) = g[e] + SumFunctionOnSet(g, B \ {e})
  BY <1>1, SumWithout
<1>4. SumFunctionOnSet(g, B \ {e}) = SumFunctionOnSet(f, B \ {e})
  BY <1>2, SumSame
<1>5. SumFunctionOnSet(f, B \ {e}) \in Int
  BY <1>2, SumTyped
<1> QED
  BY <1>3, <1>4, <1>5

\* The members of s that k sends to b, and the sum of each such group.
Group(k, s, b) == {x \in s : k[x] = b}
GroupSums(f, k, s, B) == [b \in B |-> SumFunctionOnSet(f, Group(k, s, b))]

LEMMA SumGrouped ==
  ASSUME NEW f, NEW S, IsFiniteSet(S), \A x \in S : f[x] \in Int,
         NEW B, IsFiniteSet(B), NEW k, \A x \in S : k[x] \in B
  PROVE  SumFunctionOnSet(GroupSums(f, k, S, B), B) = SumFunctionOnSet(f, S)
<1> DEFINE Whole(s) == SumFunctionOnSet(GroupSums(f, k, s, B), B) = SumFunctionOnSet(f, s)
           T == {n \in Nat : \A s \in SUBSET S : Cardinality(s) = n => Whole(s)}
<1>1. \A s \in SUBSET S : IsFiniteSet(s) /\ Cardinality(s) \in Nat
  BY FS_Subset, FS_CardinalityType
<1>2. ASSUME NEW s \in SUBSET S, NEW b
      PROVE  Group(k, s, b) \in SUBSET s /\ SumFunctionOnSet(f, Group(k, s, b)) \in Int
  <2>1. Group(k, s, b) \in SUBSET s
    BY DEF Group
  <2>2. IsFiniteSet(Group(k, s, b)) /\ \A x \in Group(k, s, b) : f[x] \in Int
    BY <1>1, <2>1
  <2> QED
    BY <2>1, <2>2, SumTyped
<1>3. 0 \in T
  <2> SUFFICES ASSUME NEW s \in SUBSET S, Cardinality(s) = 0 PROVE Whole(s)
    OBVIOUS
  <2>1. s = {}
    BY <1>1, FS_EmptySet
  <2>2. \A b \in B : GroupSums(f, k, s, B)[b] = 0
    BY <2>1, SumEmpty DEF GroupSums, Group
  <2> QED
    BY <2>1, <2>2, SumOfNothing, SumEmpty
<1>4. ASSUME NEW n \in Nat, n \in T PROVE n + 1 \in T
  <2> SUFFICES ASSUME NEW s \in SUBSET S, Cardinality(s) = n + 1 PROVE Whole(s)
    OBVIOUS
  <2>0. s # {}
    <3> HIDE DEF T, Whole
    <3> QED
      BY FS_EmptySet
  <2>1. PICK e \in s : TRUE
    BY <2>0
  <2> DEFINE r == s \ {e}
  <2>2. r \in SUBSET S /\ Cardinality(r) = n /\ IsFiniteSet(s)
    <3>1. IsFiniteSet(s)
      BY <1>1
    <3>2. Cardinality(r) = Cardinality(s) - 1
      BY <2>1, <3>1, FS_RemoveElement
    <3>3. r \in SUBSET S
      OBVIOUS
    <3> HIDE DEF r, T, Whole
    <3> QED
      BY <3>1, <3>2, <3>3
  <2>3. Whole(r)
    <3> HIDE DEF r, Whole
    <3> QED
      BY <1>4, <2>2
  <2>4. SumFunctionOnSet(f, s) = f[e] + SumFunctionOnSet(f, r)
    BY <2>1, <2>2, SumWithout
  <2>5. ASSUME NEW b \in B, b # k[e]
        PROVE  GroupSums(f, k, s, B)[b] = GroupSums(f, k, r, B)[b]
    <3>1. Group(k, s, b) = Group(k, r, b)
      BY <2>5 DEF Group
    <3> QED
      BY <3>1 DEF GroupSums
  <2>6. GroupSums(f, k, s, B)[k[e]] = GroupSums(f, k, r, B)[k[e]] + f[e]
    <3> DEFINE G == Group(k, s, k[e])
    <3>1. e \in G /\ G \ {e} = Group(k, r, k[e])
      BY <2>1 DEF Group
    <3>2. IsFiniteSet(G) /\ \A x \in G : f[x] \in Int
      BY <1>1, <1>2
    <3>3. SumFunctionOnSet(f, G) = f[e] + SumFunctionOnSet(f, G \ {e})
      BY <3>1, <3>2, SumWithout
    <3>4. SumFunctionOnSet(f, Group(k, r, k[e])) \in Int /\ f[e] \in Int /\ k[e] \in B
      BY <1>2, <2>1, <2>2
    <3> HIDE DEF r
    <3> QED
      BY <3>1, <3>3, <3>4 DEF GroupSums
  <2>7. \A b \in B : GroupSums(f, k, r, B)[b] \in Int
    BY <1>2, <2>2 DEF GroupSums
  <2>8. SumFunctionOnSet(GroupSums(f, k, s, B), B) = SumFunctionOnSet(GroupSums(f, k, r, B), B) + f[e]
    <3>1. k[e] \in B /\ f[e] \in Int
      BY <2>1
    <3> HIDE DEF r
    <3> QED
      BY <2>5, <2>6, <2>7, <3>1, SumChanges
  <2>9. SumFunctionOnSet(f, r) \in Int /\ f[e] \in Int
    BY <1>1, <2>1, <2>2, SumTyped
  <2> QED
    BY <2>3, <2>4, <2>8, <2>9
<1>5. Cardinality(S) \in T
  <2> HIDE DEF T
  <2> QED
    BY <1>1, <1>3, <1>4, Induction
<1> QED
  BY <1>5

\* A report h has a row for each group of S and nothing else.
Tabulates(h, f, k, S) ==
  /\ DOMAIN h = {k[x] : x \in S}
  /\ \A b \in DOMAIN h : h[b] = SumFunctionOnSet(f, Group(k, S, b))

\* It adds up to what was grouped.
LEMMA ReportAddsUp ==
  ASSUME NEW f, NEW S, IsFiniteSet(S), \A x \in S : f[x] \in Int,
         NEW k, NEW h, Tabulates(h, f, k, S)
  PROVE  SumFunction(h) = SumFunctionOnSet(f, S)
<1> DEFINE p == [x \in S |-> k[x]]
           B == DOMAIN h
<1>0. B = {k[x] : x \in S} /\ \A b \in B : h[b] = SumFunctionOnSet(f, Group(k, S, b))
  BY DEF Tabulates
<1> HIDE DEF B
<1>1. IsFiniteSet(B)
  <2>1. p \in Surjection(S, B)
    BY <1>0 DEF Surjection
  <2> QED
    BY <2>1, FS_Surjection
<1>2. SumFunctionOnSet(h, B) = SumFunctionOnSet(GroupSums(f, k, S, B), B)
  BY <1>0, <1>1, SumSame DEF GroupSums
<1>3. \A x \in S : k[x] \in B
  BY <1>0
<1> QED
  BY <1>1, <1>2, <1>3, SumGrouped DEF SumFunction, B

-----------------------------------------------------------------------------
(* The reports: what their bars and lines add up to.                       *)

RequestedPrices(ids) == [id \in ids |-> Price[turns[id].requested]]
ActualPrices(ids) == [id \in ids |-> Price[turns[id].model]]

LEMMA PricesTyped ==
  ASSUME TypeOK, NEW ids \in SUBSET rows
  PROVE  /\ IsFiniteSet(ids)
         /\ \A id \in ids : RequestedPrices(ids)[id] \in Int /\ ActualPrices(ids)[id] \in Int
         /\ RequestedCost(ids) = SumFunctionOnSet(RequestedPrices(ids), ids)
         /\ ActualCost(ids) = SumFunctionOnSet(ActualPrices(ids), ids)
<1>1. turns \in Seq(Turn) /\ rows \subseteq DOMAIN turns
  BY DEF TypeOK, TelemetryTypeOK
<1>2. Len(turns) \in Nat /\ DOMAIN turns = 1..Len(turns)
  BY <1>1, LenProperties
<1>3. IsFiniteSet(ids)
  <2>1. IsFiniteSet(1..Len(turns)) /\ ids \in SUBSET (1..Len(turns))
    BY <1>1, <1>2, FS_Interval
  <2> QED
    BY <2>1, FS_Subset
<1>4. ASSUME NEW id \in ids
      PROVE  Price[turns[id].requested] \in Int /\ Price[turns[id].model] \in Int
  <2>1. turns[id] \in Turn
    BY <1>1, <1>2, ElementOfSeq
  <2>2. turns[id].requested \in Models /\ turns[id].model \in Models
    BY <2>1 DEF Turn
  <2> QED
    BY <2>2, TelemetryAssumption
<1> QED
  BY <1>3, <1>4 DEF RequestedPrices, ActualPrices, RequestedCost, ActualCost, SumFunction

\* Prices of a part are those of the whole.
LEMMA PartCosts ==
  ASSUME TypeOK, NEW ids \in SUBSET rows, NEW part \in SUBSET ids
  PROVE  /\ RequestedCost(part) = SumFunctionOnSet(RequestedPrices(ids), part)
         /\ ActualCost(part) = SumFunctionOnSet(ActualPrices(ids), part)
<1>1. /\ IsFiniteSet(part)
      /\ RequestedCost(part) = SumFunctionOnSet(RequestedPrices(part), part)
      /\ ActualCost(part) = SumFunctionOnSet(ActualPrices(part), part)
  BY PricesTyped
<1>2. \A id \in part : /\ RequestedPrices(part)[id] = RequestedPrices(ids)[id]
                       /\ ActualPrices(part)[id] = ActualPrices(ids)[id]
  BY DEF RequestedPrices, ActualPrices
<1> QED
  BY <1>1, <1>2, SumSame

\* The bars of the chart, one for each hour, day or week that has rows.
LEMMA ChartAddsUp ==
  ASSUME TypeOK, NEW ids \in SUBSET rows, NEW hours
  PROVE  /\ SumFunction([b \in Bucketed(ids, hours) |-> b.requested]) = RequestedCost(ids)
         /\ SumFunction([b \in Bucketed(ids, hours) |-> b.actual]) = ActualCost(ids)
<1> DEFINE B == Bucketed(ids, hours)
           At(id) == Trunc(turns[id].at, hours)
           In(c) == {id \in ids : At(id) = c}
           Bar(c) == [bucket |-> c, requested |-> RequestedCost(In(c)), actual |-> ActualCost(In(c))]
           k == [id \in ids |-> Bar(At(id))]
<1>1. B = {Bar(c) : c \in {At(id) : id \in ids}}
  BY DEF Bucketed
<1>2. B = {k[id] : id \in ids}
  <2>1. \A id \in ids : k[id] = Bar(At(id))
    OBVIOUS
  <2> HIDE DEF k, Bar, At, B
  <2> QED
    BY <1>1, <2>1
<1>3. ASSUME NEW b \in B
      PROVE  /\ b.requested = SumFunctionOnSet(RequestedPrices(ids), Group(k, ids, b))
             /\ b.actual = SumFunctionOnSet(ActualPrices(ids), Group(k, ids, b))
  <2>1. PICK c : b = Bar(c)
    BY <1>1
  <2>2. b.bucket = c /\ b.requested = RequestedCost(In(c)) /\ b.actual = ActualCost(In(c))
    BY <2>1
  <2>3. \A id \in ids : k[id].bucket = At(id) /\ (At(id) = c => k[id] = b)
    BY <2>1
  <2>4. Group(k, ids, b) = In(c)
    <3> HIDE DEF k, At, Bar
    <3> QED
      BY <2>2, <2>3 DEF Group
  <2>5. In(c) \in SUBSET ids
    OBVIOUS
  <2> HIDE DEF In, k
  <2> QED
    BY <2>2, <2>4, <2>5, PartCosts
<1>4. /\ IsFiniteSet(ids)
      /\ \A id \in ids : RequestedPrices(ids)[id] \in Int /\ ActualPrices(ids)[id] \in Int
      /\ RequestedCost(ids) = SumFunctionOnSet(RequestedPrices(ids), ids)
      /\ ActualCost(ids) = SumFunctionOnSet(ActualPrices(ids), ids)
  BY PricesTyped
<1> HIDE DEF B, k
<1>5. SumFunction([b \in B |-> b.requested]) = SumFunctionOnSet(RequestedPrices(ids), ids)
  <2> DEFINE h == [b \in B |-> b.requested]
  <2>1. Tabulates(h, RequestedPrices(ids), k, ids)
    BY <1>2, <1>3 DEF Tabulates
  <2> HIDE DEF h
  <2> QED
    BY <1>4, <2>1, ReportAddsUp DEF h
<1>6. SumFunction([b \in B |-> b.actual]) = SumFunctionOnSet(ActualPrices(ids), ids)
  <2> DEFINE h == [b \in B |-> b.actual]
  <2>1. Tabulates(h, ActualPrices(ids), k, ids)
    BY <1>2, <1>3 DEF Tabulates
  <2> HIDE DEF h
  <2> QED
    BY <1>4, <2>1, ReportAddsUp DEF h
<1> QED
  BY <1>4, <1>5, <1>6 DEF B

\* The breakdown, one row for each hour, day or week and each model.
LEMMA BreakdownAddsUp ==
  ASSUME TypeOK, NEW ids \in SUBSET rows, NEW hours
  PROVE  SumFunction([b \in PerModel(ids, hours) |-> b.actual]) = ActualCost(ids)
<1> DEFINE B == PerModel(ids, hours)
           At(id) == Trunc(turns[id].at, hours)
           Of(id) == turns[id].model
           In(c, m) == {id \in ids : At(id) = c /\ Of(id) = m}
           Line(g) == [bucket |-> g[1], model |-> g[2], requests |-> Cardinality(In(g[1], g[2])),
                       actual |-> ActualCost(In(g[1], g[2]))]
           k == [id \in ids |-> Line(<<At(id), Of(id)>>)]
<1>1. B = {Line(g) : g \in {<<At(id), Of(id)>> : id \in ids}}
  BY DEF PerModel
<1>2. B = {k[id] : id \in ids}
  <2>1. \A id \in ids : k[id] = Line(<<At(id), Of(id)>>)
    OBVIOUS
  <2> HIDE DEF k, Line, At, Of, B
  <2> QED
    BY <1>1, <2>1
<1>3. ASSUME NEW b \in B
      PROVE  b.actual = SumFunctionOnSet(ActualPrices(ids), Group(k, ids, b))
  <2>1. PICK c, m : b = Line(<<c, m>>)
    <3> HIDE DEF Line, At, Of, B
    <3> QED
      BY <1>1
  <2>2. b.bucket = c /\ b.model = m /\ b.actual = ActualCost(In(c, m))
    BY <2>1
  <2>3. \A id \in ids : /\ k[id].bucket = At(id) /\ k[id].model = Of(id)
                        /\ At(id) = c /\ Of(id) = m => k[id] = b
    BY <2>1
  <2>4. Group(k, ids, b) = In(c, m)
    <3> HIDE DEF k, At, Of, Line
    <3> QED
      BY <2>2, <2>3 DEF Group
  <2>5. In(c, m) \in SUBSET ids
    OBVIOUS
  <2> HIDE DEF In, k
  <2> QED
    BY <2>2, <2>4, <2>5, PartCosts
<1>4. /\ IsFiniteSet(ids)
      /\ \A id \in ids : ActualPrices(ids)[id] \in Int
      /\ ActualCost(ids) = SumFunctionOnSet(ActualPrices(ids), ids)
  BY PricesTyped
<1> HIDE DEF B, k
<1>5. SumFunction([b \in B |-> b.actual]) = SumFunctionOnSet(ActualPrices(ids), ids)
  <2> DEFINE h == [b \in B |-> b.actual]
  <2>1. Tabulates(h, ActualPrices(ids), k, ids)
    BY <1>2, <1>3 DEF Tabulates
  <2> HIDE DEF h
  <2> QED
    BY <1>4, <2>1, ReportAddsUp DEF h
<1> QED
  BY <1>4, <1>5 DEF B

\* A part of some costs is no more than the whole.
LEMMA SumOfPart ==
  ASSUME NEW f, NEW S, IsFiniteSet(S), \A x \in S : f[x] \in Nat, NEW R \in SUBSET S
  PROVE  /\ SumFunctionOnSet(f, R) \in Int /\ SumFunctionOnSet(f, S) \in Int
         /\ SumFunctionOnSet(f, R) <= SumFunctionOnSet(f, S)
<1> DEFINE Whole(s) == \A r \in SUBSET s : SumFunctionOnSet(f, r) <= SumFunctionOnSet(f, s)
           T == {n \in Nat : \A s \in SUBSET S : Cardinality(s) = n => Whole(s)}
<1>1. \A s \in SUBSET S : /\ IsFiniteSet(s) /\ Cardinality(s) \in Nat
                          /\ SumFunctionOnSet(f, s) \in Int
  <2> SUFFICES ASSUME NEW s \in SUBSET S
               PROVE  /\ IsFiniteSet(s) /\ Cardinality(s) \in Nat
                      /\ SumFunctionOnSet(f, s) \in Int
    OBVIOUS
  <2>1. IsFiniteSet(s)
    BY FS_Subset
  <2> QED
    BY <2>1, FS_CardinalityType, SumTyped
<1>2. 0 \in T
  <2>1. Whole({})
    BY SumEmpty
  <2>2. \A s \in SUBSET S : Cardinality(s) = 0 => s = {}
    BY <1>1, FS_EmptySet
  <2> HIDE DEF Whole
  <2> QED
    BY <2>1, <2>2
<1>3. ASSUME NEW n \in Nat, n \in T PROVE n + 1 \in T
  <2> SUFFICES ASSUME NEW s \in SUBSET S, Cardinality(s) = n + 1, NEW r \in SUBSET s
               PROVE  SumFunctionOnSet(f, r) <= SumFunctionOnSet(f, s)
    OBVIOUS
  <2>1. s # {} /\ IsFiniteSet(s) /\ IsFiniteSet(r)
    <3> HIDE DEF T
    <3> QED
      BY <1>1, FS_EmptySet
  <2> DEFINE e == OneOf(s)
             rest == s \ {e}
  <2>2. e \in s /\ rest \in SUBSET S /\ Cardinality(rest) = n
    <3>1. e \in s /\ Cardinality(rest) = Cardinality(s) - 1
      BY <2>1, Smaller
    <3>2. rest \in SUBSET S
      OBVIOUS
    <3> HIDE DEF T, e, rest
    <3> QED
      BY <3>1, <3>2
  <2>3. SumFunctionOnSet(f, s) = f[e] + SumFunctionOnSet(f, rest)
    BY <2>1, SumChosen
  <2>4. SumFunctionOnSet(f, r \ {e}) <= SumFunctionOnSet(f, rest)
    <3>1. Whole(rest) /\ r \ {e} \in SUBSET rest
      BY <1>3, <2>2
    <3> HIDE DEF e, rest
    <3> QED
      BY <3>1
  <2>5. /\ SumFunctionOnSet(f, r \ {e}) \in Int /\ SumFunctionOnSet(f, rest) \in Int
        /\ SumFunctionOnSet(f, r) \in Int /\ f[e] \in Nat
    <3>1. r \ {e} \in SUBSET S /\ r \in SUBSET S
      OBVIOUS
    <3> HIDE DEF T, e, rest
    <3> QED
      BY <1>1, <2>2, <3>1
  <2> HIDE DEF e, rest
  <2>6. CASE e \in r
    <3>1. SumFunctionOnSet(f, r) = f[e] + SumFunctionOnSet(f, r \ {e})
      BY <2>1, <2>6, SumWithout
    <3> QED
      BY <2>3, <2>4, <2>5, <3>1
  <2>7. CASE e \notin r
    <3>1. r \ {e} = r
      BY <2>7
    <3> QED
      BY <2>3, <2>4, <2>5, <3>1
  <2> QED
    BY <2>6, <2>7
<1>4. Cardinality(S) \in T
  <2> HIDE DEF T
  <2> QED
    BY <1>1, <1>2, <1>3, Induction
<1> QED
  BY <1>1, <1>4

LEMMA CostsOfPart ==
  ASSUME TypeOK, NEW ids \in SUBSET rows, NEW part \in SUBSET ids
  PROVE  /\ {RequestedCost(part), RequestedCost(ids), ActualCost(part), ActualCost(ids)} \subseteq Int
         /\ RequestedCost(part) <= RequestedCost(ids)
         /\ ActualCost(part) <= ActualCost(ids)
<1>1. /\ IsFiniteSet(ids)
      /\ RequestedCost(ids) = SumFunctionOnSet(RequestedPrices(ids), ids)
      /\ ActualCost(ids) = SumFunctionOnSet(ActualPrices(ids), ids)
      /\ RequestedCost(part) = SumFunctionOnSet(RequestedPrices(ids), part)
      /\ ActualCost(part) = SumFunctionOnSet(ActualPrices(ids), part)
  BY PricesTyped, PartCosts
<1>2. \A id \in ids : RequestedPrices(ids)[id] \in Nat /\ ActualPrices(ids)[id] \in Nat
  <2> SUFFICES ASSUME NEW id \in ids
               PROVE  Price[turns[id].requested] \in Nat /\ Price[turns[id].model] \in Nat
    BY DEF RequestedPrices, ActualPrices
  <2>1. turns[id] \in Turn
    BY Bounded DEF TypeOK, TelemetryTypeOK
  <2> QED
    BY <2>1, TelemetryAssumption DEF Turn, TelemetryAssumption
<1> QED
  BY <1>1, <1>2, SumOfPart

\* The hours that a granularity counts in, and the bar a row is counted in.
Hours(g) == CASE g = "week" -> HoursPerWeek [] g = "day" -> HoursPerDay [] OTHER -> 1

LEMMA HoursTyped == ASSUME NEW g PROVE Hours(g) \in Nat \ {0}
<1>1. HoursPerDay \in Nat \ {0} /\ DaysPerWeek \in Nat \ {0}
  BY TelemetryAssumption DEF TelemetryAssumption
<1>2. HoursPerWeek \in Nat \ {0}
  BY <1>1 DEF HoursPerWeek
<1> QED
  BY <1>1, <1>2 DEF Hours

LEMMA GroupedBy ==
  ASSUME NEW ids, NEW g \in Granularities
  PROVE  /\ Timeseries(ids, g) = Bucketed(ids, Hours(g))
         /\ ModelBreakdown(ids, g) = PerModel(ids, Hours(g))
  BY DEF Granularities, Hours, Timeseries, TimeseriesHourly, TimeseriesDaily, TimeseriesWeekly,
         ModelBreakdown, BreakdownHourly, BreakdownDaily, BreakdownWeekly

LEMMA Truncated ==
  ASSUME NEW t \in Nat, NEW h \in Nat \ {0}
  PROVE  Trunc(t, h) <= t /\ t < Trunc(t, h) + h
<1>1. t % h \in 0 .. (h - 1)
  OBVIOUS
<1> QED
  BY <1>1 DEF Trunc

\* A bar stands for rows of its bucket.
LEMMA BarOfRows ==
  ASSUME TypeOK, NEW ids \in SUBSET rows, NEW g \in Granularities, NEW bar \in Timeseries(ids, g)
  PROVE  \E part \in SUBSET ids :
            /\ bar.requested = RequestedCost(part) /\ bar.actual = ActualCost(part)
            /\ \A id \in part : InWindow(id, BucketBounds(bar.bucket, g))
<1> DEFINE h == Hours(g)
           In(b) == {id \in ids : Trunc(turns[id].at, h) = b}
<1>0. bar \in Bucketed(ids, h)
  BY GroupedBy
<1>1. PICK b : bar = [bucket |-> b, requested |-> RequestedCost(In(b)), actual |-> ActualCost(In(b))]
  <2> HIDE DEF h
  <2> QED
    BY <1>0 DEF Bucketed
<1>2. /\ bar.bucket = b /\ bar.requested = RequestedCost(In(b)) /\ bar.actual = ActualCost(In(b))
      /\ In(b) \in SUBSET ids
  BY <1>1
<1>3. ASSUME NEW id \in In(b) PROVE InWindow(id, BucketBounds(b, g))
  <2>1. turns[id].at \in Nat
    BY Bounded DEF TypeOK, TelemetryTypeOK, Turn
  <2>2. b <= turns[id].at /\ turns[id].at < b + h
    BY <2>1, HoursTyped, Truncated
  <2> QED
    BY <2>2 DEF InWindow, BucketBounds, Hours
<1> QED
  BY <1>2, <1>3

\* A list that was not cut shows every request it was asked for.
LEMMA UncutList ==
  ASSUME TypeOK, NEW ids \in SUBSET rows, NEW page \in Newest(ids, DetailLimit)
  PROVE  page \in SUBSET ids /\ (Cardinality(page) < DetailLimit => page = ids)
<1>1. IsFiniteSet(ids) /\ Cardinality(ids) \in Nat /\ DetailLimit \in Nat
  BY PricesTyped, FS_CardinalityType, TelemetryAssumption DEF TelemetryAssumption
<1>2. /\ page \in SUBSET ids
      /\ Cardinality(page) = IF DetailLimit < Cardinality(ids) THEN DetailLimit ELSE Cardinality(ids)
  BY DEF Newest, kSubset
<1> QED
  BY <1>1, <1>2, FS_Subset

-----------------------------------------------------------------------------
(* What a report tells of the rows that there were when it was read.       *)

OfScope(id, scope) == scope \in {None, InstallationOf[turns[id].session]}

\* The rows of a bar are of the scope and of its bucket.
StandsFor(bar, scope, g) ==
  \E part \in SUBSET rows :
     /\ bar.requested = RequestedCost(part) /\ bar.actual = ActualCost(part)
     /\ \A id \in part : OfScope(id, scope) /\ InWindow(id, BucketBounds(bar.bucket, g))

Tells(report, answer, f, table) ==
  LET all == ActualCost(Selected(f, table))
  IN  /\ report = "cards" => answer.actual = all
      /\ report \in {"bars", "models"} => SumFunction([line \in answer |-> line.actual]) = all
      /\ report = "bars" => \A bar \in answer : StandsFor(bar, f.scope, f.granularity)

LEMMA RowsWithin ==
  ASSUME NEW scope \in Installations \cup {None}, NEW w
  PROVE  Within(scope, w) = {id \in rows : OfScope(id, scope) /\ InWindow(id, w)}
<1>1. None \notin Installations
  BY TelemetryAssumption DEF TelemetryAssumption
<1> QED
  BY <1>1 DEF Within, OfAll, OfInstallation, OfScope

LEMMA ReportsTell ==
  ASSUME TypeOK, NEW f \in Filter, NEW r \in Reports
  PROVE  Tells(r, ReportOf(r, f), f, rows)
<1> DEFINE S == Selected(f, rows)
<1>1. f.scope \in Installations \cup {None} /\ f.granularity \in Granularities
  BY DEF Filter
<1>2. Within(f.scope, f) = S
  BY <1>1, RowsWithin DEF Selected, OfScope
<1>3. S \in SUBSET rows
  BY DEF Selected
<1>4. CASE r = "cards"
  <2>1. ReportOf(r, f) = Totals(S)
    BY <1>2, <1>4 DEF ReportOf, SummaryAll, Summary, Within
  <2> QED
    BY <1>4, <2>1 DEF Tells, Totals
<1>5. CASE r = "bars"
  <2>1. ReportOf(r, f) = Timeseries(S, f.granularity)
    BY <1>2, <1>5 DEF ReportOf
  <2>2. SumFunction([b \in Timeseries(S, f.granularity) |-> b.actual]) = ActualCost(S)
    BY <1>1, <1>3, GroupedBy, ChartAddsUp
  <2>3. ASSUME NEW bar \in Timeseries(S, f.granularity)
        PROVE  StandsFor(bar, f.scope, f.granularity)
    <3>1. PICK part \in SUBSET S :
            /\ bar.requested = RequestedCost(part) /\ bar.actual = ActualCost(part)
            /\ \A id \in part : InWindow(id, BucketBounds(bar.bucket, f.granularity))
      BY <1>1, <1>3, BarOfRows
    <3>2. part \in SUBSET rows /\ \A id \in part : OfScope(id, f.scope)
      BY <3>1 DEF Selected, OfScope
    <3> QED
      BY <3>1, <3>2 DEF StandsFor
  <2> HIDE DEF S
  <2> QED
    BY <1>5, <2>1, <2>2, <2>3 DEF Tells, S
<1>6. CASE r = "models"
  <2>1. ReportOf(r, f) = ModelBreakdown(S, f.granularity)
    BY <1>2, <1>6 DEF ReportOf
  <2>2. SumFunction([b \in ModelBreakdown(S, f.granularity) |-> b.actual]) = ActualCost(S)
    BY <1>1, <1>3, GroupedBy, BreakdownAddsUp
  <2> HIDE DEF S
  <2> QED
    BY <1>6, <2>1, <2>2 DEF Tells, S
<1> QED
  BY <1>4, <1>5, <1>6 DEF Reports

\* Rows say the same for ever.
LEMMA RowsStay ==
  ASSUME TypeOK, [Next]_vars
  PROVE  /\ rows \subseteq rows'
         /\ \A ids \in SUBSET rows :
              /\ RequestedCost(ids)' = RequestedCost(ids) /\ ActualCost(ids)' = ActualCost(ids)
              /\ \A f : Selected(f, ids)' = Selected(f, ids)
         /\ \A id \in rows : /\ \A scope : OfScope(id, scope)' <=> OfScope(id, scope)
                             /\ \A w : InWindow(id, w)' <=> InWindow(id, w)
<1>1. rows \subseteq DOMAIN turns /\ \A id \in rows : turns'[id] = turns[id]
  BY TurnsGrow DEF TypeOK, TelemetryTypeOK
<1>2. rows \subseteq rows'
  <2>1. ASSUME TelemetryNext PROVE rows \subseteq rows'
    BY <2>1, DashboardReads DEF TelemetryNext, Serve, Land, SwitchStrategy, Tick
  <2>2. ASSUME Next PROVE rows \subseteq rows'
    BY <2>1, <2>2 DEF Next, Telemeter, FollowLink, Type, Resolve, Record, Converge, Report,
                      telemetryVars
  <2> QED
    BY <2>2 DEF vars, telemetryVars
<1>3. ASSUME NEW ids \in SUBSET rows
      PROVE  RequestedCost(ids)' = RequestedCost(ids) /\ ActualCost(ids)' = ActualCost(ids)
  <2>1. /\ [id \in ids |-> Price[turns'[id].requested]] = [id \in ids |-> Price[turns[id].requested]]
        /\ [id \in ids |-> Price[turns'[id].model]] = [id \in ids |-> Price[turns[id].model]]
    BY <1>1
  <2> QED
    BY <2>1 DEF RequestedCost, ActualCost
<1>4. ASSUME NEW id \in rows
      PROVE  /\ \A scope : OfScope(id, scope)' <=> OfScope(id, scope)
             /\ \A w : InWindow(id, w)' <=> InWindow(id, w)
  BY <1>1 DEF OfScope, InWindow
<1>5. ASSUME NEW ids \in SUBSET rows, NEW f
      PROVE  Selected(f, ids)' = Selected(f, ids)
  BY <1>1 DEF Selected, InWindow
<1> QED
  BY <1>2, <1>3, <1>4, <1>5

LEMMA BarsStay ==
  ASSUME TypeOK, [Next]_vars, NEW bar, NEW scope, NEW g, StandsFor(bar, scope, g)
  PROVE  StandsFor(bar, scope, g)'
<1>1. PICK part \in SUBSET rows :
     /\ bar.requested = RequestedCost(part) /\ bar.actual = ActualCost(part)
     /\ \A id \in part : OfScope(id, scope) /\ InWindow(id, BucketBounds(bar.bucket, g))
  BY DEF StandsFor
<1>2. /\ part \in SUBSET rows'
      /\ RequestedCost(part)' = RequestedCost(part) /\ ActualCost(part)' = ActualCost(part)
      /\ \A id \in part : OfScope(id, scope)' /\ InWindow(id, BucketBounds(bar.bucket, g))'
  <2> DEFINE w == BucketBounds(bar.bucket, g)
  <2>1. \A id \in part : InWindow(id, w)'
    <3> HIDE DEF w
    <3> QED
      BY <1>1, RowsStay DEF w
  <2> QED
    BY <1>1, <2>1, RowsStay
<1> QED
  BY <1>1, <1>2 DEF StandsFor

LEMMA FiguresStay ==
  ASSUME TypeOK, [Next]_vars, NEW r, NEW answer, NEW f, NEW table \in SUBSET rows,
         Tells(r, answer, f, table)
  PROVE  Tells(r, answer, f, table)'
<1>1. Selected(f, table)' = Selected(f, table) /\ Selected(f, table) \in SUBSET rows
  BY RowsStay DEF Selected
<1>2. ActualCost(Selected(f, table))' = ActualCost(Selected(f, table))
  <2>1. PICK S \in SUBSET rows : S = Selected(f, table)
    BY <1>1
  <2>2. ActualCost(S)' = ActualCost(S)
    BY RowsStay
  <2> QED
    BY <1>1, <2>1, <2>2 DEF ActualCost
<1> QED
  BY <1>2, BarsStay DEF Tells

-----------------------------------------------------------------------------
(* The dashboard.                                                          *)

\* A load has asked for a choice of the user's; what it was answered was read
\* since then.
Asked(load) ==
  /\ load = [n |-> load.n, of |-> load.of, since |-> load.since, answers |-> load.answers]
  /\ load.of \in Filter /\ load.since \in SUBSET rows
  /\ DOMAIN load.answers \subseteq Reports
  /\ \A r \in DOMAIN load.answers : \E table \in SUBSET rows :
        load.since \subseteq table /\ Tells(r, load.answers[r], load.of, table)

\* Only the last choice has the last number; all are of one user's scope.
InOrder(load) ==
  /\ load.n \in 1 .. chosen
  /\ filter # None /\ load.of.scope = filter.scope
  /\ load.n = chosen => load.of = filter

\* A list is of a bar that was on the screen.
OfBar(l) ==
  /\ filter # None
  /\ l = [step |-> l.step, bar |-> l.bar, of |-> l.of, by |-> l.by, window |-> l.window,
          ids |-> l.ids]
  /\ l.window = BucketBounds(l.bar.bucket, l.by)
  /\ StandsFor(l.bar, filter.scope, l.of)
  /\ l.step = "open" => l.ids \in SUBSET rows /\ Explains(l)

Choice ==
  /\ chosen \in Nat
  /\ filter # None => filter \in Filter /\ chosen # 0

Awaited == filter # None => shown.n = chosen \/ \E load \in loads : load.n = chosen

Sound(load) == Asked(load) /\ InOrder(load)

Whole(load) == load = Blank \/ (DOMAIN load.answers = Reports /\ Sound(load))

InTime == Awaited /\ (\A load \in loads : Sound(load)) /\ Whole(shown)

Behind == list = Closed \/ OfBar(list)

Kept == TypeOK /\ Choice /\ InTime /\ Behind

LEMMA InitKept == Init => Kept
  BY InitTyped DEF Init, TelemetryInit, Kept, Choice, InTime, Awaited, Whole, Behind

LEMMA AskedStays ==
  ASSUME TypeOK, [Next]_vars, NEW load, Asked(load)
  PROVE  Asked(load)'
<1>1. load.since \in SUBSET rows'
  BY RowsStay DEF Asked
<1>2. ASSUME NEW r \in DOMAIN load.answers
      PROVE  \E table \in SUBSET rows' :
                load.since \subseteq table /\ Tells(r, load.answers[r], load.of, table)'
  <2>1. PICK table \in SUBSET rows :
          load.since \subseteq table /\ Tells(r, load.answers[r], load.of, table)
    BY <1>2 DEF Asked
  <2>2. Tells(r, load.answers[r], load.of, table)' /\ table \in SUBSET rows'
    BY <2>1, FiguresStay, RowsStay
  <2> QED
    BY <2>1, <2>2
<1> QED
  BY <1>1, <1>2 DEF Asked

LEMMA ListStays ==
  ASSUME TypeOK, [Next]_vars, NEW l, OfBar(l), filter' # None, filter'.scope = filter.scope
  PROVE  OfBar(l)'
<1>1. StandsFor(l.bar, filter.scope, l.of)'
  <2>1. PICK scope : scope = filter.scope
    OBVIOUS
  <2>2. StandsFor(l.bar, scope, l.of)'
    BY <2>1, BarsStay DEF OfBar
  <2> QED
    BY <2>1, <2>2 DEF StandsFor
<1>2. ASSUME l.step = "open" PROVE (l.ids \in SUBSET rows /\ Explains(l))'
  <2>1. l.ids \in SUBSET rows /\ Explains(l)
    BY <1>2 DEF OfBar
  <2>2. /\ l.ids \in SUBSET rows'
        /\ RequestedCost(l.ids)' = RequestedCost(l.ids) /\ ActualCost(l.ids)' = ActualCost(l.ids)
    BY <2>1, RowsStay
  <2> QED
    BY <2>1, <2>2 DEF Explains, Accounts
<1> QED
  BY <1>1, <1>2 DEF OfBar, BucketBounds

\* The user stays the same: so do the list and, if what was in order is so
\* still, the loads.
LEMMA BehindStays ==
  ASSUME Kept, [Next]_vars, list' = list,
         filter # None => filter' # None /\ filter'.scope = filter.scope
  PROVE  Behind'
<1>1. CASE list = Closed
  BY <1>1 DEF Behind
<1>2. CASE OfBar(list)
  <2>1. PICK l : l = list
    OBVIOUS
  <2>2. OfBar(l)'
    BY <1>2, <2>1, ListStays DEF Kept, OfBar
  <2> QED
    BY <2>1, <2>2 DEF Behind
<1> QED
  BY <1>1, <1>2 DEF Kept, Behind

LEMMA LoadsStay ==
  ASSUME Kept, [Next]_vars, \A load : InOrder(load) => InOrder(load)'
  PROVE  /\ \A load : Sound(load) => Sound(load)'
         /\ shown' = shown => Whole(shown)'
<1>1. ASSUME NEW load, Sound(load) PROVE Sound(load)'
  BY <1>1, AskedStays DEF Kept, Sound
<1>2. ASSUME shown' = shown PROVE Whole(shown)'
  <2>1. PICK load : load = shown
    OBVIOUS
  <2>2. Whole(load)
    BY <2>1 DEF Kept, InTime
  <2>3. Whole(load)'
    BY <1>1, <2>2 DEF Whole, Blank
  <2> QED
    BY <1>2, <2>1, <2>3
<1> QED
  BY <1>1, <1>2

\* What does not touch the dashboard.
LEMMA ElsewhereKept ==
  ASSUME Kept, [Next]_vars, UNCHANGED dashboardVars
  PROVE  (Choice /\ InTime /\ Behind)'
<1>1. UNCHANGED <<filter, chosen, loads, shown, list>>
  BY DEF dashboardVars
<1>2. \A load : InOrder(load) => InOrder(load)'
  BY <1>1 DEF InOrder
<1>3. InTime'
  BY <1>1, <1>2, LoadsStay DEF Kept, InTime, Awaited
<1> QED
  BY <1>1, <1>3, BehindStays DEF Kept, Choice

\* A choice is loaded.
LEMMA LoadKept ==
  ASSUME Kept, [Next]_vars, NEW f \in Filter, Load(f), filter # None => f.scope = filter.scope
  PROVE  (Choice /\ InTime /\ Behind)'
<1>1. PICK new : new = [n |-> chosen + 1, of |-> f, since |-> rows, answers |-> << >>]
  OBVIOUS
<1>2. /\ chosen \in Nat /\ None \notin Filter /\ rows' = rows
      /\ filter' = f /\ chosen' = chosen + 1 /\ loads' = loads \cup {new}
      /\ shown' = shown /\ list' = list
  BY <1>1, TelemetryAssumption DEF Kept, Choice, Load, TelemetryAssumption
<1>3. Sound(new)'
  <2>1. DOMAIN new.answers = {}
    BY <1>1
  <2>2. Asked(new)'
    BY <1>1, <1>2, <2>1 DEF Asked
  <2>3. InOrder(new)'
    BY <1>1, <1>2 DEF InOrder
  <2> QED
    BY <2>2, <2>3 DEF Sound
<1>4. \A load : InOrder(load) => InOrder(load)'
  BY <1>2 DEF InOrder
<1>5. InTime'
  <2>1. \A load \in loads' : Sound(load)'
    BY <1>2, <1>3, <1>4, LoadsStay DEF Kept, InTime
  <2>2. Whole(shown)'
    BY <1>2, <1>4, LoadsStay
  <2>3. Awaited'
    BY <1>1, <1>2 DEF Awaited
  <2> QED
    BY <2>1, <2>2, <2>3 DEF InTime
<1>6. Behind' /\ Choice'
  BY <1>2, BehindStays DEF Choice
<1> QED
  BY <1>5, <1>6

LEMMA ChosenTyped ==
  ASSUME TypeOK, NEW scope \in Installations \cup {None}, NEW range \in DateRanges,
         NEW f \in Chosen(scope, range)
  PROVE  f \in Filter /\ f.scope = scope
<1>1. range \in DateRange
  BY TelemetryAssumption DEF TelemetryAssumption
<1>2. now \in Nat
  BY ScenarioTyped DEF TypeOK, TelemetryTypeOK, Scenario
<1>3. /\ f = [scope |-> f.scope, range |-> f.range, from |-> f.from, to |-> f.to,
              granularity |-> f.granularity]
      /\ f.scope = scope /\ f.range = range /\ f.granularity = range.granularity
      /\ f.from = (IF range.back < now THEN now - range.back ELSE 0) /\ f.to \in {now, now + 1}
  BY DEF Chosen
<1>4. range.back \in Nat /\ range.granularity \in Granularities
  BY <1>1 DEF DateRange
<1> QED
  BY <1>1, <1>2, <1>3, <1>4 DEF Filter

LEMMA ChoiceKept ==
  ASSUME Kept, [Next]_vars,
         \/ \E scope \in scenario.scopes : OpenDashboard(scope)
         \/ \E range \in DateRanges : ChooseRange(range)
         \/ \E g \in Granularities : ChooseGranularity(g)
  PROVE  (Choice /\ InTime /\ Behind)'
<1>1. ASSUME NEW scope \in scenario.scopes, OpenDashboard(scope)
      PROVE  (Choice /\ InTime /\ Behind)'
  <2>1. PICK range \in DateRanges : \E f \in Chosen(scope, range) : Load(f)
    BY <1>1 DEF OpenDashboard
  <2>2. PICK f \in Chosen(scope, range) : Load(f)
    BY <2>1
  <2>3. scope \in Installations \cup {None}
    BY ScenarioTyped DEF Kept, TypeOK, Scenario
  <2>4. f \in Filter /\ filter = None
    BY <1>1, <2>3, ChosenTyped DEF Kept, OpenDashboard
  <2> QED
    BY <2>2, <2>4, LoadKept
<1>2. ASSUME NEW range \in DateRanges, ChooseRange(range)
      PROVE  (Choice /\ InTime /\ Behind)'
  <2>1. PICK f \in Chosen(filter.scope, range) : Load(f)
    BY <1>2 DEF ChooseRange
  <2>2. filter.scope \in Installations \cup {None}
    BY <1>2 DEF ChooseRange, Kept, Choice, Filter
  <2>3. f \in Filter /\ f.scope = filter.scope
    BY <2>2, ChosenTyped DEF Kept
  <2> QED
    BY <2>1, <2>3, LoadKept
<1>3. ASSUME NEW g \in Granularities, ChooseGranularity(g)
      PROVE  (Choice /\ InTime /\ Behind)'
  <2> DEFINE f == [filter EXCEPT !.granularity = g]
  <2>1. f \in Filter /\ f.scope = filter.scope /\ Load(f)
    BY <1>3 DEF ChooseGranularity, Kept, Choice, Filter
  <2> HIDE DEF f
  <2> QED
    BY <2>1, LoadKept
<1> QED
  BY <1>1, <1>2, <1>3

\* A report is answered from the rows there are now.
LEMMA AnswerKept ==
  ASSUME Kept, [Next]_vars, NEW load \in loads, NEW r \in Reports, Answer(load, r)
  PROVE  (Choice /\ InTime /\ Behind)'
<1> DEFINE answers == [q \in DOMAIN load.answers \cup {r} |->
                          IF q = r THEN ReportOf(r, load.of) ELSE load.answers[q]]
           answered == [n |-> load.n, of |-> load.of, since |-> load.since, answers |-> answers]
<1>1. Sound(load)
  BY DEF Kept, InTime
<1>2. /\ loads' = (loads \ {load}) \cup {answered}
      /\ UNCHANGED <<turns, rows, filter, chosen, shown, list>>
  <2>1. [load EXCEPT !.answers = answers] = answered
    <3> HIDE DEF answers
    <3> QED
      BY <1>1 DEF Sound, Asked
  <2>2. loads' = (loads \ {load}) \cup {[load EXCEPT !.answers = answers]}
    BY DEF Answer
  <2> QED
    BY <2>1, <2>2 DEF Answer
<1>3. Sound(answered)
  <2>1. load.of \in Filter /\ load.since \in SUBSET rows
    BY <1>1 DEF Sound, Asked
  <2>2. Tells(r, ReportOf(r, load.of), load.of, rows)
    BY <2>1, ReportsTell DEF Kept
  <2>3. ASSUME NEW q \in DOMAIN load.answers \cup {r}
        PROVE  \E table \in SUBSET rows :
                  load.since \subseteq table /\ Tells(q, answers[q], load.of, table)
    <3>1. CASE q = r
      BY <2>1, <2>2, <3>1
    <3>2. CASE q # r
      <4>1. answers[q] = load.answers[q] /\ q \in DOMAIN load.answers
        BY <3>2
      <4> QED
        BY <1>1, <4>1 DEF Sound, Asked
    <3> QED
      BY <3>1, <3>2
  <2>4. DOMAIN answers = DOMAIN load.answers \cup {r} /\ DOMAIN answers \subseteq Reports
    BY <1>1 DEF Sound, Asked
  <2> HIDE DEF answers
  <2>5. Asked(answered)
    BY <2>1, <2>3, <2>4 DEF Asked
  <2> QED
    BY <1>1, <2>5 DEF Sound, InOrder
<1>4. answered.n = load.n
  OBVIOUS
<1>5. PICK a : a = answered
  OBVIOUS
<1> HIDE DEF answered
<1>6. \A l : InOrder(l) => InOrder(l)'
  BY <1>2 DEF InOrder
<1>7. InTime'
  <2>1. \A l \in loads' : Sound(l)'
    <3>1. Sound(a)'
      BY <1>3, <1>5, <1>6, LoadsStay
    <3> QED
      BY <1>2, <1>5, <1>6, <3>1, LoadsStay DEF Kept, InTime
  <2>2. Awaited'
    BY <1>2, <1>4 DEF Kept, InTime, Awaited
  <2>3. Whole(shown)'
    BY <1>2, <1>6, LoadsStay
  <2> QED
    BY <2>1, <2>2, <2>3 DEF InTime
<1>8. Behind'
  BY <1>2, BehindStays
<1> QED
  BY <1>2, <1>7, <1>8 DEF Kept, Choice

\* The last load replaces what is on the screen, any other is dropped.
LEMMA ShowKept ==
  ASSUME Kept, [Next]_vars, NEW load \in loads, Show(load)
  PROVE  (Choice /\ InTime /\ Behind)'
<1>1. Sound(load) /\ DOMAIN load.answers = Reports
  BY DEF Kept, InTime, Show
<1>2. UNCHANGED <<filter, chosen>> /\ loads' = loads \ {load}
  BY DEF Show
<1>3. \A l : InOrder(l) => InOrder(l)'
  BY <1>2 DEF InOrder
<1>4. \A l \in loads' : Sound(l)'
  BY <1>2, <1>3, LoadsStay DEF Kept, InTime
<1>5. CASE load.n = chosen
  <2>1. shown' = load /\ list' \in {list, Closed}
    BY <1>5 DEF Show, Current
  <2>2. Whole(shown)'
    <3>1. Whole(load)'
      BY <1>1, <1>3, LoadsStay DEF Whole
    <3> QED
      BY <2>1, <3>1
  <2>3. Awaited'
    BY <1>2, <1>5, <2>1 DEF Awaited
  <2>4. Behind'
    BY <1>2, <2>1, BehindStays DEF Behind
  <2> QED
    BY <1>2, <1>4, <2>2, <2>3, <2>4 DEF Kept, Choice, InTime
<1>6. CASE load.n # chosen
  <2>1. UNCHANGED <<shown, list>>
    BY <1>6 DEF Show, Current
  <2>2. Whole(shown)'
    BY <1>3, <2>1, LoadsStay
  <2>3. Awaited'
    BY <1>2, <1>6, <2>1 DEF Kept, InTime, Awaited
  <2>4. Behind'
    BY <1>2, <2>1, BehindStays
  <2> QED
    BY <1>2, <1>4, <2>2, <2>3, <2>4 DEF Kept, Choice, InTime
<1> QED
  BY <1>5, <1>6

\* A bar on the screen stands for rows of the user's scope.
LEMMA ClickKept ==
  ASSUME Kept, [Next]_vars, NEW bar \in shown.answers.bars, Click(bar)
  PROVE  (Choice /\ InTime /\ Behind)'
<1>1. UNCHANGED <<turns, rows, filter, chosen, loads, shown>>
  BY DEF Click
<1>2. \A l : InOrder(l) => InOrder(l)'
  BY <1>1 DEF InOrder
<1>3. InTime'
  BY <1>1, <1>2, LoadsStay DEF Kept, InTime, Awaited
<1>4. shown # Blank /\ Sound(shown) /\ "bars" \in DOMAIN shown.answers
  BY DEF Kept, InTime, Whole, Blank, Reports
<1>5. filter # None /\ StandsFor(bar, filter.scope, shown.of.granularity)
  <2>1. PICK table \in SUBSET rows : Tells("bars", shown.answers["bars"], shown.of, table)
    BY <1>4 DEF Sound, Asked
  <2>2. StandsFor(bar, shown.of.scope, shown.of.granularity)
    BY <2>1 DEF Tells
  <2> QED
    BY <1>4, <2>2 DEF Sound, InOrder
<1>6. PICK l : l = [step |-> "asked", bar |-> bar, of |-> shown.of.granularity,
                    by |-> filter.granularity,
                    window |-> BucketBounds(bar.bucket, filter.granularity), ids |-> {}]
  OBVIOUS
<1>7. OfBar(l)
  BY <1>5, <1>6 DEF OfBar
<1>8. OfBar(l)'
  BY <1>1, <1>7, ListStays DEF Kept, OfBar
<1>9. list' = l
  BY <1>6 DEF Click
<1> QED
  BY <1>1, <1>3, <1>8, <1>9 DEF Kept, Choice, Behind

\* The requests of the bucket are those of the bar and whatever landed since.
LEMMA ListedKept ==
  ASSUME Kept, [Next]_vars, Listed
  PROVE  (Choice /\ InTime /\ Behind)'
<1>1. UNCHANGED <<turns, rows, filter, chosen, loads, shown>>
  BY DEF Listed
<1>2. \A l : InOrder(l) => InOrder(l)'
  BY <1>1 DEF InOrder
<1>3. InTime'
  BY <1>1, <1>2, LoadsStay DEF Kept, InTime, Awaited
<1>4. OfBar(list)
  BY DEF Listed, Kept, Behind, Closed
<1>5. PICK scope \in Installations \cup {None} : filter # None /\ scope = filter.scope
  BY <1>4 DEF OfBar, Kept, Choice, Filter
<1>6. PICK ids \in Newest(Within(scope, list.window), DetailLimit) :
          list' = [list EXCEPT !.step = "open", !.ids = ids]
  BY <1>5 DEF Listed, Within, Details, DetailsAll
<1> DEFINE all == Within(scope, list.window)
<1>7. all = {id \in rows : OfScope(id, scope) /\ InWindow(id, list.window)}
  BY RowsWithin
<1>8. ids \in SUBSET rows /\ (Cardinality(ids) < DetailLimit => ids = all)
  <2>1. all \in SUBSET rows
    BY <1>7
  <2> HIDE DEF all
  <2> QED
    BY <1>6, <2>1, UncutList DEF Kept, all
<1>9. PICK l : l = [list EXCEPT !.step = "open", !.ids = ids]
  OBVIOUS
<1>10. /\ l = [step |-> "open", bar |-> list.bar, of |-> list.of, by |-> list.by,
               window |-> list.window, ids |-> ids]
  BY <1>4, <1>9 DEF OfBar
<1>11. ASSUME l.of = l.by, Cardinality(l.ids) < DetailLimit
       PROVE  RequestedCost(l.ids) >= l.bar.requested /\ ActualCost(l.ids) >= l.bar.actual
  <2>1. ids = all /\ list.of = list.by /\ list.window = BucketBounds(list.bar.bucket, list.of)
    BY <1>4, <1>8, <1>10, <1>11 DEF OfBar
  <2>2. PICK part \in SUBSET rows :
          /\ list.bar.requested = RequestedCost(part) /\ list.bar.actual = ActualCost(part)
          /\ \A id \in part : /\ OfScope(id, scope)
                              /\ InWindow(id, BucketBounds(list.bar.bucket, list.of))
    BY <1>4, <1>5 DEF OfBar, StandsFor
  <2>3. part \in SUBSET ids
    BY <1>7, <2>1, <2>2
  <2>4. /\ {RequestedCost(part), RequestedCost(ids), ActualCost(part), ActualCost(ids)} \subseteq Int
        /\ RequestedCost(part) <= RequestedCost(ids)
        /\ ActualCost(part) <= ActualCost(ids)
    BY <1>8, <2>3, CostsOfPart DEF Kept
  <2> QED
    BY <1>10, <2>2, <2>4
<1>12. OfBar(l)
  BY <1>4, <1>8, <1>10, <1>11 DEF OfBar, Explains, Accounts
<1>13. OfBar(l)'
  BY <1>1, <1>12, ListStays DEF Kept, OfBar
<1>14. list' = l
  BY <1>6, <1>9
<1> QED
  BY <1>1, <1>3, <1>13, <1>14 DEF Kept, Choice, Behind

LEMMA NextKept == Kept /\ [Next]_vars => Kept'
<1> SUFFICES ASSUME Kept, [Next]_vars PROVE (Choice /\ InTime /\ Behind)'
  BY NextTyped DEF Kept
<1>1. ASSUME Leave PROVE (Choice /\ InTime /\ Behind)'
  BY <1>1 DEF Leave, Kept, Choice, InTime, Awaited, Whole, Behind
<1>2. ASSUME CloseList PROVE (Choice /\ InTime /\ Behind)'
  <2>1. UNCHANGED <<turns, rows, filter, chosen, loads, shown>> /\ list' = Closed
    BY <1>2 DEF CloseList
  <2>2. \A l : InOrder(l) => InOrder(l)'
    BY <2>1 DEF InOrder
  <2>3. InTime'
    BY <2>1, <2>2, LoadsStay DEF Kept, InTime, Awaited
  <2> QED
    BY <2>1, <2>3 DEF Kept, Choice, Behind
<1>3. ASSUME Dashboard PROVE (Choice /\ InTime /\ Behind)'
  BY <1>1, <1>2, <1>3, ChoiceKept, AnswerKept, ShowKept, ClickKept, ListedKept DEF Dashboard
<1>4. ASSUME UNCHANGED dashboardVars PROVE (Choice /\ InTime /\ Behind)'
  BY <1>4, ElsewhereKept
<1>5. CASE Telemeter
  BY <1>3, <1>4, <1>5 DEF Telemeter, TelemetryNext, Serve, Land, SwitchStrategy, Tick
<1>6. ASSUME UNCHANGED telemetryVars PROVE UNCHANGED dashboardVars
  BY <1>6 DEF telemetryVars
<1>7. CASE Next
  BY <1>4, <1>5, <1>6, <1>7 DEF Next, FollowLink, Type, Resolve, Record, Converge, Report
<1>8. CASE UNCHANGED vars
  BY <1>4, <1>6, <1>8 DEF vars
<1> QED
  BY <1>7, <1>8

\* What is shown of the last choice is of some of the rows there are and of
\* all there were when it was asked for.
LEMMA KeptUp == Kept => DashboardKeepsUp
<1> SUFFICES ASSUME Kept PROVE DashboardKeepsUp
  OBVIOUS
<1>1. Explains(list)
  BY DEF Kept, Behind, OfBar, Closed, Explains
<1>2. ASSUME Settled PROVE shown.n = chosen /\ shown.of = filter /\ Comprises(shown)
  <2>1. shown.n = chosen /\ chosen # 0
    BY <1>2 DEF Settled, Kept, Choice, InTime, Awaited
  <2>2. Sound(shown) /\ DOMAIN shown.answers = Reports /\ shown.of = filter
    BY <2>1 DEF Kept, InTime, Whole, Sound, InOrder, Blank
  <2> DEFINE Of(table) == Selected(shown.of, table)
             least == ActualCost(Of(shown.since))
             most == ActualCost(Of(rows))
  <2>3. ASSUME NEW table \in SUBSET rows, shown.since \subseteq table
        PROVE  ActualCost(Of(table)) \in least .. most
    <3>1. /\ Of(rows) \in SUBSET rows /\ Of(table) \in SUBSET rows
          /\ Of(shown.since) \in SUBSET Of(table) /\ Of(table) \in SUBSET Of(rows)
      BY <2>3 DEF Selected
    <3> HIDE DEF Of
    <3>2. /\ {least, ActualCost(Of(table)), most} \subseteq Int
          /\ least <= ActualCost(Of(table)) /\ ActualCost(Of(table)) <= most
      BY <3>1, CostsOfPart DEF Kept
    <3> HIDE DEF least, most
    <3> QED
      BY <3>2
  <2>4. ASSUME NEW r \in Reports
        PROVE  \E table \in SUBSET rows : /\ shown.since \subseteq table
                                         /\ Tells(r, shown.answers[r], shown.of, table)
    BY <2>2 DEF Sound, Asked
  <2> HIDE DEF least, most
  <2>5. shown.answers.cards.actual \in least .. most
    BY <2>3, <2>4 DEF Tells, Reports
  <2>6. SumFunction([line \in shown.answers.bars |-> line.actual]) \in least .. most
    BY <2>3, <2>4 DEF Tells, Reports
  <2>7. SumFunction([line \in shown.answers.models |-> line.actual]) \in least .. most
    BY <2>3, <2>4 DEF Tells, Reports
  <2> QED
    BY <2>1, <2>2, <2>5, <2>6, <2>7 DEF Comprises, least, most
<1> QED
  BY <1>1, <1>2 DEF DashboardKeepsUp

\* Whatever is served, lands, is said or is chosen, the dashboard comes to show
\* what its user chose last, and its lists account for its bars.
THEOREM DashboardAlwaysKeepsUp == Spec => []DashboardKeepsUp
<1>1. Spec => []Kept
  BY InitKept, NextKept, PTL DEF Spec
<1> QED
  BY <1>1, KeptUp, PTL
=============================================================================
