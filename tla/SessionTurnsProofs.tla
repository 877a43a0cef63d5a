------------------------- MODULE SessionTurnsProofs -------------------------
(***************************************************************************)
(* Proofs about SessionTurns, for every value of the constants.  The pin   *)
(* table changes by its statements alone, whatever requests are in flight  *)
(* (RowStatement); from that follow the type invariant, PairNeverCollapses *)
(* and RowsRemember.  A request that is never out of step with the rows it *)
(* loaded (Heeds) keeps struck-out providers away; where the requests of a *)
(* session follow one another, the budget (BudgetHeld), the strikes        *)
(* (StrikeInv), their cause (BlameInv) and the served models (Informed)    *)
(* are what the rows say.                                                  *)
(***************************************************************************)
EXTENDS SessionTurns, FiniteSetTheorems, TLAPS

-----------------------------------------------------------------------------
(* The statements of the table return rows.                                *)

LEMMA RewrittenRowType ==
  ASSUME NEW row \in Row, NEW w \in PinWrites,
         NEW m2 \in Models \cup {NoModel}, NEW p2 \in Providers \cup {NoProvider},
         NEW u \in Nat, NEW o \in Nat
  PROVE  [row EXCEPT !.exists = TRUE, !.model = w.model, !.provider = w.provider,
                     !.pairModel = m2, !.pairProvider = p2, !.reason = w.reason,
                     !.until = w.until, !.upErr = u, !.ovErr = o] \in Row
<1>1. /\ w.model \in Models \cup {NoModel} /\ w.provider \in Providers \cup {NoProvider}
      /\ w.reason \in Reasons /\ w.until \in Expiries
  BY DEF PinWrites
<1>2. QED BY <1>1 DEF Row

LEMMA UpsertType ==
  ASSUME NEW row \in Row, NEW w \in PinWrites
  PROVE  Upsert(row, w) \in Row
<1> DEFINE m2 == IF w.pairModel # NoModel THEN w.pairModel
                 ELSE IF row.model = w.model THEN row.pairModel ELSE NoModel
           p2 == IF w.pairModel # NoModel THEN w.pairProvider
                 ELSE IF row.model = w.model THEN row.pairProvider ELSE NoProvider
           u == IF row.model = w.model THEN row.upErr ELSE 0
           o == IF row.model = w.model THEN row.ovErr ELSE 0
<1>1. /\ m2 \in Models \cup {NoModel} /\ p2 \in Providers \cup {NoProvider}
      /\ u \in Nat /\ o \in Nat
  BY DEF PinWrites, Row
<1>2. Upsert(row, w) =
        [row EXCEPT !.exists = TRUE, !.model = w.model, !.provider = w.provider,
                    !.pairModel = m2, !.pairProvider = p2, !.reason = w.reason,
                    !.until = w.until, !.upErr = u, !.ovErr = o]
  BY Zenon DEF Upsert
<1> HIDE DEF m2, p2, u, o
<1>3. [row EXCEPT !.exists = TRUE, !.model = w.model, !.provider = w.provider,
                  !.pairModel = m2, !.pairProvider = p2, !.reason = w.reason,
                  !.until = w.until, !.upErr = u, !.ovErr = o] \in Row
  BY <1>1, RewrittenRowType
<1>4. QED BY <1>2, <1>3

LEMMA UpdateUsageType ==
  ASSUME NEW row \in Row, NEW served \in Models \cup {NoModel},
         NEW by \in Providers \cup {NoProvider}, NEW prior \in Models \cup {NoModel},
         NEW ever \in BOOLEAN, NEW now \in Nat
  PROVE  UpdateUsage(row, served, by, prior, ever, now) \in Row
BY ZenonT(40) DEF UpdateUsage, Row

LEMMA UpstreamErrorsType ==
  ASSUME NEW row \in Row
  PROVE  IncrementUpstreamErrors(row) \in Row /\ ResetUpstreamErrors(row) \in Row
<1>1. IncrementUpstreamErrors(row) \in Row BY DEF IncrementUpstreamErrors, Row
<1>2. ResetUpstreamErrors(row) \in Row BY DEF ResetUpstreamErrors, Row
<1>3. QED BY <1>1, <1>2

LEMMA OverloadErrorsType ==
  ASSUME NEW row \in Row
  PROVE  IncrementOverloadErrors(row) \in Row /\ ResetOverloadErrors(row) \in Row
<1>1. IncrementOverloadErrors(row) \in Row BY DEF IncrementOverloadErrors, Row
<1>2. ResetOverloadErrors(row) \in Row BY DEF ResetOverloadErrors, Row
<1>3. QED BY <1>1, <1>2

LEMMA DisableProviderType ==
  ASSUME NEW row \in Row, NEW p \in Providers \cup {NoProvider}
  PROVE  DisableProvider(row, p) \in Row
BY DEF DisableProvider, Row

LEMMA LapsedRowType ==
  ASSUME NEW row \in Row
  PROVE  [row EXCEPT !.until = "past"] \in Row
BY DEF Row, Expiries

LEMMA EmptyRowType == EmptyRow \in Row
BY DEF EmptyRow, Row, Reasons, Expiries

LEMMA ExpiredPinType == ExpiredPin \in PinWrites
BY DEF ExpiredPin, PinWrites, Reasons, Expiries

LEMMA PinWriteType ==
  ASSUME NEW m \in Models \cup {NoModel}, NEW p \in Providers \cup {NoProvider},
         NEW pm \in Models \cup {NoModel}, NEW pp \in Providers \cup {NoProvider},
         NEW why \in Reasons
  PROVE  PinWrite(m, p, pm, pp, why) \in PinWrites
BY DEF PinWrite, PinWrites, PinExpiry, Expiries

LEMMA BlankType == Blank \in Locals
BY EmptyRowType DEF Blank, Locals, Reasons, Roles, Outcomes

-----------------------------------------------------------------------------
(* What every step does to the table, the requests and the counters.       *)

PairDistinct(row) == row.pairModel # NoModel => row.pairModel # row.model

PairsDistinct == /\ \A r \in Roles : PairDistinct(rows[r])
                 /\ \A t \in Turns : PairDistinct(turn[t].act)

\* PairNeverCollapses is not inductive by itself: a request writes back the
\* pair of the row it loaded, so the loaded copies have to be sound too.
IInv == TypeOK /\ PairsDistinct

DistinctWrites == {w \in PinWrites : PairDistinct(w)}

\* Row b is row a after one statement of session_pins.sql, or the clock.
RowStatement(a, b) ==
  \/ b = a
  \/ \E w \in DistinctWrites : b = Upsert(a, w)
  \/ \E served, prior \in Models \cup {NoModel}, by \in Providers \cup {NoProvider},
        ever \in BOOLEAN, now \in Nat : b = UpdateUsage(a, served, by, prior, ever, now)
  \/ b \in {IncrementUpstreamErrors(a), ResetUpstreamErrors(a),
            IncrementOverloadErrors(a), ResetOverloadErrors(a)}
  \/ \E p \in Providers \cup {NoProvider} : b = DisableProvider(a, p)
  \/ b = [a EXCEPT !.until = "past"]
  \/ May("sweep") /\ b = EmptyRow

RowsMove == /\ rows' \in [Roles -> Row]
            /\ \A r \in Roles : RowStatement(rows[r], rows'[r])

TurnsMove == /\ stage' \in [Turns -> Stages]
             /\ turn' \in [Turns -> Locals]
             /\ \A t \in Turns : PairDistinct(turn'[t].act)

CountsMove == /\ started' \in Nat /\ clock' \in Nat /\ escalations' \in Nat
              /\ forced' \in Models \cup {NoModel}
              /\ answered' \subseteq Models
              /\ overloads' \in [Providers -> Nat]

StepOK == RowsMove /\ TurnsMove /\ CountsMove

LEMMA RowStatementType ==
  ASSUME NEW a \in Row, NEW b, RowStatement(a, b)
  PROVE  b \in Row
<1>1. CASE \E w \in DistinctWrites : b = Upsert(a, w)
  BY <1>1, UpsertType DEF DistinctWrites
<1>2. CASE \E served, prior \in Models \cup {NoModel}, by \in Providers \cup {NoProvider},
            ever \in BOOLEAN, now \in Nat : b = UpdateUsage(a, served, by, prior, ever, now)
  <2>1. PICK served \in Models \cup {NoModel}, prior \in Models \cup {NoModel},
             by \in Providers \cup {NoProvider}, ever \in BOOLEAN, now \in Nat :
               b = UpdateUsage(a, served, by, prior, ever, now)
    BY <1>2
  <2>2. UpdateUsage(a, served, by, prior, ever, now) \in Row BY UpdateUsageType
  <2>3. QED BY <2>1, <2>2
<1>3. CASE b \in {IncrementUpstreamErrors(a), ResetUpstreamErrors(a),
                  IncrementOverloadErrors(a), ResetOverloadErrors(a)}
  BY <1>3, UpstreamErrorsType, OverloadErrorsType
<1>4. CASE \E p \in Providers \cup {NoProvider} : b = DisableProvider(a, p)
  BY <1>4, DisableProviderType
<1>5. CASE b = [a EXCEPT !.until = "past"]
  BY <1>5, LapsedRowType
<1>6. CASE May("sweep") /\ b = EmptyRow
  BY <1>6, EmptyRowType
<1>7. QED BY <1>1, <1>2, <1>3, <1>4, <1>5, <1>6 DEF RowStatement

LEMMA SetRowMoves ==
  ASSUME IInv, NEW r \in Roles, NEW row, RowStatement(rows[r], row), SetRow(r, row)
  PROVE  RowsMove
<1>1. rows \in [Roles -> Row] /\ rows[r] \in Row BY DEF IInv, TypeOK
<1>2. row \in Row BY <1>1, RowStatementType
<1>3. rows' = [rows EXCEPT ![r] = row] BY DEF SetRow
<1>4. \A q \in Roles : RowStatement(rows[q], rows'[q])
  <2> TAKE q \in Roles
  <2>1. CASE q = r BY <2>1, <1>1, <1>3
  <2>2. CASE q # r
    <3>1. rows'[q] = rows[q] BY <2>2, <1>1, <1>3
    <3>2. QED BY <3>1 DEF RowStatement
  <2>3. QED BY <2>1, <2>2
<1>5. QED BY <1>1, <1>2, <1>3, <1>4 DEF RowsMove

LEMMA UpsertMoves ==
  ASSUME IInv, NEW r \in Roles, NEW w \in PinWrites, PairDistinct(w),
         SetRow(r, Upsert(rows[r], w))
  PROVE  RowsMove
<1>1. w \in DistinctWrites BY DEF DistinctWrites
<1>2. RowStatement(rows[r], Upsert(rows[r], w)) BY <1>1 DEF RowStatement
<1>3. QED BY <1>2, SetRowMoves

LEMMA RowsStay == ASSUME IInv, rows' = rows PROVE RowsMove
BY DEF IInv, TypeOK, RowsMove, RowStatement

LEMMA ContinueMoves ==
  ASSUME IInv, NEW t \in Turns, NEW s \in Stages, NEW l \in Locals,
         PairDistinct(l.act), Continue(t, s, l)
  PROVE  TurnsMove
<1> DEFINE next == IF s = "idle" THEN Blank ELSE l
<1>1. next \in Locals BY BlankType
<1>2. PairDistinct(Blank.act) BY DEF Blank, EmptyRow, PairDistinct
<1>3. PairDistinct(next.act) BY <1>2
<1>4. stage' = [stage EXCEPT ![t] = s] /\ turn' = [turn EXCEPT ![t] = next]
  BY DEF Continue
<1>5. stage \in [Turns -> Stages] /\ turn \in [Turns -> Locals]
      /\ \A q \in Turns : PairDistinct(turn[q].act)
  BY DEF IInv, TypeOK, PairsDistinct
<1> HIDE DEF next
<1>6. QED BY <1>1, <1>3, <1>4, <1>5 DEF TurnsMove

LEMMA TurnsStay == ASSUME IInv, UNCHANGED <<stage, turn>> PROVE TurnsMove
BY DEF IInv, TypeOK, PairsDistinct, TurnsMove

LEMMA CountsStay ==
  ASSUME IInv, UNCHANGED <<started, clock, escalations, hist>>
  PROVE  CountsMove
BY DEF IInv, TypeOK, CountsMove, hist

LEMMA LocalFacts ==
  ASSUME IInv, NEW t \in Turns
  PROVE  turn[t] \in Locals /\ PairDistinct(turn[t].act)
BY DEF IInv, TypeOK, PairsDistinct

LEMMA ExpiredPinDistinct == PairDistinct(ExpiredPin)
BY DEF PairDistinct, ExpiredPin

LEMMA ExpireMoves ==
  ASSUME IInv, NEW t \in Turns, NEW r \in Roles, NEW next \in Stages,
         Expire(t, r, next, turn[t])
  PROVE  StepOK
<1>1. RowsMove BY ExpiredPinType, ExpiredPinDistinct, UpsertMoves DEF Expire
<1>2. TurnsMove BY LocalFacts, ContinueMoves DEF Expire
<1>3. CountsMove BY CountsStay DEF Expire
<1>4. QED BY <1>1, <1>2, <1>3 DEF StepOK

-----------------------------------------------------------------------------
(* One lemma per group of actions.                                         *)

LEMMA EntriesAreStages == Entries \subseteq Stages
BY DEF Entries, Stages

LEMMA PrimaryProviderServes ==
  ASSUME NEW m \in Models
  PROVE  PrimaryProvider(m) \in Bind[m] /\ PrimaryProvider(m) \in Providers
<1>1. Bind[m] \in (SUBSET Providers) \ {{}} BY TurnsAssumption
<1>2. QED BY <1>1 DEF PrimaryProvider

LEMMA StartTurnStep == ASSUME IInv, NEW t \in Turns, StartTurn(t) PROVE StepOK
<1>1. RowsMove BY RowsStay DEF StartTurn, store
<1>2. TurnsMove
  <2>1. PICK s \in Entries : Continue(t, s, Blank) BY DEF StartTurn
  <2>2. PairDistinct(Blank.act) BY DEF Blank, EmptyRow, PairDistinct
  <2>3. QED BY <2>1, <2>2, EntriesAreStages, BlankType, ContinueMoves
<1>3. CountsMove BY DEF IInv, TypeOK, StartTurn, Begin, store, hist, CountsMove
<1>4. QED BY <1>1, <1>2, <1>3 DEF StepOK

LEMMA ForceModelStep == ASSUME IInv, NEW t \in Turns, ForceModel(t) PROVE StepOK
<1>1. PICK m \in Models, s \in {"idle"} \cup Entries :
        /\ SetRow("active", Upsert(rows["active"],
             PinWrite(m, PrimaryProvider(m), NoModel, NoProvider, "force")))
        /\ forced' = m
        /\ Continue(t, s, Blank)
  BY DEF ForceModel
<1> DEFINE w == PinWrite(m, PrimaryProvider(m), NoModel, NoProvider, "force")
<1>2. w \in PinWrites BY PrimaryProviderServes, PinWriteType DEF Reasons
<1>3. PairDistinct(w) BY DEF PairDistinct, PinWrite
<1>4. RowsMove BY <1>1, <1>2, <1>3, UpsertMoves DEF Roles
<1>5. TurnsMove
  <2>1. s \in Stages BY EntriesAreStages DEF Stages
  <2>2. PairDistinct(Blank.act) BY DEF Blank, EmptyRow, PairDistinct
  <2>3. QED BY <1>1, <2>1, <2>2, BlankType, ContinueMoves
<1>6. CountsMove BY <1>1 DEF IInv, TypeOK, ForceModel, Begin, CountsMove
<1>7. QED BY <1>4, <1>5, <1>6 DEF StepOK

LEMMA UnforceModelStep == ASSUME IInv, NEW t \in Turns, UnforceModel(t) PROVE StepOK
<1>1. RowsMove BY ExpiredPinType, ExpiredPinDistinct, UpsertMoves DEF UnforceModel, Roles
<1>2. TurnsMove BY TurnsStay DEF UnforceModel
<1>3. CountsMove BY DEF IInv, TypeOK, UnforceModel, Begin, CountsMove
<1>4. QED BY <1>1, <1>2, <1>3 DEF StepOK

LEMMA BreakSteps ==
  ASSUME IInv, NEW t \in Turns, BreakActive(t) \/ BreakHistory(t)
  PROVE  StepOK
<1>1. CASE BreakActive(t)
  <2>1. "active" \in Roles /\ "breakHistory" \in Stages BY DEF Roles, Stages
  <2>2. QED BY <1>1, <2>1, ExpireMoves DEF BreakActive
<1>2. CASE BreakHistory(t)
  <2>1. "history" \in Roles /\ "idle" \in Stages BY DEF Roles, Stages
  <2>2. QED BY <1>2, <2>1, ExpireMoves DEF BreakHistory
<1>3. QED BY <1>1, <1>2

\* A request that only goes on, with locals that differ from typed ones in
\* fields of their type.
LEMMA OnwardMoves ==
  ASSUME IInv, NEW t \in Turns, NEW s \in Stages, NEW l \in Locals,
         PairDistinct(l.act), Continue(t, s, l),
         UNCHANGED <<started, store, hist>>
  PROVE  StepOK
<1>1. RowsMove BY RowsStay DEF store
<1>2. TurnsMove BY ContinueMoves
<1>3. CountsMove BY CountsStay DEF store
<1>4. QED BY <1>1, <1>2, <1>3 DEF StepOK

LEMMA BlankDistinct == PairDistinct(Blank.act) /\ Blank.act = EmptyRow
BY DEF Blank, EmptyRow, PairDistinct

LEMMA EscalateReadStep == ASSUME IInv, NEW t \in Turns, EscalateRead(t) PROVE StepOK
<1> DEFINE pin == rows["active"]
<1>1. pin \in Row BY DEF IInv, TypeOK, Roles
<1>2. CASE pin.reason = "loop"
  <2>1. Continue(t, "load", Blank) BY <1>2 DEF EscalateRead
  <2>2. "load" \in Stages BY DEF Stages
  <2>3. QED BY <2>1, <2>2, BlankType, BlankDistinct, OnwardMoves DEF EscalateRead
<1>3. CASE pin.reason # "loop"
  <2>1. PICK requested \in Models :
          Continue(t, "budget",
            [Blank EXCEPT !.reason = pin.reason,
                          !.model = IF pin.model # NoModel THEN pin.model ELSE requested])
    BY <1>3 DEF EscalateRead
  <2> DEFINE m == IF pin.model # NoModel THEN pin.model ELSE requested
             l == [Blank EXCEPT !.reason = pin.reason, !.model = m]
  <2>2. m \in Models \cup {NoModel} /\ pin.reason \in Reasons BY <1>1 DEF Row
  <2> HIDE DEF m
  <2>3. l \in Locals /\ l.act = Blank.act BY <2>2, BlankType DEF Locals
  <2>4. "budget" \in Stages BY DEF Stages
  <2>5. Continue(t, "budget", l) BY <2>1 DEF m
  <2> HIDE DEF l
  <2>6. QED BY <2>3, <2>4, <2>5, BlankDistinct, OnwardMoves DEF EscalateRead
<1>4. QED BY <1>2, <1>3

LEMMA EscalateBudgetStep == ASSUME IInv, NEW t \in Turns, EscalateBudget(t) PROVE StepOK
<1>1. \E s \in Stages, l \in {Blank, turn[t]} : Continue(t, s, l)
  BY DEF EscalateBudget, Stages
<1>2. QED BY <1>1, LocalFacts, BlankType, BlankDistinct, OnwardMoves DEF EscalateBudget

LEMMA PinEscalationStep == ASSUME IInv, NEW t \in Turns, PinEscalation(t) PROVE StepOK
<1> DEFINE w == PinWrite(EscalateModel, Anthropic, NoModel, NoProvider, "loop")
<1>1. EscalateModel \in Models /\ Anthropic \in Providers BY TurnsAssumption
<1>2. w \in PinWrites BY <1>1, PinWriteType DEF Reasons
<1>3. PairDistinct(w) BY DEF PairDistinct, PinWrite
<1>4. RowsMove BY <1>2, <1>3, UpsertMoves DEF PinEscalation, Roles
<1>5. "recordEscalation" \in Stages BY DEF Stages
<1>6. TurnsMove BY <1>5, LocalFacts, ContinueMoves DEF PinEscalation
<1>7. CountsMove BY CountsStay DEF PinEscalation
<1>8. QED BY <1>4, <1>6, <1>7 DEF StepOK

LEMMA RecordEscalationStep == ASSUME IInv, NEW t \in Turns, RecordEscalation(t) PROVE StepOK
<1>1. RowsMove BY RowsStay DEF RecordEscalation
<1>2. "load" \in Stages BY DEF Stages
<1>3. TurnsMove BY <1>2, BlankType, BlankDistinct, ContinueMoves DEF RecordEscalation
<1>4. CountsMove BY DEF IInv, TypeOK, RecordEscalation, hist, CountsMove
<1>5. QED BY <1>1, <1>3, <1>4 DEF StepOK

LEMMA LoadActiveStep == ASSUME IInv, NEW t \in Turns, LoadActive(t) PROVE StepOK
<1> DEFINE struck == IF turn[t].bypassed THEN turn[t].struck
                     ELSE rows["active"].disabled \cup rows["history"].disabled
           l == [turn[t] EXCEPT !.act = rows["active"], !.seen = answered, !.struck = struck]
<1>1. /\ rows["active"] \in Row /\ rows["history"] \in Row /\ answered \subseteq Models
      /\ PairDistinct(rows["active"])
  BY DEF IInv, TypeOK, PairsDistinct, Roles
<1>2. struck \subseteq Providers \cup {NoProvider} BY <1>1, LocalFacts DEF Row, Locals
<1> HIDE DEF struck
<1>3. l \in Locals /\ l.act = rows["active"] BY <1>1, <1>2, LocalFacts, ZenonT(40) DEF Locals
<1>4. "loadHistory" \in Stages BY DEF Stages
<1>5. Continue(t, "loadHistory", l) BY DEF LoadActive, struck
<1> HIDE DEF l
<1>6. QED BY <1>1, <1>3, <1>4, <1>5, OnwardMoves DEF LoadActive

LEMMA SnapshotFacts ==
  ASSUME NEW act \in Row, NEW past \in Row
  PROVE  /\ PriorServed(act, past) \in Models \cup {NoModel}
         /\ EverSwitched(act, past) \in BOOLEAN
         /\ Disabled(act, past) \subseteq Providers \cup {NoProvider}
<1>1. PriorServed(act, past) \in Models \cup {NoModel} BY DEF PriorServed, Row
<1>2. EverSwitched(act, past) \in BOOLEAN BY DEF EverSwitched, Row
<1>3. Disabled(act, past) \subseteq Providers \cup {NoProvider} BY DEF Disabled, Row
<1>4. QED BY <1>1, <1>2, <1>3

LEMMA LoadHistoryStep == ASSUME IInv, NEW t \in Turns, LoadHistory(t) PROVE StepOK
<1> DEFINE act == turn[t].act
           past == rows["history"]
           prior == PriorServed(act, past)
           ever == EverSwitched(act, past)
           disabled == IF turn[t].bypassed THEN turn[t].disabled ELSE Disabled(act, past)
           l == [turn[t] EXCEPT !.past = past, !.prior = prior, !.ever = ever,
                                !.disabled = disabled]
<1>1. past \in Row /\ act \in Row /\ turn[t].disabled \subseteq Providers \cup {NoProvider}
  BY LocalFacts DEF IInv, TypeOK, Roles, Locals
<1>2. /\ prior \in Models \cup {NoModel} /\ ever \in BOOLEAN
      /\ disabled \subseteq Providers \cup {NoProvider}
  BY <1>1, SnapshotFacts
<1>3. Continue(t, "route", l) BY DEF LoadHistory
<1> HIDE DEF past, prior, ever, disabled
<1>4. l \in Locals /\ l.act = turn[t].act BY <1>1, <1>2, LocalFacts, ZenonT(40) DEF Locals
<1>5. "route" \in Stages BY DEF Stages
<1> HIDE DEF l
<1>6. QED BY <1>3, <1>4, <1>5, LocalFacts, OnwardMoves DEF LoadHistory

LEMMA DecideType ==
  ASSUME NEW l \in Locals, NEW m \in Models \cup {NoModel},
         NEW p \in Providers \cup {NoProvider}, NEW why \in Reasons,
         NEW sticky \in BOOLEAN, NEW role \in Roles, NEW isHmm \in BOOLEAN
  PROVE  /\ Decide(l, m, p, why, sticky, role, isHmm) \in Locals
         /\ PairDistinct(Decide(l, m, p, why, sticky, role, isHmm).act)
<1> DEFINE d == Decide(l, m, p, why, sticky, role, isHmm)
<1>1. d \in Locals /\ d.act = EmptyRow BY EmptyRowType DEF Decide, Locals
<1>2. PairDistinct(EmptyRow) BY DEF EmptyRow, PairDistinct
<1>3. QED BY <1>1, <1>2

LEMMA FreshType ==
  ASSUME NEW l \in Locals, NEW f \in Fresh(l)
  PROVE  /\ f[1][1] \in Models /\ f[1][2] \in Providers
         /\ f[2][1] \in Models \cup {NoModel} /\ f[2][2] \in Providers \cup {NoProvider}
         /\ f[2][1] # f[1][1]
BY DEF Fresh

\* A refresh of the loaded pin keeps its model apart from its runner-up.
LEMMA RefreshMoves ==
  ASSUME IInv, NEW t \in Turns,
         SetRow("active", Upsert(rows["active"],
           PinWrite(turn[t].act.model, turn[t].act.provider, turn[t].act.pairModel,
                    turn[t].act.pairProvider, turn[t].act.reason)))
  PROVE  RowsMove
<1> DEFINE pin == turn[t].act
           w == PinWrite(pin.model, pin.provider, pin.pairModel, pin.pairProvider, pin.reason)
<1>1. pin \in Row /\ PairDistinct(pin) BY LocalFacts DEF Locals
<1>2. w \in PinWrites BY <1>1, PinWriteType DEF Row
<1>3. PairDistinct(w) BY <1>1 DEF PairDistinct, PinWrite
<1>4. QED BY <1>2, <1>3, UpsertMoves DEF Roles

LEMMA RouteImmutableStep == ASSUME IInv, NEW t \in Turns, RouteImmutable(t) PROVE StepOK
<1> DEFINE pin == turn[t].act
           l == Decide(turn[t], pin.model, pin.provider, pin.reason, TRUE, "active", FALSE)
<1>1. RowsMove BY RefreshMoves DEF RouteImmutable
<1>2. pin \in Row BY LocalFacts DEF Locals
<1>3. l \in Locals /\ PairDistinct(l.act) BY <1>2, LocalFacts, DecideType DEF Row, Roles
<1>4. Continue(t, "routed", l) /\ "routed" \in Stages BY DEF RouteImmutable, Stages
<1> HIDE DEF l
<1>5. TurnsMove BY <1>3, <1>4, ContinueMoves
<1>6. CountsMove BY CountsStay DEF RouteImmutable
<1>7. QED BY <1>1, <1>5, <1>6 DEF StepOK

LEMMA RouteStickyStep == ASSUME IInv, NEW t \in Turns, RouteSticky(t) PROVE StepOK
<1> DEFINE pin == turn[t].act
<1>1. RowsMove BY RefreshMoves DEF RouteSticky
<1>2. pin \in Row BY LocalFacts DEF Locals
<1>3. PICK d \in {<<pin.model, pin.provider>>, <<pin.pairModel, pin.pairProvider>>} :
        Continue(t, "routed", Decide(turn[t], d[1], d[2], pin.reason, TRUE, "active",
                                     pin.reason = "hmm"))
  BY DEF RouteSticky
<1> DEFINE l == Decide(turn[t], d[1], d[2], pin.reason, TRUE, "active", pin.reason = "hmm")
<1>4. d[1] \in Models \cup {NoModel} /\ d[2] \in Providers \cup {NoProvider}
      /\ pin.reason \in Reasons
  BY <1>2, <1>3 DEF Row
<1>5. l \in Locals /\ PairDistinct(l.act) BY <1>4, LocalFacts, DecideType DEF Roles
<1>6. Continue(t, "routed", l) /\ "routed" \in Stages BY <1>3 DEF Stages
<1> HIDE DEF l
<1>7. TurnsMove BY <1>5, <1>6, ContinueMoves
<1>8. CountsMove BY CountsStay DEF RouteSticky
<1>9. QED BY <1>1, <1>7, <1>8 DEF StepOK

LEMMA WriteNewPinStep ==
  ASSUME IInv, NEW t \in Turns, NEW m \in Models \cup {NoModel},
         NEW p \in Providers \cup {NoProvider}, NEW e,
         e[1] \in Models \cup {NoModel}, e[2] \in Providers \cup {NoProvider},
         e[1] # NoModel => e[1] # m, NEW why \in Reasons, NEW sticky \in BOOLEAN,
         WriteNewPin(t, m, p, e, why, sticky)
  PROVE  StepOK
<1> DEFINE w == PinWrite(m, p, e[1], e[2], why)
           l == Decide(turn[t], m, p, why, sticky, "active", why = "hmm")
<1>1. w \in PinWrites BY PinWriteType
<1>2. PairDistinct(w) BY DEF PairDistinct, PinWrite
<1>3. RowsMove BY <1>1, <1>2, UpsertMoves DEF WriteNewPin, Roles
<1>4. l \in Locals /\ PairDistinct(l.act) BY LocalFacts, DecideType DEF Roles
<1>5. Continue(t, "routed", l) /\ "routed" \in Stages BY DEF WriteNewPin, Stages
<1> HIDE DEF l
<1>6. TurnsMove BY <1>4, <1>5, ContinueMoves
<1>7. CountsMove BY CountsStay DEF WriteNewPin
<1>8. QED BY <1>3, <1>6, <1>7 DEF StepOK

LEMMA RouteFreshStep == ASSUME IInv, NEW t \in Turns, RouteFresh(t) PROVE StepOK
<1>1. PICK f \in Fresh(turn[t]), why \in {"scorer", "hmm"} :
        WriteNewPin(t, f[1][1], f[1][2], f[2], why, FALSE)
  BY DEF RouteFresh
<1>2. /\ f[1][1] \in Models /\ f[1][2] \in Providers
      /\ f[2][1] \in Models \cup {NoModel} /\ f[2][2] \in Providers \cup {NoProvider}
      /\ f[2][1] # f[1][1]
  BY LocalFacts, FreshType
<1>3. why \in Reasons BY DEF Reasons
<1>4. QED BY <1>1, <1>2, <1>3, WriteNewPinStep

LEMMA RouteReanchorStep == ASSUME IInv, NEW t \in Turns, RouteReanchor(t) PROVE StepOK
<1> DEFINE pin == turn[t].act
<1>1. WriteNewPin(t, pin.model, pin.provider, <<NoModel, NoProvider>>, pin.reason, TRUE)
  BY DEF RouteReanchor
<1>2. /\ pin.model \in Models \cup {NoModel} /\ pin.provider \in Providers \cup {NoProvider}
      /\ pin.reason \in Reasons
  BY LocalFacts DEF Locals, Row
<1> HIDE DEF pin
<1>3. QED BY <1>1, <1>2, WriteNewPinStep

LEMMA StayType ==
  ASSUME NEW l \in Locals, NEW passes \in BOOLEAN, NEW c \in HmmStay(l, passes)
  PROVE  c.model \in Models /\ c.provider \in Providers /\ c.reason \in Reasons
<1>1. l.act \in Row /\ l.past \in Row BY DEF Locals
<1>2. ASSUME NEW pin \in Row, NEW d \in StayCandidates(l, pin)
      PROVE  d.model \in Models /\ d.provider \in Providers /\ d.reason \in Reasons
  <2> DEFINE m == IF pin.lastServed # NoModel THEN pin.lastServed ELSE pin.model
             open == Bindings(m) \ l.disabled
             p == IF pin.provider \in open THEN pin.provider ELSE CHOOSE q \in open : TRUE
  <2>1. open # {} /\ d = [model |-> m, reason |-> pin.reason, endedAt |-> pin.endedAt,
                          provider |-> p]
    BY <1>2 DEF StayCandidates
  <2>2. m \in Models /\ open \subseteq Providers BY <2>1, TurnsAssumption DEF Bindings
  <2>3. p \in open BY <2>1
  <2>4. pin.reason \in Reasons BY DEF Row
  <2> HIDE DEF m, open, p
  <2>5. QED BY <2>1, <2>2, <2>3, <2>4
<1>3. c \in StayCandidates(l, l.act) \/ c \in StayCandidates(l, l.past)
  BY DEF HmmStay
<1>4. QED BY <1>1, <1>2, <1>3

LEMMA RoutedMoves ==
  ASSUME IInv, NEW t \in Turns, NEW m \in Models \cup {NoModel},
         NEW p \in Providers \cup {NoProvider}, NEW why \in Reasons,
         NEW sticky \in BOOLEAN, NEW role \in Roles, NEW isHmm \in BOOLEAN,
         Continue(t, "routed", Decide(turn[t], m, p, why, sticky, role, isHmm)),
         UNCHANGED <<started, store, hist>>
  PROVE  StepOK
<1> DEFINE l == Decide(turn[t], m, p, why, sticky, role, isHmm)
<1>1. l \in Locals /\ PairDistinct(l.act) BY LocalFacts, DecideType
<1>2. "routed" \in Stages BY DEF Stages
<1>3. Continue(t, "routed", l) OBVIOUS
<1> HIDE DEF l
<1>4. QED BY <1>1, <1>2, <1>3, OnwardMoves

LEMMA RouteHmmStep == ASSUME IInv, NEW t \in Turns, RouteHmm(t) PROVE StepOK
<1>1. PICK passes \in BOOLEAN, f \in Fresh(turn[t]) :
        \/ Continue(t, "routed", Decide(turn[t], f[1][1], f[1][2], "hmm",
                                        FALSE, "active", TRUE))
        \/ \E c \in HmmStay(turn[t], passes) :
             Continue(t, "routed", Decide(turn[t], c.model, c.provider, c.reason,
                                          TRUE, "history", TRUE))
  BY DEF RouteHmm, Passes
<1>2. UNCHANGED <<started, store, hist>> BY DEF RouteHmm
<1>3. "active" \in Roles /\ "history" \in Roles /\ "hmm" \in Reasons BY DEF Roles, Reasons
<1>4. CASE Continue(t, "routed", Decide(turn[t], f[1][1], f[1][2], "hmm",
                                        FALSE, "active", TRUE))
  <2>1. f[1][1] \in Models /\ f[1][2] \in Providers BY LocalFacts, FreshType
  <2>2. QED BY <1>2, <1>3, <1>4, <2>1, RoutedMoves
<1>5. CASE \E c \in HmmStay(turn[t], passes) :
             Continue(t, "routed", Decide(turn[t], c.model, c.provider, c.reason,
                                          TRUE, "history", TRUE))
  <2>1. PICK c \in HmmStay(turn[t], passes) :
             Continue(t, "routed", Decide(turn[t], c.model, c.provider, c.reason,
                                          TRUE, "history", TRUE))
    BY <1>5
  <2>2. c.model \in Models /\ c.provider \in Providers /\ c.reason \in Reasons
    BY LocalFacts, StayType
  <2>3. QED BY <1>2, <1>3, <2>1, <2>2, RoutedMoves
<1>6. QED BY <1>1, <1>4, <1>5

LEMMA IdleMoves ==
  ASSUME IInv, NEW t \in Turns, Continue(t, "idle", Blank),
         UNCHANGED <<started, store, hist>>
  PROVE  StepOK
<1>1. "idle" \in Stages BY DEF Stages
<1>2. QED BY <1>1, BlankType, BlankDistinct, OnwardMoves

LEMMA RouteFailsStep == ASSUME IInv, NEW t \in Turns, RouteFails(t) PROVE StepOK
BY IdleMoves DEF RouteFails

LEMMA BypassServedStep == ASSUME IInv, NEW t \in Turns, BypassServed(t) PROVE StepOK
<1>1. RowsMove BY RowsStay DEF BypassServed, store
<1>2. "idle" \in Stages BY DEF Stages
<1>3. TurnsMove BY <1>2, BlankType, BlankDistinct, ContinueMoves DEF BypassServed
<1>4. CountsMove BY DEF IInv, TypeOK, BypassServed, store, CountsMove
<1>5. QED BY <1>1, <1>3, <1>4 DEF StepOK

LEMMA BypassFailedStep == ASSUME IInv, NEW t \in Turns, BypassFailed(t) PROVE StepOK
<1> DEFINE l == [turn[t] EXCEPT !.bypassed = TRUE]
<1>1. l \in Locals /\ l.act = turn[t].act BY LocalFacts DEF Locals
<1>2. "load" \in Stages BY DEF Stages
<1>3. Continue(t, "load", l) BY DEF BypassFailed
<1> HIDE DEF l
<1>4. QED BY <1>1, <1>2, <1>3, LocalFacts, OnwardMoves DEF BypassFailed

LEMMA RouteBypassedStep == ASSUME IInv, NEW t \in Turns, RouteBypassed(t) PROVE StepOK
<1>1. PICK f \in Fresh(turn[t]), isHmm \in BOOLEAN :
        Continue(t, "routed", Decide(turn[t], f[1][1], f[1][2],
          IF isHmm THEN "hmm" ELSE "scorer", FALSE, "active", isHmm))
  BY DEF RouteBypassed
<1>2. f[1][1] \in Models /\ f[1][2] \in Providers BY LocalFacts, FreshType
<1>3. (IF isHmm THEN "hmm" ELSE "scorer") \in Reasons /\ "active" \in Roles
  BY DEF Reasons, Roles
<1>4. QED BY <1>1, <1>2, <1>3, RoutedMoves DEF RouteBypassed

-----------------------------------------------------------------------------
(* Serving and judging.                                                    *)

LEMMA NoProgressStep ==
  ASSUME IInv, NEW t \in Turns, NoProgressRead(t) \/ TextRepetition(t)
  PROVE  StepOK
<1>1. UNCHANGED <<started, store, hist>> BY DEF NoProgressRead, TextRepetition
<1>2. \E s \in Stages, l \in {Blank, turn[t]} : Continue(t, s, l)
  BY DEF NoProgressRead, TextRepetition, Stages
<1>3. QED BY <1>1, <1>2, LocalFacts, BlankType, BlankDistinct, OnwardMoves

LEMMA AfterStages ==
  ASSUME NEW l
  PROVE  /\ AfterOverload(l) \in Stages /\ AfterStrike(l) \in Stages
         /\ AfterDegenerate(l) \in Stages /\ AfterUsage(l) \in Stages
         /\ AfterDispatch(l) \in Stages
<1>1. AfterOverload(l) \in Stages BY DEF AfterOverload, Stages
<1>2. AfterStrike(l) \in Stages BY <1>1 DEF AfterStrike, Stages
<1>3. AfterDegenerate(l) \in Stages BY <1>2 DEF AfterDegenerate, Stages
<1>4. AfterUsage(l) \in Stages BY <1>3 DEF AfterUsage, Stages
<1>5. AfterDispatch(l) \in Stages BY <1>4 DEF AfterDispatch, Stages
<1>6. QED BY <1>1, <1>2, <1>3, <1>4, <1>5

LEMMA ServedByType ==
  ASSUME NEW l \in Locals, NEW s \in ServedBy(l)
  PROVE  /\ s[1] \in Models \cup {NoModel} /\ s[2] \in Providers \cup {NoProvider}
         /\ s[3] \in BOOLEAN
<1>1. l.model \in Models \cup {NoModel} /\ l.provider \in Providers \cup {NoProvider}
  BY DEF Locals
<1>2. Baseline \in Models /\ Anthropic \in Providers BY TurnsAssumption
<1>3. CASE s = <<Baseline, Anthropic, TRUE>> BY <1>2, <1>3
<1>4. CASE \E p \in Walk(l) : s = <<l.model, p, FALSE>>
  BY <1>1, <1>4, TurnsAssumption DEF Walk, Bindings
<1>5. QED BY <1>3, <1>4 DEF ServedBy

LEMMA EndedType ==
  ASSUME NEW l \in Locals, NEW m \in Models \cup {NoModel},
         NEW p \in Providers \cup {NoProvider}, NEW b \in BOOLEAN, NEW e,
         e.out \in Outcomes, e.tokens \in BOOLEAN, e.refused \in BOOLEAN, e.poor \in BOOLEAN
  PROVE  Ended(l, m, p, b, e) \in Locals /\ Ended(l, m, p, b, e).act = l.act
<1> DEFINE k1 == [l EXCEPT !.model = m, !.provider = p, !.baseline = b, !.out = e.out]
           k2 == [k1 EXCEPT !.tokens = e.tokens, !.refused = e.refused, !.poor = e.poor]
           k3 == [k2 EXCEPT !.disabled = {}, !.seen = {}, !.struck = {}]
<1>1. k1 \in Locals /\ k1.act = l.act BY DEF Locals
<1>2. Ended(l, m, p, b, e) = k3 BY Zenon DEF Ended
<1> HIDE DEF k1
<1>3. k2 \in Locals /\ k2.act = l.act BY <1>1 DEF Locals
<1> HIDE DEF k2
<1>4. k3 \in Locals /\ k3.act = l.act BY <1>3 DEF Locals
<1>5. QED BY <1>2, <1>4

LEMMA DispatchStep == ASSUME IInv, NEW t \in Turns, Dispatch(t) PROVE StepOK
<1>1. PICK s \in ServedBy(turn[t]), e \in Endings :
        /\ LET l == Ended(turn[t], s[1], s[2], s[3], e)
           IN  Continue(t, AfterDispatch(l), l)
        /\ answered' = IF e.tokens THEN answered \cup ({s[1]} \ {NoModel}) ELSE answered
        /\ overloads' = IF e.out = "e529" THEN [overloads EXCEPT ![s[2]] = @ + 1] ELSE overloads
  BY Zenon DEF Dispatch
<1> DEFINE l == Ended(turn[t], s[1], s[2], s[3], e)
<1>2. /\ s[1] \in Models \cup {NoModel} /\ s[2] \in Providers \cup {NoProvider}
      /\ s[3] \in BOOLEAN
  BY LocalFacts, ServedByType
<1>3. l \in Locals /\ l.act = turn[t].act
  <2>1. e.out \in Outcomes /\ e.tokens \in BOOLEAN /\ e.refused \in BOOLEAN /\ e.poor \in BOOLEAN
    BY DEF Endings
  <2>2. QED BY <1>2, <2>1, LocalFacts, EndedType
<1>4. Continue(t, AfterDispatch(l), l) BY <1>1
<1> HIDE DEF l
<1>5. TurnsMove BY <1>3, <1>4, LocalFacts, AfterStages, ContinueMoves
<1>6. RowsMove BY RowsStay DEF Dispatch, store
<1>7. CountsMove
  <2>1. /\ overloads \in [Providers -> Nat] /\ answered \subseteq Models
        /\ started \in Nat /\ clock \in Nat /\ escalations \in Nat
        /\ forced \in Models \cup {NoModel}
    BY DEF IInv, TypeOK
  <2>2. overloads' \in [Providers -> Nat]
    <3>1. CASE e.out = "e529"
      <4>1. CASE s[2] \in Providers BY <1>1, <2>1, <3>1, <4>1
      <4>2. CASE s[2] \notin Providers BY <1>1, <2>1, <3>1, <4>2
      <4>3. QED BY <4>1, <4>2
    <3>2. CASE e.out # "e529" BY <1>1, <2>1, <3>2
    <3>3. QED BY <3>1, <3>2
  <2>3. answered' \subseteq Models BY <1>1, <1>2, <2>1
  <2>4. QED BY <2>1, <2>2, <2>3 DEF Dispatch, store, CountsMove
<1>8. QED BY <1>5, <1>6, <1>7 DEF StepOK

LEMMA DispatchUnboundStep == ASSUME IInv, NEW t \in Turns, DispatchUnbound(t) PROVE StepOK
<1> DEFINE e == [out |-> "other", tokens |-> FALSE, refused |-> FALSE, poor |-> FALSE]
           l == Ended(turn[t], turn[t].model, turn[t].provider, FALSE, e)
<1>1. e.out \in Outcomes /\ e.tokens \in BOOLEAN /\ e.refused \in BOOLEAN /\ e.poor \in BOOLEAN
  BY DEF Outcomes
<1>2. l \in Locals /\ l.act = turn[t].act
  <2>1. /\ turn[t].model \in Models \cup {NoModel}
        /\ turn[t].provider \in Providers \cup {NoProvider}
    BY LocalFacts DEF Locals
  <2> HIDE DEF e
  <2>2. QED BY <1>1, <2>1, LocalFacts, EndedType, ZenonT(40)
<1>3. Continue(t, AfterDispatch(l), l) BY DEF DispatchUnbound
<1> HIDE DEF l
<1>4. QED BY <1>2, <1>3, LocalFacts, AfterStages, OnwardMoves DEF DispatchUnbound

\* A usage writeback of the request's own served model and provider.
LEMMA UsageMoves ==
  ASSUME IInv, NEW t \in Turns, NEW r \in Roles, clock' = clock + 1,
         SetRow(r, UpdateUsage(rows[r], turn[t].model, turn[t].provider,
                               turn[t].prior, turn[t].ever, clock')),
         Continue(t, AfterUsage(turn[t]), turn[t]),
         UNCHANGED <<started, escalations, hist>>
  PROVE  StepOK
<1> DEFINE l == turn[t]
<1>1. /\ l.model \in Models \cup {NoModel} /\ l.provider \in Providers \cup {NoProvider}
      /\ l.prior \in Models \cup {NoModel} /\ l.ever \in BOOLEAN
  BY LocalFacts DEF Locals
<1>2. clock' \in Nat BY DEF IInv, TypeOK
<1>3. RowStatement(rows[r], UpdateUsage(rows[r], l.model, l.provider, l.prior, l.ever, clock'))
  BY <1>1, <1>2 DEF RowStatement
<1>4. RowsMove BY <1>3, SetRowMoves
<1>5. TurnsMove BY LocalFacts, AfterStages, ContinueMoves
<1>6. CountsMove BY <1>2 DEF IInv, TypeOK, hist, CountsMove
<1>7. QED BY <1>4, <1>5, <1>6 DEF StepOK

LEMMA UsageSteps ==
  ASSUME IInv, NEW t \in Turns, RecordUsage(t) \/ RecordHistoryUsage(t)
  PROVE  StepOK
<1>1. CASE RecordUsage(t) BY <1>1, UsageMoves DEF RecordUsage, Roles
<1>2. CASE RecordHistoryUsage(t) BY <1>2, UsageMoves DEF RecordHistoryUsage, Roles
<1>3. QED BY <1>1, <1>2

LEMMA ReadHistoryStep == ASSUME IInv, NEW t \in Turns, ReadHistory(t) PROVE StepOK
<1> DEFINE past == rows["history"]
           l == [turn[t] EXCEPT !.past = past]
<1>1. past \in Row BY DEF IInv, TypeOK, Roles
<1>2. Continue(t, "usage", l) BY DEF ReadHistory
<1> HIDE DEF past
<1>3. l \in Locals /\ l.act = turn[t].act BY <1>1, LocalFacts DEF Locals
<1>4. "usage" \in Stages BY DEF Stages
<1> HIDE DEF l
<1>5. QED BY <1>2, <1>3, <1>4, LocalFacts, OnwardMoves DEF ReadHistory

LEMMA TouchHistoryStep == ASSUME IInv, NEW t \in Turns, TouchHistory(t) PROVE StepOK
<1> DEFINE by == IF ~turn[t].tokens /\ turn[t].past.provider # NoProvider
                 THEN turn[t].past.provider ELSE turn[t].provider
           w == PinWrite(NoModel, by, NoModel, NoProvider, "hmm")
           l == [turn[t] EXCEPT !.past = EmptyRow]
           next == IF turn[t].tokens THEN "usageHistory" ELSE AfterUsage(turn[t])
<1>1. by \in Providers \cup {NoProvider} BY LocalFacts DEF Locals, Row
<1>2. w \in PinWrites BY <1>1, PinWriteType DEF Reasons
<1>3. PairDistinct(w) BY DEF PairDistinct, PinWrite
<1>4. SetRow("history", Upsert(rows["history"], w)) /\ Continue(t, next, l)
  BY DEF TouchHistory
<1>5. RowsMove BY <1>2, <1>3, <1>4, UpsertMoves DEF Roles
<1>6. l \in Locals /\ l.act = turn[t].act BY LocalFacts, EmptyRowType DEF Locals
<1>7. next \in Stages BY AfterStages DEF Stages
<1> HIDE DEF l, next
<1>8. TurnsMove BY <1>4, <1>6, <1>7, LocalFacts, ContinueMoves
<1>9. CountsMove BY CountsStay DEF TouchHistory
<1>10. QED BY <1>5, <1>8, <1>9 DEF StepOK

LEMMA RoleFacts ==
  ASSUME IInv, NEW t \in Turns
  PROVE  turn[t].role \in Roles /\ rows[turn[t].role] \in Row
BY LocalFacts DEF Locals, IInv, TypeOK

\* Evictions of the row that served the request, or of both rows.
LEMMA EvictSteps ==
  ASSUME IInv, NEW t \in Turns,
         EvictDegenerate(t) \/ EvictStruck(t) \/ OverloadActive(t) \/ OverloadHistory(t)
  PROVE  StepOK
<1>1. "active" \in Roles /\ "history" \in Roles /\ "overloadHistory" \in Stages
  BY DEF Roles, Stages
<1>2. CASE EvictDegenerate(t) BY <1>2, RoleFacts, AfterStages, ExpireMoves DEF EvictDegenerate
<1>3. CASE EvictStruck(t) BY <1>3, RoleFacts, AfterStages, ExpireMoves DEF EvictStruck
<1>4. CASE OverloadActive(t) BY <1>1, <1>4, ExpireMoves DEF OverloadActive
<1>5. CASE OverloadHistory(t) BY <1>1, <1>5, AfterStages, ExpireMoves DEF OverloadHistory
<1>6. QED BY <1>2, <1>3, <1>4, <1>5

\* A counter or a disabled provider is written, and the request goes on as it is.
LEMMA JudgeMoves ==
  ASSUME IInv, NEW t \in Turns, NEW row, RowStatement(rows[turn[t].role], row),
         SetRow(turn[t].role, row), NEW next \in Stages, Continue(t, next, turn[t]),
         UNCHANGED <<started, clock, escalations, hist>>
  PROVE  StepOK
<1>1. RowsMove BY RoleFacts, SetRowMoves
<1>2. TurnsMove BY LocalFacts, ContinueMoves
<1>3. CountsMove BY CountsStay
<1>4. QED BY <1>1, <1>2, <1>3 DEF StepOK

LEMMA CountStrikeStep == ASSUME IInv, NEW t \in Turns, CountStrike(t) PROVE StepOK
<1> DEFINE l == turn[t]
           after == IF l.out = "ok" THEN ResetUpstreamErrors(rows[l.role])
                    ELSE IncrementUpstreamErrors(rows[l.role])
           next == IF l.out = "e4xx" /\ after.upErr >= StrikeThreshold
                   THEN "evict" ELSE AfterStrike(l)
<1>1. RowStatement(rows[l.role], after) BY DEF RowStatement
<1>2. next \in Stages BY AfterStages DEF Stages
<1>3. SetRow(l.role, after) /\ Continue(t, next, l) BY DEF CountStrike
<1> HIDE DEF after, next
<1>4. QED BY <1>1, <1>2, <1>3, JudgeMoves DEF CountStrike

LEMMA CountOverloadStep == ASSUME IInv, NEW t \in Turns, CountOverload(t) PROVE StepOK
<1> DEFINE l == turn[t]
           after == IF l.out = "ok" THEN ResetOverloadErrors(rows[l.role])
                    ELSE IncrementOverloadErrors(rows[l.role])
           next == IF l.out = "e529" /\ after.ovErr >= OverloadThreshold
                   THEN "disable" ELSE AfterOverload(l)
<1>1. RowStatement(rows[l.role], after) BY DEF RowStatement
<1>2. next \in Stages BY AfterStages DEF Stages
<1>3. SetRow(l.role, after) /\ Continue(t, next, l) BY DEF CountOverload
<1> HIDE DEF after, next
<1>4. QED BY <1>1, <1>2, <1>3, JudgeMoves DEF CountOverload

LEMMA DisableOverloadedStep == ASSUME IInv, NEW t \in Turns, DisableOverloaded(t) PROVE StepOK
<1> DEFINE row == DisableProvider(rows[turn[t].role], turn[t].provider)
<1>1. turn[t].provider \in Providers \cup {NoProvider} BY LocalFacts DEF Locals
<1>2. RowStatement(rows[turn[t].role], row) BY <1>1 DEF RowStatement
<1>3. "overloadActive" \in Stages BY DEF Stages
<1>4. SetRow(turn[t].role, row) BY DEF DisableOverloaded
<1> HIDE DEF row
<1>5. QED BY <1>2, <1>3, <1>4, JudgeMoves DEF DisableOverloaded

LEMMA RefusalReadStep == ASSUME IInv, NEW t \in Turns, RefusalRead(t) PROVE StepOK
<1> DEFINE row == rows[turn[t].role]
           paired == row.pairModel # NoModel
           m == IF paired THEN row.pairModel ELSE RefusalFallback
           p == IF paired THEN row.pairProvider ELSE PrimaryProvider(RefusalFallback)
           l == [turn[t] EXCEPT !.model = m, !.provider = p]
           next == IF m = turn[t].model THEN "idle" ELSE "repin"
<1>1. row \in Row BY RoleFacts
<1>2. RefusalFallback \in Models BY TurnsAssumption
<1>3. m \in Models \cup {NoModel} /\ p \in Providers \cup {NoProvider}
  BY <1>1, <1>2, PrimaryProviderServes DEF Row
<1>4. Continue(t, next, l) /\ next \in Stages BY DEF RefusalRead, Stages
<1> HIDE DEF m, p
<1>5. l \in Locals /\ l.act = turn[t].act BY <1>3, LocalFacts, ZenonT(40) DEF Locals
<1> HIDE DEF l, next
<1>6. QED BY <1>4, <1>5, LocalFacts, OnwardMoves DEF RefusalRead

LEMMA RefusalRepinStep == ASSUME IInv, NEW t \in Turns, RefusalRepin(t) PROVE StepOK
<1> DEFINE w == PinWrite(turn[t].model, turn[t].provider, NoModel, NoProvider, "refusal")
<1>1. w \in PinWrites BY LocalFacts, PinWriteType DEF Locals, Reasons
<1>2. PairDistinct(w) BY DEF PairDistinct, PinWrite
<1>3. RowsMove BY <1>1, <1>2, RoleFacts, UpsertMoves DEF RefusalRepin
<1>4. "idle" \in Stages BY DEF Stages
<1>5. TurnsMove BY <1>4, BlankType, BlankDistinct, ContinueMoves DEF RefusalRepin
<1>6. CountsMove BY CountsStay DEF RefusalRepin
<1>7. QED BY <1>3, <1>5, <1>6 DEF StepOK

LEMMA EnvironmentSteps ==
  ASSUME IInv, (\E r \in Roles : Lapse(r) \/ Sweep(r)) \/ (\E t \in Turns : Crash(t))
  PROVE  StepOK
<1>1. ASSUME NEW r \in Roles, Lapse(r) PROVE StepOK
  <2>1. RowStatement(rows[r], [rows[r] EXCEPT !.until = "past"]) BY DEF RowStatement
  <2>2. RowsMove BY <1>1, <2>1, SetRowMoves DEF Lapse
  <2>3. TurnsMove /\ CountsMove BY <1>1, TurnsStay, CountsStay DEF Lapse
  <2>4. QED BY <2>2, <2>3 DEF StepOK
<1>2. ASSUME NEW r \in Roles, Sweep(r) PROVE StepOK
  <2>1. RowStatement(rows[r], EmptyRow) BY <1>2 DEF Sweep, RowStatement
  <2>2. RowsMove BY <1>2, <2>1, SetRowMoves DEF Sweep
  <2>3. TurnsMove /\ CountsMove BY <1>2, TurnsStay, CountsStay DEF Sweep
  <2>4. QED BY <2>2, <2>3 DEF StepOK
<1>3. ASSUME NEW t \in Turns, Crash(t) PROVE StepOK BY <1>3, IdleMoves DEF Crash
<1>4. QED BY <1>1, <1>2, <1>3

LEMMA StutterStep == ASSUME IInv, UNCHANGED vars PROVE StepOK
BY RowsStay, TurnsStay, CountsStay DEF vars, hist, StepOK

-----------------------------------------------------------------------------
(* The invariant and the theorems.                                         *)

LEMMA EveryStep == ASSUME IInv, [Next]_vars PROVE StepOK
<1>1. ASSUME NEW t \in Turns, Entering(t) PROVE StepOK
  BY <1>1, StartTurnStep, ForceModelStep, UnforceModelStep, BreakSteps, EscalateReadStep,
     EscalateBudgetStep, PinEscalationStep, RecordEscalationStep DEF Entering
<1>2. ASSUME NEW t \in Turns, Routing(t) PROVE StepOK
  BY <1>2, LoadActiveStep, LoadHistoryStep, RouteImmutableStep, RouteStickyStep,
     RouteFreshStep, RouteReanchorStep, RouteHmmStep, RouteFailsStep, BypassServedStep,
     BypassFailedStep, RouteBypassedStep DEF Routing
<1>3. ASSUME NEW t \in Turns, Serving(t) PROVE StepOK
  BY <1>3, NoProgressStep, DispatchStep, DispatchUnboundStep, UsageSteps,
     ReadHistoryStep, TouchHistoryStep DEF Serving
<1>4. ASSUME NEW t \in Turns, Judging(t) PROVE StepOK
  BY <1>4, EvictSteps, CountStrikeStep, CountOverloadStep, DisableOverloadedStep,
     RefusalReadStep, RefusalRepinStep DEF Judging
<1>5. QED BY <1>1, <1>2, <1>3, <1>4, EnvironmentSteps, StutterStep DEF Next, Step

LEMMA PairKept ==
  ASSUME NEW a \in Row, PairDistinct(a), NEW b, RowStatement(a, b)
  PROVE  PairDistinct(b)
<1>1. CASE \E w \in DistinctWrites : b = Upsert(a, w)
  <2>1. PICK w \in DistinctWrites : b = Upsert(a, w) BY <1>1
  <2>2. PairDistinct(w) BY DEF DistinctWrites
  <2>3. b.model = w.model
    BY <2>1 DEF Upsert, Row
  <2>4. b.pairModel = IF w.pairModel # NoModel THEN w.pairModel
                      ELSE IF a.model = w.model THEN a.pairModel ELSE NoModel
    BY <2>1 DEF Upsert, Row
  <2>5. QED BY <2>2, <2>3, <2>4 DEF PairDistinct
<1>2. ASSUME b.model = a.model, b.pairModel = a.pairModel PROVE PairDistinct(b)
  BY <1>2 DEF PairDistinct
<1>3. CASE \E served, prior \in Models \cup {NoModel}, by \in Providers \cup {NoProvider},
            ever \in BOOLEAN, now \in Nat : b = UpdateUsage(a, served, by, prior, ever, now)
  <2>1. b.model = a.model /\ b.pairModel = a.pairModel BY <1>3 DEF UpdateUsage, Row
  <2>2. QED BY <1>2, <2>1
<1>4. CASE b \in {IncrementUpstreamErrors(a), ResetUpstreamErrors(a),
                  IncrementOverloadErrors(a), ResetOverloadErrors(a)}
  <2>1. b.model = a.model /\ b.pairModel = a.pairModel
    BY <1>4 DEF IncrementUpstreamErrors, ResetUpstreamErrors, IncrementOverloadErrors,
                ResetOverloadErrors, Row
  <2>2. QED BY <1>2, <2>1
<1>5. CASE \E p \in Providers \cup {NoProvider} : b = DisableProvider(a, p)
  <2>1. b.model = a.model /\ b.pairModel = a.pairModel BY <1>5 DEF DisableProvider, Row
  <2>2. QED BY <1>2, <2>1
<1>6. CASE b = [a EXCEPT !.until = "past"]
  <2>1. b.model = a.model /\ b.pairModel = a.pairModel BY <1>6 DEF Row
  <2>2. QED BY <1>2, <2>1
<1>7. CASE May("sweep") /\ b = EmptyRow BY <1>7 DEF EmptyRow, PairDistinct
<1>8. QED BY <1>1, <1>3, <1>4, <1>5, <1>6, <1>7 DEF RowStatement

LEMMA InitHolds == Init => IInv
<1> SUFFICES ASSUME Init PROVE IInv OBVIOUS
<1>1. PairsDistinct BY BlankDistinct DEF Init, PairsDistinct, PairDistinct, EmptyRow
<1>2. TypeOK BY EmptyRowType, BlankType DEF Init, TypeOK, Stages
<1>3. QED BY <1>1, <1>2 DEF IInv

LEMMA StepKeeps == IInv /\ [Next]_vars => IInv'
<1> SUFFICES ASSUME IInv, [Next]_vars PROVE IInv' OBVIOUS
<1>1. StepOK BY EveryStep
<1>2. TypeOK' BY <1>1 DEF StepOK, RowsMove, TurnsMove, CountsMove, TypeOK
<1>3. ASSUME NEW r \in Roles PROVE PairDistinct(rows'[r])
  <2>1. rows[r] \in Row /\ PairDistinct(rows[r]) BY DEF IInv, TypeOK, PairsDistinct
  <2>2. RowStatement(rows[r], rows'[r]) BY <1>1 DEF StepOK, RowsMove
  <2>3. QED BY <2>1, <2>2, PairKept
<1>4. PairsDistinct' BY <1>1, <1>3 DEF StepOK, TurnsMove, PairsDistinct, PairDistinct
<1>5. QED BY <1>2, <1>4 DEF IInv

LEMMA Inductive == Spec => []IInv
BY InitHolds, StepKeeps, PTL DEF Spec

\* Every reachable state is one the table's and the request's types allow.
THEOREM TypeCorrect == Spec => []TypeOK
<1>1. IInv => TypeOK BY DEF IInv
<1>2. QED BY <1>1, Inductive, PTL

\* For any number of concurrent requests, models and providers, the runner-up
\* stored with a pin (session_pins.sql, pair maintenance) is not the pin itself.
THEOREM PairsStayDistinct == Spec => []PairNeverCollapses
<1>1. IInv => PairNeverCollapses BY DEF IInv, PairsDistinct, PairDistinct, PairNeverCollapses
<1>2. QED BY <1>1, Inductive, PTL

LEMMA StrikesOutKept ==
  ASSUME NEW a \in Row, NEW b, RowStatement(a, b), b.exists \/ ~May("sweep")
  PROVE  a.disabled \subseteq b.disabled
<1>1. CASE \E w \in DistinctWrites : b = Upsert(a, w) BY <1>1 DEF Upsert, Row
<1>2. CASE \E served, prior \in Models \cup {NoModel}, by \in Providers \cup {NoProvider},
            ever \in BOOLEAN, now \in Nat : b = UpdateUsage(a, served, by, prior, ever, now)
  BY <1>2 DEF UpdateUsage, Row
<1>3. CASE b \in {IncrementUpstreamErrors(a), ResetUpstreamErrors(a),
                  IncrementOverloadErrors(a), ResetOverloadErrors(a)}
  BY <1>3 DEF IncrementUpstreamErrors, ResetUpstreamErrors, IncrementOverloadErrors,
              ResetOverloadErrors, Row
<1>4. CASE \E p \in Providers \cup {NoProvider} : b = DisableProvider(a, p)
  BY <1>4 DEF DisableProvider, Row
<1>5. CASE b = [a EXCEPT !.until = "past"] BY <1>5 DEF Row
<1>6. CASE May("sweep") /\ b = EmptyRow BY <1>6 DEF EmptyRow
<1>7. QED BY <1>1, <1>2, <1>3, <1>4, <1>5, <1>6 DEF RowStatement

LEMMA LatchKept ==
  ASSUME NEW a \in Row, NEW b, RowStatement(a, b), b.exists
  PROVE  /\ a.everSwitched => b.everSwitched
         /\ a.lastServed \notin {NoModel, b.lastServed} => b.everSwitched
<1>1. CASE \E w \in DistinctWrites : b = Upsert(a, w) BY <1>1 DEF Upsert, Row
<1>2. CASE \E served, prior \in Models \cup {NoModel}, by \in Providers \cup {NoProvider},
            ever \in BOOLEAN, now \in Nat : b = UpdateUsage(a, served, by, prior, ever, now)
  BY <1>2 DEF UpdateUsage, Row
<1>3. CASE b \in {IncrementUpstreamErrors(a), ResetUpstreamErrors(a),
                  IncrementOverloadErrors(a), ResetOverloadErrors(a)}
  BY <1>3 DEF IncrementUpstreamErrors, ResetUpstreamErrors, IncrementOverloadErrors,
              ResetOverloadErrors, Row
<1>4. CASE \E p \in Providers \cup {NoProvider} : b = DisableProvider(a, p)
  BY <1>4 DEF DisableProvider, Row
<1>5. CASE b = [a EXCEPT !.until = "past"] BY <1>5 DEF Row
<1>6. CASE May("sweep") /\ b = EmptyRow BY <1>6 DEF EmptyRow
<1>7. QED BY <1>1, <1>2, <1>3, <1>4, <1>5, <1>6 DEF RowStatement

\* A provider struck out of a session (provider_overload.go) stays out while the
\* row lives, whatever the requests in flight write over it.
THEOREM StrikeOutsLast == Spec => StruckOutForLife
<1>1. IInv /\ [Next]_vars =>
        [\A r \in Roles : rows'[r].exists => rows[r].disabled \subseteq rows'[r].disabled]_vars
  <2> SUFFICES ASSUME IInv, [Next]_vars, NEW r \in Roles, rows'[r].exists
               PROVE  rows[r].disabled \subseteq rows'[r].disabled
    OBVIOUS
  <2>1. rows[r] \in Row BY DEF IInv, TypeOK
  <2>2. RowStatement(rows[r], rows'[r]) BY EveryStep DEF StepOK, RowsMove
  <2>3. QED BY <2>1, <2>2, StrikesOutKept
<1>2. QED BY <1>1, Inductive, PTL DEF Spec, StruckOutForLife

\* has_ever_switched latches for the life of the row, and every change of the
\* last served model sets it: no lost update between concurrent writebacks.
THEOREM SwitchesLatch == Spec => SwitchLatches
<1>1. IInv /\ [Next]_vars =>
        [\A r \in Roles : rows'[r].exists =>
           /\ rows[r].everSwitched => rows'[r].everSwitched
           /\ rows[r].lastServed \notin {NoModel, rows'[r].lastServed} => rows'[r].everSwitched]_vars
  <2> SUFFICES ASSUME IInv, [Next]_vars, NEW r \in Roles, rows'[r].exists
               PROVE  /\ rows[r].everSwitched => rows'[r].everSwitched
                      /\ rows[r].lastServed \notin {NoModel, rows'[r].lastServed}
                           => rows'[r].everSwitched
    OBVIOUS
  <2>1. rows[r] \in Row BY DEF IInv, TypeOK
  <2>2. RowStatement(rows[r], rows'[r]) BY EveryStep DEF StepOK, RowsMove
  <2>3. QED BY <2>1, <2>2, LatchKept
<1>2. QED BY <1>1, Inductive, PTL DEF Spec, SwitchLatches

\* No interleaving of requests makes a row forget a strike-out or a switch
\* (session_pins.sql, disabled_providers and has_ever_switched).
THEOREM RowsAlwaysRemember == Spec => RowsRemember
BY StrikeOutsLast, SwitchesLatch DEF RowsRemember

-----------------------------------------------------------------------------
(* Struck-out providers and the requests that loaded them.                 *)

\* Where the code after the dispatch takes a request.
Late == {"idle", "usage", "readHistory", "degenerate", "strike", "overload", "refusal"}

LEMMA AfterAreLate ==
  ASSUME NEW l
  PROVE  /\ AfterOverload(l) \in Late /\ AfterStrike(l) \in Late
         /\ AfterDegenerate(l) \in Late /\ AfterUsage(l) \in Late
         /\ AfterDispatch(l) \in Late
<1>1. AfterOverload(l) \in Late BY DEF AfterOverload, Late
<1>2. AfterStrike(l) \in Late BY <1>1 DEF AfterStrike, Late
<1>3. AfterDegenerate(l) \in Late BY <1>2 DEF AfterDegenerate, Late
<1>4. AfterUsage(l) \in Late BY <1>3 DEF AfterUsage, Late
<1>5. AfterDispatch(l) \in Late BY <1>4 DEF AfterDispatch, Late
<1>6. QED BY <1>1, <1>2, <1>3, <1>4, <1>5

\* The stages at which a request knows of no strikes, or is past them.
Free == Late \cup {"break", "breakHistory", "usageHistory", "evict", "disable",
                  "overloadActive", "overloadHistory", "repin"}

\* What a live forced pin exempts from the strikes.
ForcedLive(act) == Live(act) /\ act.reason = "force"

Escalating == {"escalate", "budget", "pinEscalation", "recordEscalation"}

\* What a request with locals l, about to execute s, owes the providers struck
\* out when it loaded its pins; gone are those the history row disables now.
Heeds(s, l, gone) ==
  /\ s \in Escalating => l.struck = {}
  /\ s \in {"load", "loadHistory", "route"} /\ l.bypassed => l.struck \subseteq l.disabled
  /\ s = "loadHistory" /\ ~l.bypassed => l.struck \subseteq l.act.disabled \cup gone
  /\ s = "route" /\ ~l.bypassed /\ ~ForcedLive(l.act) => l.struck \subseteq l.disabled
  /\ s = "route" /\ ~l.bypassed /\ ForcedLive(l.act) => l.act.provider \notin l.disabled
  /\ s = "routed" /\ l.reason # "force" => l.struck \subseteq l.disabled

AllHeed == \A t \in Turns : Heeds(stage[t], turn[t], rows["history"].disabled)

\* Request t goes on, and still heeds the strikes it found.
HeedingMove(t) ==
  \E s, l : Continue(t, s, l) /\ Heeds(s, l, rows["history"].disabled)

LEMMA BlankHeeds == ASSUME NEW s, NEW gone PROVE Heeds(s, Blank, gone)
<1>1. Blank.struck = {} /\ ~Blank.bypassed /\ Blank.act = EmptyRow BY DEF Blank
<1>2. ~ForcedLive(EmptyRow) BY DEF ForcedLive, Live, EmptyRow
<1>3. QED BY <1>1, <1>2 DEF Heeds

LEMMA FreeStagesHeed ==
  ASSUME NEW s, NEW l, NEW gone, s \in Free
  PROVE  Heeds(s, l, gone)
BY DEF Heeds, Free, Late, Escalating

LEMMA EnteringHeeds ==
  ASSUME IInv, AllHeed, NEW t \in Turns, Entering(t)
  PROVE  HeedingMove(t) \/ UNCHANGED <<stage, turn>>
<1> DEFINE l == turn[t]
           gone == rows["history"].disabled
<1>1. l \in Locals BY LocalFacts
<1>2. Blank \in Locals BY BlankType
<1>3. ASSUME NEW s \in Stages, Continue(t, s, Blank) PROVE HeedingMove(t)
  BY <1>2, <1>3, BlankHeeds DEF HeedingMove
<1>4. CASE StartTurn(t) BY <1>3, <1>4, EntriesAreStages DEF StartTurn
<1>5. CASE ForceModel(t)
  <2>1. PICK s \in {"idle"} \cup Entries : Continue(t, s, Blank) BY <1>5 DEF ForceModel
  <2>2. s \in Stages BY EntriesAreStages DEF Stages
  <2>3. QED BY <1>3, <2>1, <2>2
<1>6. CASE UnforceModel(t) BY <1>6 DEF UnforceModel
<1>7. CASE BreakActive(t)
  <2>1. Heeds("breakHistory", l, gone) BY FreeStagesHeed DEF Free
  <2>2. Continue(t, "breakHistory", l) BY <1>7 DEF BreakActive, Expire
  <2>3. QED BY <1>1, <2>1, <2>2 DEF HeedingMove, Stages
<1>8. CASE BreakHistory(t)
  <2>1. Heeds("idle", l, gone) BY FreeStagesHeed DEF Free, Late
  <2>2. Continue(t, "idle", l) BY <1>8 DEF BreakHistory, Expire
  <2>3. QED BY <1>1, <2>1, <2>2 DEF HeedingMove, Stages
<1>9. CASE EscalateRead(t)
  <2> DEFINE pin == rows["active"]
  <2>1. CASE pin.reason = "loop"
    <3>1. Continue(t, "load", Blank) BY <1>9, <2>1 DEF EscalateRead
    <3>2. QED BY <1>3, <3>1 DEF Stages
  <2>2. CASE pin.reason # "loop"
    <3>1. PICK requested \in Models :
            Continue(t, "budget",
              [Blank EXCEPT !.reason = pin.reason,
                            !.model = IF pin.model # NoModel THEN pin.model ELSE requested])
      BY <1>9, <2>2 DEF EscalateRead
    <3> DEFINE m == IF pin.model # NoModel THEN pin.model ELSE requested
               k == [Blank EXCEPT !.reason = pin.reason, !.model = m]
    <3>2. m \in Models \cup {NoModel} /\ pin.reason \in Reasons
      BY DEF IInv, TypeOK, Roles, Row
    <3> HIDE DEF m
    <3>3. k \in Locals /\ k.struck = Blank.struck BY <1>2, <3>2 DEF Locals
    <3>4. Blank.struck = {} BY DEF Blank
    <3>5. Continue(t, "budget", k) BY <3>1 DEF m
    <3> HIDE DEF k
    <3>6. Heeds("budget", k, gone) BY <3>3, <3>4 DEF Heeds
    <3>7. QED BY <3>3, <3>5, <3>6 DEF HeedingMove, Stages
  <2>3. QED BY <2>1, <2>2
<1>10. ASSUME stage[t] \in Escalating, NEW s \in Escalating, Continue(t, s, l)
       PROVE  HeedingMove(t)
  <2>1. l.struck = {} BY <1>10 DEF AllHeed, Heeds
  <2>2. Heeds(s, l, gone) BY <2>1 DEF Heeds, Escalating
  <2>3. QED BY <1>1, <1>10, <2>2 DEF HeedingMove, Escalating, Stages
<1>11. CASE EscalateBudget(t)
  <2>1. stage[t] \in Escalating BY <1>11 DEF EscalateBudget, At, Escalating
  <2>2. Continue(t, "load", Blank) \/ \E s \in Escalating : Continue(t, s, l)
    BY <1>11 DEF EscalateBudget, Escalating
  <2>3. QED BY <1>3, <1>10, <2>1, <2>2 DEF Stages
<1>12. CASE PinEscalation(t) BY <1>10, <1>12 DEF PinEscalation, At, Escalating
<1>13. CASE RecordEscalation(t) BY <1>3, <1>13 DEF RecordEscalation, Stages
<1>14. QED
  BY <1>4, <1>5, <1>6, <1>7, <1>8, <1>9, <1>11, <1>12, <1>13 DEF Entering

LEMMA LoadActiveHeeds ==
  ASSUME IInv, AllHeed, NEW t \in Turns, LoadActive(t)
  PROVE  HeedingMove(t)
<1> DEFINE gone == rows["history"].disabled
           struck == IF turn[t].bypassed THEN turn[t].struck
                     ELSE rows["active"].disabled \cup rows["history"].disabled
           l == [turn[t] EXCEPT !.act = rows["active"], !.seen = answered, !.struck = struck]
<1>1. /\ rows["active"] \in Row /\ rows["history"] \in Row /\ answered \subseteq Models
  BY DEF IInv, TypeOK, Roles
<1>2. struck \subseteq Providers \cup {NoProvider} BY <1>1, LocalFacts DEF Row, Locals
<1>3. Continue(t, "loadHistory", l) BY DEF LoadActive
<1>4. turn[t].bypassed => struck \subseteq turn[t].disabled
  BY DEF LoadActive, At, AllHeed, Heeds
<1>5. ~turn[t].bypassed => struck \subseteq rows["active"].disabled \cup gone
  OBVIOUS
<1> HIDE DEF struck
<1>6. /\ l \in Locals /\ l.act = rows["active"] /\ l.struck = struck
      /\ l.bypassed = turn[t].bypassed /\ l.disabled = turn[t].disabled
  BY <1>1, <1>2, LocalFacts, ZenonT(40) DEF Locals
<1> HIDE DEF l
<1>7. Heeds("loadHistory", l, gone) BY <1>4, <1>5, <1>6 DEF Heeds, Escalating
<1>8. QED BY <1>3, <1>6, <1>7 DEF HeedingMove, Stages

LEMMA LoadHistoryHeeds ==
  ASSUME IInv, AllHeed, NEW t \in Turns, LoadHistory(t)
  PROVE  HeedingMove(t)
<1> DEFINE act == turn[t].act
           past == rows["history"]
           prior == PriorServed(act, past)
           ever == EverSwitched(act, past)
           disabled == IF turn[t].bypassed THEN turn[t].disabled ELSE Disabled(act, past)
           l == [turn[t] EXCEPT !.past = past, !.prior = prior, !.ever = ever,
                                !.disabled = disabled]
<1>1. past \in Row /\ act \in Row /\ turn[t].disabled \subseteq Providers \cup {NoProvider}
  BY LocalFacts DEF IInv, TypeOK, Roles, Locals
<1>2. /\ prior \in Models \cup {NoModel} /\ ever \in BOOLEAN
      /\ disabled \subseteq Providers \cup {NoProvider}
  BY <1>1, SnapshotFacts
<1>3. Continue(t, "route", l) BY DEF LoadHistory
<1>4. turn[t].bypassed => turn[t].struck \subseteq disabled
  BY DEF LoadHistory, At, AllHeed, Heeds
<1>5. ~turn[t].bypassed => turn[t].struck \subseteq act.disabled \cup past.disabled
  BY DEF LoadHistory, At, AllHeed, Heeds
<1>6. ~turn[t].bypassed /\ ~ForcedLive(act) => turn[t].struck \subseteq disabled
  BY <1>5 DEF Disabled, ForcedLive
<1>7. ~turn[t].bypassed /\ ForcedLive(act) => act.provider \notin disabled
  BY DEF Disabled, ForcedLive
<1> HIDE DEF past, prior, ever, disabled
<1>8. /\ l \in Locals /\ l.act = act /\ l.struck = turn[t].struck
      /\ l.bypassed = turn[t].bypassed /\ l.disabled = disabled
  BY <1>1, <1>2, LocalFacts, ZenonT(40) DEF Locals
<1> HIDE DEF l, act
<1>9. Heeds("route", l, rows["history"].disabled)
  BY <1>4, <1>6, <1>7, <1>8 DEF Heeds, Escalating
<1>10. QED BY <1>3, <1>8, <1>9 DEF HeedingMove, Stages

\* A request past its forced pin has every struck provider among the disabled.
LEMMA PastForcedHeeds ==
  ASSUME IInv, AllHeed, ~May("guards"), NEW t \in Turns, At(t, "route"),
         \/ turn[t].bypassed
         \/ \E passes \in Passes : PastForced(turn[t], passes)
         \/ ~ForcedLive(turn[t].act)
  PROVE  turn[t].struck \subseteq turn[t].disabled
<1> DEFINE l == turn[t]
<1>1. Heeds("route", l, rows["history"].disabled) BY DEF AllHeed, At
<1>2. CASE l.bypassed BY <1>1, <1>2 DEF Heeds
<1>3. CASE ~l.bypassed /\ ~ForcedLive(l.act) BY <1>1, <1>3 DEF Heeds
<1>4. CASE ~l.bypassed /\ ForcedLive(l.act)
  <2>1. l.act.provider \notin l.disabled BY <1>1, <1>4 DEF Heeds
  <2>2. Immutable(l.act) /\ Live(l.act) BY <1>4 DEF ForcedLive, Immutable
  <2>3. ~PastForced(l, TRUE) BY <2>1, <2>2 DEF PastForced
  <2>4. Passes = {TRUE} BY DEF Passes
  <2>5. QED BY <1>4, <2>3, <2>4
<1>5. QED BY <1>2, <1>3, <1>4

LEMMA DecideHeeds ==
  ASSUME IInv, NEW t \in Turns, NEW m \in Models \cup {NoModel},
         NEW p \in Providers \cup {NoProvider}, NEW why \in Reasons,
         NEW sticky \in BOOLEAN, NEW role \in Roles, NEW isHmm \in BOOLEAN,
         Continue(t, "routed", Decide(turn[t], m, p, why, sticky, role, isHmm)),
         why = "force" \/ turn[t].struck \subseteq turn[t].disabled
  PROVE  HeedingMove(t)
<1> DEFINE l == Decide(turn[t], m, p, why, sticky, role, isHmm)
<1>1. turn[t] \in Locals /\ l \in Locals BY LocalFacts, DecideType
<1>2. l.struck = turn[t].struck /\ l.disabled = turn[t].disabled /\ l.reason = why
  BY <1>1 DEF Decide, Locals
<1>3. Continue(t, "routed", l) OBVIOUS
<1> HIDE DEF l
<1>4. Heeds("routed", l, rows["history"].disabled) BY <1>2 DEF Heeds, Escalating
<1>5. QED BY <1>1, <1>3, <1>4 DEF HeedingMove, Stages

LEMMA RoutingHeeds ==
  ASSUME IInv, AllHeed, ~May("guards"), NEW t \in Turns, Routing(t)
  PROVE  HeedingMove(t)
<1> DEFINE l == turn[t]
           pin == turn[t].act
<1>1. l \in Locals /\ pin \in Row BY LocalFacts DEF Locals
<1>2. "active" \in Roles /\ "history" \in Roles BY DEF Roles
<1>3. ASSUME Continue(t, "idle", Blank) PROVE HeedingMove(t)
  BY <1>3, BlankType, BlankHeeds DEF HeedingMove, Stages
<1>4. /\ pin.model \in Models \cup {NoModel} /\ pin.provider \in Providers \cup {NoProvider}
      /\ pin.pairModel \in Models \cup {NoModel}
      /\ pin.pairProvider \in Providers \cup {NoProvider} /\ pin.reason \in Reasons
  BY <1>1 DEF Row
<1>5. CASE LoadActive(t) BY <1>5, LoadActiveHeeds
<1>6. CASE LoadHistory(t) BY <1>6, LoadHistoryHeeds
<1>7. CASE RouteImmutable(t)
  <2>1. Continue(t, "routed", Decide(l, pin.model, pin.provider, pin.reason, TRUE, "active", FALSE))
    BY <1>7 DEF RouteImmutable
  <2>2. pin.reason = "force" \/ ~ForcedLive(pin) BY DEF ForcedLive
  <2>3. pin.reason = "force" \/ l.struck \subseteq l.disabled
    BY <1>7, <2>2, PastForcedHeeds DEF RouteImmutable
  <2> HIDE DEF l, pin
  <2>4. QED BY <1>2, <1>4, <2>1, <2>3, DecideHeeds DEF l, pin
<1>8. CASE RouteSticky(t)
  <2>1. PICK d \in {<<pin.model, pin.provider>>, <<pin.pairModel, pin.pairProvider>>} :
          Continue(t, "routed", Decide(l, d[1], d[2], pin.reason, TRUE, "active",
                                       pin.reason = "hmm"))
    BY <1>8 DEF RouteSticky
  <2>2. d[1] \in Models \cup {NoModel} /\ d[2] \in Providers \cup {NoProvider}
    BY <1>4, <2>1
  <2>3. ~ForcedLive(pin) BY <1>8 DEF RouteSticky, Kept, Immutable, ForcedLive
  <2>4. l.struck \subseteq l.disabled BY <1>8, <2>3, PastForcedHeeds DEF RouteSticky
  <2>5. (pin.reason = "hmm") \in BOOLEAN OBVIOUS
  <2> HIDE DEF l, pin
  <2>6. QED BY <1>2, <1>4, <2>1, <2>2, <2>4, <2>5, DecideHeeds DEF l, pin
<1>9. CASE RouteFresh(t)
  <2>1. PICK f \in Fresh(l), why \in {"scorer", "hmm"} :
          Continue(t, "routed", Decide(l, f[1][1], f[1][2], why, FALSE, "active", why = "hmm"))
    BY <1>9 DEF RouteFresh, WriteNewPin
  <2>2. f[1][1] \in Models /\ f[1][2] \in Providers BY <1>1, FreshType
  <2>3. l.struck \subseteq l.disabled BY <1>9, PastForcedHeeds DEF RouteFresh
  <2>4. why \in Reasons /\ (why = "hmm") \in BOOLEAN BY DEF Reasons
  <2> HIDE DEF l
  <2>5. QED BY <1>2, <2>1, <2>2, <2>3, <2>4, DecideHeeds DEF l
<1>10. CASE RouteReanchor(t)
  <2>1. Continue(t, "routed", Decide(l, pin.model, pin.provider, pin.reason, TRUE, "active",
                                     pin.reason = "hmm"))
    BY <1>10 DEF RouteReanchor, WriteNewPin
  <2>2. ~ForcedLive(pin) BY <1>10 DEF RouteReanchor, ForcedLive
  <2>3. l.struck \subseteq l.disabled BY <1>10, <2>2, PastForcedHeeds DEF RouteReanchor
  <2>4. (pin.reason = "hmm") \in BOOLEAN OBVIOUS
  <2> HIDE DEF l, pin
  <2>5. QED BY <1>2, <1>4, <2>1, <2>3, <2>4, DecideHeeds DEF l, pin
<1>11. CASE RouteHmm(t)
  <2>1. PICK passes \in Passes, f \in Fresh(l) :
          /\ PastForced(l, passes)
          /\ \/ Continue(t, "routed", Decide(l, f[1][1], f[1][2], "hmm", FALSE, "active", TRUE))
             \/ \E c \in HmmStay(l, passes) :
                  Continue(t, "routed", Decide(l, c.model, c.provider, c.reason,
                                               TRUE, "history", TRUE))
    BY <1>11 DEF RouteHmm
  <2>2. At(t, "route") BY <1>11 DEF RouteHmm
  <2>3. l.struck \subseteq l.disabled BY <2>1, <2>2, PastForcedHeeds
  <2>4. passes \in BOOLEAN BY DEF Passes
  <2>5. ASSUME Continue(t, "routed", Decide(l, f[1][1], f[1][2], "hmm", FALSE, "active", TRUE))
        PROVE  HeedingMove(t)
    <3>1. f[1][1] \in Models /\ f[1][2] \in Providers /\ "hmm" \in Reasons
      BY <1>1, FreshType DEF Reasons
    <3> HIDE DEF l
    <3>2. QED BY <1>2, <2>3, <2>5, <3>1, DecideHeeds DEF l
  <2>6. ASSUME NEW c \in HmmStay(l, passes),
               Continue(t, "routed", Decide(l, c.model, c.provider, c.reason,
                                            TRUE, "history", TRUE))
        PROVE  HeedingMove(t)
    <3>1. c.model \in Models /\ c.provider \in Providers /\ c.reason \in Reasons
      BY <1>1, <2>4, StayType
    <3> HIDE DEF l
    <3>2. QED BY <1>2, <2>3, <2>6, <3>1, DecideHeeds DEF l
  <2>7. QED BY <2>1, <2>5, <2>6
<1>12. CASE RouteFails(t) BY <1>3, <1>12 DEF RouteFails
<1>13. CASE BypassServed(t) BY <1>3, <1>13 DEF BypassServed
<1>14. CASE BypassFailed(t)
  <2> DEFINE k == [turn[t] EXCEPT !.bypassed = TRUE]
  <2>1. l.struck \subseteq l.disabled BY <1>14, PastForcedHeeds DEF BypassFailed
  <2>2. k \in Locals /\ k.struck = l.struck /\ k.disabled = l.disabled /\ k.bypassed
    BY <1>1 DEF Locals
  <2>3. Continue(t, "load", k) BY <1>14 DEF BypassFailed
  <2> HIDE DEF k
  <2>4. Heeds("load", k, rows["history"].disabled) BY <2>1, <2>2 DEF Heeds, Escalating
  <2>5. QED BY <2>2, <2>3, <2>4 DEF HeedingMove, Stages
<1>15. CASE RouteBypassed(t)
  <2>1. PICK f \in Fresh(l), isHmm \in BOOLEAN :
          Continue(t, "routed", Decide(l, f[1][1], f[1][2],
            IF isHmm THEN "hmm" ELSE "scorer", FALSE, "active", isHmm))
    BY <1>15 DEF RouteBypassed
  <2>2. f[1][1] \in Models /\ f[1][2] \in Providers BY <1>1, FreshType
  <2>3. (IF isHmm THEN "hmm" ELSE "scorer") \in Reasons BY DEF Reasons
  <2>4. l.struck \subseteq l.disabled BY <1>15, PastForcedHeeds DEF RouteBypassed
  <2> HIDE DEF l
  <2>5. QED BY <1>2, <2>1, <2>2, <2>3, <2>4, DecideHeeds DEF l
<1>16. QED
  BY <1>5, <1>6, <1>7, <1>8, <1>9, <1>10, <1>11, <1>12, <1>13, <1>14, <1>15 DEF Routing

GoesFree(t) == \E s \in Free : \E l : Continue(t, s, l)

\* From the loop breaks and the dispatch on a request owes the strikes nothing.
LEMMA ServingIsFree ==
  ASSUME NEW t \in Turns, Serving(t) \/ Judging(t) \/ Crash(t)
  PROVE  GoesFree(t)
<1>1. ASSUME NEW s \in Free, NEW l, Continue(t, s, l) PROVE GoesFree(t)
  BY <1>1 DEF GoesFree
<1>2. Late \subseteq Free BY DEF Free
<1>3. ASSUME NEW s \in Late, NEW l, Continue(t, s, l) PROVE GoesFree(t)
  BY <1>1, <1>2, <1>3
<1>4. "idle" \in Late /\ "usage" \in Late BY DEF Late
<1>5. CASE NoProgressRead(t) \/ TextRepetition(t)
  <2>1. Continue(t, "idle", Blank) \/ Continue(t, "break", Blank)
    BY <1>5 DEF NoProgressRead, TextRepetition
  <2>2. QED BY <1>1, <1>3, <1>4, <2>1 DEF Free
<1>6. CASE Dispatch(t)
  <2>1. \E l : Continue(t, AfterDispatch(l), l) BY <1>6, Zenon DEF Dispatch
  <2>2. QED BY <1>3, <2>1, AfterAreLate
<1>7. CASE DispatchUnbound(t)
  <2>1. \E l : Continue(t, AfterDispatch(l), l) BY <1>7, Zenon DEF DispatchUnbound
  <2>2. QED BY <1>3, <2>1, AfterAreLate
<1>8. CASE RecordUsage(t) BY <1>3, <1>8, AfterAreLate DEF RecordUsage
<1>9. CASE ReadHistory(t) BY <1>3, <1>4, <1>9 DEF ReadHistory
<1>10. CASE TouchHistory(t)
  <2>1. \E s \in Late \cup {"usageHistory"} : \E l : Continue(t, s, l)
    <3> DEFINE s == IF turn[t].tokens THEN "usageHistory" ELSE AfterUsage(turn[t])
    <3>1. Continue(t, s, [turn[t] EXCEPT !.past = EmptyRow]) BY <1>10 DEF TouchHistory
    <3>2. s \in Late \cup {"usageHistory"} BY AfterAreLate
    <3> HIDE DEF s
    <3>3. QED BY <3>1, <3>2
  <2>2. QED BY <1>1, <1>3, <2>1 DEF Free
<1>11. CASE RecordHistoryUsage(t) BY <1>3, <1>11, AfterAreLate DEF RecordHistoryUsage
<1>12. CASE EvictDegenerate(t) BY <1>3, <1>12, AfterAreLate DEF EvictDegenerate, Expire
<1>13. CASE CountStrike(t)
  <2>1. Continue(t, "evict", turn[t]) \/ Continue(t, AfterStrike(turn[t]), turn[t])
    BY <1>13 DEF CountStrike
  <2>2. QED BY <1>1, <1>3, <2>1, AfterAreLate DEF Free
<1>14. CASE EvictStruck(t) BY <1>3, <1>14, AfterAreLate DEF EvictStruck, Expire
<1>15. CASE CountOverload(t)
  <2>1. Continue(t, "disable", turn[t]) \/ Continue(t, AfterOverload(turn[t]), turn[t])
    BY <1>15 DEF CountOverload
  <2>2. QED BY <1>1, <1>3, <2>1, AfterAreLate DEF Free
<1>16. CASE DisableOverloaded(t) BY <1>1, <1>16 DEF DisableOverloaded, Free
<1>17. CASE OverloadActive(t) BY <1>1, <1>17 DEF OverloadActive, Expire, Free
<1>18. CASE OverloadHistory(t) BY <1>3, <1>18, AfterAreLate DEF OverloadHistory, Expire
<1>19. CASE RefusalRead(t)
  <2>1. \E l : Continue(t, "idle", l) \/ Continue(t, "repin", l)
    BY <1>19, Zenon DEF RefusalRead
  <2>2. QED BY <1>1, <1>3, <1>4, <2>1 DEF Free
<1>20. CASE RefusalRepin(t) BY <1>3, <1>4, <1>20 DEF RefusalRepin
<1>21. CASE Crash(t) BY <1>3, <1>4, <1>21 DEF Crash
<1>22. QED
  BY <1>5, <1>6, <1>7, <1>8, <1>9, <1>10, <1>11, <1>12, <1>13, <1>14, <1>15, <1>16, <1>17,
     <1>18, <1>19, <1>20, <1>21
  DEF Serving, Judging

LEMMA ServingHeeds ==
  ASSUME NEW t \in Turns, Serving(t) \/ Judging(t) \/ Crash(t)
  PROVE  HeedingMove(t)
BY ServingIsFree, FreeStagesHeed DEF GoesFree, HeedingMove

LEMMA HeedsMonotone ==
  ASSUME NEW s, NEW l, NEW g, NEW h, g \subseteq h, Heeds(s, l, g)
  PROVE  Heeds(s, l, h)
BY DEF Heeds

LEMMA HeedingKept ==
  ASSUME IInv, AllHeed, ~May("guards"), ~May("sweep"), [Next]_vars
  PROVE  AllHeed'
<1>1. "history" \in Roles BY DEF Roles
<1>2. rows["history"].disabled \subseteq rows'["history"].disabled
  <2>1. rows["history"] \in Row BY <1>1 DEF IInv, TypeOK
  <2>2. RowStatement(rows["history"], rows'["history"]) BY <1>1, EveryStep DEF StepOK, RowsMove
  <2>3. QED BY <2>1, <2>2, StrikesOutKept
<1>3. stage \in [Turns -> Stages] /\ turn \in [Turns -> Locals] BY DEF IInv, TypeOK
<1>4. ASSUME NEW t \in Turns, HeedingMove(t), NEW u \in Turns
      PROVE  Heeds(stage'[u], turn'[u], rows["history"].disabled)
  <2>1. PICK s, l : Continue(t, s, l) /\ Heeds(s, l, rows["history"].disabled)
    BY <1>4 DEF HeedingMove
  <2>2. CASE u # t
    <3>1. stage'[u] = stage[u] /\ turn'[u] = turn[u] BY <1>3, <2>1, <2>2 DEF Continue
    <3>2. QED BY <3>1 DEF AllHeed
  <2>3. CASE u = t /\ s = "idle"
    <3>1. turn'[u] = Blank BY <1>3, <2>1, <2>3 DEF Continue
    <3>2. QED BY <3>1, BlankHeeds
  <2>4. CASE u = t /\ s # "idle"
    <3>1. stage'[u] = s /\ turn'[u] = l BY <1>3, <2>1, <2>4 DEF Continue
    <3>2. QED BY <2>1, <3>1
  <2>5. QED BY <2>2, <2>3, <2>4
<1>5. ASSUME UNCHANGED <<stage, turn>>, NEW u \in Turns
      PROVE  Heeds(stage'[u], turn'[u], rows["history"].disabled)
  BY <1>5 DEF AllHeed
<1>6. (\E t \in Turns : HeedingMove(t)) \/ UNCHANGED <<stage, turn>>
  <2>1. ASSUME NEW t \in Turns, Step(t) \/ Crash(t)
        PROVE  HeedingMove(t) \/ UNCHANGED <<stage, turn>>
    BY <2>1, EnteringHeeds, RoutingHeeds, ServingHeeds DEF Step
  <2>2. ASSUME NEW r \in Roles, Lapse(r) \/ Sweep(r) PROVE UNCHANGED <<stage, turn>>
    BY <2>2 DEF Lapse, Sweep
  <2>3. QED BY <2>1, <2>2 DEF Next, vars
<1>7. ASSUME NEW u \in Turns PROVE Heeds(stage'[u], turn'[u], rows'["history"].disabled)
  <2>1. Heeds(stage'[u], turn'[u], rows["history"].disabled) BY <1>4, <1>5, <1>6
  <2>2. QED BY <1>2, <2>1, HeedsMonotone
<1>8. QED BY <1>7 DEF AllHeed

\* A provider struck out before a request loaded its pins serves it by no way
\* the dispatch has (turnloop.go, SessionDisabledProviders; fallback.go), for
\* any number of requests in flight on any replicas.  Two things must not
\* happen.  A guard that drops a live forced pin lets the provider the pin
\* exempted through for the automatic decision that follows; a sweep between
\* the two loads takes the history row's strikes with it.
THEOREM StruckOutStaysOut ==
  ASSUME ~May("guards"), ~May("sweep")
  PROVE  Spec => []StruckOutNeverServes
<1>1. Init => AllHeed
  <2> SUFFICES ASSUME Init, NEW t \in Turns
               PROVE  Heeds(stage[t], turn[t], rows["history"].disabled)
    BY DEF AllHeed
  <2>1. turn[t] = Blank BY DEF Init
  <2>2. QED BY <2>1, BlankHeeds
<1>2. IInv /\ AllHeed /\ [Next]_vars => AllHeed' BY HeedingKept
<1>3. AllHeed => StruckOutNeverServes
  <2> SUFFICES ASSUME AllHeed, NEW t \in Turns, At(t, "routed"), turn[t].reason # "force",
                      NEW s \in ServedBy(turn[t])
               PROVE  s[2] \notin turn[t].struck
    BY DEF StruckOutNeverServes
  <2>1. turn[t].struck \subseteq turn[t].disabled BY DEF AllHeed, Heeds, At
  <2>2. s[2] \notin turn[t].disabled
    <3>1. CASE \E p \in Walk(turn[t]) : s = <<turn[t].model, p, FALSE>> BY <3>1 DEF Walk
    <3>2. CASE s = <<Baseline, Anthropic, TRUE>> /\ Anthropic \notin turn[t].disabled BY <3>2
    <3>3. QED BY <3>1, <3>2 DEF ServedBy
  <2>3. QED BY <2>1, <2>2
<1>4. QED BY <1>1, <1>2, <1>3, Inductive, PTL DEF Spec

-----------------------------------------------------------------------------
(* The escalation budget.                                                  *)

\* The session has no two requests in flight.
OneAtATime == \A t, u \in Turns : t = u

\* A request about to escalate found the budget unspent.
BudgetHeld ==
  /\ escalations \in {0, 1}
  /\ \A t \in Turns : stage[t] \in {"pinEscalation", "recordEscalation"} => escalations = 0

LEMMA BudgetInit == Init => BudgetHeld
BY DEF Init, BudgetHeld

\* Every step but three leaves the budget and the road to it alone.
LEMMA BudgetUntouched ==
  ASSUME IInv, BudgetHeld, OneAtATime, NEW t \in Turns, escalations' = escalations,
         NEW s, NEW l, Continue(t, s, l), s \notin {"pinEscalation", "recordEscalation"}
  PROVE  BudgetHeld'
<1>1. stage'[t] = s BY DEF IInv, TypeOK, Continue
<1>2. \A u \in Turns : u = t BY DEF OneAtATime
<1>3. QED BY <1>1, <1>2 DEF BudgetHeld

LEMMA BudgetKept ==
  ASSUME IInv, BudgetHeld, OneAtATime, [Next]_vars
  PROVE  BudgetHeld'
<1> DEFINE Away == Stages \ {"pinEscalation", "recordEscalation"}
<1>1. ASSUME NEW t \in Turns, Entering(t) PROVE BudgetHeld'
  <2>1. \A u \in Turns : u = t BY DEF OneAtATime
  <2>2. stage \in [Turns -> Stages] BY DEF IInv, TypeOK
  <2>3. CASE EscalateBudget(t)
    <3>1. escalations' = escalations BY <2>3 DEF EscalateBudget, store
    <3>2. CASE escalations > 0
      <4>1. Continue(t, "load", Blank) BY <2>3, <3>2 DEF EscalateBudget
      <4>2. QED BY <3>1, <4>1, BudgetUntouched
    <3>3. CASE ~(escalations > 0)
      <4>1. escalations = 0 BY <3>3 DEF BudgetHeld
      <4>2. QED BY <3>1, <4>1 DEF BudgetHeld
    <3>4. QED BY <3>2, <3>3
  <2>4. CASE PinEscalation(t)
    <3>1. escalations = 0 BY <2>4 DEF PinEscalation, At, BudgetHeld
    <3>2. escalations' = escalations BY <2>4 DEF PinEscalation
    <3>3. QED BY <3>1, <3>2 DEF BudgetHeld
  <2>5. CASE RecordEscalation(t)
    <3>1. escalations = 0 BY <2>5 DEF RecordEscalation, At, BudgetHeld
    <3>2. escalations' = 1 BY <2>5, <3>1 DEF RecordEscalation
    <3>3. stage'[t] = "load" BY <2>2, <2>5 DEF RecordEscalation, Continue
    <3>4. QED BY <2>1, <3>2, <3>3 DEF BudgetHeld
  <2>6. ASSUME NEW s \in Entries \cup {"idle"}, Continue(t, s, Blank), escalations' = escalations
        PROVE  BudgetHeld'
    <3>1. s \notin {"pinEscalation", "recordEscalation"} BY DEF Entries
    <3>2. QED BY <2>6, <3>1, BudgetUntouched
  <2>7. CASE StartTurn(t) BY <2>6, <2>7 DEF StartTurn, store
  <2>8. CASE ForceModel(t)
    <3>1. \E s \in Entries \cup {"idle"} : Continue(t, s, Blank) BY <2>8 DEF ForceModel
    <3>2. escalations' = escalations BY <2>8 DEF ForceModel
    <3>3. QED BY <2>6, <3>1, <3>2
  <2>9. CASE UnforceModel(t) BY <2>9 DEF UnforceModel, BudgetHeld
  <2>10. CASE BreakActive(t) BY <2>10, BudgetUntouched DEF BreakActive, Expire
  <2>11. CASE BreakHistory(t) BY <2>11, BudgetUntouched DEF BreakHistory, Expire
  <2>12. CASE EscalateRead(t)
    <3>1. \E l : Continue(t, "load", l) \/ Continue(t, "budget", l)
      BY <2>12, Zenon DEF EscalateRead
    <3>2. escalations' = escalations BY <2>12 DEF EscalateRead, store
    <3>3. QED BY <3>1, <3>2, BudgetUntouched
  <2>13. QED
    BY <1>1, <2>3, <2>4, <2>5, <2>7, <2>8, <2>9, <2>10, <2>11, <2>12 DEF Entering
<1>2. ASSUME NEW t \in Turns, Routing(t) PROVE BudgetHeld'
  <2>1. escalations' = escalations
    BY <1>2 DEF Routing, LoadActive, LoadHistory, RouteImmutable, RouteSticky, RouteFresh,
                WriteNewPin, RouteReanchor, RouteHmm, RouteFails, BypassServed, BypassFailed,
                RouteBypassed, store
  <2>2. \E s \in {"load", "loadHistory", "route", "routed", "idle"} : \E l : Continue(t, s, l)
    <3>1. CASE LoadActive(t) BY <3>1 DEF LoadActive
    <3>2. CASE LoadHistory(t) BY <3>2, Zenon DEF LoadHistory
    <3>3. CASE RouteImmutable(t) BY <3>3 DEF RouteImmutable
    <3>4. CASE RouteSticky(t) BY <3>4 DEF RouteSticky
    <3>5. CASE RouteFresh(t) BY <3>5 DEF RouteFresh, WriteNewPin
    <3>6. CASE RouteReanchor(t) BY <3>6 DEF RouteReanchor, WriteNewPin
    <3>7. CASE RouteHmm(t) BY <3>7 DEF RouteHmm
    <3>8. CASE RouteFails(t) BY <3>8 DEF RouteFails
    <3>9. CASE BypassServed(t) BY <3>9 DEF BypassServed
    <3>10. CASE BypassFailed(t) BY <3>10 DEF BypassFailed
    <3>11. CASE RouteBypassed(t) BY <3>11 DEF RouteBypassed
    <3>12. QED
      BY <1>2, <3>1, <3>2, <3>3, <3>4, <3>5, <3>6, <3>7, <3>8, <3>9, <3>10, <3>11 DEF Routing
  <2>3. QED BY <2>1, <2>2, BudgetUntouched
<1>3. ASSUME NEW t \in Turns, Serving(t) \/ Judging(t) \/ Crash(t) PROVE BudgetHeld'
  <2>1. escalations' = escalations
    <3>1. CASE Serving(t)
      BY <3>1 DEF Serving, NoProgressRead, TextRepetition, Dispatch, DispatchUnbound,
                  RecordUsage, ReadHistory, TouchHistory, RecordHistoryUsage, store
    <3>2. CASE Judging(t)
      BY <3>2 DEF Judging, EvictDegenerate, CountStrike, EvictStruck, CountOverload,
                  DisableOverloaded, OverloadActive, OverloadHistory, RefusalRead,
                  RefusalRepin, Expire, store
    <3>3. CASE Crash(t) BY <3>3 DEF Crash, store
    <3>4. QED BY <1>3, <3>1, <3>2, <3>3
  <2>2. PICK s \in Free : \E l : Continue(t, s, l) BY <1>3, ServingIsFree DEF GoesFree
  <2>3. s \notin {"pinEscalation", "recordEscalation"} BY DEF Free, Late
  <2>4. QED BY <2>1, <2>2, <2>3, BudgetUntouched
<1>4. ASSUME NEW r \in Roles, Lapse(r) \/ Sweep(r) PROVE BudgetHeld'
  BY <1>4 DEF Lapse, Sweep, BudgetHeld
<1>5. CASE UNCHANGED vars BY <1>5 DEF vars, BudgetHeld
<1>6. QED BY <1>1, <1>2, <1>3, <1>4, <1>5 DEF Next, Step

\* A session whose requests come one after another escalates a loop once
\* (loop_detection.go, the budget of loop_escalation_events).  Requests in
\* flight together may both find the budget unspent, so this is all the
\* check-then-act of the code gives.
THEOREM EscalatesOnlyOnce ==
  ASSUME OneAtATime
  PROVE  Spec => []EscalatesOnce
<1>1. IInv /\ BudgetHeld /\ [Next]_vars => BudgetHeld' BY BudgetKept
<1>2. BudgetHeld => EscalatesOnce BY DEF BudgetHeld, EscalatesOnce
<1>3. QED BY <1>1, <1>2, BudgetInit, Inductive, PTL DEF Spec

-----------------------------------------------------------------------------
(* Strikes and evictions, of requests that follow one another.             *)

\* A live row pins a model, and an evicted one does not.
Sound(row) == /\ row.reason = "evicted" => row.model = NoModel
              /\ Live(row) => row.model # NoModel

\* What pins no model has no strikes.
Clean(row) == row.model = NoModel \/ ~row.exists => row.upErr = 0 /\ row.ovErr = 0

\* The writes that keep a row sound, and the statements of which none counts.
SoundWrites == {w \in PinWrites : /\ w.reason = "evicted" => w.model = NoModel
                                  /\ w.until # "past" => w.model # NoModel}

TameStatement(a, b) ==
  \/ b = a
  \/ \E w \in SoundWrites : b = Upsert(a, w)
  \/ \E served, by, prior, ever, now : b = UpdateUsage(a, served, by, prior, ever, now)
  \/ b \in {ResetUpstreamErrors(a), ResetOverloadErrors(a)}
  \/ \E p : b = DisableProvider(a, p)
  \/ b = [a EXCEPT !.until = "past"]
  \/ b = EmptyRow

LEMMA TameKeeps ==
  ASSUME NEW a \in Row, NEW b, Sound(a), Clean(a), TameStatement(a, b)
  PROVE  /\ Sound(b) /\ Clean(b)
         /\ b.upErr \in {0, a.upErr} /\ b.ovErr \in {0, a.ovErr}
<1>1. CASE b = a BY <1>1
<1>2. CASE \E w \in SoundWrites : b = Upsert(a, w)
  <2>1. PICK w \in SoundWrites : b = Upsert(a, w) BY <1>2
  <2>2. /\ b.exists /\ b.model = w.model /\ b.reason = w.reason /\ b.until = w.until
        /\ b.upErr = IF a.model = w.model THEN a.upErr ELSE 0
        /\ b.ovErr = IF a.model = w.model THEN a.ovErr ELSE 0
    BY <2>1 DEF Upsert, Row
  <2>3. (w.reason = "evicted" => w.model = NoModel) /\ (w.until # "past" => w.model # NoModel)
    BY DEF SoundWrites
  <2>4. QED BY <2>2, <2>3 DEF Sound, Clean, Live
<1>3. ASSUME b.exists = a.exists, b.model = a.model, b.reason = a.reason,
             b.until \in {a.until, "past"},
             b.upErr \in {0, a.upErr}, b.ovErr \in {0, a.ovErr}
      PROVE  Sound(b) /\ Clean(b)
  BY <1>3 DEF Sound, Clean, Live
<1>4. CASE \E served, by, prior, ever, now : b = UpdateUsage(a, served, by, prior, ever, now)
  <2>1. /\ b.exists = a.exists /\ b.model = a.model /\ b.reason = a.reason
        /\ b.until = a.until /\ b.upErr = a.upErr /\ b.ovErr = a.ovErr
    BY <1>4 DEF UpdateUsage, Row
  <2>2. QED BY <1>3, <2>1
<1>5. CASE b \in {ResetUpstreamErrors(a), ResetOverloadErrors(a)}
  <2>1. /\ b.exists = a.exists /\ b.model = a.model /\ b.reason = a.reason
        /\ b.until = a.until /\ b.upErr \in {0, a.upErr} /\ b.ovErr \in {0, a.ovErr}
    BY <1>5 DEF ResetUpstreamErrors, ResetOverloadErrors, Row
  <2>2. QED BY <1>3, <2>1
<1>6. CASE \E p : b = DisableProvider(a, p)
  <2>1. /\ b.exists = a.exists /\ b.model = a.model /\ b.reason = a.reason
        /\ b.until = a.until /\ b.upErr = a.upErr /\ b.ovErr \in {0, a.ovErr}
    BY <1>6 DEF DisableProvider, Row
  <2>2. QED BY <1>3, <2>1
<1>7. CASE b = [a EXCEPT !.until = "past"]
  <2>1. /\ b.exists = a.exists /\ b.model = a.model /\ b.reason = a.reason
        /\ b.until = "past" /\ b.upErr = a.upErr /\ b.ovErr = a.ovErr
    BY <1>7 DEF Row
  <2>2. QED BY <1>3, <2>1
<1>8. CASE b = EmptyRow BY <1>8 DEF EmptyRow, Sound, Clean, Live
<1>9. QED BY <1>1, <1>2, <1>4, <1>5, <1>6, <1>7, <1>8 DEF TameStatement

\* Stages at which a dispatched request has yet to judge the row it used.
Judgeable == {"routed", "usage", "readHistory", "usageHistory", "strike", "overload"}

\* What a request with locals l at stage s has, with active row a.
Fits(s, l, a) ==
  /\ Sound(l.act)
  /\ s = "degenerate" => l.out = "ok"
  /\ s = "strike" => l.sticky /\ l.out \in {"ok", "e4xx"}
  /\ s = "overload" => l.sticky /\ l.out \in {"ok", "e529"}
  /\ s = "evict" => l.out = "e4xx"
  /\ s = "repin" => l.model # NoModel
  /\ s \in Judgeable /\ l.sticky /\ l.role = "active" /\ (s = "routed" \/ l.out # "ok")
       => (a.exists => a.model # NoModel)

\* Two strikes stand only until the eviction they lead to.
StrikeInv ==
  LET a == rows["active"]
  IN  /\ Sound(a) /\ Clean(a)
      /\ \A t \in Turns : Fits(stage[t], turn[t], a)
      /\ a.upErr < 2 \/ \E t \in Turns : stage[t] = "evict" /\ turn[t].role = "active"
      /\ a.ovErr < 2 \/ \E t \in Turns : stage[t] = "disable" /\ turn[t].role = "active"

LEMMA StrikeInit == Init => StrikeInv
<1> SUFFICES ASSUME Init PROVE StrikeInv OBVIOUS
<1>1. rows["active"] = EmptyRow BY DEF Init, Roles
<1>2. Sound(EmptyRow) /\ Clean(EmptyRow) /\ EmptyRow.upErr = 0 /\ EmptyRow.ovErr = 0
  BY DEF EmptyRow, Sound, Clean, Live
<1>3. ASSUME NEW t \in Turns PROVE Fits(stage[t], turn[t], EmptyRow)
  <2>1. stage[t] = "idle" /\ turn[t].act = EmptyRow BY BlankDistinct DEF Init
  <2>2. QED BY <1>2, <2>1 DEF Fits, Judgeable
<1>4. QED BY <1>1, <1>2, <1>3 DEF StrikeInv

\* Stages at which nothing is known of a request but the row it loaded.
Plain == Stages \ (Judgeable \cup {"degenerate", "evict", "repin"})

LEMMA PlainFits ==
  ASSUME NEW s \in Plain, NEW l, NEW a, Sound(l.act)
  PROVE  Fits(s, l, a)
BY DEF Fits, Plain, Judgeable

LEMMA BlankSound == Sound(Blank.act)
BY BlankDistinct DEF EmptyRow, Sound, Live

\* Where the code goes after each write, it may.
LEMMA AfterFits ==
  ASSUME NEW l, NEW a, Sound(l.act),
         l.sticky /\ l.role = "active" /\ l.out # "ok" => (a.exists => a.model # NoModel)
  PROVE  /\ Fits(AfterOverload(l), l, a) /\ Fits(AfterStrike(l), l, a)
         /\ Fits(AfterDegenerate(l), l, a) /\ Fits(AfterUsage(l), l, a)
         /\ Fits(AfterDispatch(l), l, a)
<1>1. Fits(AfterOverload(l), l, a) BY DEF AfterOverload, Fits, Judgeable
<1>2. Fits(AfterStrike(l), l, a) BY <1>1 DEF AfterStrike, Fits, Judged
<1>3. Fits(AfterDegenerate(l), l, a) BY <1>2 DEF AfterDegenerate, Fits, Judged
<1>4. Fits(AfterUsage(l), l, a) BY <1>3 DEF AfterUsage, Fits, Judgeable
<1>5. Fits(AfterDispatch(l), l, a) BY <1>4 DEF AfterDispatch, Fits
<1>6. QED BY <1>1, <1>2, <1>3, <1>4, <1>5

\* A step of request t that counts no strike.
Tidy(t) ==
  /\ TameStatement(rows["active"], rows'["active"])
  /\ \E s, l : Continue(t, s, l) /\ Fits(s, l, rows'["active"])

\* Such a step, of the only request there is, keeps the invariant; at "evict"
\* and "disable" the strikes have to go.
LEMMA TidyKeeps ==
  ASSUME IInv, OneAtATime, StrikeInv, NEW t \in Turns, Tidy(t),
         stage[t] = "evict" /\ turn[t].role = "active" => rows'["active"].upErr = 0,
         stage[t] = "disable" /\ turn[t].role = "active" => rows'["active"].ovErr = 0
  PROVE  StrikeInv'
<1> DEFINE a == rows["active"]
           b == rows'["active"]
<1>1. a \in Row BY DEF IInv, TypeOK, Roles
<1>2. Sound(b) /\ Clean(b) /\ b.upErr \in {0, a.upErr} /\ b.ovErr \in {0, a.ovErr}
  BY <1>1, TameKeeps DEF StrikeInv, Tidy
<1>3. \A u \in Turns : u = t BY DEF OneAtATime
<1>4. b.upErr < 2 BY <1>2, <1>3 DEF StrikeInv
<1>5. b.ovErr < 2 BY <1>2, <1>3 DEF StrikeInv
<1>6. Fits(stage'[t], turn'[t], b)
  <2>1. PICK s, l : Continue(t, s, l) /\ Fits(s, l, b) BY DEF Tidy
  <2>2. stage'[t] = s /\ turn'[t] = IF s = "idle" THEN Blank ELSE l
    BY <2>1 DEF Continue, IInv, TypeOK
  <2>3. CASE s = "idle"
    <3>1. "idle" \in Plain BY DEF Plain, Stages, Judgeable
    <3>2. QED BY <2>2, <2>3, <3>1, BlankSound, PlainFits
  <2>4. CASE s # "idle" BY <2>1, <2>2, <2>4
  <2>5. QED BY <2>3, <2>4
<1>7. QED BY <1>2, <1>3, <1>4, <1>5, <1>6 DEF StrikeInv

LEMMA ActiveMoves ==
  ASSUME IInv, NEW row
  PROVE  /\ SetRow("active", row) => rows'["active"] = row
         /\ SetRow("history", row) => rows'["active"] = rows["active"]
         /\ rows' = rows => rows'["active"] = rows["active"]
BY DEF SetRow, IInv, TypeOK, Roles

LEMMA ExpiredPinSound == ExpiredPin \in SoundWrites
BY ExpiredPinType DEF SoundWrites, ExpiredPin

LEMMA PinWriteSound ==
  ASSUME NEW m \in Models \cup {NoModel}, NEW p \in Providers \cup {NoProvider},
         NEW pm \in Models \cup {NoModel}, NEW pp \in Providers \cup {NoProvider},
         NEW why \in Reasons, m # NoModel, why # "evicted"
  PROVE  PinWrite(m, p, pm, pp, why) \in SoundWrites
BY PinWriteType DEF SoundWrites, PinWrite

\* expireSessionPin, of either row: an expired active row has no strikes.
LEMMA ExpireTidy ==
  ASSUME IInv, StrikeInv, NEW t \in Turns, NEW r \in Roles, NEW s,
         Expire(t, r, s, turn[t]),
         \A a : Fits(s, turn[t], a)
  PROVE  /\ Tidy(t)
         /\ r = "active" => rows'["active"].upErr = 0 /\ rows'["active"].ovErr = 0
<1> DEFINE a == rows["active"]
           b == rows'["active"]
<1>1. Continue(t, s, turn[t]) BY DEF Expire
<1>2. CASE r = "active"
  <2>1. b = Upsert(a, ExpiredPin) BY <1>2, ActiveMoves DEF Expire
  <2>2. TameStatement(a, b) BY <2>1, ExpiredPinSound DEF TameStatement
  <2>3. Fits(s, turn[t], b) BY <1>2
  <2>4. a \in Row BY DEF IInv, TypeOK, Roles
  <2>5. /\ b.upErr = IF a.model = ExpiredPin.model THEN a.upErr ELSE 0
        /\ b.ovErr = IF a.model = ExpiredPin.model THEN a.ovErr ELSE 0
    BY <2>1, <2>4 DEF Upsert, Row
  <2>6. ExpiredPin.model = NoModel BY DEF ExpiredPin
  <2>7. b.upErr = 0 /\ b.ovErr = 0 BY <2>5, <2>6 DEF StrikeInv, Clean
  <2>8. QED BY <1>1, <2>2, <2>3, <2>7 DEF Tidy
<1>3. CASE r = "history"
  <2>1. b = a BY <1>3, ActiveMoves DEF Expire
  <2>2. TameStatement(a, b) BY <2>1 DEF TameStatement
  <2>3. Fits(s, turn[t], b) BY <2>1
  <2>4. QED BY <1>1, <1>3, <2>2, <2>3 DEF Tidy
<1>4. QED BY <1>2, <1>3 DEF Roles

LEMMA OnwardTidy ==
  ASSUME IInv, NEW t \in Turns, UNCHANGED rows, NEW s, NEW l, Continue(t, s, l),
         Fits(s, l, rows["active"])
  PROVE  Tidy(t)
<1>1. rows'["active"] = rows["active"] BY ActiveMoves
<1>2. QED BY <1>1 DEF Tidy, TameStatement

LEMMA PlainOnward ==
  ASSUME IInv, NEW t \in Turns, UNCHANGED rows, NEW s \in Plain, NEW l,
         Sound(l.act), Continue(t, s, l)
  PROVE  Tidy(t)
BY PlainFits, OnwardTidy

LEMMA LoadedSound == ASSUME StrikeInv, NEW t \in Turns PROVE Sound(turn[t].act)
BY DEF StrikeInv, Fits

LEMMA EnteringTidy ==
  ASSUME IInv, StrikeInv, NEW t \in Turns, Entering(t)
  PROVE  Tidy(t) \/ UnforceModel(t)
<1> DEFINE a == rows["active"]
           l == turn[t]
<1>1. Sound(l.act) /\ Sound(Blank.act) BY LoadedSound, BlankSound
<1>2. Entries \cup {"idle"} \subseteq Plain BY DEF Entries, Plain, Stages, Judgeable
<1>3. {"breakHistory", "idle", "load", "budget", "pinEscalation", "recordEscalation"} \subseteq Plain
  BY DEF Plain, Stages, Judgeable
<1>4. CASE StartTurn(t) BY <1>1, <1>2, <1>4, PlainOnward DEF StartTurn, store
<1>5. CASE ForceModel(t)
  <2>1. PICK m \in Models, s \in {"idle"} \cup Entries :
          /\ SetRow("active", Upsert(a, PinWrite(m, PrimaryProvider(m), NoModel, NoProvider, "force")))
          /\ Continue(t, s, Blank)
    BY <1>5 DEF ForceModel
  <2> DEFINE w == PinWrite(m, PrimaryProvider(m), NoModel, NoProvider, "force")
  <2>2. w \in SoundWrites
    BY PrimaryProviderServes, PinWriteSound, NamesAssumption DEF Reasons
  <2>3. rows'["active"] = Upsert(a, w) BY <2>1, ActiveMoves
  <2>4. TameStatement(a, rows'["active"]) BY <2>2, <2>3 DEF TameStatement
  <2>5. Fits(s, Blank, rows'["active"]) BY <1>1, <1>2, PlainFits
  <2>6. QED BY <2>1, <2>4, <2>5 DEF Tidy
<1>6. CASE BreakActive(t)
  <2>1. \A b : Fits("breakHistory", l, b) BY <1>1, <1>3, PlainFits
  <2>2. QED BY <1>6, <2>1, ExpireTidy DEF BreakActive, Roles
<1>7. CASE BreakHistory(t)
  <2>1. \A b : Fits("idle", l, b) BY <1>1, <1>3, PlainFits
  <2>2. QED BY <1>7, <2>1, ExpireTidy DEF BreakHistory, Roles
<1>8. CASE EscalateRead(t)
  <2>1. CASE a.reason = "loop"
    <3>1. Continue(t, "load", Blank) BY <1>8, <2>1 DEF EscalateRead
    <3>2. QED BY <1>1, <1>3, <1>8, <3>1, PlainOnward DEF EscalateRead, store
  <2>2. CASE a.reason # "loop"
    <3>1. PICK requested \in Models :
            Continue(t, "budget",
              [Blank EXCEPT !.reason = a.reason,
                            !.model = IF a.model # NoModel THEN a.model ELSE requested])
      BY <1>8, <2>2 DEF EscalateRead
    <3> DEFINE m == IF a.model # NoModel THEN a.model ELSE requested
               k == [Blank EXCEPT !.reason = a.reason, !.model = m]
    <3>2. k.act = Blank.act BY DEF Blank
    <3>3. Continue(t, "budget", k) BY <3>1
    <3> HIDE DEF k
    <3>4. QED BY <1>1, <1>3, <1>8, <3>2, <3>3, PlainOnward DEF EscalateRead, store
  <2>3. QED BY <2>1, <2>2
<1>9. CASE EscalateBudget(t)
  <2>1. \E s \in Plain, k \in {l, Blank} : Continue(t, s, k)
    BY <1>3, <1>9 DEF EscalateBudget
  <2>2. QED BY <1>1, <1>9, <2>1, PlainOnward DEF EscalateBudget, store
<1>10. CASE PinEscalation(t)
  <2> DEFINE w == PinWrite(EscalateModel, Anthropic, NoModel, NoProvider, "loop")
  <2>1. w \in SoundWrites
    BY TurnsAssumption, PinWriteSound, NamesAssumption DEF Reasons
  <2>2. rows'["active"] = Upsert(a, w) BY <1>10, ActiveMoves DEF PinEscalation
  <2>3. TameStatement(a, rows'["active"]) BY <2>1, <2>2 DEF TameStatement
  <2>4. Fits("recordEscalation", l, rows'["active"]) BY <1>1, <1>3, PlainFits
  <2>5. QED BY <1>10, <2>3, <2>4 DEF PinEscalation, Tidy
<1>11. CASE RecordEscalation(t) BY <1>1, <1>3, <1>11, PlainOnward DEF RecordEscalation
<1>12. QED
  BY <1>4, <1>5, <1>6, <1>7, <1>8, <1>9, <1>10, <1>11 DEF Entering

\* A decision that writes no pin: sticky on the history row, or not sticky.
LEMMA UnpinnedTidy ==
  ASSUME IInv, NEW t \in Turns, UNCHANGED rows, NEW m, NEW p, NEW why, NEW sticky,
         NEW role, NEW isHmm, ~sticky \/ role = "history",
         Continue(t, "routed", Decide(turn[t], m, p, why, sticky, role, isHmm))
  PROVE  Tidy(t)
<1> DEFINE l == Decide(turn[t], m, p, why, sticky, role, isHmm)
<1>1. l.act = EmptyRow /\ l.sticky = sticky /\ l.role = role
  BY LocalFacts DEF Decide, Locals
<1>2. Sound(EmptyRow) BY BlankSound, BlankDistinct
<1>3. Continue(t, "routed", l) OBVIOUS
<1> HIDE DEF l
<1>4. Fits("routed", l, rows["active"]) BY <1>1, <1>2 DEF Fits
<1>5. QED BY <1>3, <1>4, OnwardTidy

\* A decision written as the active pin.
LEMMA PinnedTidy ==
  ASSUME IInv, NEW t \in Turns, NEW w \in SoundWrites, w.model # NoModel,
         SetRow("active", Upsert(rows["active"], w)),
         NEW m, NEW p, NEW why, NEW sticky, NEW role, NEW isHmm,
         Continue(t, "routed", Decide(turn[t], m, p, why, sticky, role, isHmm))
  PROVE  Tidy(t)
<1> DEFINE l == Decide(turn[t], m, p, why, sticky, role, isHmm)
           b == rows'["active"]
<1>1. l.act = EmptyRow BY LocalFacts DEF Decide, Locals
<1>2. Sound(EmptyRow) BY BlankSound, BlankDistinct
<1>3. Continue(t, "routed", l) OBVIOUS
<1>4. b = Upsert(rows["active"], w) BY ActiveMoves
<1>5. rows["active"] \in Row BY DEF IInv, TypeOK, Roles
<1>6. b.model = w.model BY <1>4, <1>5 DEF Upsert, Row
<1>7. TameStatement(rows["active"], b) BY <1>4 DEF TameStatement
<1> HIDE DEF l
<1>8. Fits("routed", l, b) BY <1>1, <1>2, <1>6 DEF Fits
<1>9. QED BY <1>3, <1>7, <1>8 DEF Tidy

LEMMA PinWriteModel ==
  ASSUME NEW m, NEW p, NEW pm, NEW pp, NEW why
  PROVE  PinWrite(m, p, pm, pp, why).model = m
BY DEF PinWrite

LEMMA RoutingTidy ==
  ASSUME IInv, StrikeInv, NEW t \in Turns, Routing(t)
  PROVE  Tidy(t)
<1> DEFINE a == rows["active"]
           l == turn[t]
           pin == turn[t].act
           w == PinWrite(pin.model, pin.provider, pin.pairModel, pin.pairProvider, pin.reason)
<1>1. l \in Locals /\ pin \in Row /\ Sound(pin) BY LocalFacts, LoadedSound DEF Locals
<1>2. Sound(Blank.act) BY BlankSound
<1>3. {"idle", "load", "loadHistory", "route"} \subseteq Plain
  BY DEF Plain, Stages, Judgeable
<1>4. ASSUME pin.model # NoModel PROVE w \in SoundWrites /\ w.model # NoModel
  <2>1. pin.reason # "evicted" BY <1>1, <1>4 DEF Sound
  <2>2. /\ pin.model \in Models \cup {NoModel} /\ pin.provider \in Providers \cup {NoProvider}
        /\ pin.pairModel \in Models \cup {NoModel}
        /\ pin.pairProvider \in Providers \cup {NoProvider} /\ pin.reason \in Reasons
    BY <1>1 DEF Row
  <2> HIDE DEF pin
  <2>3. w \in SoundWrites BY <1>4, <2>1, <2>2, PinWriteSound
  <2>4. w.model = pin.model BY DEF PinWrite
  <2>5. QED BY <1>4, <2>3, <2>4
<1>5. CASE LoadActive(t)
  <2> DEFINE struck == IF l.bypassed THEN l.struck ELSE a.disabled \cup rows["history"].disabled
             k == [l EXCEPT !.act = a, !.seen = answered, !.struck = struck]
  <2>1. Continue(t, "loadHistory", k) BY <1>5 DEF LoadActive
  <2>2. k.act = a BY <1>1, Zenon DEF Locals
  <2>3. Sound(a) BY DEF StrikeInv
  <2> HIDE DEF k
  <2>4. QED BY <1>3, <1>5, <2>1, <2>2, <2>3, PlainOnward DEF LoadActive, store
<1>6. CASE LoadHistory(t)
  <2>1. \E k : Continue(t, "route", k) /\ k.act = pin
    <3> DEFINE past == rows["history"]
               prior == PriorServed(pin, past)
               ever == EverSwitched(pin, past)
               disabled == IF l.bypassed THEN l.disabled ELSE Disabled(pin, past)
               k == [l EXCEPT !.past = past, !.prior = prior, !.ever = ever,
                              !.disabled = disabled]
    <3>1. Continue(t, "route", k) BY <1>6 DEF LoadHistory
    <3> HIDE DEF past, prior, ever, disabled
    <3>2. k.act = pin BY <1>1, Zenon DEF Locals
    <3> HIDE DEF k
    <3>3. QED BY <3>1, <3>2
  <2>2. QED BY <1>1, <1>3, <1>6, <2>1, PlainOnward DEF LoadHistory, store
<1>7. CASE RouteImmutable(t)
  <2>1. pin.model # NoModel BY <1>1, <1>7 DEF RouteImmutable, Sound
  <2>2. /\ SetRow("active", Upsert(a, w))
        /\ Continue(t, "routed", Decide(l, pin.model, pin.provider, pin.reason,
                                        TRUE, "active", FALSE))
    BY <1>7 DEF RouteImmutable
  <2> HIDE DEF w, pin, l
  <2>3. QED BY <1>4, <2>1, <2>2, PinnedTidy DEF l
<1>8. CASE RouteSticky(t)
  <2>1. pin.model # NoModel BY <1>1, <1>8 DEF RouteSticky, Kept, Sound
  <2>2. SetRow("active", Upsert(a, w)) BY <1>8 DEF RouteSticky
  <2>3. \E m, p : Continue(t, "routed", Decide(l, m, p, pin.reason, TRUE, "active",
                                               pin.reason = "hmm"))
    BY <1>8 DEF RouteSticky
  <2> HIDE DEF w, pin, l
  <2>4. QED BY <1>4, <2>1, <2>2, <2>3, PinnedTidy DEF l
<1>9. ASSUME NEW m \in Models, NEW p \in Providers \cup {NoProvider},
             NEW e, e[1] \in Models \cup {NoModel}, e[2] \in Providers \cup {NoProvider},
             NEW why \in Reasons \ {"evicted"}, NEW sticky, WriteNewPin(t, m, p, e, why, sticky)
      PROVE  Tidy(t)
  <2> DEFINE v == PinWrite(m, p, e[1], e[2], why)
  <2>1. v \in SoundWrites /\ v.model # NoModel
    BY <1>9, PinWriteSound, PinWriteModel, NamesAssumption
  <2>2. /\ SetRow("active", Upsert(a, v))
        /\ Continue(t, "routed", Decide(l, m, p, why, sticky, "active", why = "hmm"))
    BY <1>9 DEF WriteNewPin
  <2> HIDE DEF v, l
  <2>3. QED BY <2>1, <2>2, PinnedTidy DEF l
<1>10. CASE RouteFresh(t)
  <2>1. PICK f \in Fresh(l), why \in {"scorer", "hmm"} :
          WriteNewPin(t, f[1][1], f[1][2], f[2], why, FALSE)
    BY <1>10 DEF RouteFresh
  <2>2. /\ f[1][1] \in Models /\ f[1][2] \in Providers
        /\ f[2][1] \in Models \cup {NoModel} /\ f[2][2] \in Providers \cup {NoProvider}
    BY <1>1, FreshType
  <2>3. why \in Reasons \ {"evicted"} BY DEF Reasons
  <2>4. QED BY <1>9, <2>1, <2>2, <2>3
<1>11. CASE RouteReanchor(t)
  <2>1. WriteNewPin(t, pin.model, pin.provider, <<NoModel, NoProvider>>, pin.reason, TRUE)
    BY <1>11 DEF RouteReanchor
  <2>2. pin.model # NoModel BY <1>11 DEF RouteReanchor
  <2>3. pin.reason # "evicted" BY <1>1, <2>2 DEF Sound
  <2>4. /\ pin.model \in Models /\ pin.provider \in Providers \cup {NoProvider}
        /\ pin.reason \in Reasons \ {"evicted"}
    BY <1>1, <2>2, <2>3 DEF Row
  <2> HIDE DEF pin
  <2>5. QED BY <1>9, <2>1, <2>4
<1>12. CASE RouteHmm(t)
  <2>1. \E m, p, why, sticky, role :
          /\ ~sticky \/ role = "history"
          /\ Continue(t, "routed", Decide(l, m, p, why, sticky, role, TRUE))
    <3>1. PICK f \in Fresh(l), passes \in BOOLEAN :
            \/ Continue(t, "routed", Decide(l, f[1][1], f[1][2], "hmm", FALSE, "active", TRUE))
            \/ \E c \in HmmStay(l, passes) :
                 Continue(t, "routed", Decide(l, c.model, c.provider, c.reason,
                                              TRUE, "history", TRUE))
      BY <1>12 DEF RouteHmm, Passes
    <3> HIDE DEF l
    <3>2. QED BY <3>1
  <2>2. UNCHANGED rows BY <1>12 DEF RouteHmm, store
  <2> HIDE DEF l
  <2>3. QED BY <2>1, <2>2, UnpinnedTidy DEF l
<1>13. CASE RouteFails(t) BY <1>2, <1>3, <1>13, PlainOnward DEF RouteFails, store
<1>14. CASE BypassServed(t) BY <1>2, <1>3, <1>14, PlainOnward DEF BypassServed, store
<1>15. CASE BypassFailed(t)
  <2> DEFINE k == [l EXCEPT !.bypassed = TRUE]
  <2>1. k.act = pin BY <1>1 DEF Locals
  <2>2. Continue(t, "load", k) BY <1>15 DEF BypassFailed
  <2> HIDE DEF k
  <2>3. QED BY <1>1, <1>3, <1>15, <2>1, <2>2, PlainOnward DEF BypassFailed, store
<1>16. CASE RouteBypassed(t)
  <2>1. \E m, p, why, isHmm :
          Continue(t, "routed", Decide(l, m, p, why, FALSE, "active", isHmm))
    BY <1>16 DEF RouteBypassed
  <2>2. UNCHANGED rows BY <1>16 DEF RouteBypassed, store
  <2> HIDE DEF l
  <2>3. QED BY <2>1, <2>2, UnpinnedTidy DEF l
<1>17. QED
  BY <1>5, <1>6, <1>7, <1>8, <1>10, <1>11, <1>12, <1>13, <1>14, <1>15, <1>16 DEF Routing

LEMMA ServingTidy ==
  ASSUME IInv, StrikeInv, NEW t \in Turns, Serving(t)
  PROVE  Tidy(t)
<1> DEFINE a == rows["active"]
           l == turn[t]
<1>1. l \in Locals /\ Sound(l.act) /\ a \in Row
  BY LocalFacts, LoadedSound DEF IInv, TypeOK, Roles
<1>2. Fits(stage[t], l, a) BY DEF StrikeInv
<1>3. {"idle", "break"} \subseteq Plain BY DEF Plain, Stages, Judgeable
<1>4. CASE NoProgressRead(t) \/ TextRepetition(t)
  <2>1. \E s \in Plain : Continue(t, s, Blank)
    BY <1>3, <1>4 DEF NoProgressRead, TextRepetition
  <2>2. UNCHANGED rows BY <1>4 DEF NoProgressRead, TextRepetition, store
  <2>3. QED BY <2>1, <2>2, BlankSound, PlainOnward
<1>5. ASSUME NEW m, NEW p, NEW b, NEW e, UNCHANGED rows, At(t, "routed"),
             Continue(t, AfterDispatch(Ended(l, m, p, b, e)), Ended(l, m, p, b, e))
      PROVE  Tidy(t)
  <2> DEFINE k == Ended(l, m, p, b, e)
  <2>1. k.act = l.act /\ k.sticky = l.sticky /\ k.role = l.role
    BY <1>1, Zenon DEF Ended, Locals
  <2>2. l.sticky /\ l.role = "active" => (a.exists => a.model # NoModel)
    BY <1>2, <1>5 DEF At, Fits, Judgeable
  <2>3. Continue(t, AfterDispatch(k), k) BY <1>5
  <2> HIDE DEF k
  <2>4. Fits(AfterDispatch(k), k, a) BY <1>1, <2>1, <2>2, AfterFits
  <2>5. QED BY <1>5, <2>3, <2>4, OnwardTidy
<1>6. CASE Dispatch(t)
  <2>1. \E m, p, b, e :
          Continue(t, AfterDispatch(Ended(l, m, p, b, e)), Ended(l, m, p, b, e))
    <3>1. PICK s \in ServedBy(l), e \in Endings :
            LET k == Ended(l, s[1], s[2], s[3], e) IN Continue(t, AfterDispatch(k), k)
      BY <1>6, Zenon DEF Dispatch
    <3> HIDE DEF l
    <3>2. QED BY <3>1
  <2>2. UNCHANGED rows /\ At(t, "routed") BY <1>6 DEF Dispatch, store
  <2>3. QED BY <1>5, <2>1, <2>2
<1>7. CASE DispatchUnbound(t)
  <2> DEFINE e == [out |-> "other", tokens |-> FALSE, refused |-> FALSE, poor |-> FALSE]
  <2>1. Continue(t, AfterDispatch(Ended(l, l.model, l.provider, FALSE, e)),
                 Ended(l, l.model, l.provider, FALSE, e))
    BY <1>7 DEF DispatchUnbound
  <2>2. UNCHANGED rows /\ At(t, "routed") BY <1>7 DEF DispatchUnbound, store
  <2> HIDE DEF e
  <2>3. QED BY <1>5, <2>1, <2>2
\* a usage writeback changes neither the model nor whether the row exists
<1>8. ASSUME NEW k, Sound(k.act), k.sticky = l.sticky, k.role = l.role, k.out = l.out,
             At(t, "usage") \/ At(t, "usageHistory"),
             \/ rows'["active"] = a
             \/ \E served, by, prior, ever, now :
                  rows'["active"] = UpdateUsage(a, served, by, prior, ever, now),
             NEW s \in {AfterUsage(l), AfterUsage(k), "usageHistory"}, AfterUsage(k) = AfterUsage(l),
             Continue(t, s, k)
      PROVE  Tidy(t)
  <2>1. rows'["active"].exists = a.exists /\ rows'["active"].model = a.model
    BY <1>1, <1>8 DEF UpdateUsage, Row
  <2>2. l.sticky /\ l.role = "active" /\ l.out # "ok" => (a.exists => a.model # NoModel)
    BY <1>2, <1>8 DEF At, Fits, Judgeable
  <2>3. Fits(AfterUsage(k), k, rows'["active"]) BY <1>8, <2>1, <2>2, AfterFits
  <2>4. Fits("usageHistory", k, rows'["active"]) BY <1>8, <2>1, <2>2 DEF Fits
  <2>5. TameStatement(a, rows'["active"]) BY <1>8 DEF TameStatement
  <2>6. QED BY <1>8, <2>3, <2>4, <2>5 DEF Tidy
<1>9. CASE RecordUsage(t)
  <2>1. rows'["active"] = UpdateUsage(a, l.model, l.provider, l.prior, l.ever, clock')
    BY <1>9, ActiveMoves DEF RecordUsage
  <2>2. At(t, "usage") /\ Continue(t, AfterUsage(l), l) BY <1>9 DEF RecordUsage
  <2> HIDE DEF l, a
  <2>3. QED BY <1>1, <1>8, <2>1, <2>2
<1>10. CASE ReadHistory(t)
  <2> DEFINE k == [l EXCEPT !.past = rows["history"]]
  <2>1. /\ k.act = l.act /\ k.sticky = l.sticky /\ k.role = l.role /\ k.out = l.out
        /\ k.model = l.model
    BY <1>1, Zenon DEF Locals
  <2>2. Continue(t, "usage", k) /\ UNCHANGED rows BY <1>10 DEF ReadHistory, store
  <2>3. l.sticky /\ l.role = "active" /\ l.out # "ok" => (a.exists => a.model # NoModel)
    BY <1>2, <1>10 DEF ReadHistory, At, Fits, Judgeable
  <2> HIDE DEF k
  <2>4. Fits("usage", k, a) BY <1>1, <2>1, <2>3 DEF Fits
  <2>5. QED BY <2>2, <2>4, OnwardTidy
<1>11. CASE TouchHistory(t)
  <2> DEFINE k == [l EXCEPT !.past = EmptyRow]
             s == IF l.tokens THEN "usageHistory" ELSE AfterUsage(l)
  <2>1. /\ k.act = l.act /\ k.sticky = l.sticky /\ k.role = l.role /\ k.out = l.out
        /\ k.reason = l.reason /\ k.poor = l.poor /\ k.baseline = l.baseline
        /\ k.refused = l.refused
    BY <1>1, Zenon DEF Locals
  <2>2. Continue(t, s, k) BY <1>11 DEF TouchHistory
  <2>3. rows'["active"] = a BY <1>11, ActiveMoves DEF TouchHistory
  <2>4. At(t, "usage") BY <1>11 DEF TouchHistory
  <2>5. s \in {AfterUsage(l), "usageHistory"} OBVIOUS
  <2> HIDE DEF k, s
  <2>6. AfterUsage(k) = AfterUsage(l)
    BY <2>1 DEF AfterUsage, AfterDegenerate, AfterStrike, AfterOverload, Judged
  <2> HIDE DEF l, a
  <2>7. QED BY <1>1, <1>8, <2>1, <2>2, <2>3, <2>4, <2>5, <2>6
<1>12. CASE RecordHistoryUsage(t)
  <2>1. rows'["active"] = a BY <1>12, ActiveMoves DEF RecordHistoryUsage
  <2>2. At(t, "usageHistory") /\ Continue(t, AfterUsage(l), l)
    BY <1>12 DEF RecordHistoryUsage
  <2> HIDE DEF l, a
  <2>3. QED BY <1>1, <1>8, <2>1, <2>2
<1>13. QED BY <1>4, <1>6, <1>7, <1>9, <1>10, <1>11, <1>12 DEF Serving

\* A strike against the active row: the second one leads to its eviction.
LEMMA CountStrikeKeeps ==
  ASSUME IInv, OneAtATime, StrikeInv, NEW t \in Turns, CountStrike(t)
  PROVE  StrikeInv'
<1> DEFINE a == rows["active"]
           b == rows'["active"]
           l == turn[t]
           after == IF l.out = "ok" THEN ResetUpstreamErrors(rows[l.role])
                    ELSE IncrementUpstreamErrors(rows[l.role])
           next == IF l.out = "e4xx" /\ after.upErr >= StrikeThreshold
                   THEN "evict" ELSE AfterStrike(l)
<1>1. /\ l \in Locals /\ Sound(l.act) /\ a \in Row /\ l.role \in Roles
      /\ Sound(a) /\ Clean(a)
  BY LocalFacts, LoadedSound, RoleFacts DEF IInv, TypeOK, Roles, StrikeInv
<1>2. stage[t] = "strike" BY DEF CountStrike, At
<1>3. Fits("strike", l, a) BY <1>2 DEF StrikeInv
<1>4. SetRow(l.role, after) /\ Continue(t, next, l) BY DEF CountStrike
<1>5. CASE l.role = "active" /\ l.out # "ok" /\ a.exists
  <2>1. \A u \in Turns : u = t BY DEF OneAtATime
  <2>2. l.out = "e4xx" /\ l.sticky BY <1>3, <1>5 DEF Fits
  <2>3. a.model # NoModel BY <1>3, <1>5, <2>2 DEF Fits, Judgeable
  <2>4. a.upErr < 2 /\ a.ovErr < 2 BY <1>2, <2>1 DEF StrikeInv
  <2>5. after = [a EXCEPT !.upErr = @ + 1] BY <1>5 DEF IncrementUpstreamErrors
  <2>6. b = after BY <1>4, <1>5, ActiveMoves
  <2>7. /\ b.exists /\ b.model = a.model /\ b.reason = a.reason /\ b.until = a.until
        /\ b.upErr = a.upErr + 1 /\ b.ovErr = a.ovErr
    BY <1>1, <1>5, <2>5, <2>6 DEF Row
  <2>8. Sound(b) /\ Clean(b) BY <1>1, <2>3, <2>7, <1>5 DEF Sound, Clean, Live
  <2>9. turn'[t] = (IF next = "idle" THEN Blank ELSE l) /\ stage'[t] = next
    BY <1>4 DEF Continue, IInv, TypeOK
  <2>10. CASE b.upErr >= 2
    <3>1. next = "evict" BY <2>2, <2>6, <2>10 DEF StrikeThreshold
    <3>2. Fits("evict", l, b) BY <1>1, <2>2 DEF Fits, Judgeable
    <3>3. stage'[t] = "evict" /\ turn'[t] = l BY <2>9, <3>1
    <3>4. b.ovErr < 2 BY <2>4, <2>7
    <3> HIDE DEF a, b, l, after, next
    <3>5. QED BY <1>5, <2>1, <2>8, <3>2, <3>3, <3>4 DEF StrikeInv, b
  <2>11. CASE ~(b.upErr >= 2)
    <3>1. next = AfterStrike(l) BY <2>6, <2>11 DEF StrikeThreshold
    <3>2. Fits(next, l, b) BY <1>1, <2>3, <2>7, <3>1, AfterFits
    <3>3. Fits(stage'[t], turn'[t], b)
      <4>1. CASE next = "idle"
        <5>1. "idle" \in Plain BY DEF Plain, Stages, Judgeable
        <5>2. QED BY <2>9, <4>1, <5>1, BlankSound, PlainFits
      <4>2. CASE next # "idle" BY <2>9, <3>2, <4>2
      <4>3. QED BY <4>1, <4>2
    <3>4. b.ovErr < 2 BY <2>4, <2>7
    <3>5. b.upErr < 2 BY <1>1, <2>7, <2>11 DEF Row
    <3> HIDE DEF a, b, l, after, next
    <3>6. QED BY <2>1, <2>8, <3>3, <3>4, <3>5 DEF StrikeInv, b
  <2>12. QED BY <2>10, <2>11
<1>6. CASE ~(l.role = "active" /\ l.out # "ok" /\ a.exists)
  <2>1. TameStatement(a, b) /\ b.exists = a.exists /\ b.model = a.model
    <3>1. CASE l.role = "history"
      <4>1. b = a BY <1>4, <3>1, ActiveMoves
      <4>2. QED BY <4>1 DEF TameStatement
    <3>2. CASE l.role = "active" /\ l.out = "ok"
      <4>1. b = ResetUpstreamErrors(a) BY <1>4, <3>2, ActiveMoves
      <4>2. b.exists = a.exists /\ b.model = a.model
        BY <1>1, <4>1 DEF ResetUpstreamErrors, Row
      <4>3. QED BY <4>1, <4>2 DEF TameStatement
    <3>3. CASE l.role = "active" /\ ~a.exists /\ l.out # "ok"
      <4>1. b = a BY <1>4, <3>3, ActiveMoves DEF IncrementUpstreamErrors
      <4>2. QED BY <4>1 DEF TameStatement
    <3>4. QED BY <1>1, <1>6, <3>1, <3>2, <3>3 DEF Roles
  <2>2. l.sticky /\ l.role = "active" /\ l.out # "ok" => (a.exists => a.model # NoModel)
    BY <1>3 DEF Fits, Judgeable
  <2>3. Fits(AfterStrike(l), l, b) BY <1>1, <2>1, <2>2, AfterFits
  <2>4. Fits(next, l, b)
    <3>1. CASE next = "evict" /\ l.out = "e4xx" BY <1>1, <3>1 DEF Fits, Judgeable
    <3>2. CASE next = AfterStrike(l) BY <2>3, <3>2
    <3>3. QED BY <3>1, <3>2
  <2>5. Tidy(t) BY <1>4, <2>1, <2>4 DEF Tidy
  <2>6. QED BY <1>2, <2>5, TidyKeeps
<1>7. QED BY <1>5, <1>6

\* The same for an overload.
LEMMA CountOverloadKeeps ==
  ASSUME IInv, OneAtATime, StrikeInv, NEW t \in Turns, CountOverload(t)
  PROVE  StrikeInv'
<1> DEFINE a == rows["active"]
           b == rows'["active"]
           l == turn[t]
           after == IF l.out = "ok" THEN ResetOverloadErrors(rows[l.role])
                    ELSE IncrementOverloadErrors(rows[l.role])
           next == IF l.out = "e529" /\ after.ovErr >= OverloadThreshold
                   THEN "disable" ELSE AfterOverload(l)
<1>1. /\ l \in Locals /\ Sound(l.act) /\ a \in Row /\ l.role \in Roles
      /\ Sound(a) /\ Clean(a)
  BY LocalFacts, LoadedSound, RoleFacts DEF IInv, TypeOK, Roles, StrikeInv
<1>2. stage[t] = "overload" BY DEF CountOverload, At
<1>3. Fits("overload", l, a) BY <1>2 DEF StrikeInv
<1>4. SetRow(l.role, after) /\ Continue(t, next, l) BY DEF CountOverload
<1>5. {"disable", "refusal", "idle"} \subseteq Plain BY DEF Plain, Stages, Judgeable
<1>6. next \in {"disable", "refusal", "idle"} BY DEF AfterOverload
<1>7. Fits(next, l, b) BY <1>1, <1>5, <1>6, PlainFits
<1>8. CASE l.role = "active" /\ l.out # "ok" /\ a.exists
  <2>1. \A u \in Turns : u = t BY DEF OneAtATime
  <2>2. l.out = "e529" /\ l.sticky BY <1>3, <1>8 DEF Fits
  <2>3. a.model # NoModel BY <1>3, <1>8, <2>2 DEF Fits, Judgeable
  <2>4. a.upErr < 2 /\ a.ovErr < 2 BY <1>2, <2>1 DEF StrikeInv
  <2>5. after = [a EXCEPT !.ovErr = @ + 1] BY <1>8 DEF IncrementOverloadErrors
  <2>6. b = after BY <1>4, <1>8, ActiveMoves
  <2>7. /\ b.exists /\ b.model = a.model /\ b.reason = a.reason /\ b.until = a.until
        /\ b.upErr = a.upErr /\ b.ovErr = a.ovErr + 1
    BY <1>1, <1>8, <2>5, <2>6 DEF Row
  <2>8. Sound(b) /\ Clean(b) BY <1>1, <2>3, <2>7, <1>8 DEF Sound, Clean, Live
  <2>9. turn'[t] = (IF next = "idle" THEN Blank ELSE l) /\ stage'[t] = next
    BY <1>4 DEF Continue, IInv, TypeOK
  <2>10. Fits(stage'[t], turn'[t], b)
    BY <1>5, <1>7, <2>9, BlankSound, PlainFits
  <2>11. b.ovErr < 2 \/ (stage'[t] = "disable" /\ turn'[t].role = "active")
    <3>1. CASE b.ovErr >= 2
      <4>1. next = "disable" BY <2>2, <2>6, <3>1 DEF OverloadThreshold
      <4>2. QED BY <1>8, <2>9, <4>1
    <3>2. CASE ~(b.ovErr >= 2) BY <1>1, <2>7, <3>2 DEF Row
    <3>3. QED BY <3>1, <3>2
  <2>12. b.upErr < 2 BY <2>4, <2>7
  <2> HIDE DEF a, b, l, after, next
  <2>13. QED BY <2>1, <2>8, <2>10, <2>11, <2>12 DEF StrikeInv, b
<1>9. CASE ~(l.role = "active" /\ l.out # "ok" /\ a.exists)
  <2>1. TameStatement(a, b)
    <3>1. CASE l.role = "history"
      <4>1. b = a BY <1>4, <3>1, ActiveMoves
      <4>2. QED BY <4>1 DEF TameStatement
    <3>2. CASE l.role = "active" /\ l.out = "ok"
      <4>1. b = ResetOverloadErrors(a) BY <1>4, <3>2, ActiveMoves
      <4>2. QED BY <4>1 DEF TameStatement
    <3>3. CASE l.role = "active" /\ ~a.exists /\ l.out # "ok"
      <4>1. b = a BY <1>4, <3>3, ActiveMoves DEF IncrementOverloadErrors
      <4>2. QED BY <4>1 DEF TameStatement
    <3>4. QED BY <1>1, <1>9, <3>1, <3>2, <3>3 DEF Roles
  <2>2. Tidy(t) BY <1>4, <1>7, <2>1 DEF Tidy
  <2>3. QED BY <1>2, <2>2, TidyKeeps
<1>10. QED BY <1>8, <1>9

LEMMA JudgingKeeps ==
  ASSUME IInv, OneAtATime, StrikeInv, NEW t \in Turns, Judging(t)
  PROVE  StrikeInv'
<1> DEFINE a == rows["active"]
           b == rows'["active"]
           l == turn[t]
<1>1. /\ l \in Locals /\ Sound(l.act) /\ a \in Row /\ l.role \in Roles
      /\ Sound(a) /\ Clean(a)
  BY LocalFacts, LoadedSound, RoleFacts DEF IInv, TypeOK, Roles, StrikeInv
<1>2. Fits(stage[t], l, a) BY DEF StrikeInv
<1>3. {"idle", "refusal", "overloadActive", "overloadHistory", "disable"} \subseteq Plain
  BY DEF Plain, Stages, Judgeable
<1>4. "active" \in Roles /\ "history" \in Roles BY DEF Roles
<1>5. CASE EvictDegenerate(t)
  <2>1. stage[t] = "degenerate" BY <1>5 DEF EvictDegenerate, At
  <2>2. l.out = "ok" BY <1>2, <2>1 DEF Fits
  <2>3. \A c : Fits(AfterDegenerate(l), l, c) BY <1>1, <2>2, AfterFits
  <2>4. Tidy(t) BY <1>1, <1>5, <2>3, ExpireTidy DEF EvictDegenerate
  <2>5. QED BY <2>1, <2>4, TidyKeeps
<1>6. CASE EvictStruck(t)
  <2>1. stage[t] = "evict" BY <1>6 DEF EvictStruck, At
  <2>2. l.out = "e4xx" BY <1>2, <2>1 DEF Fits
  <2>3. AfterStrike(l) \in Plain BY <1>3, <2>2 DEF AfterStrike, AfterOverload
  <2>4. \A c : Fits(AfterStrike(l), l, c) BY <1>1, <2>3, PlainFits
  <2>5. Tidy(t) /\ (l.role = "active" => b.upErr = 0 /\ b.ovErr = 0)
    BY <1>1, <1>6, <2>4, ExpireTidy DEF EvictStruck
  <2>6. QED BY <2>1, <2>5, TidyKeeps
<1>7. CASE DisableOverloaded(t)
  <2> DEFINE after == DisableProvider(rows[l.role], l.provider)
  <2>1. /\ stage[t] = "disable" /\ SetRow(l.role, after) /\ Continue(t, "overloadActive", l)
    BY <1>7 DEF DisableOverloaded, At
  <2>2. Fits("overloadActive", l, b) BY <1>1, <1>3, PlainFits
  <2>3. CASE l.role = "active"
    <3>1. b = DisableProvider(a, l.provider) BY <2>1, <2>3, ActiveMoves
    <3>2. b.ovErr = 0 BY <1>1, <3>1 DEF DisableProvider, Row, Clean
    <3>3. TameStatement(a, b) BY <3>1 DEF TameStatement
    <3>4. Tidy(t) BY <2>1, <2>2, <3>3 DEF Tidy
    <3>5. QED BY <2>1, <3>2, <3>4, TidyKeeps
  <2>4. CASE l.role = "history"
    <3>1. b = a BY <2>1, <2>4, ActiveMoves
    <3>2. TameStatement(a, b) BY <3>1 DEF TameStatement
    <3>3. Tidy(t) BY <2>1, <2>2, <3>2 DEF Tidy
    <3>4. QED BY <2>1, <2>4, <3>3, TidyKeeps
  <2>5. QED BY <1>1, <2>3, <2>4 DEF Roles
<1>8. CASE OverloadActive(t)
  <2>1. \A c : Fits("overloadHistory", l, c) BY <1>1, <1>3, PlainFits
  <2>2. Tidy(t) BY <1>4, <1>8, <2>1, ExpireTidy DEF OverloadActive
  <2>3. stage[t] = "overloadActive" BY <1>8 DEF OverloadActive, At
  <2>4. QED BY <2>2, <2>3, TidyKeeps
<1>9. CASE OverloadHistory(t)
  <2>1. AfterOverload(l) \in Plain BY <1>3 DEF AfterOverload
  <2>2. \A c : Fits(AfterOverload(l), l, c) BY <1>1, <2>1, PlainFits
  <2>3. Tidy(t) BY <1>4, <1>9, <2>2, ExpireTidy DEF OverloadHistory
  <2>4. stage[t] = "overloadHistory" BY <1>9 DEF OverloadHistory, At
  <2>5. QED BY <2>3, <2>4, TidyKeeps
<1>10. CASE RefusalRead(t)
  <2> DEFINE row == rows[l.role]
             m == IF row.pairModel # NoModel THEN row.pairModel ELSE RefusalFallback
             p == IF row.pairModel # NoModel THEN row.pairProvider
                  ELSE PrimaryProvider(RefusalFallback)
             k == [l EXCEPT !.model = m, !.provider = p]
             next == IF m = l.model THEN "idle" ELSE "repin"
  <2>1. Continue(t, next, k) /\ UNCHANGED rows /\ stage[t] = "refusal"
    BY <1>10 DEF RefusalRead, store, At
  <2>2. m # NoModel BY TurnsAssumption, NamesAssumption
  <2> HIDE DEF m, p
  <2>3. k.act = l.act /\ k.model = m BY <1>1, Zenon DEF Locals
  <2> HIDE DEF k
  <2>4. Fits(next, k, a) BY <1>1, <2>2, <2>3 DEF Fits, Judgeable
  <2> HIDE DEF next
  <2>5. Tidy(t) BY <2>1, <2>4, OnwardTidy
  <2>6. QED BY <2>1, <2>5, TidyKeeps
<1>11. CASE RefusalRepin(t)
  <2> DEFINE w == PinWrite(l.model, l.provider, NoModel, NoProvider, "refusal")
  <2>1. stage[t] = "repin" BY <1>11 DEF RefusalRepin, At
  <2>2. l.model # NoModel BY <1>2, <2>1 DEF Fits
  <2>3. /\ l.model \in Models \cup {NoModel} /\ l.provider \in Providers \cup {NoProvider}
    BY <1>1 DEF Locals
  <2>4. w \in SoundWrites BY <2>2, <2>3, PinWriteSound DEF Reasons
  <2>5. SetRow(l.role, Upsert(rows[l.role], w)) /\ Continue(t, "idle", Blank)
    BY <1>11 DEF RefusalRepin
  <2>6. TameStatement(a, b)
    <3>1. CASE l.role = "active"
      <4>1. b = Upsert(a, w) BY <2>5, <3>1, ActiveMoves
      <4>2. QED BY <2>4, <4>1 DEF TameStatement
    <3>2. CASE l.role = "history"
      <4>1. b = a BY <2>5, <3>2, ActiveMoves
      <4>2. QED BY <4>1 DEF TameStatement
    <3>3. QED BY <1>1, <3>1, <3>2 DEF Roles
  <2>7. Fits("idle", Blank, b) BY <1>3, BlankSound, PlainFits
  <2>8. Tidy(t) BY <2>5, <2>6, <2>7 DEF Tidy
  <2>9. QED BY <2>1, <2>8, TidyKeeps
<1>12. QED
  BY <1>5, <1>6, <1>7, <1>8, <1>9, <1>10, <1>11, CountStrikeKeeps, CountOverloadKeeps
  DEF Judging

\* A change of the rows while every request stays where it is.
LEMMA StillKeeps ==
  ASSUME IInv, StrikeInv, UNCHANGED <<stage, turn>>,
         TameStatement(rows["active"], rows'["active"]),
         \/ \A t \in Turns : stage[t] = "idle"
         \/ rows'["active"].exists => rows["active"].exists
                                      /\ rows'["active"].model = rows["active"].model
  PROVE  StrikeInv'
<1> DEFINE a == rows["active"]
           b == rows'["active"]
<1>1. a \in Row BY DEF IInv, TypeOK, Roles
<1>2. Sound(b) /\ Clean(b) /\ b.upErr \in {0, a.upErr} /\ b.ovErr \in {0, a.ovErr}
  BY <1>1, TameKeeps DEF StrikeInv
<1>3. ASSUME NEW t \in Turns PROVE Fits(stage[t], turn[t], b)
  <2>1. Fits(stage[t], turn[t], a) BY DEF StrikeInv
  <2>2. CASE stage[t] = "idle" BY <2>1, <2>2 DEF Fits, Judgeable
  <2>3. CASE b.exists => a.exists /\ b.model = a.model BY <2>1, <2>3 DEF Fits
  <2>4. QED BY <2>2, <2>3
<1>4. QED BY <1>2, <1>3 DEF StrikeInv

LEMMA StrikeKept ==
  ASSUME IInv, OneAtATime, ~May("crash"), StrikeInv, [Next]_vars
  PROVE  StrikeInv'
<1>1. rows["active"] \in Row BY DEF IInv, TypeOK, Roles
<1>2. ASSUME NEW t \in Turns, UnforceModel(t) PROVE StrikeInv'
  <2>1. stage[t] = "idle" BY <1>2 DEF UnforceModel, Begin, At
  <2>2. \A u \in Turns : stage[u] = "idle" BY <2>1 DEF OneAtATime
  <2>3. rows'["active"] = Upsert(rows["active"], ExpiredPin)
    BY <1>2, ActiveMoves DEF UnforceModel
  <2>4. TameStatement(rows["active"], rows'["active"])
    BY <2>3, ExpiredPinSound DEF TameStatement
  <2>5. QED BY <1>2, <2>2, <2>4, StillKeeps DEF UnforceModel
<1>3. ASSUME NEW t \in Turns, Entering(t) PROVE StrikeInv'
  <2>1. CASE UnforceModel(t) BY <1>2, <2>1
  <2>2. CASE ~UnforceModel(t)
    <3>1. stage[t] \notin {"evict", "disable"}
      BY <1>3, <2>2
      DEF Entering, StartTurn, ForceModel, Begin, BreakActive, BreakHistory, EscalateRead,
          EscalateBudget, PinEscalation, RecordEscalation, At
    <3>2. QED BY <1>3, <2>2, <3>1, EnteringTidy, TidyKeeps
  <2>3. QED BY <2>1, <2>2
<1>4. ASSUME NEW t \in Turns, Routing(t) PROVE StrikeInv'
  <2>1. stage[t] \in {"load", "loadHistory", "route"}
    BY <1>4 DEF Routing, LoadActive, LoadHistory, RouteImmutable, RouteSticky, RouteFresh,
                RouteReanchor, RouteHmm, RouteFails, BypassServed, BypassFailed,
                RouteBypassed, At
  <2>2. QED BY <1>4, <2>1, RoutingTidy, TidyKeeps
<1>5. ASSUME NEW t \in Turns, Serving(t) PROVE StrikeInv'
  <2>1. stage[t] \in {"routed", "usage", "usageHistory", "readHistory"}
    BY <1>5 DEF Serving, NoProgressRead, TextRepetition, Dispatch, DispatchUnbound,
                RecordUsage, ReadHistory, TouchHistory, RecordHistoryUsage, At
  <2>2. QED BY <1>5, <2>1, ServingTidy, TidyKeeps
<1>6. ASSUME NEW t \in Turns, Judging(t) PROVE StrikeInv' BY <1>6, JudgingKeeps
<1>7. ASSUME NEW r \in Roles, Lapse(r) PROVE StrikeInv'
  <2>1. CASE r = "active"
    <3>1. rows'["active"] = [rows["active"] EXCEPT !.until = "past"]
      BY <1>7, <2>1, ActiveMoves DEF Lapse
    <3>2. rows'["active"].exists = rows["active"].exists
          /\ rows'["active"].model = rows["active"].model
      BY <1>1, <3>1 DEF Row
    <3>3. QED BY <1>7, <3>1, <3>2, StillKeeps DEF Lapse, TameStatement
  <2>2. CASE r = "history"
    <3>1. rows'["active"] = rows["active"] BY <1>7, <2>2, ActiveMoves DEF Lapse
    <3>2. QED BY <1>7, <3>1, StillKeeps DEF Lapse, TameStatement
  <2>3. QED BY <2>1, <2>2 DEF Roles
<1>8. ASSUME NEW r \in Roles, Sweep(r) PROVE StrikeInv'
  <2>1. CASE r = "active"
    <3>1. rows'["active"] = EmptyRow BY <1>8, <2>1, ActiveMoves DEF Sweep
    <3>2. ~rows'["active"].exists BY <3>1 DEF EmptyRow
    <3>3. QED BY <1>8, <3>1, <3>2, StillKeeps DEF Sweep, TameStatement
  <2>2. CASE r = "history"
    <3>1. rows'["active"] = rows["active"] BY <1>8, <2>2, ActiveMoves DEF Sweep
    <3>2. QED BY <1>8, <3>1, StillKeeps DEF Sweep, TameStatement
  <2>3. QED BY <2>1, <2>2 DEF Roles
<1>9. CASE UNCHANGED vars
  BY <1>9, StillKeeps DEF vars, TameStatement
<1>10. ASSUME NEW t \in Turns, Crash(t) PROVE FALSE BY <1>10 DEF Crash
<1>11. QED BY <1>3, <1>4, <1>5, <1>6, <1>7, <1>8, <1>9, <1>10 DEF Next, Step

\* Between the requests of a session strikes are settled (pin_eviction.go,
\* provider_overload.go; session_pins.sql, reset on switch): whatever sequence
\* of requests, lapses and sweeps, no live pin has the strikes that evict it,
\* and an evicted one passes none on.  A replica that dies between the count
\* and the eviction, and requests in flight together, are the exceptions.
THEOREM StrikesAlwaysSettled ==
  ASSUME OneAtATime, ~May("crash")
  PROVE  Spec => []StrikesAreSettled
<1>1. IInv /\ StrikeInv /\ [Next]_vars => StrikeInv' BY StrikeKept
<1>2. IInv /\ StrikeInv => StrikesAreSettled
  <2> SUFFICES ASSUME IInv, StrikeInv, Quiet PROVE StrikesAreSettled BY DEF StrikesAreSettled
  <2>1. rows["active"].upErr < 2 /\ rows["active"].ovErr < 2
    BY DEF StrikeInv, Quiet, At
  <2>2. rows["active"].reason = "evicted" => rows["active"].upErr = 0 /\ rows["active"].ovErr = 0
    BY DEF StrikeInv, Sound, Clean
  <2>3. QED BY <2>1, <2>2 DEF StrikesAreSettled, StrikeThreshold, OverloadThreshold
<1>3. QED BY <1>1, <1>2, StrikeInit, Inductive, PTL DEF Spec

-----------------------------------------------------------------------------
(* Whose overloads strike a provider out, where only one can be blamed.    *)

\* Requests that follow one another, each model on one provider, and a request
\* served by the model of the pin: no swap, rescue, failed bypass or HMM stay.
OneToBlame ==
  /\ OneAtATime
  /\ \A m \in Models : \A p, q \in Bind[m] : p = q
  /\ "hmm" \notin Scorers
  /\ Features \cap {"bandSwap", "baseline", "bypassFails"} = {}

\* What a row pins can serve it, and a live row pins something.
Bound(row) ==
  /\ row.model # NoModel => row.provider \in Bindings(row.model)
  /\ row.pairModel # NoModel => row.pairProvider \in Bindings(row.pairModel)
  /\ Live(row) => row.model # NoModel

\* Each overload a row counts is one its model's provider ended a turn with.
Counted(a, o) ==
  /\ Bound(a)
  /\ a.model = NoModel \/ ~a.exists => a.ovErr = 0
  /\ \A p \in Bindings(a.model) : a.ovErr <= o[p]

\* The request is served by the pinned model, on the provider it is bound to.
Attached(l, a) == l.provider \in Bindings(l.model) /\ (a.exists => a.model = l.model)

\* An overload that the row has yet to count.
Owed(l, a, o) == l.out = "e529" => Attached(l, a) /\ (a.exists => a.ovErr < o[l.provider])

Steady(l) == l.role = "active" /\ ~l.bypassed /\ Bound(l.act)

\* What a request with locals l at stage s has, with active row a and overloads o.
Ours(s, l, a, o) ==
  /\ Steady(l)
  /\ s \in {"routed", "usage", "readHistory", "usageHistory"} => Attached(l, a)
  /\ s \in {"usage", "readHistory", "usageHistory", "overload"} => Owed(l, a, o)
  /\ s \in {"degenerate", "strike", "evict"} => l.out # "e529"
  /\ s = "overload" => l.out \in {"ok", "e529"}
  /\ s = "disable" => l.provider \in Providers /\ o[l.provider] >= OverloadThreshold
  /\ s = "repin" => l.provider \in Bindings(l.model)

\* No overload is counted against a provider that did not have it.
BlameInv ==
  /\ Counted(rows["active"], overloads)
  /\ \A t \in Turns : Ours(stage[t], turn[t], rows["active"], overloads)
  /\ \A r \in Roles : \A p \in rows[r].disabled :
       p \in Providers /\ overloads[p] >= OverloadThreshold

LEMMA BoundFacts ==
  /\ Bindings(NoModel) = {}
  /\ \A m : Bindings(m) \subseteq Providers
  /\ \A m \in Models : Bindings(m) = Bind[m] /\ PrimaryProvider(m) \in Bindings(m)
<1>1. \A m \in Models : Bind[m] \subseteq Providers BY TurnsAssumption
<1>2. QED BY <1>1, PrimaryProviderServes, NamesAssumption DEF Bindings

LEMMA EmptyBound == Bound(EmptyRow) /\ Steady(Blank)
BY DEF EmptyRow, Bound, Live, Steady, Blank

LEMMA BlameInit == Init => BlameInv
<1> SUFFICES ASSUME Init PROVE BlameInv OBVIOUS
<1>1. \A r \in Roles : rows[r] = EmptyRow BY DEF Init
<1>2. \A p \in Providers : overloads[p] = 0 BY DEF Init
<1>3. Counted(EmptyRow, overloads) BY EmptyBound, BoundFacts DEF Counted, EmptyRow
<1>4. ASSUME NEW t \in Turns PROVE Ours(stage[t], turn[t], EmptyRow, overloads)
  <2>1. stage[t] = "idle" /\ turn[t] = Blank BY <1>4 DEF Init
  <2>2. QED BY <2>1, EmptyBound DEF Ours
<1>5. \A r \in Roles : rows[r].disabled = {} BY <1>1 DEF EmptyRow
<1>6. QED BY <1>1, <1>3, <1>4, <1>5 DEF BlameInv, Roles

\* Stages at which the provider of a request does not matter.
Unblamed == Stages \ {"routed", "usage", "readHistory", "usageHistory", "overload",
                      "degenerate", "strike", "evict", "disable", "repin"}

LEMMA UnblamedOurs ==
  ASSUME NEW s \in Unblamed, NEW l, NEW a, NEW o, Steady(l)
  PROVE  Ours(s, l, a, o)
BY DEF Ours, Unblamed

\* Where the code goes after each write, an overload stays owed or is none.
LEMMA AfterOurs ==
  ASSUME NEW l, NEW a, NEW o, Steady(l), Owed(l, a, o)
  PROVE  /\ Ours(AfterOverload(l), l, a, o) /\ Ours(AfterStrike(l), l, a, o)
         /\ Ours(AfterDegenerate(l), l, a, o) /\ Ours(AfterUsage(l), l, a, o)
         /\ Attached(l, a) => Ours(AfterDispatch(l), l, a, o)
<1>1. Ours(AfterOverload(l), l, a, o) BY DEF AfterOverload, Ours
<1>2. Ours(AfterStrike(l), l, a, o) BY <1>1 DEF AfterStrike, Ours
<1>3. Ours(AfterDegenerate(l), l, a, o) BY <1>2 DEF AfterDegenerate, Ours
<1>4. Ours(AfterUsage(l), l, a, o) BY <1>3 DEF AfterUsage, Ours
<1>5. Attached(l, a) => Ours(AfterDispatch(l), l, a, o) BY <1>4 DEF AfterDispatch, Ours
<1>6. QED BY <1>1, <1>2, <1>3, <1>4, <1>5

\* The writes that keep a row bound, and the statements that count no overload.
BoundWrites ==
  {w \in PinWrites : /\ w.model # NoModel => w.provider \in Bindings(w.model)
                     /\ w.pairModel # NoModel => w.pairProvider \in Bindings(w.pairModel)
                     /\ w.until # "past" => w.model # NoModel}

FairStatement(a, b) ==
  \/ b = a
  \/ \E w \in BoundWrites : b = Upsert(a, w)
  \/ \E served, by, prior, ever, now :
       /\ a.exists /\ a.model # NoModel => by \in Bindings(a.model)
       /\ b = UpdateUsage(a, served, by, prior, ever, now)
  \/ b \in {IncrementUpstreamErrors(a), ResetUpstreamErrors(a), ResetOverloadErrors(a)}
  \/ b = [a EXCEPT !.until = "past"]
  \/ b = EmptyRow

LEMMA FairKeeps ==
  ASSUME NEW a \in Row, NEW b, NEW o, Counted(a, o), FairStatement(a, b),
         \A p \in Providers : o[p] \in Nat
  PROVE  Counted(b, o)
<1>1. CASE b = a BY <1>1
<1>2. CASE \E w \in BoundWrites : b = Upsert(a, w)
  <2>1. PICK w \in BoundWrites : b = Upsert(a, w) BY <1>2
  <2>2. /\ b.exists /\ b.model = w.model /\ b.provider = w.provider /\ b.until = w.until
        /\ b.pairModel = (IF w.pairModel # NoModel THEN w.pairModel
                          ELSE IF a.model = w.model THEN a.pairModel ELSE NoModel)
        /\ b.pairProvider = (IF w.pairModel # NoModel THEN w.pairProvider
                             ELSE IF a.model = w.model THEN a.pairProvider ELSE NoProvider)
        /\ b.ovErr = (IF a.model = w.model THEN a.ovErr ELSE 0)
    BY <2>1 DEF Upsert, Row
  <2>3. /\ w.model # NoModel => w.provider \in Bindings(w.model)
        /\ w.pairModel # NoModel => w.pairProvider \in Bindings(w.pairModel)
        /\ w.until # "past" => w.model # NoModel
    BY DEF BoundWrites
  <2>4. Bound(b) BY <2>2, <2>3 DEF Counted, Bound, Live
  <2>5. b.model = NoModel \/ ~b.exists => b.ovErr = 0 BY <2>2 DEF Counted
  <2>6. \A p \in Bindings(b.model) : b.ovErr <= o[p] BY <2>2, BoundFacts DEF Counted
  <2>7. QED BY <2>4, <2>5, <2>6 DEF Counted
<1>3. ASSUME b.exists = a.exists, b.model = a.model, b.pairModel = a.pairModel,
             b.pairProvider = a.pairProvider, b.until \in {a.until, "past"},
             b.ovErr \in {0, a.ovErr}, a.model # NoModel => b.provider \in Bindings(a.model)
      PROVE  Counted(b, o)
  <2>1. Bound(b) BY <1>3 DEF Counted, Bound, Live
  <2>2. b.model = NoModel \/ ~b.exists => b.ovErr = 0 BY <1>3 DEF Counted
  <2>3. \A p \in Bindings(b.model) : b.ovErr <= o[p] BY <1>3, BoundFacts DEF Counted
  <2>4. QED BY <2>1, <2>2, <2>3 DEF Counted
<1>4. a.model # NoModel => a.provider \in Bindings(a.model) BY DEF Counted, Bound
<1>5. ASSUME NEW served, NEW by, NEW prior, NEW ever, NEW now,
             a.exists /\ a.model # NoModel => by \in Bindings(a.model),
             b = UpdateUsage(a, served, by, prior, ever, now)
      PROVE  Counted(b, o)
  <2>1. /\ b.exists = a.exists /\ b.model = a.model /\ b.pairModel = a.pairModel
        /\ b.pairProvider = a.pairProvider /\ b.until = a.until /\ b.ovErr = a.ovErr
        /\ b.provider = IF a.exists THEN by ELSE a.provider
    BY <1>5 DEF UpdateUsage, Row
  <2>2. QED BY <1>3, <1>4, <1>5, <2>1
<1>6. CASE b \in {IncrementUpstreamErrors(a), ResetUpstreamErrors(a), ResetOverloadErrors(a)}
  <2>1. /\ b.exists = a.exists /\ b.model = a.model /\ b.pairModel = a.pairModel
        /\ b.pairProvider = a.pairProvider /\ b.until = a.until /\ b.ovErr \in {0, a.ovErr}
        /\ b.provider = a.provider
    BY <1>6 DEF IncrementUpstreamErrors, ResetUpstreamErrors, ResetOverloadErrors, Row
  <2>2. QED BY <1>3, <1>4, <2>1
<1>7. CASE b = [a EXCEPT !.until = "past"]
  <2>1. /\ b.exists = a.exists /\ b.model = a.model /\ b.pairModel = a.pairModel
        /\ b.pairProvider = a.pairProvider /\ b.until = "past" /\ b.ovErr = a.ovErr
        /\ b.provider = a.provider
    BY <1>7 DEF Row
  <2>2. QED BY <1>3, <1>4, <2>1
<1>8. CASE b = EmptyRow BY <1>8, EmptyBound, BoundFacts DEF EmptyRow, Counted
<1>9. QED BY <1>1, <1>2, <1>5, <1>6, <1>7, <1>8 DEF FairStatement


-----------------------------------------------------------------------------
LEMMA StepBlames ==
  ASSUME IInv, OneToBlame, NEW t \in Turns, NEW s, NEW l, Continue(t, s, l),
         Counted(rows'["active"], overloads'),
         Ours(s, l, rows'["active"], overloads'),
         \A r \in Roles : \A p \in rows'[r].disabled :
           p \in Providers /\ overloads'[p] >= OverloadThreshold
  PROVE  BlameInv'
<1>1. stage'[t] = s /\ turn'[t] = IF s = "idle" THEN Blank ELSE l
  BY DEF Continue, IInv, TypeOK
<1>2. Ours(stage'[t], turn'[t], rows'["active"], overloads')
  <2>1. CASE s = "idle"
    <3>1. "idle" \in Unblamed BY DEF Unblamed, Stages
    <3>2. QED BY <1>1, <2>1, <3>1, EmptyBound, UnblamedOurs
  <2>2. CASE s # "idle" BY <1>1, <2>2
  <2>3. QED BY <2>1, <2>2
<1>3. \A u \in Turns : u = t BY DEF OneToBlame, OneAtATime
<1>4. QED BY <1>2, <1>3 DEF BlameInv

\* A step that strikes no provider out.
Spares == \A r \in Roles : rows'[r].disabled \subseteq rows[r].disabled

LEMMA FairBlames ==
  ASSUME IInv, OneToBlame, BlameInv, NEW t \in Turns, NEW s, NEW l, Continue(t, s, l),
         FairStatement(rows["active"], rows'["active"]), Spares, UNCHANGED overloads,
         Ours(s, l, rows'["active"], overloads)
  PROVE  BlameInv'
<1>1. rows["active"] \in Row /\ \A p \in Providers : overloads[p] \in Nat
  BY DEF IInv, TypeOK, Roles
<1>2. Counted(rows'["active"], overloads) BY <1>1, FairKeeps DEF BlameInv
<1>3. \A r \in Roles : \A p \in rows'[r].disabled :
        p \in Providers /\ overloads[p] >= OverloadThreshold
  BY DEF BlameInv, Spares
<1>4. QED BY <1>2, <1>3, StepBlames

LEMMA StatementSpares ==
  ASSUME IInv, NEW r \in Roles, NEW b, SetRow(r, b), b.disabled \subseteq rows[r].disabled
  PROVE  Spares
BY DEF SetRow, Spares, IInv, TypeOK

LEMMA SameDisabled ==
  ASSUME NEW a \in Row
  PROVE  /\ \A w : Upsert(a, w).disabled = a.disabled
         /\ \A served, by, prior, ever, now :
              UpdateUsage(a, served, by, prior, ever, now).disabled = a.disabled
         /\ IncrementUpstreamErrors(a).disabled = a.disabled
         /\ ResetUpstreamErrors(a).disabled = a.disabled
         /\ IncrementOverloadErrors(a).disabled = a.disabled
         /\ ResetOverloadErrors(a).disabled = a.disabled
         /\ [a EXCEPT !.until = "past"].disabled = a.disabled
<1>1. \A w : Upsert(a, w).disabled = a.disabled BY DEF Upsert, Row
<1>2. \A served, by, prior, ever, now :
        UpdateUsage(a, served, by, prior, ever, now).disabled = a.disabled
  BY DEF UpdateUsage, Row
<1>3. IncrementUpstreamErrors(a).disabled = a.disabled
  BY DEF IncrementUpstreamErrors, Row
<1>4. ResetUpstreamErrors(a).disabled = a.disabled BY DEF ResetUpstreamErrors, Row
<1>5. IncrementOverloadErrors(a).disabled = a.disabled
  BY DEF IncrementOverloadErrors, Row
<1>6. ResetOverloadErrors(a).disabled = a.disabled BY DEF ResetOverloadErrors, Row
<1>7. [a EXCEPT !.until = "past"].disabled = a.disabled BY DEF Row
<1>8. QED BY <1>1, <1>2, <1>3, <1>4, <1>5, <1>6, <1>7

LEMMA OnwardBlames ==
  ASSUME IInv, OneToBlame, BlameInv, NEW t \in Turns, NEW s, NEW l, Continue(t, s, l),
         UNCHANGED <<rows, overloads>>, Ours(s, l, rows["active"], overloads)
  PROVE  BlameInv'
<1>1. Spares /\ rows'["active"] = rows["active"] BY DEF Spares
<1>2. QED BY <1>1, FairBlames DEF FairStatement

LEMMA UnblamedOnward ==
  ASSUME IInv, OneToBlame, BlameInv, NEW t \in Turns, NEW s \in Unblamed, NEW l,
         Continue(t, s, l), UNCHANGED <<rows, overloads>>, Steady(l)
  PROVE  BlameInv'
BY UnblamedOurs, OnwardBlames

LEMMA UpsertBlames ==
  ASSUME IInv, OneToBlame, BlameInv, NEW t \in Turns, NEW s, NEW l, Continue(t, s, l),
         NEW w \in BoundWrites, SetRow("active", Upsert(rows["active"], w)),
         UNCHANGED overloads, Ours(s, l, Upsert(rows["active"], w), overloads)
  PROVE  BlameInv'
<1>1. rows["active"] \in Row /\ "active" \in Roles BY DEF IInv, TypeOK, Roles
<1>2. Spares BY <1>1, SameDisabled, StatementSpares
<1>3. rows'["active"] = Upsert(rows["active"], w) BY ActiveMoves
<1>4. FairStatement(rows["active"], rows'["active"]) BY <1>3 DEF FairStatement
<1>5. QED BY <1>2, <1>3, <1>4, FairBlames

LEMMA ExpiredPinBound == ExpiredPin \in BoundWrites
BY ExpiredPinType DEF BoundWrites, ExpiredPin

LEMMA PinWriteBound ==
  ASSUME NEW m \in Models \cup {NoModel}, NEW p \in Providers \cup {NoProvider},
         NEW pm \in Models \cup {NoModel}, NEW pp \in Providers \cup {NoProvider},
         NEW why \in Reasons, m # NoModel, p \in Bindings(m),
         pm # NoModel => pp \in Bindings(pm)
  PROVE  /\ PinWrite(m, p, pm, pp, why) \in BoundWrites
         /\ PinWrite(m, p, pm, pp, why).model = m
         /\ PinWrite(m, p, pm, pp, why).provider = p
BY PinWriteType DEF BoundWrites, PinWrite

LEMMA ExpireBlames ==
  ASSUME IInv, OneToBlame, BlameInv, NEW t \in Turns, NEW r \in Roles, NEW s,
         Expire(t, r, s, turn[t]), \A a : Ours(s, turn[t], a, overloads)
  PROVE  BlameInv'
<1>1. Continue(t, s, turn[t]) /\ UNCHANGED overloads BY DEF Expire, hist
<1>2. rows[r] \in Row /\ SetRow(r, Upsert(rows[r], ExpiredPin))
  BY DEF IInv, TypeOK, Expire
<1>3. Spares BY <1>2, SameDisabled, StatementSpares
<1>4. FairStatement(rows["active"], rows'["active"])
  <2>1. CASE r = "active"
    <3>1. rows'["active"] = Upsert(rows["active"], ExpiredPin) BY <1>2, <2>1, ActiveMoves
    <3>2. QED BY <3>1, ExpiredPinBound DEF FairStatement
  <2>2. CASE r = "history"
    <3>1. rows'["active"] = rows["active"] BY <1>2, <2>2, ActiveMoves
    <3>2. QED BY <3>1 DEF FairStatement
  <2>3. QED BY <2>1, <2>2 DEF Roles
<1>5. QED BY <1>1, <1>3, <1>4, FairBlames

LEMMA SteadyTurn ==
  ASSUME BlameInv, NEW t \in Turns
  PROVE  Steady(turn[t]) /\ Ours(stage[t], turn[t], rows["active"], overloads)
BY DEF BlameInv, Ours

LEMMA EnteringBlames ==
  ASSUME IInv, OneToBlame, BlameInv, NEW t \in Turns, Entering(t)
  PROVE  BlameInv'
<1> DEFINE a == rows["active"]
           l == turn[t]
<1>1. Steady(l) /\ Steady(Blank) BY SteadyTurn, EmptyBound
<1>2. Entries \cup {"idle"} \subseteq Unblamed BY DEF Entries, Unblamed, Stages
<1>3. {"breakHistory", "idle", "load", "budget", "pinEscalation", "recordEscalation"}
        \subseteq Unblamed
  BY DEF Unblamed, Stages
<1>4. CASE StartTurn(t) BY <1>1, <1>2, <1>4, UnblamedOnward DEF StartTurn, store, hist
<1>5. CASE ForceModel(t)
  <2>1. PICK m \in Models, s \in {"idle"} \cup Entries :
          /\ SetRow("active", Upsert(a, PinWrite(m, PrimaryProvider(m), NoModel, NoProvider, "force")))
          /\ Continue(t, s, Blank)
    BY <1>5 DEF ForceModel
  <2> DEFINE w == PinWrite(m, PrimaryProvider(m), NoModel, NoProvider, "force")
  <2>2. w \in BoundWrites
    BY PrimaryProviderServes, BoundFacts, PinWriteBound, NamesAssumption DEF Reasons
  <2>3. UNCHANGED overloads BY <1>5 DEF ForceModel
  <2>4. Ours(s, Blank, Upsert(a, w), overloads) BY <1>1, <1>2, UnblamedOurs
  <2> HIDE DEF w
  <2>5. QED BY <2>1, <2>2, <2>3, <2>4, UpsertBlames DEF w
<1>6. CASE UnforceModel(t)
  <2>1. SetRow("active", Upsert(a, ExpiredPin)) /\ UNCHANGED <<stage, turn, overloads>>
    BY <1>6 DEF UnforceModel
  <2>2. stage[t] = "idle" BY <1>6 DEF UnforceModel, Begin, At
  <2>3. a \in Row /\ "active" \in Roles /\ \A p \in Providers : overloads[p] \in Nat
    BY DEF IInv, TypeOK, Roles
  <2>4. Spares BY <2>1, <2>3, SameDisabled, StatementSpares
  <2>5. rows'["active"] = Upsert(a, ExpiredPin) BY <2>1, ActiveMoves
  <2>6. FairStatement(a, rows'["active"]) BY <2>5, ExpiredPinBound DEF FairStatement
  <2>7. Counted(rows'["active"], overloads) BY <2>3, <2>6, FairKeeps DEF BlameInv
  <2>8. \A u \in Turns : u = t BY DEF OneToBlame, OneAtATime
  <2>9. Ours("idle", l, rows'["active"], overloads) BY <1>1, <1>3, UnblamedOurs
  <2>10. QED BY <2>1, <2>2, <2>4, <2>7, <2>8, <2>9 DEF BlameInv, Spares
<1>7. CASE BreakActive(t)
  <2>1. \A b : Ours("breakHistory", l, b, overloads) BY <1>1, <1>3, UnblamedOurs
  <2>2. QED BY <1>7, <2>1, ExpireBlames DEF BreakActive, Roles
<1>8. CASE BreakHistory(t)
  <2>1. \A b : Ours("idle", l, b, overloads) BY <1>1, <1>3, UnblamedOurs
  <2>2. QED BY <1>8, <2>1, ExpireBlames DEF BreakHistory, Roles
<1>9. CASE EscalateRead(t)
  <2>1. UNCHANGED <<rows, overloads>> BY <1>9 DEF EscalateRead, store, hist
  <2>2. CASE a.reason = "loop"
    <3>1. Continue(t, "load", Blank) BY <1>9, <2>2 DEF EscalateRead
    <3>2. QED BY <1>1, <1>3, <2>1, <3>1, UnblamedOnward
  <2>3. CASE a.reason # "loop"
    <3>1. PICK requested \in Models :
            Continue(t, "budget",
              [Blank EXCEPT !.reason = a.reason,
                            !.model = IF a.model # NoModel THEN a.model ELSE requested])
      BY <1>9, <2>3 DEF EscalateRead
    <3> DEFINE m == IF a.model # NoModel THEN a.model ELSE requested
               k == [Blank EXCEPT !.reason = a.reason, !.model = m]
    <3>2. k.act = Blank.act /\ k.role = Blank.role /\ k.bypassed = Blank.bypassed
      BY DEF Blank
    <3>3. Continue(t, "budget", k) BY <3>1
    <3> HIDE DEF k
    <3>4. Steady(k) BY <1>1, <3>2 DEF Steady
    <3>5. QED BY <1>3, <2>1, <3>3, <3>4, UnblamedOnward
  <2>4. QED BY <2>2, <2>3
<1>10. CASE EscalateBudget(t)
  <2>1. \E s \in Unblamed, k \in {l, Blank} : Continue(t, s, k)
    BY <1>3, <1>10 DEF EscalateBudget
  <2>2. UNCHANGED <<rows, overloads>> BY <1>10 DEF EscalateBudget, store, hist
  <2>3. QED BY <1>1, <2>1, <2>2, UnblamedOnward
<1>11. CASE PinEscalation(t)
  <2> DEFINE w == PinWrite(EscalateModel, Anthropic, NoModel, NoProvider, "loop")
  <2>1. /\ EscalateModel \in Models /\ EscalateModel # NoModel
        /\ Anthropic \in Bindings(EscalateModel) /\ Anthropic \in Providers
    BY TurnsAssumption, NamesAssumption, BoundFacts
  <2>2. w \in BoundWrites BY <2>1, PinWriteBound DEF Reasons
  <2>3. /\ SetRow("active", Upsert(a, w)) /\ Continue(t, "recordEscalation", l)
        /\ UNCHANGED overloads
    BY <1>11 DEF PinEscalation, hist
  <2>4. Ours("recordEscalation", l, Upsert(a, w), overloads) BY <1>1, <1>3, UnblamedOurs
  <2> HIDE DEF w
  <2>5. QED BY <2>2, <2>3, <2>4, UpsertBlames
<1>12. CASE RecordEscalation(t)
  BY <1>1, <1>3, <1>12, UnblamedOnward DEF RecordEscalation, hist
<1>13. QED
  BY <1>4, <1>5, <1>6, <1>7, <1>8, <1>9, <1>10, <1>11, <1>12 DEF Entering

\* A decision written as the active pin.
LEMMA PinnedBlames ==
  ASSUME IInv, OneToBlame, BlameInv, NEW t \in Turns, NEW w \in BoundWrites, w.model # NoModel,
         SetRow("active", Upsert(rows["active"], w)), UNCHANGED overloads,
         NEW why, NEW sticky, NEW isHmm,
         Continue(t, "routed", Decide(turn[t], w.model, w.provider, why, sticky, "active", isHmm))
  PROVE  BlameInv'
<1> DEFINE l == Decide(turn[t], w.model, w.provider, why, sticky, "active", isHmm)
           b == Upsert(rows["active"], w)
<1>1. /\ l.act = EmptyRow /\ l.role = "active" /\ l.bypassed = turn[t].bypassed
      /\ l.model = w.model /\ l.provider = w.provider
  BY LocalFacts, Zenon DEF Decide, Locals
<1>2. Steady(l) BY <1>1, SteadyTurn, EmptyBound DEF Steady
<1>3. rows["active"] \in Row BY DEF IInv, TypeOK, Roles
<1>4. b.model = w.model BY <1>3 DEF Upsert, Row
<1>5. w.provider \in Bindings(w.model) BY DEF BoundWrites
<1>6. Continue(t, "routed", l) OBVIOUS
<1> HIDE DEF l
<1>7. Ours("routed", l, b, overloads) BY <1>1, <1>2, <1>4, <1>5 DEF Ours, Attached
<1> HIDE DEF b
<1>8. QED BY <1>6, <1>7, UpsertBlames DEF b

LEMMA FreshBound ==
  ASSUME NEW l \in Locals, NEW f \in Fresh(l)
  PROVE  /\ f[1][2] \in Bindings(f[1][1])
         /\ f[2][1] # NoModel => f[2][2] \in Bindings(f[2][1])
BY DEF Fresh, Bindings

LEMMA RoutingBlames ==
  ASSUME IInv, OneToBlame, BlameInv, NEW t \in Turns, Routing(t)
  PROVE  BlameInv'
<1> DEFINE a == rows["active"]
           l == turn[t]
           pin == turn[t].act
           w == PinWrite(pin.model, pin.provider, pin.pairModel, pin.pairProvider, pin.reason)
<1>1. /\ l \in Locals /\ pin \in Row /\ Bound(pin) /\ l.role = "active" /\ ~l.bypassed
      /\ Steady(l) /\ Steady(Blank)
  BY LocalFacts, SteadyTurn, EmptyBound DEF Locals, Steady
<1>2. {"idle", "load", "loadHistory", "route"} \subseteq Unblamed BY DEF Unblamed, Stages
<1>3. ~May("bandSwap") /\ ~May("bypassFails") /\ "hmm" \notin Scorers
  BY DEF OneToBlame, May
<1>4. ASSUME pin.model # NoModel
      PROVE  w \in BoundWrites /\ w.model = pin.model /\ w.provider = pin.provider
  <2>1. /\ pin.model \in Models \cup {NoModel} /\ pin.provider \in Providers \cup {NoProvider}
        /\ pin.pairModel \in Models \cup {NoModel}
        /\ pin.pairProvider \in Providers \cup {NoProvider} /\ pin.reason \in Reasons
        /\ pin.provider \in Bindings(pin.model)
        /\ pin.pairModel # NoModel => pin.pairProvider \in Bindings(pin.pairModel)
    BY <1>1, <1>4 DEF Row, Bound
  <2> HIDE DEF pin
  <2>2. QED BY <1>4, <2>1, PinWriteBound
<1>5. CASE LoadActive(t)
  <2> DEFINE struck == IF l.bypassed THEN l.struck ELSE a.disabled \cup rows["history"].disabled
             k == [l EXCEPT !.act = a, !.seen = answered, !.struck = struck]
  <2>1. Continue(t, "loadHistory", k) BY <1>5 DEF LoadActive
  <2>2. k.act = a /\ k.role = l.role /\ k.bypassed = l.bypassed BY <1>1, Zenon DEF Locals
  <2>3. Bound(a) BY DEF BlameInv, Counted
  <2> HIDE DEF k
  <2>4. Steady(k) BY <1>1, <2>2, <2>3 DEF Steady
  <2>5. UNCHANGED <<rows, overloads>> BY <1>5 DEF LoadActive, store, hist
  <2>6. QED BY <1>2, <2>1, <2>4, <2>5, UnblamedOnward
<1>6. CASE LoadHistory(t)
  <2>1. \E k : Continue(t, "route", k) /\ Steady(k)
    <3> DEFINE past == rows["history"]
               prior == PriorServed(pin, past)
               ever == EverSwitched(pin, past)
               disabled == IF l.bypassed THEN l.disabled ELSE Disabled(pin, past)
               k == [l EXCEPT !.past = past, !.prior = prior, !.ever = ever,
                              !.disabled = disabled]
    <3>1. Continue(t, "route", k) BY <1>6 DEF LoadHistory
    <3> HIDE DEF past, prior, ever, disabled
    <3>2. k.act = pin /\ k.role = l.role /\ k.bypassed = l.bypassed
      BY <1>1, Zenon DEF Locals
    <3> HIDE DEF k
    <3>3. Steady(k) BY <1>1, <3>2 DEF Steady
    <3>4. QED BY <3>1, <3>3
  <2>2. UNCHANGED <<rows, overloads>> BY <1>6 DEF LoadHistory, store, hist
  <2>3. QED BY <1>2, <2>1, <2>2, UnblamedOnward
<1>7. CASE RouteImmutable(t)
  <2>1. pin.model # NoModel BY <1>1, <1>7 DEF RouteImmutable, Bound
  <2>2. /\ SetRow("active", Upsert(a, w)) /\ UNCHANGED overloads
        /\ Continue(t, "routed", Decide(l, pin.model, pin.provider, pin.reason,
                                        TRUE, "active", FALSE))
    BY <1>7 DEF RouteImmutable, hist
  <2> HIDE DEF w, pin, l
  <2>3. QED BY <1>4, <2>1, <2>2, PinnedBlames DEF l
<1>8. CASE RouteSticky(t)
  <2>1. pin.model # NoModel BY <1>1, <1>8 DEF RouteSticky, Kept, Bound
  <2>2. SetRow("active", Upsert(a, w)) /\ UNCHANGED overloads BY <1>8 DEF RouteSticky, hist
  <2>3. PICK d \in {<<pin.model, pin.provider>>} :
          Continue(t, "routed", Decide(l, d[1], d[2], pin.reason, TRUE, "active",
                                       pin.reason = "hmm"))
    BY <1>3, <1>8, Zenon DEF RouteSticky
  <2> HIDE DEF w, pin, l
  <2>4. d[1] = pin.model /\ d[2] = pin.provider OBVIOUS
  <2>5. QED BY <1>4, <2>1, <2>2, <2>3, <2>4, PinnedBlames DEF l
<1>9. ASSUME NEW m \in Models, NEW p \in Bindings(m),
             NEW e, e[1] \in Models \cup {NoModel}, e[2] \in Providers \cup {NoProvider},
             e[1] # NoModel => e[2] \in Bindings(e[1]),
             NEW why \in Reasons, NEW sticky, WriteNewPin(t, m, p, e, why, sticky)
      PROVE  BlameInv'
  <2> DEFINE v == PinWrite(m, p, e[1], e[2], why)
  <2>1. m # NoModel /\ p \in Providers BY NamesAssumption, BoundFacts
  <2>2. v \in BoundWrites /\ v.model = m /\ v.provider = p BY <1>9, <2>1, PinWriteBound
  <2>3. /\ SetRow("active", Upsert(a, v)) /\ UNCHANGED overloads
        /\ Continue(t, "routed", Decide(l, m, p, why, sticky, "active", why = "hmm"))
    BY <1>9 DEF WriteNewPin, hist
  <2> HIDE DEF v, l
  <2>4. QED BY <2>1, <2>2, <2>3, PinnedBlames DEF l
<1>10. CASE RouteFresh(t)
  <2>1. PICK f \in Fresh(l), why \in {"scorer", "hmm"} :
          WriteNewPin(t, f[1][1], f[1][2], f[2], why, FALSE)
    BY <1>10 DEF RouteFresh
  <2>2. /\ f[1][1] \in Models
        /\ f[2][1] \in Models \cup {NoModel} /\ f[2][2] \in Providers \cup {NoProvider}
        /\ f[1][2] \in Bindings(f[1][1])
        /\ f[2][1] # NoModel => f[2][2] \in Bindings(f[2][1])
    BY <1>1, FreshType, FreshBound
  <2>3. why \in Reasons BY DEF Reasons
  <2>4. QED BY <1>9, <2>1, <2>2, <2>3
<1>11. CASE RouteReanchor(t)
  <2>1. WriteNewPin(t, pin.model, pin.provider, <<NoModel, NoProvider>>, pin.reason, TRUE)
    BY <1>11 DEF RouteReanchor
  <2>2. pin.model # NoModel BY <1>11 DEF RouteReanchor
  <2>3. /\ pin.model \in Models /\ pin.provider \in Bindings(pin.model)
        /\ pin.reason \in Reasons
    BY <1>1, <2>2 DEF Row, Bound
  <2> HIDE DEF pin
  <2>4. QED BY <1>9, <2>1, <2>3
<1>12. CASE RouteFails(t)
  BY <1>1, <1>2, <1>12, UnblamedOnward DEF RouteFails, store, hist
<1>13. CASE BypassServed(t)
  BY <1>1, <1>2, <1>13, UnblamedOnward DEF BypassServed, store
<1>14. ~RouteHmm(t) /\ ~BypassFailed(t) /\ ~RouteBypassed(t)
  BY <1>1, <1>3 DEF RouteHmm, BypassFailed, RouteBypassed
<1>15. QED
  BY <1>5, <1>6, <1>7, <1>8, <1>10, <1>11, <1>12, <1>13, <1>14 DEF Routing

\* Dispatch: an overload that ends the turn is one more of the row's provider.
LEMMA DispatchBlames ==
  ASSUME IInv, OneToBlame, BlameInv, NEW t \in Turns, Dispatch(t)
  PROVE  BlameInv'
<1> DEFINE a == rows["active"]
           l == turn[t]
<1>1. PICK s \in ServedBy(l), e \in Endings :
        /\ LET k == Ended(l, s[1], s[2], s[3], e) IN Continue(t, AfterDispatch(k), k)
        /\ overloads' = IF e.out = "e529" THEN [overloads EXCEPT ![s[2]] = @ + 1] ELSE overloads
  BY Zenon DEF Dispatch
<1>2. UNCHANGED rows /\ stage[t] = "routed" BY DEF Dispatch, store, At
<1>3. Steady(l) /\ Attached(l, a) BY <1>2, SteadyTurn DEF Ours
<1>4. /\ l \in Locals /\ a \in Row /\ overloads \in [Providers -> Nat]
  BY LocalFacts DEF IInv, TypeOK, Roles
<1>5. ~May("baseline") BY DEF OneToBlame, May
<1>6. s[1] = l.model /\ s[2] \in Bindings(l.model)
  <2>1. PICK p \in Walk(l) : s = <<l.model, p, FALSE>> BY <1>5 DEF ServedBy
  <2>2. p \in Bindings(l.model) BY <1>3 DEF Walk, Attached
  <2>3. QED BY <2>1, <2>2
<1>7. s[2] \in Providers BY <1>6, BoundFacts
<1> DEFINE k == Ended(l, s[1], s[2], s[3], e)
<1>8. /\ k.act = l.act /\ k.role = l.role /\ k.bypassed = l.bypassed
      /\ k.model = s[1] /\ k.provider = s[2] /\ k.out = e.out
  BY <1>4, Zenon DEF Ended, Locals
<1>9. Continue(t, AfterDispatch(k), k) BY <1>1
<1> HIDE DEF k, l
<1>10. \A p \in Providers : overloads'[p] \in Nat /\ overloads'[p] >= overloads[p]
  BY <1>1, <1>4, <1>7
<1>11. e.out = "e529" => overloads'[s[2]] > overloads[s[2]] BY <1>1, <1>4, <1>7
<1>12. Counted(a, overloads')
  <2>1. Counted(a, overloads) BY DEF BlameInv
  <2>2. \A p \in Bindings(a.model) : a.ovErr <= overloads'[p]
    <3> SUFFICES ASSUME NEW p \in Bindings(a.model) PROVE a.ovErr <= overloads'[p] OBVIOUS
    <3>1. p \in Providers BY BoundFacts
    <3>2. a.ovErr <= overloads[p] BY <2>1 DEF Counted
    <3>3. a.ovErr \in Nat /\ overloads[p] \in Nat BY <1>4, <3>1 DEF Row
    <3> HIDE DEF a
    <3>4. QED BY <1>10, <3>1, <3>2, <3>3
  <2>3. QED BY <2>1, <2>2 DEF Counted
<1>13. Steady(k) /\ Attached(k, a) BY <1>3, <1>6, <1>8 DEF Steady, Attached
<1>14. Owed(k, a, overloads')
  <2> SUFFICES ASSUME e.out = "e529", a.exists PROVE a.ovErr < overloads'[s[2]]
    BY <1>8, <1>13 DEF Owed
  <2>1. a.model = l.model BY <1>3 DEF Attached
  <2>2. a.ovErr <= overloads[s[2]] BY <1>6, <2>1 DEF BlameInv, Counted
  <2>3. a.ovErr \in Nat /\ overloads[s[2]] \in Nat /\ overloads'[s[2]] \in Nat
    BY <1>4, <1>7, <1>10 DEF Row
  <2> HIDE DEF a
  <2>4. QED BY <1>11, <2>2, <2>3
<1>15. Ours(AfterDispatch(k), k, a, overloads') BY <1>13, <1>14, AfterOurs
<1>16. \A r \in Roles : \A p \in rows'[r].disabled :
         p \in Providers /\ overloads'[p] >= OverloadThreshold
  <2> SUFFICES ASSUME NEW r \in Roles, NEW p \in rows[r].disabled
               PROVE  p \in Providers /\ overloads'[p] >= OverloadThreshold
    BY <1>2
  <2>1. p \in Providers /\ overloads[p] >= OverloadThreshold BY DEF BlameInv
  <2>2. overloads[p] \in Nat BY <1>4, <2>1
  <2>3. QED BY <1>10, <2>1, <2>2 DEF OverloadThreshold
<1>17. QED BY <1>2, <1>9, <1>12, <1>15, <1>16, StepBlames

LEMMA ServingBlames ==
  ASSUME IInv, OneToBlame, BlameInv, NEW t \in Turns, Serving(t)
  PROVE  BlameInv'
<1> DEFINE a == rows["active"]
           b == rows'["active"]
           l == turn[t]
<1>1. l \in Locals /\ Steady(l) /\ Steady(Blank) /\ a \in Row /\ "active" \in Roles
      /\ rows["history"] \in Row /\ "history" \in Roles
  BY LocalFacts, SteadyTurn, EmptyBound DEF IInv, TypeOK, Roles
<1>2. Ours(stage[t], l, a, overloads) BY SteadyTurn
<1>3. {"idle", "break"} \subseteq Unblamed BY DEF Unblamed, Stages
<1>4. CASE NoProgressRead(t) \/ TextRepetition(t)
  <2>1. \E s \in Unblamed : Continue(t, s, Blank)
    BY <1>3, <1>4 DEF NoProgressRead, TextRepetition
  <2>2. UNCHANGED <<rows, overloads>> BY <1>4 DEF NoProgressRead, TextRepetition, store, hist
  <2>3. QED BY <1>1, <2>1, <2>2, UnblamedOnward
<1>5. CASE Dispatch(t) BY <1>5, DispatchBlames
<1>6. CASE DispatchUnbound(t)
  <2> DEFINE e == [out |-> "other", tokens |-> FALSE, refused |-> FALSE, poor |-> FALSE]
             k == Ended(l, l.model, l.provider, FALSE, e)
  <2>1. Continue(t, AfterDispatch(k), k) BY <1>6 DEF DispatchUnbound
  <2>2. /\ k.act = l.act /\ k.role = l.role /\ k.bypassed = l.bypassed
        /\ k.model = l.model /\ k.provider = l.provider /\ k.out = e.out
    BY <1>1, Zenon DEF Ended, Locals
  <2>3. e.out = "other" OBVIOUS
  <2> HIDE DEF k, e
  <2>4. Attached(l, a) BY <1>2, <1>6 DEF DispatchUnbound, At, Ours
  <2>5. Steady(k) /\ Attached(k, a) /\ Owed(k, a, overloads)
    BY <1>1, <2>2, <2>3, <2>4 DEF Steady, Attached, Owed
  <2>6. Ours(AfterDispatch(k), k, a, overloads) BY <2>5, AfterOurs
  <2>7. UNCHANGED <<rows, overloads>> BY <1>6 DEF DispatchUnbound, store, hist
  <2>8. QED BY <2>1, <2>6, <2>7, OnwardBlames
\* a usage writeback changes neither the model nor the overloads of the row
<1>7. ASSUME NEW k, k.act = l.act, k.role = l.role, k.bypassed = l.bypassed,
             k.model = l.model, k.provider = l.provider, k.out = l.out,
             At(t, "usage") \/ At(t, "usageHistory"),
             \/ b = a
             \/ \E served, prior, ever, now :
                  b = UpdateUsage(a, served, l.provider, prior, ever, now),
             Spares, UNCHANGED overloads,
             NEW s \in {AfterUsage(k), "usageHistory"}, Continue(t, s, k)
      PROVE  BlameInv'
  <2>1. Attached(l, a) /\ Owed(l, a, overloads) BY <1>2, <1>7 DEF At, Ours
  <2>2. b.exists = a.exists /\ b.model = a.model /\ b.ovErr = a.ovErr
    BY <1>1, <1>7 DEF UpdateUsage, Row
  <2>3. Steady(k) /\ Attached(k, b) /\ Owed(k, b, overloads)
    BY <1>1, <1>7, <2>1, <2>2 DEF Steady, Attached, Owed
  <2>4. Ours(AfterUsage(k), k, b, overloads) BY <2>3, AfterOurs
  <2>5. Ours("usageHistory", k, b, overloads) BY <2>3 DEF Ours
  <2>6. a.exists => l.provider \in Bindings(a.model) BY <2>1 DEF Attached
  <2>7. FairStatement(a, b) BY <1>7, <2>6 DEF FairStatement
  <2> HIDE DEF a, b
  <2>8. QED BY <1>7, <2>4, <2>5, <2>7, FairBlames DEF a, b
<1>8. CASE RecordUsage(t)
  <2>1. /\ SetRow("active", UpdateUsage(a, l.model, l.provider, l.prior, l.ever, clock'))
        /\ UNCHANGED overloads /\ At(t, "usage") /\ Continue(t, AfterUsage(l), l)
    BY <1>8 DEF RecordUsage, hist
  <2>2. b = UpdateUsage(a, l.model, l.provider, l.prior, l.ever, clock')
    BY <2>1, ActiveMoves
  <2>3. Spares BY <1>1, <2>1, SameDisabled, StatementSpares
  <2> HIDE DEF l, a, b
  <2>4. QED BY <1>7, <2>1, <2>2, <2>3
<1>9. CASE ReadHistory(t)
  <2> DEFINE k == [l EXCEPT !.past = rows["history"]]
  <2>1. /\ k.act = l.act /\ k.role = l.role /\ k.bypassed = l.bypassed /\ k.out = l.out
        /\ k.model = l.model /\ k.provider = l.provider
    BY <1>1, Zenon DEF Locals
  <2>2. Continue(t, "usage", k) /\ UNCHANGED <<rows, overloads>>
    BY <1>9 DEF ReadHistory, store, hist
  <2>3. Attached(l, a) /\ Owed(l, a, overloads) BY <1>2, <1>9 DEF ReadHistory, At, Ours
  <2> HIDE DEF k
  <2>4. Ours("usage", k, a, overloads)
    BY <1>1, <2>1, <2>3 DEF Ours, Steady, Attached, Owed
  <2>5. QED BY <2>2, <2>4, OnwardBlames
<1>10. CASE TouchHistory(t)
  <2> DEFINE k == [l EXCEPT !.past = EmptyRow]
             s == IF l.tokens THEN "usageHistory" ELSE AfterUsage(l)
  <2>1. /\ k.act = l.act /\ k.role = l.role /\ k.bypassed = l.bypassed /\ k.out = l.out
        /\ k.model = l.model /\ k.provider = l.provider /\ k.sticky = l.sticky
        /\ k.reason = l.reason /\ k.poor = l.poor /\ k.baseline = l.baseline
        /\ k.refused = l.refused
    BY <1>1, Zenon DEF Locals
  <2>2. Continue(t, s, k) /\ UNCHANGED overloads /\ At(t, "usage")
    BY <1>10 DEF TouchHistory, hist
  <2>3. PICK w : SetRow("history", Upsert(rows["history"], w)) BY <1>10 DEF TouchHistory
  <2>4. b = a BY <2>3, ActiveMoves
  <2>5. Spares BY <1>1, <2>3, SameDisabled, StatementSpares
  <2>6. s \in {AfterUsage(l), "usageHistory"} OBVIOUS
  <2> HIDE DEF k, s
  <2>7. AfterUsage(k) = AfterUsage(l)
    BY <2>1 DEF AfterUsage, AfterDegenerate, AfterStrike, AfterOverload, Judged
  <2> HIDE DEF l, a, b
  <2>8. QED BY <1>7, <2>1, <2>2, <2>4, <2>5, <2>6, <2>7
<1>11. CASE RecordHistoryUsage(t)
  <2>1. /\ SetRow("history", UpdateUsage(rows["history"], l.model, l.provider,
                                         l.prior, l.ever, clock'))
        /\ UNCHANGED overloads /\ At(t, "usageHistory") /\ Continue(t, AfterUsage(l), l)
    BY <1>11 DEF RecordHistoryUsage, hist
  <2>2. b = a BY <2>1, ActiveMoves
  <2>3. Spares BY <1>1, <2>1, SameDisabled, StatementSpares
  <2> HIDE DEF l, a, b
  <2>4. QED BY <1>7, <2>1, <2>2, <2>3
<1>12. QED BY <1>4, <1>5, <1>6, <1>8, <1>9, <1>10, <1>11 DEF Serving

\* The overload is counted: the provider had it, and is the only one to have.
LEMMA CountOverloadBlames ==
  ASSUME IInv, OneToBlame, BlameInv, NEW t \in Turns, CountOverload(t)
  PROVE  BlameInv'
<1> DEFINE a == rows["active"]
           b == rows'["active"]
           l == turn[t]
           after == IF l.out = "ok" THEN ResetOverloadErrors(a) ELSE IncrementOverloadErrors(a)
           next == IF l.out = "e529" /\ after.ovErr >= OverloadThreshold
                   THEN "disable" ELSE AfterOverload(l)
<1>1. Steady(l) /\ l.role = "active" /\ a \in Row /\ "active" \in Roles
      /\ \A p \in Providers : overloads[p] \in Nat
  BY SteadyTurn DEF IInv, TypeOK, Roles, Steady
<1>2. l.out \in {"ok", "e529"} /\ Owed(l, a, overloads)
  BY SteadyTurn DEF CountOverload, At, Ours
<1>3. SetRow("active", after) /\ Continue(t, next, l) /\ UNCHANGED overloads
  BY <1>1 DEF CountOverload, hist
<1>4. b = after BY <1>3, ActiveMoves
<1>5. after.disabled = a.disabled BY <1>1, SameDisabled
<1>6. Spares BY <1>1, <1>3, <1>5, StatementSpares
<1>7. {"refusal", "idle"} \subseteq Unblamed BY DEF Unblamed, Stages
<1>8. Ours(AfterOverload(l), l, b, overloads) BY <1>1, <1>7, UnblamedOurs DEF AfterOverload
<1>9. CASE l.out = "ok"
  <2>1. FairStatement(a, b) BY <1>4, <1>9 DEF FairStatement
  <2>2. next = AfterOverload(l) BY <1>9
  <2> HIDE DEF next, after, a, b, l
  <2>3. QED BY <1>3, <1>6, <1>8, <2>1, <2>2, FairBlames DEF a, b
<1>10. CASE l.out = "e529" /\ ~a.exists
  <2>1. b = a BY <1>4, <1>10 DEF IncrementOverloadErrors
  <2>2. a.ovErr = 0 BY <1>10 DEF BlameInv, Counted
  <2>3. next = AfterOverload(l) BY <1>4, <2>1, <2>2 DEF OverloadThreshold
  <2>4. FairStatement(a, b) BY <2>1 DEF FairStatement
  <2> HIDE DEF next, after, a, b, l
  <2>5. QED BY <1>3, <1>6, <1>8, <2>3, <2>4, FairBlames DEF a, b
<1>11. CASE l.out = "e529" /\ a.exists
  <2>1. /\ b.exists = a.exists /\ b.model = a.model /\ b.provider = a.provider
        /\ b.pairModel = a.pairModel /\ b.pairProvider = a.pairProvider
        /\ b.until = a.until /\ b.ovErr = a.ovErr + 1
    BY <1>1, <1>4, <1>11 DEF IncrementOverloadErrors, Row
  <2>2. l.provider \in Bindings(l.model) /\ a.model = l.model /\ a.ovErr < overloads[l.provider]
    BY <1>2, <1>11 DEF Owed, Attached
  <2>3. l.provider \in Providers /\ a.model \in Models
    BY <2>2, BoundFacts DEF Bindings
  <2>4. a.ovErr \in Nat /\ overloads[l.provider] \in Nat BY <1>1, <2>3 DEF Row
  <2>5. b.ovErr <= overloads[l.provider]
    <3> HIDE DEF a, b, l
    <3>1. QED BY <2>1, <2>2, <2>4
  <2>6. \A p \in Bindings(a.model) : p = l.provider
    BY <2>2, <2>3, BoundFacts DEF OneToBlame
  <2>7. Bound(b) BY <2>1 DEF BlameInv, Counted, Bound, Live
  <2>8. Counted(b, overloads)
    <3>1. b.model # NoModel /\ b.exists BY <1>11, <2>1, <2>3, NamesAssumption
    <3> HIDE DEF a, b, l
    <3>2. QED BY <2>1, <2>5, <2>6, <2>7, <3>1 DEF Counted
  <2>9. Ours(next, l, b, overloads)
    <3>1. CASE b.ovErr >= OverloadThreshold
      <4>1. next = "disable" BY <1>4, <1>11, <3>1
      <4>2. overloads[l.provider] >= OverloadThreshold
        <5>1. b.ovErr \in Nat BY <2>1, <2>4
        <5> HIDE DEF a, b, l
        <5>2. QED BY <2>4, <2>5, <3>1, <5>1 DEF OverloadThreshold
      <4> HIDE DEF a, b, next
      <4>3. QED BY <1>1, <2>3, <4>1, <4>2 DEF Ours
    <3>2. CASE ~(b.ovErr >= OverloadThreshold)
      <4>1. next = AfterOverload(l) BY <1>4, <3>2
      <4>2. QED BY <1>8, <4>1
    <3>3. QED BY <3>1, <3>2
  <2>10. \A r \in Roles : \A p \in rows'[r].disabled :
           p \in Providers /\ overloads[p] >= OverloadThreshold
    BY <1>6 DEF BlameInv, Spares
  <2> HIDE DEF a, b, l, next, after
  <2>11. QED BY <1>3, <2>8, <2>9, <2>10, StepBlames DEF b
<1>12. QED BY <1>2, <1>9, <1>10, <1>11

LEMMA JudgingBlames ==
  ASSUME IInv, OneToBlame, BlameInv, NEW t \in Turns, Judging(t)
  PROVE  BlameInv'
<1> DEFINE a == rows["active"]
           b == rows'["active"]
           l == turn[t]
<1>1. /\ l \in Locals /\ Steady(l) /\ Steady(Blank) /\ l.role = "active"
      /\ a \in Row /\ "active" \in Roles /\ "history" \in Roles
  BY LocalFacts, SteadyTurn, EmptyBound DEF IInv, TypeOK, Roles, Steady
<1>2. Ours(stage[t], l, a, overloads) BY SteadyTurn
<1>3. {"idle", "refusal", "overloadActive", "overloadHistory"} \subseteq Unblamed
  BY DEF Unblamed, Stages
<1>4. CASE EvictDegenerate(t)
  <2>1. l.out # "e529" BY <1>2, <1>4 DEF EvictDegenerate, At, Ours
  <2>2. \A c : Ours(AfterDegenerate(l), l, c, overloads) BY <1>1, <2>1, AfterOurs DEF Owed
  <2>3. QED BY <1>1, <1>4, <2>2, ExpireBlames DEF EvictDegenerate
<1>5. CASE CountStrike(t)
  <2> DEFINE after == IF l.out = "ok" THEN ResetUpstreamErrors(a)
                      ELSE IncrementUpstreamErrors(a)
             next == IF l.out = "e4xx" /\ after.upErr >= StrikeThreshold
                     THEN "evict" ELSE AfterStrike(l)
  <2>1. l.out # "e529" BY <1>2, <1>5 DEF CountStrike, At, Ours
  <2>2. SetRow("active", after) /\ Continue(t, next, l) /\ UNCHANGED overloads
    BY <1>1, <1>5 DEF CountStrike, hist
  <2>3. b = after BY <2>2, ActiveMoves
  <2>4. FairStatement(a, b) BY <2>3 DEF FairStatement
  <2>5. after.disabled = a.disabled BY <1>1, SameDisabled
  <2>6. Spares BY <1>1, <2>2, <2>5, StatementSpares
  <2>7. Ours(AfterStrike(l), l, b, overloads) /\ Ours("evict", l, b, overloads)
    BY <1>1, <2>1, AfterOurs DEF Owed, Ours
  <2>8. next \in {"evict", AfterStrike(l)} OBVIOUS
  <2> HIDE DEF next, after, a, b, l
  <2>9. QED BY <2>2, <2>4, <2>6, <2>7, <2>8, FairBlames DEF a, b
<1>6. CASE EvictStruck(t)
  <2>1. l.out # "e529" BY <1>2, <1>6 DEF EvictStruck, At, Ours
  <2>2. \A c : Ours(AfterStrike(l), l, c, overloads) BY <1>1, <2>1, AfterOurs DEF Owed
  <2>3. QED BY <1>1, <1>6, <2>2, ExpireBlames DEF EvictStruck
<1>7. CASE CountOverload(t) BY <1>7, CountOverloadBlames
<1>8. CASE DisableOverloaded(t)
  <2>1. /\ SetRow("active", DisableProvider(a, l.provider))
        /\ Continue(t, "overloadActive", l) /\ UNCHANGED overloads
    BY <1>1, <1>8 DEF DisableOverloaded, hist
  <2>2. l.provider \in Providers /\ overloads[l.provider] >= OverloadThreshold
    BY <1>2, <1>8 DEF DisableOverloaded, At, Ours
  <2>3. b = DisableProvider(a, l.provider) BY <2>1, ActiveMoves
  <2>4. /\ b.exists = a.exists /\ b.model = a.model /\ b.provider = a.provider
        /\ b.pairModel = a.pairModel /\ b.pairProvider = a.pairProvider
        /\ b.until = a.until /\ b.ovErr \in {0, a.ovErr}
        /\ b.disabled \subseteq a.disabled \cup {l.provider}
    BY <1>1, <2>3 DEF DisableProvider, Row
  <2>5. \A p \in Providers : overloads[p] \in Nat BY DEF IInv, TypeOK
  <2>6. Counted(b, overloads)
    <3>1. Counted(a, overloads) BY DEF BlameInv
    <3>2. Bound(b) BY <2>4, <3>1 DEF Counted, Bound, Live
    <3>3. \A p \in Bindings(b.model) : b.ovErr <= overloads[p]
      BY <2>4, <2>5, <3>1, BoundFacts DEF Counted
    <3>4. QED BY <2>4, <3>1, <3>2, <3>3 DEF Counted
  <2>7. Ours("overloadActive", l, b, overloads) BY <1>1, <1>3, UnblamedOurs
  <2>8. rows'["history"] = rows["history"] BY <1>1, <2>1 DEF SetRow, IInv, TypeOK
  <2>9. \A r \in Roles : \A p \in rows'[r].disabled :
          p \in Providers /\ overloads[p] >= OverloadThreshold
    BY <2>2, <2>4, <2>8 DEF BlameInv, Roles
  <2> HIDE DEF a, b, l
  <2>10. QED BY <2>1, <2>6, <2>7, <2>9, StepBlames DEF b
<1>9. CASE OverloadActive(t)
  <2>1. \A c : Ours("overloadHistory", l, c, overloads) BY <1>1, <1>3, UnblamedOurs
  <2>2. QED BY <1>1, <1>9, <2>1, ExpireBlames DEF OverloadActive
<1>10. CASE OverloadHistory(t)
  <2>1. AfterOverload(l) \in Unblamed BY <1>3 DEF AfterOverload
  <2>2. \A c : Ours(AfterOverload(l), l, c, overloads) BY <1>1, <2>1, UnblamedOurs
  <2>3. QED BY <1>1, <1>10, <2>2, ExpireBlames DEF OverloadHistory
<1>11. CASE RefusalRead(t)
  <2> DEFINE m == IF a.pairModel # NoModel THEN a.pairModel ELSE RefusalFallback
             p == IF a.pairModel # NoModel THEN a.pairProvider
                  ELSE PrimaryProvider(RefusalFallback)
             k == [l EXCEPT !.model = m, !.provider = p]
             next == IF m = l.model THEN "idle" ELSE "repin"
  <2>1. Continue(t, next, k) /\ UNCHANGED <<rows, overloads>>
    BY <1>1, <1>11 DEF RefusalRead, store, hist
  <2>2. p \in Bindings(m)
    BY TurnsAssumption, BoundFacts DEF BlameInv, Counted, Bound
  <2> HIDE DEF m, p
  <2>3. /\ k.act = l.act /\ k.role = l.role /\ k.bypassed = l.bypassed
        /\ k.model = m /\ k.provider = p
    BY <1>1, Zenon DEF Locals
  <2> HIDE DEF k
  <2>4. Ours(next, k, a, overloads) BY <1>1, <2>2, <2>3 DEF Ours, Steady
  <2> HIDE DEF next
  <2>5. QED BY <2>1, <2>4, OnwardBlames
<1>12. CASE RefusalRepin(t)
  <2> DEFINE w == PinWrite(l.model, l.provider, NoModel, NoProvider, "refusal")
  <2>1. l.provider \in Bindings(l.model) BY <1>2, <1>12 DEF RefusalRepin, At, Ours
  <2>2. /\ l.model \in Models /\ l.model # NoModel /\ l.provider \in Providers
    BY <2>1, NamesAssumption, BoundFacts DEF Bindings
  <2>3. w \in BoundWrites BY <2>1, <2>2, PinWriteBound DEF Reasons
  <2>4. SetRow("active", Upsert(a, w)) /\ Continue(t, "idle", Blank) /\ UNCHANGED overloads
    BY <1>1, <1>12 DEF RefusalRepin, hist
  <2>5. Ours("idle", Blank, Upsert(a, w), overloads) BY <1>1, <1>3, UnblamedOurs
  <2> HIDE DEF w
  <2>6. QED BY <2>3, <2>4, <2>5, UpsertBlames
<1>13. QED
  BY <1>4, <1>5, <1>6, <1>7, <1>8, <1>9, <1>10, <1>11, <1>12 DEF Judging

\* A change of the rows while every request stays where it is.
LEMMA StillBlames ==
  ASSUME IInv, BlameInv, UNCHANGED <<stage, turn, overloads>>, Spares,
         LET a == rows["active"]
             b == rows'["active"]
         IN  FairStatement(a, b) /\ (b.exists => /\ a.exists
                                                /\ b.model = a.model /\ b.ovErr = a.ovErr)
  PROVE  BlameInv'
<1> DEFINE a == rows["active"]
           b == rows'["active"]
<1>1. a \in Row /\ \A p \in Providers : overloads[p] \in Nat
  BY DEF IInv, TypeOK, Roles
<1>2. Counted(b, overloads) BY <1>1, FairKeeps DEF BlameInv
<1>3. ASSUME NEW t \in Turns PROVE Ours(stage[t], turn[t], b, overloads)
  <2>1. Ours(stage[t], turn[t], a, overloads) BY DEF BlameInv
  <2>2. QED BY <2>1 DEF Ours, Attached, Owed
<1>4. \A r \in Roles : \A p \in rows'[r].disabled :
        p \in Providers /\ overloads[p] >= OverloadThreshold
  BY DEF BlameInv, Spares
<1>5. QED BY <1>2, <1>3, <1>4 DEF BlameInv

LEMMA BlameKept ==
  ASSUME IInv, OneToBlame, BlameInv, [Next]_vars
  PROVE  BlameInv'
<1>1. rows["active"] \in Row /\ \A r \in Roles : rows[r] \in Row BY DEF IInv, TypeOK, Roles
<1>2. ASSUME NEW t \in Turns, Step(t) PROVE BlameInv'
  BY <1>2, EnteringBlames, RoutingBlames, ServingBlames, JudgingBlames DEF Step
<1>3. ASSUME NEW t \in Turns, Crash(t) PROVE BlameInv'
  <2>1. "idle" \in Unblamed BY DEF Unblamed, Stages
  <2>2. Continue(t, "idle", Blank) /\ UNCHANGED <<rows, overloads>>
    BY <1>3 DEF Crash, store, hist
  <2>3. QED BY <2>1, <2>2, EmptyBound, UnblamedOnward
<1>4. ASSUME NEW r \in Roles, Lapse(r) PROVE BlameInv'
  <2>1. SetRow(r, [rows[r] EXCEPT !.until = "past"]) /\ UNCHANGED <<stage, turn, overloads>>
    BY <1>4 DEF Lapse, hist
  <2>2. Spares BY <1>1, <2>1, SameDisabled, StatementSpares
  <2>3. CASE r = "active"
    <3>1. rows'["active"] = [rows["active"] EXCEPT !.until = "past"]
      BY <2>1, <2>3, ActiveMoves
    <3>2. /\ rows'["active"].exists = rows["active"].exists
          /\ rows'["active"].model = rows["active"].model
          /\ rows'["active"].ovErr = rows["active"].ovErr
      BY <1>1, <3>1 DEF Row
    <3>3. QED BY <2>1, <2>2, <3>1, <3>2, StillBlames DEF FairStatement
  <2>4. CASE r = "history"
    <3>1. rows'["active"] = rows["active"] BY <2>1, <2>4, ActiveMoves
    <3>2. QED BY <2>1, <2>2, <3>1, StillBlames DEF FairStatement
  <2>5. QED BY <2>3, <2>4 DEF Roles
<1>5. ASSUME NEW r \in Roles, Sweep(r) PROVE BlameInv'
  <2>1. SetRow(r, EmptyRow) /\ UNCHANGED <<stage, turn, overloads>> BY <1>5 DEF Sweep, hist
  <2>2. EmptyRow.disabled = {} /\ ~EmptyRow.exists BY DEF EmptyRow
  <2>3. Spares BY <2>1, <2>2, StatementSpares
  <2>4. CASE r = "active"
    <3>1. rows'["active"] = EmptyRow BY <2>1, <2>4, ActiveMoves
    <3>2. QED BY <2>1, <2>2, <2>3, <3>1, StillBlames DEF FairStatement
  <2>5. CASE r = "history"
    <3>1. rows'["active"] = rows["active"] BY <2>1, <2>5, ActiveMoves
    <3>2. QED BY <2>1, <2>3, <3>1, StillBlames DEF FairStatement
  <2>6. QED BY <2>4, <2>5 DEF Roles
<1>6. CASE UNCHANGED vars
  <2>1. UNCHANGED <<rows, stage, turn, overloads>> BY <1>6 DEF vars
  <2>2. Spares BY <2>1 DEF Spares
  <2>3. QED BY <2>1, <2>2, StillBlames DEF FairStatement
<1>7. QED BY <1>2, <1>3, <1>4, <1>5, <1>6 DEF Next

\* A provider is struck out of a session only after it ended two of its turns
\* with 529 (provider_overload.go, maybeDisableProviderAfterOverload): the
\* count is the row's, and where nothing moves a turn off the pinned model or
\* its only provider, whatever is forced, evicted, re-pinned, lapses, is swept or
\* dies half way, the row's overloads since its last change of model are the
\* provider's own.
THEOREM StruckOutAreToBlame ==
  ASSUME OneToBlame
  PROVE  Spec => []StruckOutWasOverloadedTwice
<1>1. IInv /\ BlameInv /\ [Next]_vars => BlameInv' BY BlameKept
<1>2. BlameInv => StruckOutWasOverloadedTwice BY DEF BlameInv, StruckOutWasOverloadedTwice
<1>3. QED BY <1>1, <1>2, BlameInit, Inductive, PTL DEF Spec

-----------------------------------------------------------------------------
(* What a request knows of the session, of requests that follow one another. *)

\* Nothing happens that leaves no trace in the rows, or takes a trace away.
TracesLeft == Features \cap {"bypass", "bypassFails", "crash", "sweep"} = {}

SameHistory(a, b) == /\ b.lastServed = a.lastServed /\ b.endedAt = a.endedAt
                     /\ b.everSwitched = a.everSwitched

KeepsHistory(a, b) == SameHistory(a, b) /\ (a.exists => b.exists)

\* The two rows give away that the session was served by m.
Tells(act, past, m) == EverSwitched(act, past) \/ PriorServed(act, past) = m

Recalls(l, m) == l.ever \/ l.prior = m

\* The request has been answered, and has yet to write so.
Unwritten(s, l) == s = "usageHistory" \/ (s = "usage" /\ l.tokens)

\* What a request with locals l at stage s, and the rows, know between them of
\* the models that have answered the session.
Informed(s, l, act, past, ans) ==
  /\ ~l.bypassed
  /\ ~Unwritten(s, l) => \A m \in ans : Tells(act, past, m)
  /\ s = "loadHistory" => SameHistory(l.act, act) /\ l.seen = ans
  /\ s \in {"route", "routed"} => l.seen = ans /\ \A m \in ans : Recalls(l, m)
  /\ s = "routed" /\ ~l.hmm => act.exists
  /\ Unwritten(s, l) => \A m \in ans : m = l.model \/ Recalls(l, m)
  /\ s = "usage" /\ ~l.hmm => act.exists /\ l.tokens
  /\ s = "readHistory" => l.hmm /\ ~l.tokens
  /\ s = "usageHistory" => past.exists

AllInformed ==
  \A t \in Turns : Informed(stage[t], turn[t], rows["active"], rows["history"], answered)

LEMMA InformedInit == Init => AllInformed
<1> SUFFICES ASSUME Init, NEW t \in Turns
             PROVE  Informed(stage[t], turn[t], rows["active"], rows["history"], answered)
  BY DEF AllInformed
<1>1. stage[t] = "idle" /\ turn[t] = Blank /\ answered = {} BY DEF Init
<1>2. ~Blank.bypassed BY DEF Blank
<1>3. QED BY <1>1, <1>2 DEF Informed, Unwritten

LEMMA StatementsKeepHistory ==
  ASSUME NEW a \in Row
  PROVE  /\ KeepsHistory(a, a)
         /\ \A w : KeepsHistory(a, Upsert(a, w))
         /\ KeepsHistory(a, IncrementUpstreamErrors(a)) /\ KeepsHistory(a, ResetUpstreamErrors(a))
         /\ KeepsHistory(a, IncrementOverloadErrors(a)) /\ KeepsHistory(a, ResetOverloadErrors(a))
         /\ \A p : KeepsHistory(a, DisableProvider(a, p))
         /\ KeepsHistory(a, [a EXCEPT !.until = "past"])
<1>1. \A w : KeepsHistory(a, Upsert(a, w)) BY DEF KeepsHistory, SameHistory, Upsert, Row
<1>2. KeepsHistory(a, IncrementUpstreamErrors(a)) /\ KeepsHistory(a, ResetUpstreamErrors(a))
  BY DEF KeepsHistory, SameHistory, IncrementUpstreamErrors, ResetUpstreamErrors, Row
<1>3. KeepsHistory(a, IncrementOverloadErrors(a)) /\ KeepsHistory(a, ResetOverloadErrors(a))
  BY DEF KeepsHistory, SameHistory, IncrementOverloadErrors, ResetOverloadErrors, Row
<1>4. \A p : KeepsHistory(a, DisableProvider(a, p))
  BY DEF KeepsHistory, SameHistory, DisableProvider, Row
<1>5. KeepsHistory(a, [a EXCEPT !.until = "past"]) BY DEF KeepsHistory, SameHistory, Row
<1>6. KeepsHistory(a, a) BY DEF KeepsHistory, SameHistory
<1>7. QED BY <1>1, <1>2, <1>3, <1>4, <1>5, <1>6

\* No row loses its history.
RowsTell == \A r \in Roles : KeepsHistory(rows[r], rows'[r])

LEMMA SetRowTells ==
  ASSUME IInv, NEW r \in Roles, NEW row, SetRow(r, row), KeepsHistory(rows[r], row)
  PROVE  RowsTell
<1>1. rows \in [Roles -> Row] /\ rows' = [rows EXCEPT ![r] = row] BY DEF IInv, TypeOK, SetRow
<1>2. ASSUME NEW q \in Roles PROVE KeepsHistory(rows[q], rows'[q])
  <2>1. rows[q] \in Row BY <1>1
  <2>2. CASE q = r BY <1>1, <2>2
  <2>3. CASE q # r
    <3>1. rows'[q] = rows[q] BY <1>1, <2>3
    <3>2. QED BY <2>1, <3>1, StatementsKeepHistory
  <2>4. QED BY <2>2, <2>3
<1>3. QED BY <1>2 DEF RowsTell

LEMMA UpsertTells ==
  ASSUME IInv, NEW r \in Roles, NEW w, SetRow(r, Upsert(rows[r], w))
  PROVE  RowsTell
<1>1. rows[r] \in Row BY DEF IInv, TypeOK
<1>2. KeepsHistory(rows[r], Upsert(rows[r], w)) BY <1>1, StatementsKeepHistory
<1>3. QED BY <1>2, SetRowTells

LEMMA UnchangedTells == ASSUME UNCHANGED rows PROVE RowsTell
BY DEF RowsTell, KeepsHistory, SameHistory

\* A row with the same history tells the same.
LEMMA TellsSame ==
  ASSUME RowsTell, NEW m, Tells(rows["active"], rows["history"], m)
  PROVE  Tells(rows'["active"], rows'["history"], m)
<1>1. /\ SameHistory(rows["active"], rows'["active"])
      /\ SameHistory(rows["history"], rows'["history"])
  BY DEF RowsTell, KeepsHistory, Roles
<1>2. QED BY <1>1 DEF Tells, EverSwitched, PriorServed, SameHistory

\* Stages before the rows are read and after the answer is written.
Untold == Stages \ {"loadHistory", "route", "routed", "readHistory", "usage", "usageHistory"}

LEMMA UntoldInformed ==
  ASSUME NEW s \in Untold, NEW l, NEW act, NEW past, NEW ans, ~l.bypassed,
         \A m \in ans : Tells(act, past, m)
  PROVE  Informed(s, l, act, past, ans)
BY DEF Informed, Unwritten, Untold

\* The only request there is goes on to stage s.
LEMMA InformedMove ==
  ASSUME IInv, OneAtATime, NEW t \in Turns, NEW s, NEW l, Continue(t, s, l),
         Informed(s, l, rows'["active"], rows'["history"], answered')
  PROVE  AllInformed'
<1> DEFINE k == IF s = "idle" THEN Blank ELSE l
<1>1. \A u \in Turns : u = t BY DEF OneAtATime
<1>2. stage'[t] = s /\ turn'[t] = k BY DEF Continue, IInv, TypeOK
<1>3. Informed(s, k, rows'["active"], rows'["history"], answered')
  <2>1. CASE s = "idle"
    <3>1. ~Blank.bypassed /\ "idle" \in Untold BY DEF Blank, Untold, Stages
    <3>2. \A m \in answered' : Tells(rows'["active"], rows'["history"], m)
      BY <2>1 DEF Informed, Unwritten
    <3>3. QED BY <2>1, <3>1, <3>2, UntoldInformed
  <2>2. CASE s # "idle" BY <2>2
  <2>3. QED BY <2>1, <2>2
<1> HIDE DEF k
<1>4. QED BY <1>1, <1>2, <1>3 DEF AllInformed

\* It does so without an answer, and without touching a row's history.
LEMMA UntoldMove ==
  ASSUME IInv, OneAtATime, AllInformed, NEW t \in Turns, ~Unwritten(stage[t], turn[t]),
         RowsTell, UNCHANGED answered, NEW s \in Untold, NEW l, Continue(t, s, l), ~l.bypassed
  PROVE  AllInformed'
<1>1. \A m \in answered : Tells(rows["active"], rows["history"], m) BY DEF AllInformed, Informed
<1>2. \A m \in answered' : Tells(rows'["active"], rows'["history"], m) BY <1>1, TellsSame
<1>3. QED BY <1>2, UntoldInformed, InformedMove

LEMMA AfterUntold ==
  ASSUME NEW l
  PROVE  /\ AfterOverload(l) \in Untold /\ AfterStrike(l) \in Untold
         /\ AfterDegenerate(l) \in Untold /\ AfterUsage(l) \in Untold
<1>1. {"refusal", "idle", "overload", "strike", "degenerate"} \subseteq Untold
  BY DEF Untold, Stages
<1>2. AfterOverload(l) \in Untold BY <1>1 DEF AfterOverload
<1>3. AfterStrike(l) \in Untold BY <1>1, <1>2 DEF AfterStrike
<1>4. AfterDegenerate(l) \in Untold BY <1>1, <1>3 DEF AfterDegenerate
<1>5. AfterUsage(l) \in Untold BY <1>1, <1>4 DEF AfterUsage
<1>6. QED BY <1>2, <1>3, <1>4, <1>5

LEMMA NotBypassed == ASSUME AllInformed, NEW t \in Turns PROVE ~turn[t].bypassed
BY DEF AllInformed, Informed

LEMMA EnteringInformed ==
  ASSUME IInv, OneAtATime, AllInformed, NEW t \in Turns, Entering(t)
  PROVE  AllInformed'
<1> DEFINE l == turn[t]
<1>1. /\ ~l.bypassed /\ ~Blank.bypassed /\ "active" \in Roles /\ "history" \in Roles
  BY NotBypassed DEF Blank, Roles
<1>2. Entries \cup {"idle", "breakHistory", "load", "budget", "pinEscalation", "recordEscalation"}
        \subseteq Untold
  BY DEF Entries, Untold, Stages
<1>3. ~Unwritten(stage[t], l)
  BY DEF Entering, StartTurn, ForceModel, UnforceModel, Begin, BreakActive, BreakHistory,
         EscalateRead, EscalateBudget, PinEscalation, RecordEscalation, At, Unwritten
<1>4. ASSUME RowsTell, UNCHANGED answered, NEW s \in Untold, NEW k, ~k.bypassed,
             Continue(t, s, k)
      PROVE  AllInformed'
  BY <1>3, <1>4, UntoldMove
<1>5. CASE StartTurn(t)
  BY <1>1, <1>2, <1>4, <1>5, UnchangedTells DEF StartTurn, store, hist
<1>6. CASE ForceModel(t)
  <2>1. RowsTell BY <1>1, <1>6, UpsertTells DEF ForceModel
  <2>2. \E s \in Untold : Continue(t, s, Blank) BY <1>2, <1>6 DEF ForceModel
  <2>3. UNCHANGED answered BY <1>6 DEF ForceModel
  <2>4. QED BY <1>1, <1>4, <2>1, <2>2, <2>3
<1>7. CASE UnforceModel(t)
  <2>1. RowsTell BY <1>1, <1>7, UpsertTells DEF UnforceModel
  <2>2. stage[t] = "idle" /\ UNCHANGED <<stage, turn, answered>>
    BY <1>7 DEF UnforceModel, Begin, At
  <2>3. \A m \in answered : Tells(rows["active"], rows["history"], m)
    BY <1>3 DEF AllInformed, Informed
  <2>4. \A m \in answered : Tells(rows'["active"], rows'["history"], m)
    BY <2>1, <2>3, TellsSame
  <2>5. Informed("idle", l, rows'["active"], rows'["history"], answered)
    BY <1>1, <1>2, <2>4, UntoldInformed
  <2>6. \A u \in Turns : u = t BY DEF OneAtATime
  <2>7. QED BY <2>2, <2>5, <2>6 DEF AllInformed
<1>8. CASE BreakActive(t)
  <2>1. RowsTell BY <1>1, <1>8, UpsertTells DEF BreakActive, Expire
  <2>2. QED BY <1>1, <1>2, <1>4, <1>8, <2>1 DEF BreakActive, Expire, hist
<1>9. CASE BreakHistory(t)
  <2>1. RowsTell BY <1>1, <1>9, UpsertTells DEF BreakHistory, Expire
  <2>2. QED BY <1>1, <1>2, <1>4, <1>9, <2>1 DEF BreakHistory, Expire, hist
<1>10. CASE EscalateRead(t)
  <2>1. \E s \in {"load", "budget"} : \E k : ~k.bypassed /\ Continue(t, s, k)
    <3> DEFINE pin == rows["active"]
    <3>1. CASE pin.reason = "loop"
      <4>1. Continue(t, "load", Blank) BY <1>10, <3>1 DEF EscalateRead
      <4>2. QED BY <1>1, <4>1
    <3>2. CASE pin.reason # "loop"
      <4>1. PICK requested \in Models :
              Continue(t, "budget",
                [Blank EXCEPT !.reason = pin.reason,
                              !.model = IF pin.model # NoModel THEN pin.model ELSE requested])
        BY <1>10, <3>2 DEF EscalateRead
      <4> DEFINE m == IF pin.model # NoModel THEN pin.model ELSE requested
                 k == [Blank EXCEPT !.reason = pin.reason, !.model = m]
      <4>2. ~k.bypassed BY DEF Blank
      <4>3. Continue(t, "budget", k) BY <4>1
      <4> HIDE DEF k
      <4>4. QED BY <4>2, <4>3
    <3>3. QED BY <3>1, <3>2
  <2>2. UNCHANGED <<rows, answered>> BY <1>10 DEF EscalateRead, store, hist
  <2>3. QED BY <1>2, <1>4, <2>1, <2>2, UnchangedTells
<1>11. CASE EscalateBudget(t)
  <2>1. \E s \in Untold, k \in {l, Blank} : Continue(t, s, k)
    BY <1>2, <1>11 DEF EscalateBudget
  <2>2. UNCHANGED <<rows, answered>> BY <1>11 DEF EscalateBudget, store, hist
  <2>3. QED BY <1>1, <1>4, <2>1, <2>2, UnchangedTells
<1>12. CASE PinEscalation(t)
  <2>1. RowsTell BY <1>1, <1>12, UpsertTells DEF PinEscalation
  <2>2. QED BY <1>1, <1>2, <1>4, <1>12, <2>1 DEF PinEscalation, hist
<1>13. CASE RecordEscalation(t)
  BY <1>1, <1>2, <1>4, <1>13, UnchangedTells DEF RecordEscalation, hist
<1>14. QED
  BY <1>5, <1>6, <1>7, <1>8, <1>9, <1>10, <1>11, <1>12, <1>13 DEF Entering

\* A decision keeps what the request recalls; unless HMM made it, a row exists.
LEMMA DecideInformed ==
  ASSUME IInv, OneAtATime, AllInformed, NEW t \in Turns, At(t, "route"), RowsTell,
         UNCHANGED answered, NEW m, NEW p, NEW why, NEW sticky, NEW role, NEW isHmm,
         isHmm \/ rows'["active"].exists, isHmm \in BOOLEAN,
         Continue(t, "routed", Decide(turn[t], m, p, why, sticky, role, isHmm))
  PROVE  AllInformed'
<1> DEFINE l == turn[t]
           k == Decide(l, m, p, why, sticky, role, isHmm)
<1>1. /\ k.bypassed = l.bypassed /\ k.seen = l.seen /\ k.ever = l.ever
      /\ k.prior = l.prior /\ k.hmm = isHmm
  BY LocalFacts, Zenon DEF Decide, Locals
<1>2. /\ ~l.bypassed /\ l.seen = answered /\ \A n \in answered : Recalls(l, n)
      /\ \A n \in answered : Tells(rows["active"], rows["history"], n)
  BY DEF At, AllInformed, Informed, Unwritten
<1>3. \A n \in answered : Tells(rows'["active"], rows'["history"], n) BY <1>2, TellsSame
<1>4. Continue(t, "routed", k) OBVIOUS
<1> HIDE DEF k
<1>5. Informed("routed", k, rows'["active"], rows'["history"], answered')
  BY <1>1, <1>2, <1>3 DEF Informed, Unwritten, Recalls
<1>6. QED BY <1>4, <1>5, InformedMove

LEMMA UpsertExists ==
  ASSUME IInv, NEW w, SetRow("active", Upsert(rows["active"], w))
  PROVE  RowsTell /\ rows'["active"].exists
<1>1. "active" \in Roles /\ rows["active"] \in Row BY DEF Roles, IInv, TypeOK
<1>2. RowsTell BY <1>1, UpsertTells
<1>3. rows'["active"] = Upsert(rows["active"], w) BY ActiveMoves
<1>4. QED BY <1>1, <1>2, <1>3 DEF Upsert, Row

LEMMA LoadsInformed ==
  ASSUME IInv, OneAtATime, AllInformed, NEW t \in Turns, LoadActive(t) \/ LoadHistory(t)
  PROVE  AllInformed'
<1> DEFINE l == turn[t]
           A == rows["active"]
           H == rows["history"]
<1>1. UNCHANGED <<rows, answered>> BY DEF LoadActive, LoadHistory, store, hist
<1>2. ~l.bypassed /\ \A m \in answered : Tells(A, H, m)
  BY DEF LoadActive, LoadHistory, At, AllInformed, Informed, Unwritten
<1>3. CASE LoadActive(t)
  <2> DEFINE struck == IF l.bypassed THEN l.struck ELSE A.disabled \cup H.disabled
             k == [l EXCEPT !.act = A, !.seen = answered, !.struck = struck]
  <2>1. Continue(t, "loadHistory", k) BY <1>3 DEF LoadActive
  <2> HIDE DEF struck
  <2>2. k.act = A /\ k.seen = answered /\ k.bypassed = l.bypassed
    BY LocalFacts, Zenon DEF Locals
  <2> HIDE DEF k
  <2>3. Informed("loadHistory", k, A, H, answered)
    BY <1>2, <2>2 DEF Informed, Unwritten, SameHistory
  <2> HIDE DEF A, H
  <2>4. QED BY <1>1, <2>1, <2>3, InformedMove DEF A, H
<1>4. CASE LoadHistory(t)
  <2> DEFINE prior == PriorServed(l.act, H)
             ever == EverSwitched(l.act, H)
             disabled == IF l.bypassed THEN l.disabled ELSE Disabled(l.act, H)
             k == [l EXCEPT !.past = H, !.prior = prior, !.ever = ever, !.disabled = disabled]
  <2>1. Continue(t, "route", k) BY <1>4 DEF LoadHistory
  <2>2. SameHistory(l.act, A) /\ l.seen = answered
    BY <1>4 DEF LoadHistory, At, AllInformed, Informed
  <2>3. prior = PriorServed(A, H) /\ ever = EverSwitched(A, H)
    BY <2>2 DEF SameHistory, PriorServed, EverSwitched
  <2> HIDE DEF prior, ever, disabled
  <2>4. k.prior = prior /\ k.ever = ever /\ k.seen = l.seen /\ k.bypassed = l.bypassed
    BY LocalFacts, Zenon DEF Locals
  <2> HIDE DEF k
  <2>5. \A m \in answered : Recalls(k, m) BY <1>2, <2>3, <2>4 DEF Tells, Recalls
  <2>6. Informed("route", k, A, H, answered)
    BY <1>2, <2>2, <2>4, <2>5 DEF Informed, Unwritten
  <2> HIDE DEF A, H
  <2>7. QED BY <1>1, <2>1, <2>6, InformedMove DEF A, H
<1>5. QED BY <1>3, <1>4

LEMMA RoutingInformed ==
  ASSUME IInv, OneAtATime, TracesLeft, AllInformed, NEW t \in Turns, Routing(t)
  PROVE  AllInformed'
<1> DEFINE l == turn[t]
           pin == turn[t].act
<1>1. ~l.bypassed /\ ~Blank.bypassed BY NotBypassed DEF Blank
<1>2. CASE LoadActive(t) \/ LoadHistory(t) BY <1>2, LoadsInformed
<1>3. ASSUME NEW w, SetRow("active", Upsert(rows["active"], w)), At(t, "route"),
             UNCHANGED answered, NEW m, NEW p, NEW why, NEW sticky, NEW role,
             NEW isHmm \in BOOLEAN,
             Continue(t, "routed", Decide(l, m, p, why, sticky, role, isHmm))
      PROVE  AllInformed'
  BY <1>3, UpsertExists, DecideInformed
<1>4. CASE RouteImmutable(t) BY <1>3, <1>4 DEF RouteImmutable, hist
<1>5. CASE RouteSticky(t)
  <2>1. \E m, p : Continue(t, "routed", Decide(l, m, p, pin.reason, TRUE, "active",
                                               pin.reason = "hmm"))
    BY <1>5 DEF RouteSticky
  <2>2. \E w : SetRow("active", Upsert(rows["active"], w)) BY <1>5 DEF RouteSticky
  <2>3. At(t, "route") /\ UNCHANGED answered BY <1>5 DEF RouteSticky, hist
  <2>4. (pin.reason = "hmm") \in BOOLEAN OBVIOUS
  <2> HIDE DEF l, pin
  <2>5. QED BY <1>3, <2>1, <2>2, <2>3, <2>4
<1>6. CASE RouteFresh(t) \/ RouteReanchor(t)
  <2>1. \E m, p, e, why, sticky : WriteNewPin(t, m, p, e, why, sticky)
    BY <1>6 DEF RouteFresh, RouteReanchor
  <2>2. At(t, "route") BY <1>6 DEF RouteFresh, RouteReanchor
  <2>3. PICK m, p, e, why, sticky : WriteNewPin(t, m, p, e, why, sticky) BY <2>1
  <2>4. (why = "hmm") \in BOOLEAN OBVIOUS
  <2>5. QED BY <1>3, <2>2, <2>3, <2>4 DEF WriteNewPin, hist
<1>7. CASE RouteHmm(t)
  <2>1. \E m, p, why, sticky, role :
          Continue(t, "routed", Decide(l, m, p, why, sticky, role, TRUE))
    <3>1. PICK f \in Fresh(l), passes \in BOOLEAN :
            \/ Continue(t, "routed", Decide(l, f[1][1], f[1][2], "hmm", FALSE, "active", TRUE))
            \/ \E c \in HmmStay(l, passes) :
                 Continue(t, "routed", Decide(l, c.model, c.provider, c.reason,
                                              TRUE, "history", TRUE))
      BY <1>7 DEF RouteHmm, Passes
    <3> HIDE DEF l
    <3>2. QED BY <3>1
  <2>2. At(t, "route") /\ UNCHANGED <<rows, answered>> BY <1>7 DEF RouteHmm, store, hist
  <2>3. TRUE \in BOOLEAN OBVIOUS
  <2> HIDE DEF l
  <2>4. QED BY <2>1, <2>2, <2>3, UnchangedTells, DecideInformed DEF l
<1>8. CASE RouteFails(t)
  <2>1. ~Unwritten(stage[t], l) BY <1>8 DEF RouteFails, At, Unwritten
  <2>2. "idle" \in Untold BY DEF Untold, Stages
  <2>3. QED BY <1>1, <1>8, <2>1, <2>2, UnchangedTells, UntoldMove DEF RouteFails, store, hist
<1>9. CASE BypassServed(t) \/ BypassFailed(t)
  BY <1>9 DEF BypassServed, BypassFailed, May, TracesLeft
<1>10. CASE RouteBypassed(t) BY <1>1, <1>10 DEF RouteBypassed
<1>11. QED BY <1>2, <1>4, <1>5, <1>6, <1>7, <1>8, <1>9, <1>10 DEF Routing

\* A written answer tells of the model that gave it, and of what its request knew.
LEMMA UsageTells ==
  ASSUME NEW a \in Row, NEW h \in Row, NEW m \in Models \cup {NoModel}, NEW by,
         NEW prior \in Models \cup {NoModel}, NEW ever \in BOOLEAN, NEW now,
         NEW n \in Models, n = m \/ ever \/ prior = n
  PROVE  /\ a.exists => Tells(UpdateUsage(a, m, by, prior, ever, now), h, n)
         /\ h.exists => Tells(a, UpdateUsage(h, m, by, prior, ever, now), n)
<1>1. n # NoModel BY NamesAssumption
<1>2. ASSUME NEW r \in Row, r.exists
      PROVE  LET b == UpdateUsage(r, m, by, prior, ever, now)
             IN  b.everSwitched \/ (n = m /\ b.lastServed = n)
  <2> DEFINE latch == r.everSwitched \/ ever \/ (r.lastServed # NoModel /\ r.lastServed # m)
                        \/ (prior # NoModel /\ prior # m)
  <2>1. UpdateUsage(r, m, by, prior, ever, now) =
          [r EXCEPT !.provider = by, !.lastServed = m, !.endedAt = now, !.everSwitched = latch]
    BY <1>2, Zenon DEF UpdateUsage
  <2>2. latch \/ n = m BY <1>1
  <2> HIDE DEF latch
  <2> DEFINE b == [r EXCEPT !.provider = by, !.lastServed = m, !.endedAt = now, !.everSwitched = latch]
  <2>3. b.everSwitched = latch /\ b.lastServed = m BY <1>2, Zenon DEF Row
  <2>4. QED BY <2>1, <2>2, <2>3
<1>3. ASSUME NEW x, NEW y, x.everSwitched \/ (n = m /\ x.lastServed = n)
      PROVE  Tells(x, y, n) /\ Tells(y, x, n)
  BY <1>1, <1>3 DEF Tells, EverSwitched, PriorServed
<1>4. QED BY <1>2, <1>3

LEMMA ServingInformed ==
  ASSUME IInv, OneAtATime, AllInformed, NEW t \in Turns, Serving(t)
  PROVE  AllInformed'
<1> DEFINE l == turn[t]
           A == rows["active"]
           H == rows["history"]
<1>1. /\ l \in Locals /\ A \in Row /\ H \in Row /\ answered \subseteq Models
      /\ "active" \in Roles /\ "history" \in Roles
  BY LocalFacts DEF IInv, TypeOK, Roles
<1>2. /\ Informed(stage[t], l, A, H, answered) /\ ~l.bypassed /\ ~Blank.bypassed
  BY NotBypassed DEF AllInformed, Blank
<1>3. CASE NoProgressRead(t) \/ TextRepetition(t)
  <2>1. \E s \in Untold : Continue(t, s, Blank)
    BY <1>3 DEF NoProgressRead, TextRepetition, Untold, Stages
  <2>2. UNCHANGED <<rows, answered>> /\ ~Unwritten(stage[t], l)
    BY <1>3 DEF NoProgressRead, TextRepetition, store, hist, At, Unwritten
  <2>3. QED BY <1>2, <2>1, <2>2, UnchangedTells, UntoldMove
<1>4. ASSUME NEW m, NEW p, NEW b, NEW e, e.tokens \in BOOLEAN, UNCHANGED rows, At(t, "routed"),
             answered' = IF e.tokens THEN answered \cup ({m} \ {NoModel}) ELSE answered,
             Continue(t, AfterDispatch(Ended(l, m, p, b, e)), Ended(l, m, p, b, e))
      PROVE  AllInformed'
  <2> DEFINE k == Ended(l, m, p, b, e)
  <2>1. /\ k.model = m /\ k.tokens = e.tokens /\ k.hmm = l.hmm /\ k.ever = l.ever
        /\ k.prior = l.prior /\ k.bypassed = l.bypassed
    BY <1>1, Zenon DEF Ended, Locals
  <2>2. Continue(t, AfterDispatch(k), k) BY <1>4
  <2> HIDE DEF k
  <2>3. /\ \A n \in answered : Recalls(l, n) /\ Tells(A, H, n)
        /\ ~l.hmm => A.exists
    BY <1>2, <1>4 DEF At, Informed, Unwritten
  <2>4. Informed(AfterDispatch(k), k, A, H, answered')
    <3>1. CASE e.tokens
      <4>1. AfterDispatch(k) = "usage" BY <2>1, <3>1 DEF AfterDispatch
      <4>2. \A n \in answered' : n = k.model \/ Recalls(k, n)
        BY <1>4, <2>1, <2>3, <3>1 DEF Recalls
      <4>3. QED BY <1>2, <2>1, <2>3, <3>1, <4>1, <4>2 DEF Informed, Unwritten
    <3>2. CASE ~e.tokens
      <4>1. \A n \in answered' : Tells(A, H, n) BY <1>4, <2>3, <3>2
      <4>2. CASE l.hmm
        <5>1. AfterDispatch(k) = "readHistory" BY <2>1, <3>2, <4>2 DEF AfterDispatch
        <5>2. QED BY <1>2, <2>1, <3>2, <4>1, <4>2, <5>1 DEF Informed, Unwritten
      <4>3. CASE ~l.hmm
        <5>1. AfterDispatch(k) = AfterUsage(k) BY <2>1, <3>2, <4>3 DEF AfterDispatch
        <5>2. QED BY <1>2, <2>1, <4>1, <5>1, AfterUntold, UntoldInformed
      <4>4. QED BY <4>2, <4>3
    <3>3. QED BY <1>4, <3>1, <3>2
  <2>5. Informed(AfterDispatch(k), k, rows'["active"], rows'["history"], answered')
    BY <1>4, <2>4
  <2>6. QED BY <2>2, <2>5, InformedMove
<1>5. CASE Dispatch(t)
  <2>1. \E m, p, b, e :
          /\ Continue(t, AfterDispatch(Ended(l, m, p, b, e)), Ended(l, m, p, b, e))
          /\ answered' = IF e.tokens THEN answered \cup ({m} \ {NoModel}) ELSE answered
          /\ e.tokens \in BOOLEAN
    <3>1. PICK s \in ServedBy(l), e \in Endings :
            /\ LET k == Ended(l, s[1], s[2], s[3], e) IN Continue(t, AfterDispatch(k), k)
            /\ answered' = IF e.tokens THEN answered \cup ({s[1]} \ {NoModel}) ELSE answered
      BY <1>5, Zenon DEF Dispatch
    <3>2. e.tokens \in BOOLEAN BY DEF Endings
    <3> HIDE DEF l
    <3>3. QED BY <3>1, <3>2
  <2>2. UNCHANGED rows /\ At(t, "routed") BY <1>5 DEF Dispatch, store
  <2> HIDE DEF l
  <2>3. PICK m, p, b, e :
          /\ Continue(t, AfterDispatch(Ended(l, m, p, b, e)), Ended(l, m, p, b, e))
          /\ answered' = IF e.tokens THEN answered \cup ({m} \ {NoModel}) ELSE answered
          /\ e.tokens \in BOOLEAN
    BY <2>1
  <2>4. QED BY <1>4, <2>2, <2>3
<1>6. CASE DispatchUnbound(t)
  <2> DEFINE e == [out |-> "other", tokens |-> FALSE, refused |-> FALSE, poor |-> FALSE]
  <2>1. Continue(t, AfterDispatch(Ended(l, l.model, l.provider, FALSE, e)),
                 Ended(l, l.model, l.provider, FALSE, e))
    BY <1>6 DEF DispatchUnbound
  <2>2. UNCHANGED <<rows, answered>> /\ At(t, "routed") /\ ~e.tokens /\ e.tokens \in BOOLEAN
    BY <1>6 DEF DispatchUnbound, store, hist
  <2> HIDE DEF e, l
  <2>3. PICK m, p, b :
          Continue(t, AfterDispatch(Ended(l, m, p, b, e)), Ended(l, m, p, b, e))
    BY <2>1
  <2>4. answered' = IF e.tokens THEN answered \cup ({m} \ {NoModel}) ELSE answered
    BY <2>2
  <2>5. QED BY <1>4, <2>2, <2>3, <2>4
<1>7. CASE RecordUsage(t)
  <2> DEFINE now == clock'
             B == UpdateUsage(A, l.model, l.provider, l.prior, l.ever, now)
  <2>1. /\ stage[t] = "usage" /\ ~l.hmm /\ SetRow("active", B) /\ UNCHANGED answered
        /\ Continue(t, AfterUsage(l), l)
    BY <1>7, Zenon DEF RecordUsage, At, hist
  <2>2. A.exists /\ l.tokens /\ \A n \in answered : n = l.model \/ Recalls(l, n)
    BY <1>2, <2>1 DEF Informed, Unwritten
  <2>3. /\ l.model \in Models \cup {NoModel} /\ l.prior \in Models \cup {NoModel}
        /\ l.ever \in BOOLEAN
    BY <1>1 DEF Locals
  <2>4. ASSUME NEW n \in answered PROVE Tells(B, H, n)
    <3>1. n \in Models /\ (n = l.model \/ l.ever \/ l.prior = n) BY <1>1, <2>2 DEF Recalls
    <3> HIDE DEF l, A, H, now
    <3>2. QED BY <1>1, <2>2, <2>3, <3>1, UsageTells
  <2>5. rows'["active"] = B /\ rows'["history"] = H
    BY <1>1, <2>1 DEF SetRow, IInv, TypeOK
  <2> HIDE DEF B
  <2>6. Informed(AfterUsage(l), l, rows'["active"], rows'["history"], answered')
    BY <1>2, <2>1, <2>4, <2>5, AfterUntold, UntoldInformed
  <2>7. QED BY <2>1, <2>6, InformedMove
<1>8. CASE ReadHistory(t)
  <2> DEFINE k == [l EXCEPT !.past = H]
  <2>1. /\ k.bypassed = l.bypassed /\ k.hmm = l.hmm /\ k.tokens = l.tokens
    BY <1>1, Zenon DEF Locals
  <2>2. Continue(t, "usage", k) /\ UNCHANGED <<rows, answered>> /\ stage[t] = "readHistory"
    BY <1>8 DEF ReadHistory, store, hist, At
  <2> HIDE DEF k
  <2>3. Informed("usage", k, A, H, answered) BY <1>2, <2>1, <2>2 DEF Informed, Unwritten
  <2>4. Informed("usage", k, rows'["active"], rows'["history"], answered') BY <2>2, <2>3
  <2>5. QED BY <2>2, <2>4, InformedMove
<1>9. CASE TouchHistory(t)
  <2> DEFINE k == [l EXCEPT !.past = EmptyRow]
             s == IF l.tokens THEN "usageHistory" ELSE AfterUsage(l)
             by == IF ~l.tokens /\ l.past.provider # NoProvider THEN l.past.provider
                   ELSE l.provider
             w == PinWrite(NoModel, by, NoModel, NoProvider, "hmm")
  <2>1. /\ stage[t] = "usage" /\ SetRow("history", Upsert(H, w)) /\ Continue(t, s, k)
        /\ UNCHANGED answered
    BY <1>9, Zenon DEF TouchHistory, At, hist
  <2>2. /\ k.bypassed = l.bypassed /\ k.tokens = l.tokens /\ k.model = l.model
        /\ k.ever = l.ever /\ k.prior = l.prior /\ k.hmm = l.hmm
    BY <1>1, Zenon DEF Locals
  <2> HIDE DEF k, w
  <2>3. RowsTell BY <1>1, <2>1, UpsertTells
  <2>4. CASE l.tokens
    <3>1. \A n \in answered : n = l.model \/ Recalls(l, n)
      BY <1>2, <2>1, <2>4 DEF Informed, Unwritten
    <3>2. \A n \in answered : n = k.model \/ Recalls(k, n) BY <2>2, <3>1 DEF Recalls
    <3>3. rows'["history"].exists
      BY <1>1, <2>1 DEF SetRow, IInv, TypeOK, Upsert, Row
    <3> DEFINE B == rows'["history"]
               C == rows'["active"]
    <3> HIDE DEF B, C
    <3>4. Informed("usageHistory", k, C, B, answered)
      BY <1>2, <2>2, <3>2, <3>3 DEF Informed, Unwritten, B
    <3>6. Informed("usageHistory", k, rows'["active"], rows'["history"], answered')
      BY <2>1, <3>4 DEF B, C
    <3>5. QED BY <2>1, <2>4, <3>6, InformedMove
  <2>5. CASE ~l.tokens
    <3>1. ~Unwritten(stage[t], l) BY <2>1, <2>5 DEF Unwritten
    <3>2. Continue(t, AfterUsage(l), k) BY <2>1, <2>5
    <3>3. QED BY <1>2, <2>1, <2>2, <2>3, <3>1, <3>2, AfterUntold, UntoldMove
  <2>6. QED BY <2>4, <2>5
<1>10. CASE RecordHistoryUsage(t)
  <2> DEFINE now == clock'
             B == UpdateUsage(H, l.model, l.provider, l.prior, l.ever, now)
  <2>1. /\ stage[t] = "usageHistory" /\ SetRow("history", B) /\ UNCHANGED answered
        /\ Continue(t, AfterUsage(l), l)
    BY <1>10, Zenon DEF RecordHistoryUsage, At, hist
  <2> HIDE DEF l, A, H, B
  <2>2. H.exists /\ \A n \in answered : n = l.model \/ Recalls(l, n)
    BY <1>2, <2>1 DEF Informed, Unwritten
  <2> USE DEF l, A, H, B
  <2>3. /\ l.model \in Models \cup {NoModel} /\ l.prior \in Models \cup {NoModel}
        /\ l.ever \in BOOLEAN
    BY <1>1 DEF Locals
  <2>4. ASSUME NEW n \in answered PROVE Tells(A, B, n)
    <3>1. n \in Models /\ (n = l.model \/ l.ever \/ l.prior = n) BY <1>1, <2>2 DEF Recalls
    <3> HIDE DEF l, A, H, now
    <3>2. QED BY <1>1, <2>2, <2>3, <3>1, UsageTells
  <2>5. rows'["history"] = B /\ rows'["active"] = A
    BY <1>1, <2>1 DEF SetRow, IInv, TypeOK
  <2> HIDE DEF B
  <2>6. Informed(AfterUsage(l), l, rows'["active"], rows'["history"], answered')
    BY <1>2, <2>1, <2>4, <2>5, AfterUntold, UntoldInformed
  <2>7. QED BY <2>1, <2>6, InformedMove
<1>11. QED
  BY <1>3, <1>5, <1>6, <1>7, <1>8, <1>9, <1>10 DEF Serving

LEMMA JudgingInformed ==
  ASSUME IInv, OneAtATime, AllInformed, NEW t \in Turns, Judging(t)
  PROVE  AllInformed'
<1> DEFINE l == turn[t]
           r == turn[t].role
<1>1. /\ l \in Locals /\ r \in Roles /\ rows[r] \in Row
      /\ "active" \in Roles /\ "history" \in Roles
  BY LocalFacts, RoleFacts DEF IInv, TypeOK, Roles
<1>2. ~l.bypassed /\ ~Blank.bypassed BY NotBypassed DEF Blank
<1>3. ~Unwritten(stage[t], l)
  BY DEF Judging, EvictDegenerate, CountStrike, EvictStruck, CountOverload,
         DisableOverloaded, OverloadActive, OverloadHistory, RefusalRead, RefusalRepin,
         At, Unwritten
<1>4. {"idle", "evict", "disable", "overloadActive", "overloadHistory", "repin"} \subseteq Untold
  BY DEF Untold, Stages
<1>5. UNCHANGED answered
  BY DEF Judging, EvictDegenerate, CountStrike, EvictStruck, CountOverload,
         DisableOverloaded, OverloadActive, OverloadHistory, RefusalRead, RefusalRepin,
         Expire, hist
<1>6. ASSUME RowsTell, NEW s \in Untold, NEW k, ~k.bypassed, Continue(t, s, k)
      PROVE  AllInformed'
  BY <1>3, <1>5, <1>6, UntoldMove
<1>7. ASSUME NEW q \in Roles, NEW s \in Untold, Expire(t, q, s, l) PROVE AllInformed'
  <2>1. RowsTell BY <1>7, UpsertTells DEF Expire
  <2>2. QED BY <1>2, <1>6, <1>7, <2>1 DEF Expire
<1>8. CASE EvictDegenerate(t) BY <1>1, <1>7, <1>8, AfterUntold DEF EvictDegenerate
<1>9. CASE EvictStruck(t) BY <1>1, <1>7, <1>9, AfterUntold DEF EvictStruck
<1>10. CASE OverloadActive(t) BY <1>1, <1>4, <1>7, <1>10 DEF OverloadActive
<1>11. CASE OverloadHistory(t) BY <1>1, <1>7, <1>11, AfterUntold DEF OverloadHistory
<1>12. CASE CountStrike(t)
  <2> DEFINE after == IF l.out = "ok" THEN ResetUpstreamErrors(rows[r])
                      ELSE IncrementUpstreamErrors(rows[r])
             s == IF l.out = "e4xx" /\ after.upErr >= StrikeThreshold
                  THEN "evict" ELSE AfterStrike(l)
  <2>1. SetRow(r, after) /\ Continue(t, s, l) BY <1>12, Zenon DEF CountStrike
  <2>2. KeepsHistory(rows[r], after) BY <1>1, StatementsKeepHistory
  <2>3. s \in Untold BY <1>4, AfterUntold
  <2> HIDE DEF after, s
  <2>4. RowsTell BY <1>1, <2>1, <2>2, SetRowTells
  <2>5. QED BY <1>2, <1>6, <2>1, <2>3, <2>4
<1>13. CASE CountOverload(t)
  <2> DEFINE after == IF l.out = "ok" THEN ResetOverloadErrors(rows[r])
                      ELSE IncrementOverloadErrors(rows[r])
             s == IF l.out = "e529" /\ after.ovErr >= OverloadThreshold
                  THEN "disable" ELSE AfterOverload(l)
  <2>1. SetRow(r, after) /\ Continue(t, s, l) BY <1>13, Zenon DEF CountOverload
  <2>2. KeepsHistory(rows[r], after) BY <1>1, StatementsKeepHistory
  <2>3. s \in Untold BY <1>4, AfterUntold
  <2> HIDE DEF after, s
  <2>4. RowsTell BY <1>1, <2>1, <2>2, SetRowTells
  <2>5. QED BY <1>2, <1>6, <2>1, <2>3, <2>4
<1>14. CASE DisableOverloaded(t)
  <2> DEFINE after == DisableProvider(rows[r], l.provider)
  <2>1. SetRow(r, after) /\ Continue(t, "overloadActive", l) BY <1>14 DEF DisableOverloaded
  <2>2. KeepsHistory(rows[r], after) BY <1>1, StatementsKeepHistory
  <2> HIDE DEF after
  <2>3. RowsTell BY <1>1, <2>1, <2>2, SetRowTells
  <2>4. QED BY <1>2, <1>4, <1>6, <2>1, <2>3
<1>15. CASE RefusalRead(t)
  <2> DEFINE row == rows[r]
             m == IF row.pairModel # NoModel THEN row.pairModel ELSE RefusalFallback
             p == IF row.pairModel # NoModel THEN row.pairProvider
                  ELSE PrimaryProvider(RefusalFallback)
             k == [l EXCEPT !.model = m, !.provider = p]
             s == IF m = l.model THEN "idle" ELSE "repin"
  <2>1. Continue(t, s, k) /\ UNCHANGED rows BY <1>15 DEF RefusalRead, store
  <2>2. s \in Untold BY <1>4
  <2> HIDE DEF m, p, s
  <2>3. k.bypassed = l.bypassed BY <1>1, Zenon DEF Locals
  <2> HIDE DEF k
  <2>4. QED BY <1>2, <1>6, <2>1, <2>2, <2>3, UnchangedTells
<1>16. CASE RefusalRepin(t)
  <2>1. RowsTell BY <1>1, <1>16, UpsertTells DEF RefusalRepin
  <2>2. QED BY <1>2, <1>4, <1>6, <1>16, <2>1 DEF RefusalRepin
<1>17. QED
  BY <1>8, <1>9, <1>10, <1>11, <1>12, <1>13, <1>14, <1>15, <1>16 DEF Judging

\* A request that stays where it is knows what it knew.
LEMMA StillInformed ==
  ASSUME IInv, AllInformed, RowsTell, UNCHANGED <<stage, turn, answered>>
  PROVE  AllInformed'
<1> SUFFICES ASSUME NEW t \in Turns
             PROVE  Informed(stage[t], turn[t], rows'["active"], rows'["history"], answered)
  BY DEF AllInformed
<1> DEFINE l == turn[t]
           A == rows["active"]
           H == rows["history"]
           B == rows'["active"]
           G == rows'["history"]
<1>1. Informed(stage[t], l, A, H, answered) BY DEF AllInformed
<1>2. KeepsHistory(A, B) /\ KeepsHistory(H, G) BY DEF RowsTell, Roles
<1>3. \A m \in answered : Tells(A, H, m) => Tells(B, G, m) BY TellsSame
<1> HIDE DEF l, A, H, B, G
<1>4. Informed(stage[t], l, B, G, answered)
  BY <1>1, <1>2, <1>3 DEF Informed, KeepsHistory, SameHistory
<1>5. QED BY <1>4 DEF l, B, G

LEMMA InformedKept ==
  ASSUME IInv, OneAtATime, TracesLeft, AllInformed, [Next]_vars
  PROVE  AllInformed'
<1>1. ASSUME NEW t \in Turns, Step(t) PROVE AllInformed'
  BY <1>1, EnteringInformed, RoutingInformed, ServingInformed, JudgingInformed DEF Step
<1>2. ASSUME NEW t \in Turns, Crash(t) PROVE FALSE BY <1>2 DEF Crash, May, TracesLeft
<1>3. ASSUME NEW r \in Roles, Sweep(r) PROVE FALSE BY <1>3 DEF Sweep, May, TracesLeft
<1>4. ASSUME NEW r \in Roles, Lapse(r) PROVE AllInformed'
  <2>1. rows[r] \in Row BY DEF IInv, TypeOK
  <2>2. RowsTell BY <1>4, <2>1, SetRowTells, StatementsKeepHistory DEF Lapse
  <2>3. QED BY <1>4, <2>2, StillInformed DEF Lapse, hist
<1>5. CASE UNCHANGED vars
  BY <1>5, StillInformed, UnchangedTells DEF vars
<1>6. QED BY <1>1, <1>2, <1>3, <1>4, <1>5 DEF Next

\* Two different models cannot both be the one that was served last.
LEMMA SeveralModels ==
  ASSUME NEW S, Cardinality(S) > 1
  PROVE  \A x : \E y \in S : y # x
<1> SUFFICES ASSUME NEW x, \A y \in S : y = x PROVE FALSE OBVIOUS
<1>1. S = {} \/ S = {x} OBVIOUS
<1>2. Cardinality(S) = 0 \/ Cardinality(S) = 1 BY <1>1, FS_EmptySet, FS_Singleton
<1>3. QED BY <1>2

\* A request knows what its session was served before it (turnloop.go,
\* switchHistoryFromPins; session_pins.sql, UpdateSessionPinUsage): as long as
\* every answer leaves a trace - no answer through the bypass, no replica dying
\* before the writeback, no sweep of the rows - a session of several models has
\* its latch on, and a change of model shows.
THEOREM HistoryAlwaysKnown ==
  ASSUME OneAtATime, TracesLeft
  PROVE  Spec => []RoutesKnowHistory
<1>1. IInv /\ AllInformed /\ [Next]_vars => AllInformed' BY InformedKept
<1>2. IInv /\ AllInformed => RoutesKnowHistory
  <2> SUFFICES ASSUME IInv, AllInformed, NEW t \in Turns, At(t, "routed")
               PROVE  LET l == turn[t]
                      IN  /\ Cardinality(l.seen) > 1 => l.ever
                          /\ l.seen \ {l.model} # {} => l.ever \/ l.prior \notin {NoModel, l.model}
    BY DEF RoutesKnowHistory
  <2> DEFINE l == turn[t]
  <2>1. \A m \in l.seen : l.ever \/ l.prior = m
    BY DEF At, AllInformed, Informed, Recalls
  <2>2. Cardinality(l.seen) > 1 => l.ever BY <2>1, SeveralModels
  <2>3. NoModel \notin l.seen BY LocalFacts, NamesAssumption DEF Locals
  <2>4. l.seen \ {l.model} # {} => l.ever \/ l.prior \notin {NoModel, l.model}
    BY <2>1, <2>3
  <2>5. QED BY <2>2, <2>4
<1>3. QED BY <1>1, <1>2, InformedInit, Inductive, PTL DEF Spec
=============================================================================
