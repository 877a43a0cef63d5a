------------------------------- MODULE Billing -------------------------------
(***************************************************************************)
(* The prepaid credits of one organisation in managed mode.                *)
(*                                                                         *)
(* A request passes four gates in order, each with its own fresh read: the *)
(* balance (middleware.WithBalanceCheck), the key's spend cap              *)
(* (WithAPIKeySpendCap), the organisation's monthly cap                    *)
(* (WithOrgMonthlySpendCap) and the engineer's monthly limit               *)
(* (Service.checkUserMonthlySpendLimit).  It is charged only after it was  *)
(* served: Service.emitBilling debits the inference and then any           *)
(* summarizer call, one SQL statement each (DebitOrgCredits), and          *)
(* Service.maybeSignalRecharge looks at the balance each debit returned.   *)
(* Requests of different slots, on any replica, interleave between any two *)
(* of these steps.                                                         *)
(*                                                                         *)
(* Amounts are USD micros.  Top-ups belong to the control plane: the       *)
(* router only ever sees the balance they leave.                           *)
(***************************************************************************)
EXTENDS Integers, Sequences, FiniteSets, Functions

CONSTANTS
  Slots,        \* requests that can be in flight at once
  Keys,         \* router API keys of the organisation
  Users,        \* engineers (router users)
  Org,          \* the organisation, as a spend counter
  Nobody,       \* no engineer identity was resolved
  Limit,        \* spend limit of each key, each engineer and the organisation
  NoLimit,      \* a limit that is not configured
  Costs,        \* the notional costs an upstream call can have
  ByokRows,     \* whether it may store its own provider keys: a set of Booleans
  StartBalance, \* balance when the model starts
  Threshold,    \* autopay threshold
  TopUp,        \* size of a top-up
  MaxRequests,  \* BOUND: requests that arrive, with stored keys and without
  MaxTopUps     \* BOUND: top-ups

Accounts == Keys \cup Users \cup {Org}

\* Keys and engineers have counters in tables of their own.
ASSUME AccountAssumption ==
  /\ IsFiniteSet(Slots) /\ Slots # {} /\ IsFiniteSet(Keys) /\ IsFiniteSet(Users)
  /\ Keys \cap Users = {} /\ Org \notin Keys \cup Users /\ Nobody \notin Accounts
ASSUME LimitAssumption == Limit \in [Accounts -> Nat \cup {NoLimit}]
\* The windows and output caps of the models bound what a call can cost.
ASSUME CostAssumption ==
  Costs \subseteq Nat /\ \E n \in Costs : n > 0 /\ \A m \in Costs : n >= m
ASSUME BalanceAssumption ==
  StartBalance \in Nat /\ Threshold \in Int /\ TopUp \in Nat /\ MaxTopUps \in Nat
ASSUME ByokAssumption == ByokRows \subseteq BOOLEAN /\ MaxRequests \in [BOOLEAN -> Nat]

VARIABLES
  stored,      \* the organisation stores its own provider keys
  balance,     \* organization_credit_balance.balance_usd_micros
  ledger,      \* organization_credit_ledger, oldest row first
  spent,       \* spent_usd_micros: lifetime per key, this month per engineer and org
  slots,       \* the request each slot carries
  crossings,   \* history: debits that took the balance below the threshold
  signals,     \* history: recharge signals sent
  missed,      \* history: crossings whose signal was dropped by an error
  requests,    \* history: requests that arrived
  topUps       \* history: top-ups made

vars == <<stored, balance, ledger, spent, slots, crossings, signals, missed, requests, topUps>>

\* What pays for an upstream call (deployment also stands for a client's own API key).
Payers == {"deployment", "byok", "subscription"}
PCs == {"idle", "balance", "key", "org", "user", "serve", "debit", "signal"}

Call == [payer : Payers, notional : Costs]
Idle == [pc |-> "idle", key |-> Nobody, user |-> Nobody, covered |-> FALSE,
         bypass |-> FALSE, override |-> FALSE, subOnly |-> FALSE,
         calls |-> <<>>, delta |-> 0, after |-> 0]
Slot == [pc : PCs, key : Keys \cup {Nobody}, user : Users \cup {Nobody},
         covered : BOOLEAN, bypass : BOOLEAN, override : BOOLEAN, subOnly : BOOLEAN,
         calls : Seq(Call), delta : Int, after : Int]
Row == [type : {"inference", "byok_fee", "top_up"}, payer : Payers,
        notional : Nat, delta : Int, after : Int]

-----------------------------------------------------------------------------
(* Amounts                                                                 *)

\* byokFeeMicros: 5% of the notional cost, in integers, rounded half up.
ByokFee(notional) ==
  IF notional <= 0 THEN 0 ELSE (notional * 500 + 5000) \div 10000

\* DebitForInference: the signed change of the inference row and of the fee row.
Amounts(call, override) ==
  [delta |-> IF override \/ call.payer # "deployment" THEN 0 ELSE -call.notional,
   fee   |-> IF ~override /\ call.payer = "byok" THEN -ByokFee(call.notional) ELSE 0]

\* The balance an inference row shows: the one before the fee.
BeforeFee(a, final) == final - a.fee

\* The rows of one debit.
Rows(a, call, final) ==
  <<[type |-> "inference", payer |-> call.payer, notional |-> call.notional,
     delta |-> a.delta, after |-> BeforeFee(a, final)]>>
  \o (IF a.fee # 0
      THEN <<[type |-> "byok_fee", payer |-> call.payer, notional |-> 0,
              delta |-> a.fee, after |-> final]>>
      ELSE <<>>)

\* Mutant: the balance_after of the inference row.
ReturnedFromLedgerRow(a, final) == final - a.fee

\* What the statement returns to the caller: the balance after delta and fee.
Returned(a, final) == final

\* Mutant: the whole attribution hangs on the engineer.
CountersOfKnownUser(t) == IF t.user = Nobody THEN {t.key} ELSE {t.key, t.user, Org}

\* The counters one debit moves; an unresolved engineer has none.
Counters(t) == {t.key, t.user, Org} \ {Nobody}

-----------------------------------------------------------------------------
(* Gates                                                                   *)

TypeOK ==
  /\ stored \in ByokRows
  /\ balance \in Int
  /\ ledger \in Seq(Row)
  /\ spent \in [Accounts -> Nat]
  /\ slots \in [Slots -> Slot]
  /\ crossings \in Nat /\ signals \in Nat /\ missed \in Nat
  /\ requests \in 0..MaxRequests[stored] /\ topUps \in 0..MaxTopUps

Init ==
  /\ stored \in ByokRows
  /\ balance = StartBalance
  /\ ledger = <<>>
  /\ spent = [a \in Accounts |-> 0]
  /\ slots = [s \in Slots |-> Idle]
  /\ crossings = 0 /\ signals = 0 /\ missed = 0
  /\ requests = 0 /\ topUps = 0

Books == <<stored, balance, ledger, spent, crossings, signals, missed, topUps>>

\* A request with its key, engineer and the credentials it presents.
Arrive(s) ==
  /\ slots[s].pc = "idle"
  /\ requests < MaxRequests[stored]
  /\ requests' = requests + 1
  /\ \E k \in Keys, u \in Users \cup {Nobody}, covered \in BOOLEAN, bypass \in BOOLEAN :
       slots' = [slots EXCEPT ![s] = [Idle EXCEPT !.pc = "balance", !.key = k, !.user = u,
                                                  !.covered = covered, !.bypass = bypass]]
  /\ UNCHANGED Books

\* 402 and 503 end the request; nothing was served and nothing is charged.
Refuse(s) ==
  /\ slots' = [slots EXCEPT ![s] = Idle]
  /\ UNCHANGED <<Books, requests>>

Pass(s, t) ==
  /\ slots' = [slots EXCEPT ![s] = t]
  /\ UNCHANGED <<Books, requests>>

\* Mutant: zero still passes.
Overdrawn == balance < 0

\* At or below MinBalanceMicros.
Depleted == balance <= 0

\* WithBalanceCheck.  An override, which the control plane may grant or end at any time,
\* is read first; then the balance; a read error refuses the request.
BalanceGate(s) ==
  LET t == slots[s] IN
  /\ t.pc = "balance"
  /\ \/ Pass(s, [t EXCEPT !.pc = "key", !.override = TRUE])
     \/ ~Depleted /\ Pass(s, [t EXCEPT !.pc = "key"])
     \/ Depleted /\ t.covered /\ Pass(s, [t EXCEPT !.pc = "key", !.subOnly = TRUE])
     \/ Depleted /\ ~t.covered /\ Refuse(s)
     \/ Refuse(s)

\* The three caps, in order: the key's, the organisation's, the engineer's.  An override
\* lifts the two monthly ones; no identity, no engineer limit.
CappedAccount(t) == CASE t.pc = "key" -> t.key [] t.pc = "org" -> Org [] OTHER -> t.user
AfterCap(t) == CASE t.pc = "key" -> "org" [] t.pc = "org" -> "user" [] OTHER -> "serve"
SkipsCap(t) == (t.pc # "key" /\ t.override) \/ CappedAccount(t) = Nobody

\* SpentMicros >= *CapMicros, and LimitReached.
Reached(a) == Limit[a] # NoLimit /\ spent[a] >= Limit[a]

CapGate(s) ==
  LET t == slots[s]
      passed == [t EXCEPT !.pc = AfterCap(t)] IN
  /\ t.pc \in {"key", "org", "user"}
  /\ \/ SkipsCap(t) /\ Pass(s, passed)
     \/ /\ ~SkipsCap(t)
        /\ \/ ~Reached(CappedAccount(t)) /\ Pass(s, passed)
           \/ /\ Reached(CappedAccount(t)) /\ t.covered /\ t.bypass
              /\ Pass(s, [passed EXCEPT !.subOnly = TRUE])
           \/ Reached(CappedAccount(t)) /\ ~(t.covered /\ t.bypass) /\ Refuse(s)
           \/ Refuse(s)

-----------------------------------------------------------------------------
(* Serving and charging                                                    *)

\* Who can pay for the turn: a covering subscription, a stored key, the deployment.
TurnPayers(t) ==
  {"deployment"} \cup (IF t.covered THEN {"subscription"} ELSE {})
                 \cup (IF stored THEN {"byok"} ELSE {})

\* resolveSummarizerCreds: a summarizer call (handover or compaction) never runs on the
\* subscription; it runs on a stored key, or on the deployment key when the request
\* carries no credential of its own (requestUsesNonDeploymentCreds).
SummaryPayers(t) ==
  IF stored THEN {"byok"} ELSE IF t.covered THEN {} ELSE {"deployment"}

\* The guard of ProxyMessages: a subscription-only turn is served on the subscription.
MayServe(t, payer) == t.subOnly => payer = "subscription"

\* A served turn has at most one summary (the code can make two; they settle alike).
Summaries(t) ==
  {<<>>} \cup {<<call>> : call \in [payer : SummaryPayers(t), notional : Costs]}

\* A failed or refused turn owes nothing; a served one its inference and its summary.
Serve(s) ==
  LET t == slots[s] IN
  /\ t.pc = "serve"
  /\ \/ Refuse(s)
     \/ \E call \in [payer : TurnPayers(t), notional : Costs], summary \in Summaries(t) :
          /\ MayServe(t, call.payer)
          /\ Pass(s, [t EXCEPT !.pc = "debit", !.calls = <<call>> \o summary])

\* The slot after one of its calls was settled.
Settled(t) ==
  IF Len(t.calls) = 1 THEN Idle ELSE [t EXCEPT !.pc = "debit", !.calls = Tail(t.calls)]

\* DebitOrgCredits: balance, ledger rows and counters move together.
Post(t) ==
  LET call == Head(t.calls)
      a == Amounts(call, t.override)
      final == balance + a.delta + a.fee IN
  /\ balance' = final
  /\ ledger' = ledger \o Rows(a, call, final)
  /\ spent' = [x \in Accounts |-> spent[x] - (IF x \in Counters(t) THEN a.delta + a.fee ELSE 0)]
  /\ crossings' = crossings + (IF balance >= Threshold /\ final < Threshold THEN 1 ELSE 0)

\* DebitForInference up to the repo call.  It has 5 seconds: it may land and answer, fail
\* without landing, or land with its answer lost, and then the crossing is not looked at.
Debit(s) ==
  LET t == slots[s]
      a == Amounts(Head(t.calls), t.override) IN
  /\ t.pc = "debit"
  /\ \/ /\ Post(t)
        /\ slots' = [slots EXCEPT ![s] = [t EXCEPT !.pc = "signal", !.delta = a.delta + a.fee,
                                                   !.after = Returned(a, balance')]]
        /\ UNCHANGED missed
     \/ /\ Post(t)
        /\ slots' = [slots EXCEPT ![s] = Settled(t)]
        /\ missed' = missed + (crossings' - crossings)
     \/ /\ slots' = [slots EXCEPT ![s] = Settled(t)]
        /\ UNCHANGED <<balance, ledger, spent, crossings, missed>>
  /\ UNCHANGED <<stored, signals, requests, topUps>>

\* maybeSignalRecharge: rebuilds the balance before the debit from what it returned.
CrossedDown(t) == t.delta < 0 /\ t.after - t.delta >= Threshold /\ t.after < Threshold
Signal(s) ==
  LET t == slots[s] IN
  /\ t.pc = "signal"
  /\ slots' = [slots EXCEPT ![s] = [Settled(t) EXCEPT !.delta = 0, !.after = 0]]
  /\ \/ CrossedDown(t) /\ signals' = signals + 1 /\ UNCHANGED missed
     \* The autopay configuration could not be read, or autopay is off.
     \/ CrossedDown(t) /\ missed' = missed + 1 /\ UNCHANGED signals
     \/ ~CrossedDown(t) /\ UNCHANGED <<signals, missed>>
  /\ UNCHANGED <<stored, balance, ledger, spent, crossings, requests, topUps>>

\* External: the control plane books a payment.
Pay ==
  /\ topUps < MaxTopUps
  /\ topUps' = topUps + 1
  /\ balance' = balance + TopUp
  /\ ledger' = Append(ledger, [type |-> "top_up", payer |-> "deployment", notional |-> 0,
                               delta |-> TopUp, after |-> balance + TopUp])
  /\ UNCHANGED <<stored, spent, slots, crossings, signals, missed, requests>>

Next ==
  \/ \E s \in Slots :
       Arrive(s) \/ BalanceGate(s) \/ CapGate(s) \/ Serve(s) \/ Debit(s) \/ Signal(s)
  \/ Pay

Spec == Init /\ [][Next]_vars

-----------------------------------------------------------------------------
(* Properties                                                              *)

\* The ledger replays to the balance: each row's balance_after is the one before it moved
\* by its own delta, fee rows included, whatever requests interleave; top-ups too.
LedgerReplays ==
  LET before(i) == IF i = 1 THEN StartBalance ELSE ledger[i - 1].after IN
  /\ \A i \in DOMAIN ledger : ledger[i].after = before(i) + ledger[i].delta
  /\ balance = before(Len(ledger) + 1)

\* What the counters of some accounts add up to, and what the ledger took.
Over(S) == SumFunctionOnSet(spent, S)
Taken ==
  SumFunction([i \in DOMAIN ledger |->
                 IF ledger[i].type = "top_up" THEN 0 ELSE -ledger[i].delta])

\* The books balance: the ledger replays, and the spend counters agree with it and with each
\* other: the organisation's month equals the sum over its keys and the sum of what the
\* ledger took, and the engineers account for no more than that (billing.sql, one statement).
BooksBalance ==
  /\ LedgerReplays
  /\ spent[Org] = Over(Keys)
  /\ spent[Org] = Taken
  /\ Over(Users) <= spent[Org]

\* A recharge signal is sent once for each debit that takes the balance from at or above
\* the threshold to below it, fees included, unless an error drops it: no crossing is
\* overlooked and none is signalled twice, however debits and top-ups interleave.
EveryCrossingSeen ==
  signals + missed + Cardinality({s \in Slots : slots[s].pc = "signal" /\ CrossedDown(slots[s])})
    = crossings

\* What a paid request can cost: its inference and one summary.
MaxCharge == 2 * (CHOOSE n \in Costs : \A m \in Costs : n >= m)

\* Every slot can overrun a limit once: the balance never falls further below zero, and no
\* counter rises further above its limit, than one request for each slot in flight.
\* (Without stored provider keys: see v_subscription_only_debited.)
OvershootBounded ==
  ~stored =>
    /\ balance > -(Cardinality(Slots) * MaxCharge)
    /\ \A a \in Accounts :
         Limit[a] # NoLimit => spent[a] < Limit[a] + Cardinality(Slots) * MaxCharge

\* A request that was let through only because its subscription covers it moves no money.
SubscriptionOnlyIsFree ==
  [][\A s \in Slots :
       slots[s].subOnly /\ slots'[s] # slots[s] => UNCHANGED <<balance, spent>>]_vars

\* As the comment on WithAPIKeySpendCap has it (api_key_spend_cap.go:24-25): a key can
\* overshoot by at most one in-flight request's cost.
KeyOvershootsByOneRequest ==
  \A k \in Keys : Limit[k] # NoLimit => spent[k] < Limit[k] + MaxCharge

=============================================================================
