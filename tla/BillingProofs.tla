---------------------------- MODULE BillingProofs ----------------------------
(***************************************************************************)
(* What Billing keeps for every number of requests in flight, of keys and  *)
(* of engineers, and for all limits, costs and thresholds: the books       *)
(* balance, no crossing of the threshold is overlooked, and limits are     *)
(* overrun by no more than what is in flight.                              *)
(***************************************************************************)
EXTENDS Billing, FiniteSetTheorems, SequenceTheorems, WellFoundedInduction, TLAPS

-----------------------------------------------------------------------------
(* Induction.                                                              *)

\* A set of naturals that holds zero and, of each, the next, holds them all.
LEMMA Induction ==
  ASSUME NEW T, 0 \in T, \A n \in Nat : n \in T => n + 1 \in T
  PROVE  Nat \subseteq T
<1> DEFINE Below == {p \in Nat \X Nat : p[1] < p[2]}
<1>1. IsWellFoundedOn(Below, Nat)
  BY NatLessThanWellFounded DEF OpToRel
<1> HIDE DEF Below
<1>2. SUFFICES ASSUME Nat \ T # {} PROVE FALSE
  OBVIOUS
<1>3. PICK n \in Nat \ T : \A m \in Nat \ T : ~(<<m, n>> \in Below)
  BY <1>1, <1>2, WFMin
<1>4. n # 0 /\ n - 1 \in Nat
  BY <1>3
<1>5. <<n - 1, n>> \in Below
  BY <1>4 DEF Below
<1>6. n - 1 \in T
  BY <1>3, <1>4, <1>5
<1> QED
  BY <1>3, <1>4, <1>6

-----------------------------------------------------------------------------
(* Sums.  SumFunctionOnSet is a recursive function on the subsets of a set *)
(* that takes a chosen element out at each call; what is needed of it is   *)
(* that the order does not matter.                                         *)

OneOf(s) == CHOOSE x \in s : TRUE

SumStep(f, g, s) == IF s = {} THEN 0 ELSE f[OneOf(s)] + g[s \ {OneOf(s)}]

SumsOver(f, g, D) == g = [s \in D |-> SumStep(f, g, s)]

SumOf(f, S) == CHOOSE g : SumsOver(f, g, SUBSET S)

LEMMA SumUnfolded ==
  ASSUME NEW f, NEW S
  PROVE  SumFunctionOnSet(f, S) = SumOf(f, S)[S]
  BY DEF SumFunctionOnSet, FoldFunctionOnSet, MapThenFoldSet, SumOf, SumsOver, SumStep, OneOf

\* A set without one of its elements.
LEMMA Smaller ==
  ASSUME NEW s, IsFiniteSet(s), s # {}
  PROVE  /\ OneOf(s) \in s
         /\ IsFiniteSet(s \ {OneOf(s)})
         /\ Cardinality(s) \in Nat /\ Cardinality(s) > 0
         /\ Cardinality(s \ {OneOf(s)}) = Cardinality(s) - 1
<1>1. OneOf(s) \in s
  BY DEF OneOf
<1>2. Cardinality(s) \in Nat /\ Cardinality(s) # 0
  BY FS_CardinalityType, FS_EmptySet
<1>3. IsFiniteSet(s \ {OneOf(s)}) /\ Cardinality(s \ {OneOf(s)}) = Cardinality(s) - 1
  BY <1>1, FS_RemoveElement
<1> QED
  BY <1>1, <1>2, <1>3

LEMMA SumExists ==
  ASSUME NEW f, NEW S, IsFiniteSet(S)
  PROVE  SumsOver(f, SumOf(f, S), SUBSET S)
<1> DEFINE Small(n) == {s \in SUBSET S : Cardinality(s) <= n}
           T == {n \in Nat : \E g : SumsOver(f, g, Small(n))}
<1>1. \A s \in SUBSET S : IsFiniteSet(s) /\ Cardinality(s) \in Nat
  BY FS_Subset, FS_CardinalityType
<1>2. 0 \in T
  <2> DEFINE g == [s \in Small(0) |-> 0]
  <2>1. \A s \in Small(0) : s = {}
    BY <1>1, FS_EmptySet
  <2>2. SumsOver(f, g, Small(0))
    BY <2>1 DEF SumsOver, SumStep
  <2> QED
    BY <2>2
<1>3. ASSUME NEW n \in Nat, n \in T PROVE n + 1 \in T
  <2>1. PICK g : SumsOver(f, g, Small(n))
    BY <1>3
  <2> DEFINE h == [s \in Small(n + 1) |-> SumStep(f, g, s)]
  <2>2. ASSUME NEW s \in Small(n + 1) PROVE SumStep(f, g, s) = SumStep(f, h, s)
    <3>1. CASE s = {}
      BY <3>1 DEF SumStep
    <3>2. CASE s # {}
      <4> DEFINE rest == s \ {OneOf(s)}
      <4>1. rest \in Small(n) /\ rest \in Small(n + 1)
        BY <1>1, <3>2, Smaller
      <4>2. g[rest] = SumStep(f, g, rest)
        BY <2>1, <4>1 DEF SumsOver
      <4>3. h[rest] = SumStep(f, g, rest)
        BY <4>1
      <4> HIDE DEF h
      <4> QED
        BY <3>2, <4>2, <4>3 DEF SumStep
    <3> QED
      BY <3>1, <3>2
  <2>3. SumsOver(f, h, Small(n + 1))
    BY <2>2 DEF SumsOver
  <2> HIDE DEF h, Small
  <2> QED
    BY <2>3
<1>4. Cardinality(S) \in T
  <2> HIDE DEF T
  <2> QED
    BY <1>1, <1>2, <1>3, Induction
<1>5. Small(Cardinality(S)) = SUBSET S
  <2>1. ASSUME NEW s \in SUBSET S PROVE Cardinality(s) <= Cardinality(S)
    BY FS_Subset
  <2> QED
    BY <2>1
<1>6. \E g : SumsOver(f, g, SUBSET S)
  BY <1>4, <1>5
<1> QED
  BY <1>6 DEF SumOf

LEMMA SumApplied ==
  ASSUME NEW f, NEW S, IsFiniteSet(S), NEW s \in SUBSET S
  PROVE  SumOf(f, S)[s] = SumStep(f, SumOf(f, S), s)
<1> DEFINE g == SumOf(f, S)
<1>1. SumsOver(f, g, SUBSET S)
  BY SumExists
<1> HIDE DEF g
<1>2. g[s] = SumStep(f, g, s)
  BY <1>1 DEF SumsOver
<1> QED
  BY <1>2 DEF g

\* Sums over two sets agree on what both have.
LEMMA SumsAgree ==
  ASSUME NEW f, NEW S, NEW R, R \subseteq S, IsFiniteSet(S)
  PROVE  SumOf(f, S)[R] = SumOf(f, R)[R]
<1> DEFINE g == SumOf(f, S)
           h == SumOf(f, R)
           T == {n \in Nat : \A s \in SUBSET R : Cardinality(s) = n => g[s] = h[s]}
<1>1. IsFiniteSet(R) /\ \A s \in SUBSET R : IsFiniteSet(s) /\ Cardinality(s) \in Nat
  BY FS_Subset, FS_CardinalityType
<1>2. /\ \A s \in SUBSET S : g[s] = SumStep(f, g, s)
      /\ \A s \in SUBSET R : h[s] = SumStep(f, h, s)
  BY <1>1, SumApplied
<1> HIDE DEF g, h
<1>3. 0 \in T
  <2>1. \A s \in SUBSET R : Cardinality(s) = 0 => s = {}
    BY <1>1, FS_EmptySet
  <2> QED
    BY <1>2, <2>1 DEF SumStep
<1>4. ASSUME NEW n \in Nat, n \in T PROVE n + 1 \in T
  <2> SUFFICES ASSUME NEW s \in SUBSET R, Cardinality(s) = n + 1 PROVE g[s] = h[s]
    OBVIOUS
  <2>1. s # {}
    BY FS_EmptySet
  <2>2. s \ {OneOf(s)} \in SUBSET R /\ Cardinality(s \ {OneOf(s)}) = n
    BY <1>1, <2>1, Smaller
  <2>3. g[s \ {OneOf(s)}] = h[s \ {OneOf(s)}]
    BY <1>4, <2>2
  <2> QED
    BY <1>2, <2>1, <2>3 DEF SumStep
<1>5. Cardinality(R) \in T
  <2> HIDE DEF T
  <2> QED
    BY <1>1, <1>3, <1>4, Induction
<1> QED
  BY <1>5 DEF g, h

LEMMA SumEmpty == ASSUME NEW f PROVE SumFunctionOnSet(f, {}) = 0
<1>1. SumOf(f, {})[{}] = SumStep(f, SumOf(f, {}), {})
  BY FS_EmptySet, SumApplied
<1> QED
  BY <1>1, SumUnfolded DEF SumStep

LEMMA SumChosen ==
  ASSUME NEW f, NEW S, IsFiniteSet(S), S # {}
  PROVE  SumFunctionOnSet(f, S) = f[OneOf(S)] + SumFunctionOnSet(f, S \ {OneOf(S)})
<1>1. SumOf(f, S)[S] = f[OneOf(S)] + SumOf(f, S)[S \ {OneOf(S)}]
  <2>1. SumOf(f, S)[S] = SumStep(f, SumOf(f, S), S)
    BY SumApplied
  <2> QED
    BY <2>1 DEF SumStep
<1>2. SumOf(f, S)[S \ {OneOf(S)}] = SumFunctionOnSet(f, S \ {OneOf(S)})
  BY SumsAgree, SumUnfolded
<1> QED
  BY <1>1, <1>2, SumUnfolded

\* A sum is an integer, depends on nothing else of the function, and is that
\* of any element and of the rest.
LEMMA SumTyped ==
  ASSUME NEW f, NEW S, IsFiniteSet(S), \A x \in S : f[x] \in Int
  PROVE  SumFunctionOnSet(f, S) \in Int
<1> DEFINE T == {n \in Nat : \A s \in SUBSET S : Cardinality(s) = n => SumFunctionOnSet(f, s) \in Int}
<1>1. \A s \in SUBSET S : IsFiniteSet(s) /\ Cardinality(s) \in Nat
  BY FS_Subset, FS_CardinalityType
<1>2. 0 \in T
  BY <1>1, FS_EmptySet, SumEmpty
<1>3. ASSUME NEW n \in Nat, n \in T PROVE n + 1 \in T
  <2> SUFFICES ASSUME NEW s \in SUBSET S, Cardinality(s) = n + 1
               PROVE  SumFunctionOnSet(f, s) \in Int
    OBVIOUS
  <2>1. s # {}
    BY FS_EmptySet
  <2>2. OneOf(s) \in s /\ s \ {OneOf(s)} \in SUBSET S /\ Cardinality(s \ {OneOf(s)}) = n
    BY <1>1, <2>1, Smaller
  <2>3. SumFunctionOnSet(f, s \ {OneOf(s)}) \in Int
    BY <1>3, <2>2
  <2> QED
    BY <1>1, <2>1, <2>2, <2>3, SumChosen
<1>4. Cardinality(S) \in T
  <2> HIDE DEF T
  <2> QED
    BY <1>1, <1>2, <1>3, Induction
<1> QED
  BY <1>4

LEMMA SumSame ==
  ASSUME NEW f, NEW g, NEW S, IsFiniteSet(S), \A x \in S : f[x] = g[x]
  PROVE  SumFunctionOnSet(f, S) = SumFunctionOnSet(g, S)
<1> DEFINE T == {n \in Nat : \A s \in SUBSET S :
                    Cardinality(s) = n => SumFunctionOnSet(f, s) = SumFunctionOnSet(g, s)}
<1>1. \A s \in SUBSET S : IsFiniteSet(s) /\ Cardinality(s) \in Nat
  BY FS_Subset, FS_CardinalityType
<1>2. 0 \in T
  BY <1>1, FS_EmptySet, SumEmpty
<1>3. ASSUME NEW n \in Nat, n \in T PROVE n + 1 \in T
  <2> SUFFICES ASSUME NEW s \in SUBSET S, Cardinality(s) = n + 1
               PROVE  SumFunctionOnSet(f, s) = SumFunctionOnSet(g, s)
    OBVIOUS
  <2>1. s # {}
    BY FS_EmptySet
  <2>2. OneOf(s) \in s /\ s \ {OneOf(s)} \in SUBSET S /\ Cardinality(s \ {OneOf(s)}) = n
    BY <1>1, <2>1, Smaller
  <2>3. SumFunctionOnSet(f, s \ {OneOf(s)}) = SumFunctionOnSet(g, s \ {OneOf(s)})
    BY <1>3, <2>2
  <2> QED
    BY <1>1, <2>1, <2>2, <2>3, SumChosen
<1>4. Cardinality(S) \in T
  <2> HIDE DEF T
  <2> QED
    BY <1>1, <1>2, <1>3, Induction
<1> QED
  BY <1>4

LEMMA SumWithout ==
  ASSUME NEW f, NEW S, IsFiniteSet(S), \A x \in S : f[x] \in Int, NEW e \in S
  PROVE  SumFunctionOnSet(f, S) = f[e] + SumFunctionOnSet(f, S \ {e})
<1> DEFINE T == {n \in Nat : \A s \in SUBSET S : Cardinality(s) = n =>
                    \A x \in s : SumFunctionOnSet(f, s) = f[x] + SumFunctionOnSet(f, s \ {x})}
<1>1. \A s \in SUBSET S : /\ IsFiniteSet(s) /\ Cardinality(s) \in Nat
                          /\ SumFunctionOnSet(f, s) \in Int
  BY FS_Subset, FS_CardinalityType, SumTyped
<1>2. 0 \in T
  BY <1>1, FS_EmptySet
<1>3. ASSUME NEW n \in Nat, n \in T PROVE n + 1 \in T
  <2> SUFFICES ASSUME NEW s \in SUBSET S, Cardinality(s) = n + 1, NEW x \in s
               PROVE  SumFunctionOnSet(f, s) = f[x] + SumFunctionOnSet(f, s \ {x})
    OBVIOUS
  <2> DEFINE y == OneOf(s)
             both == (s \ {x}) \ {y}
  <2>1. /\ y \in s /\ s \ {y} \in SUBSET S /\ Cardinality(s \ {y}) = n
        /\ SumFunctionOnSet(f, s) = f[y] + SumFunctionOnSet(f, s \ {y})
    <3>1. s # {} /\ IsFiniteSet(s)
      BY <1>1
    <3> QED
      BY <3>1, Smaller, SumChosen
  <2>2. s \ {x} \in SUBSET S /\ Cardinality(s \ {x}) = n
    BY <1>1, FS_RemoveElement
  <2> HIDE DEF y
  <2>3. CASE x = y
    BY <2>1, <2>3
  <2>4. CASE x # y
    <3>1. SumFunctionOnSet(f, s \ {y}) = f[x] + SumFunctionOnSet(f, both)
      <4>1. x \in s \ {y} /\ (s \ {y}) \ {x} = both
        BY <2>4
      <4> HIDE DEF both
      <4> QED
        BY <1>3, <2>1, <4>1
    <3>2. SumFunctionOnSet(f, s \ {x}) = f[y] + SumFunctionOnSet(f, both)
      <4>1. y \in s \ {x}
        BY <2>1, <2>4
      <4> QED
        BY <1>3, <2>2, <4>1
    <3>3. SumFunctionOnSet(f, both) \in Int /\ f[x] \in Int /\ f[y] \in Int
      BY <1>1, <2>1
    <3> QED
      BY <2>1, <3>1, <3>2, <3>3
  <2> QED
    BY <2>3, <2>4
<1>4. Cardinality(S) \in T
  <2> HIDE DEF T
  <2> QED
    BY <1>1, <1>2, <1>3, Induction
<1> QED
  BY <1>4
-----------------------------------------------------------------------------
(* Amounts and types.                                                      *)

LEMMA FeeTyped == ASSUME NEW n \in Nat PROVE ByokFee(n) \in Nat
  BY DEF ByokFee

\* A debit takes; it never gives.
LEMMA AmountsTyped ==
  ASSUME NEW call \in Call, NEW override \in BOOLEAN
  PROVE  /\ Amounts(call, override).delta \in Int /\ Amounts(call, override).delta <= 0
         /\ Amounts(call, override).fee \in Int /\ Amounts(call, override).fee <= 0
<1>1. call.notional \in Nat
  BY CostAssumption DEF Call
<1>2. ByokFee(call.notional) \in Nat
  BY <1>1, FeeTyped
<1> QED
  BY <1>1, <1>2 DEF Amounts

\* The rows of a debit, one after the other: the ledger grows by one of them
\* or by two.
InferenceRow(a, call, final) ==
  [type |-> "inference", payer |-> call.payer, notional |-> call.notional,
   delta |-> a.delta, after |-> BeforeFee(a, final)]
FeeRow(a, call, final) ==
  [type |-> "byok_fee", payer |-> call.payer, notional |-> 0, delta |-> a.fee, after |-> final]

LEMMA RowsAppended ==
  ASSUME NEW call \in Call, NEW override \in BOOLEAN, NEW final \in Int, NEW rows \in Seq(Row)
  PROVE  LET a == Amounts(call, override) IN
         /\ InferenceRow(a, call, final) \in Row /\ FeeRow(a, call, final) \in Row
         /\ rows \o Rows(a, call, final)
              = IF a.fee = 0 THEN Append(rows, InferenceRow(a, call, final))
                ELSE Append(Append(rows, InferenceRow(a, call, final)), FeeRow(a, call, final))
<1> DEFINE a == Amounts(call, override)
           one == InferenceRow(a, call, final)
           two == FeeRow(a, call, final)
<1>1. a.delta \in Int /\ a.fee \in Int
  BY AmountsTyped
<1>2. call.payer \in Payers /\ call.notional \in Nat
  BY CostAssumption DEF Call
<1> HIDE DEF a
<1>3. one \in Row /\ two \in Row
  BY <1>1, <1>2 DEF Row, InferenceRow, FeeRow, BeforeFee
<1>4. Rows(a, call, final) = <<one>> \o (IF a.fee # 0 THEN <<two>> ELSE <<>>)
  BY DEF Rows, InferenceRow, FeeRow
<1> HIDE DEF one, two
<1>5. CASE a.fee = 0
  <2>1. Rows(a, call, final) = <<one>>
    BY <1>3, <1>4, <1>5, ConcatEmptySeq
  <2>2. rows \o <<one>> = Append(rows, one)
    BY <1>3, AppendIsConcat
  <2> QED
    BY <1>3, <1>5, <2>1, <2>2 DEF a, one, two
<1>6. CASE a.fee # 0
  <2>1. Rows(a, call, final) = <<one>> \o <<two>>
    BY <1>4, <1>6
  <2>2. <<one>> \in Seq(Row) /\ <<two>> \in Seq(Row)
    BY <1>3
  <2>3. rows \o (<<one>> \o <<two>>) = (rows \o <<one>>) \o <<two>>
    BY <2>2, ConcatAssociative
  <2>4. rows \o <<one>> = Append(rows, one) /\ Append(rows, one) \in Seq(Row)
    BY <1>3, AppendIsConcat, AppendProperties
  <2>5. Append(rows, one) \o <<two>> = Append(Append(rows, one), two)
    BY <1>3, <2>4, AppendIsConcat
  <2> QED
    BY <1>3, <1>6, <2>1, <2>3, <2>4, <2>5 DEF a, one, two
<1> QED
  BY <1>5, <1>6

\* What is known of a request beyond its type.  Only a covering subscription
\* lets a request through for free; a turn being charged has its inference and
\* at most one summary left, and without stored keys, what the plan was to pay
\* for is paid by the plan.
Proper(t) ==
  /\ t.subOnly => t.covered
  /\ t.pc # "idle" => t.key # Nobody
  /\ t.pc \in {"debit", "signal"} =>
       /\ Len(t.calls) \in 1..2
       /\ ~stored => \A i \in DOMAIN t.calls :
            /\ t.calls[i].payer # "byok"
            /\ t.subOnly => t.calls[i].payer = "subscription"

Typed == TypeOK /\ \A s \in Slots : Proper(slots[s])

\* A step that moves no money.
Quiet(s, x) ==
  /\ x \in Slot /\ Proper(x)
  /\ slots' = [slots EXCEPT ![s] = x]
  /\ slots[s].pc \notin {"debit", "signal"} /\ x.pc # "signal"
  /\ UNCHANGED Books
  /\ requests' \in 0..MaxRequests[stored]

LEMMA IdleTyped == Idle \in Slot /\ Proper(Idle)
<1>1. <<>> \in Seq(Call)
  BY EmptySeq
<1>2. Idle \in Slot
  BY <1>1 DEF Idle, Slot, PCs
<1> QED
  BY <1>2 DEF Idle, Proper

LEMMA SlotTyped ==
  ASSUME TypeOK, NEW s \in Slots
  PROVE  /\ slots[s] \in Slot /\ slots[s].pc \in PCs
         /\ slots[s].key \in Keys \cup {Nobody} /\ slots[s].user \in Users \cup {Nobody}
         /\ slots[s].calls \in Seq(Call)
         /\ slots[s].covered \in BOOLEAN /\ slots[s].bypass \in BOOLEAN
         /\ slots[s].override \in BOOLEAN /\ slots[s].subOnly \in BOOLEAN
         /\ slots[s].delta \in Int /\ slots[s].after \in Int
  BY DEF TypeOK, Slot

\* The charges a request may still make: two before it is served, then one
\* for each of its calls that is not settled; none when it is served for free.
Charging(t, n) ==
  /\ ~t.override /\ ~t.subOnly
  /\ t.pc = "debit" => Len(t.calls) >= n
  /\ t.pc = "signal" => Len(t.calls) > n

\* It has passed the gate that guards the balance, or an account's limit.
PastBalance == {"key", "org", "user", "serve", "debit", "signal"}
PastCap(a) ==
  {"serve", "debit", "signal"}
    \cup (IF a \in Keys THEN {"org", "user"} ELSE IF a = Org THEN {"user"} ELSE {})

MayDebit(t, n) == t.pc \in PastBalance /\ Charging(t, n)
MaySpend(t, a, n) == t.pc \in PastCap(a) /\ a \in Counters(t) /\ Charging(t, n)

\* A request gains the right to charge only at the gate of what it charges,
\* and only while that is within its limit.
GainsAtGates(s, x) ==
  \A n \in 1..2 :
    /\ MayDebit(x, n) => MayDebit(slots[s], n) \/ ~Depleted
    /\ \A a \in Accounts : MaySpend(x, a, n) => MaySpend(slots[s], a, n) \/ ~Reached(a)

LEMMA IdleChargesNothing ==
  /\ \A n \in 1..2 : ~MayDebit(Idle, n)
  /\ \A n \in 1..2, a \in Accounts : ~MaySpend(Idle, a, n)
  BY DEF MayDebit, MaySpend, Idle, PastBalance, PastCap

\* A gate refuses the request or hands it on.
LEMMA PassIsQuiet ==
  ASSUME Typed, NEW s \in Slots, NEW x \in Slot, Proper(x), x.pc # "signal",
         slots[s].pc \notin {"debit", "signal"}, Pass(s, x)
  PROVE  Quiet(s, x)
  BY DEF Pass, Quiet, Typed, TypeOK

LEMMA RefuseIsQuiet ==
  ASSUME Typed, NEW s \in Slots, slots[s].pc \notin {"debit", "signal"}, Refuse(s)
  PROVE  \E x : Quiet(s, x) /\ GainsAtGates(s, x)
<1>1. Quiet(s, Idle)
  BY IdleTyped DEF Refuse, Quiet, Typed, TypeOK, Idle
<1> QED
  BY <1>1, IdleChargesNothing DEF GainsAtGates

LEMMA ArriveIsQuiet ==
  ASSUME Typed, NEW s \in Slots, Arrive(s)
  PROVE  \E x : Quiet(s, x) /\ GainsAtGates(s, x)
<1>1. PICK k \in Keys, u \in Users \cup {Nobody}, covered \in BOOLEAN, bypass \in BOOLEAN :
        slots' = [slots EXCEPT ![s] = [Idle EXCEPT !.pc = "balance", !.key = k, !.user = u,
                                                   !.covered = covered, !.bypass = bypass]]
  BY DEF Arrive
<1> DEFINE x == [Idle EXCEPT !.pc = "balance", !.key = k, !.user = u,
                             !.covered = covered, !.bypass = bypass]
<1>2. x \in Slot /\ x.pc = "balance" /\ ~x.override /\ ~x.subOnly /\ x.key = k
  BY IdleTyped DEF Idle, Slot, PCs
<1>3. Proper(x)
  BY <1>2, AccountAssumption DEF Proper, AccountAssumption, Accounts
<1>4. requests' \in 0..MaxRequests[stored]
  <2>1. stored \in BOOLEAN /\ MaxRequests[stored] \in Nat /\ requests \in 0..MaxRequests[stored]
    BY ByokAssumption DEF Typed, TypeOK
  <2>2. requests < MaxRequests[stored] /\ requests' = requests + 1
    BY DEF Arrive
  <2> QED
    BY <2>1, <2>2
<1>5. slots[s].pc = "idle" /\ UNCHANGED Books
  BY DEF Arrive
<1>6. GainsAtGates(s, x)
  BY <1>2 DEF GainsAtGates, MayDebit, MaySpend, PastBalance, PastCap
<1> HIDE DEF x
<1> QED
  BY <1>1, <1>2, <1>3, <1>4, <1>5, <1>6 DEF Quiet, x

LEMMA BalanceGateIsQuiet ==
  ASSUME Typed, NEW s \in Slots, BalanceGate(s)
  PROVE  \E x : Quiet(s, x) /\ GainsAtGates(s, x)
<1> DEFINE t == slots[s]
<1>1. t \in Slot /\ t.pc = "balance" /\ Proper(t)
  BY SlotTyped DEF Typed, BalanceGate
<1>2. ASSUME NEW x \in Slot, Proper(x), Pass(s, x), x.pc = "key",
             ~x.override /\ ~x.subOnly => ~Depleted
      PROVE  Quiet(s, x) /\ GainsAtGates(s, x)
  <2>1. Quiet(s, x)
    BY <1>1, <1>2, PassIsQuiet
  <2>2. GainsAtGates(s, x)
    BY <1>2 DEF GainsAtGates, MayDebit, MaySpend, PastBalance, PastCap, Charging
  <2> QED
    BY <2>1, <2>2
<1>3. CASE Pass(s, [t EXCEPT !.pc = "key", !.override = TRUE])
  <2> DEFINE x == [t EXCEPT !.pc = "key", !.override = TRUE]
  <2>1. x \in Slot /\ Proper(x) /\ x.pc = "key" /\ x.override
    BY <1>1 DEF Slot, PCs, Proper
  <2> HIDE DEF x
  <2> QED
    BY <1>2, <1>3, <2>1 DEF x
<1>4. CASE ~Depleted /\ Pass(s, [t EXCEPT !.pc = "key"])
  <2> DEFINE x == [t EXCEPT !.pc = "key"]
  <2>1. x \in Slot /\ Proper(x) /\ x.pc = "key"
    BY <1>1 DEF Slot, PCs, Proper
  <2> HIDE DEF x
  <2> QED
    BY <1>2, <1>4, <2>1 DEF x
<1>5. CASE t.covered /\ Pass(s, [t EXCEPT !.pc = "key", !.subOnly = TRUE])
  <2> DEFINE x == [t EXCEPT !.pc = "key", !.subOnly = TRUE]
  <2>1. x \in Slot /\ Proper(x) /\ x.pc = "key" /\ x.subOnly
    BY <1>1, <1>5 DEF Slot, PCs, Proper
  <2> HIDE DEF x
  <2> QED
    BY <1>2, <1>5, <2>1 DEF x
<1>6. CASE Refuse(s)
  BY <1>1, <1>6, RefuseIsQuiet
<1> QED
  BY <1>3, <1>4, <1>5, <1>6 DEF BalanceGate

LEMMA CapGateIsQuiet ==
  ASSUME Typed, NEW s \in Slots, CapGate(s)
  PROVE  \E x : Quiet(s, x) /\ GainsAtGates(s, x)
<1> DEFINE t == slots[s]
           passed == [t EXCEPT !.pc = AfterCap(t)]
           free == [passed EXCEPT !.subOnly = TRUE]
<1>1. /\ t \in Slot /\ t.pc \in {"key", "org", "user"} /\ Proper(t)
      /\ t.key \in Keys /\ t.user \in Users \cup {Nobody}
  BY SlotTyped DEF Typed, CapGate, Proper
<1>2. /\ passed \in Slot /\ Proper(passed) /\ passed.pc = AfterCap(t)
      /\ passed.override = t.override /\ passed.subOnly = t.subOnly
      /\ passed.key = t.key /\ passed.user = t.user
      /\ passed.covered = t.covered /\ passed.pc \in {"org", "user", "serve"}
  BY <1>1 DEF Slot, PCs, Proper, AfterCap
<1> HIDE DEF passed
<1>3. /\ t.covered => free \in Slot /\ Proper(free)
      /\ free.subOnly /\ free.pc = passed.pc
  BY <1>1, <1>2 DEF Slot, Proper
<1> HIDE DEF free
<1>4. ASSUME Pass(s, passed), SkipsCap(t) \/ ~Reached(CappedAccount(t))
      PROVE  Quiet(s, passed) /\ GainsAtGates(s, passed)
  <2>1. Quiet(s, passed)
    BY <1>1, <1>2, <1>4, PassIsQuiet
  <2>2. \A n \in 1..2 : MayDebit(passed, n) => MayDebit(t, n)
    BY <1>1, <1>2 DEF MayDebit, PastBalance, Charging
  <2>3. ASSUME NEW n \in 1..2, NEW a \in Accounts, MaySpend(passed, a, n), Reached(a)
        PROVE  MaySpend(t, a, n)
    <3>1. /\ a \in Counters(t) /\ Charging(t, n) /\ ~t.override
          /\ passed.pc \in PastCap(a)
      BY <1>1, <1>2, <2>3 DEF MaySpend, Charging, Counters
    <3>2. a \in {t.key, t.user, Org} /\ a # Nobody /\ a # CappedAccount(t)
      <4>1. CASE ~SkipsCap(t)
        BY <1>4, <2>3, <3>1, <4>1 DEF Counters
      <4>2. CASE SkipsCap(t)
        BY <1>1, <3>1, <4>2 DEF Counters, SkipsCap
      <4> QED
        BY <4>1, <4>2
    <3>3. Keys \cap Users = {} /\ Org \notin Keys \cup Users
      BY AccountAssumption DEF AccountAssumption
    <3>4. t.pc \in PastCap(a)
      BY <1>1, <1>2, <3>1, <3>2, <3>3 DEF PastCap, CappedAccount, AfterCap
    <3> QED
      BY <3>1, <3>4 DEF MaySpend
  <2> QED
    BY <2>1, <2>2, <2>3 DEF GainsAtGates
<1>5. ASSUME Pass(s, free), t.covered PROVE Quiet(s, free) /\ GainsAtGates(s, free)
  <2>1. Quiet(s, free)
    BY <1>1, <1>2, <1>3, <1>5, PassIsQuiet
  <2>2. GainsAtGates(s, free)
    BY <1>3 DEF GainsAtGates, MayDebit, MaySpend, Charging
  <2> QED
    BY <2>1, <2>2
<1>6. CASE Refuse(s)
  BY <1>1, <1>6, RefuseIsQuiet
<1> QED
  BY <1>4, <1>5, <1>6 DEF CapGate, passed, free

LEMMA ServeIsQuiet ==
  ASSUME Typed, NEW s \in Slots, Serve(s)
  PROVE  \E x : Quiet(s, x) /\ GainsAtGates(s, x)
<1> DEFINE t == slots[s]
<1>1. t \in Slot /\ t.pc = "serve" /\ Proper(t)
  BY SlotTyped DEF Typed, Serve
<1>2. ASSUME NEW call \in [payer : TurnPayers(t), notional : Costs],
             NEW summary \in Summaries(t), MayServe(t, call.payer),
             Pass(s, [t EXCEPT !.pc = "debit", !.calls = <<call>> \o summary])
      PROVE  \E x : Quiet(s, x) /\ GainsAtGates(s, x)
  <2> DEFINE list == <<call>> \o summary
             x == [t EXCEPT !.pc = "debit", !.calls = list]
  <2>1. call \in Call /\ (~stored => call.payer # "byok")
    BY DEF Call, TurnPayers, Payers
  <2>2. ~stored /\ t.subOnly => call.payer = "subscription" /\ SummaryPayers(t) = {}
    BY <1>1, <1>2 DEF MayServe, Proper, SummaryPayers
  <2>3. <<call>> \in Seq(Call) /\ Len(<<call>>) = 1 /\ <<call>>[1] = call
    BY <2>1
  <2>4. /\ list \in Seq(Call) /\ Len(list) \in 1..2
        /\ ~stored => \A i \in DOMAIN list :
             /\ list[i].payer # "byok"
             /\ t.subOnly => list[i].payer = "subscription"
    <3>1. CASE summary = <<>>
      <4>1. list = <<call>>
        BY <2>3, <3>1, ConcatEmptySeq
      <4> HIDE DEF list
      <4>2. list \in Seq(Call) /\ Len(list) = 1 /\ list[1] = call /\ DOMAIN list = 1..1
        BY <2>3, <4>1, LenProperties
      <4> QED
        BY <2>1, <2>2, <4>2
    <3>2. ASSUME NEW second \in [payer : SummaryPayers(t), notional : Costs], summary = <<second>>
          PROVE  /\ list \in Seq(Call) /\ Len(list) \in 1..2
                 /\ ~stored => \A i \in DOMAIN list :
                      /\ list[i].payer # "byok"
                      /\ t.subOnly => list[i].payer = "subscription"
      <4>1. second \in Call /\ (~stored => second.payer # "byok" /\ ~t.subOnly)
        BY <2>2 DEF Call, SummaryPayers, Payers
      <4>2. <<second>> \in Seq(Call) /\ Len(<<second>>) = 1 /\ <<second>>[1] = second
        BY <4>1
      <4>3. list = <<call>> \o <<second>>
        BY <3>2
      <4> HIDE DEF list
      <4>4. list \in Seq(Call) /\ Len(list) = 2 /\ list[1] = call /\ list[2] = second
        BY <2>3, <4>2, <4>3, ConcatProperties
      <4>5. DOMAIN list = 1..2
        BY <4>4, LenProperties
      <4> QED
        BY <2>1, <4>1, <4>4, <4>5
    <3> QED
      BY <3>1, <3>2 DEF Summaries
  <2>5. Pass(s, x)
    BY <1>2
  <2> HIDE DEF list, t
  <2>6. list \in Seq(Call) /\ t \in Slot
    BY <1>1, <2>4
  <2>7. x \in Slot
    BY <2>6 DEF Slot, PCs
  <2>8. /\ x.pc = "debit" /\ x.calls = list /\ x.override = t.override
        /\ x.subOnly = t.subOnly /\ x.key = t.key /\ x.user = t.user /\ x.covered = t.covered
    BY <2>6 DEF Slot
  <2> HIDE DEF x
  <2>9. Proper(x)
    BY <1>1, <2>4, <2>8 DEF Proper
  <2>10. Quiet(s, x)
    BY <1>1, <2>5, <2>7, <2>8, <2>9, PassIsQuiet DEF t
  <2>11. GainsAtGates(s, x)
    BY <1>1, <2>8 DEF GainsAtGates, MayDebit, MaySpend, PastBalance, PastCap, Charging, Counters, t
  <2> QED
    BY <2>10, <2>11
<1>3. CASE Refuse(s)
  BY <1>1, <1>3, RefuseIsQuiet
<1> QED
  BY <1>2, <1>3 DEF Serve

LEMMA QuietSteps ==
  ASSUME Typed, NEW s \in Slots, Arrive(s) \/ BalanceGate(s) \/ CapGate(s) \/ Serve(s)
  PROVE  \E x : Quiet(s, x) /\ GainsAtGates(s, x)
  BY ArriveIsQuiet, BalanceGateIsQuiet, CapGateIsQuiet, ServeIsQuiet

-----------------------------------------------------------------------------
(* The steps that move money.                                              *)

\* What a request still owes after its first call was settled.
LEMMA SettledTyped ==
  ASSUME NEW t \in Slot, Proper(t), t.pc \in {"debit", "signal"}
  PROVE  /\ Settled(t) \in Slot /\ Proper(Settled(t)) /\ Settled(t).pc \in {"idle", "debit"}
         /\ Len(t.calls) = 1 => Settled(t) = Idle
         /\ Len(t.calls) = 2 =>
              /\ Settled(t).pc = "debit" /\ Len(Settled(t).calls) = 1
              /\ Settled(t).override = t.override /\ Settled(t).subOnly = t.subOnly
              /\ Settled(t).key = t.key /\ Settled(t).user = t.user
<1>1. t.calls \in Seq(Call) /\ Len(t.calls) \in {1, 2}
  BY DEF Slot, Proper
<1>2. CASE Len(t.calls) = 1
  BY <1>2, IdleTyped DEF Settled, Idle
<1>3. CASE Len(t.calls) = 2
  <2> DEFINE x == [t EXCEPT !.pc = "debit", !.calls = Tail(t.calls)]
  <2>1. /\ Tail(t.calls) \in Seq(Call) /\ Len(Tail(t.calls)) = 1
        /\ DOMAIN Tail(t.calls) = {1} /\ Tail(t.calls)[1] = t.calls[2] /\ 2 \in DOMAIN t.calls
    <3> DEFINE list == t.calls
    <3>1. list \in Seq(Call) /\ Len(list) = 2
      BY <1>1, <1>3
    <3> HIDE DEF list
    <3>2. list # <<>> /\ DOMAIN list = 1..2
      BY <3>1, LenProperties
    <3>3. Tail(list) \in Seq(Call) /\ Len(Tail(list)) = 1 /\ Tail(list)[1] = list[2]
      BY <3>1, <3>2, HeadTailProperties
    <3>4. DOMAIN Tail(list) = 1..1
      BY <3>3, LenProperties
    <3> QED
      BY <3>2, <3>3, <3>4 DEF list
  <2>2. x \in Slot
    BY <2>1 DEF Slot, PCs
  <2>3. Settled(t) = x
    BY <1>3 DEF Settled
  <2>4. /\ x.pc = "debit" /\ x.calls = Tail(t.calls) /\ x.override = t.override
        /\ x.subOnly = t.subOnly /\ x.key = t.key /\ x.user = t.user /\ x.covered = t.covered
    BY DEF Slot
  <2> HIDE DEF x
  <2>5. Proper(x)
    BY <2>1, <2>4 DEF Proper
  <2> QED
    BY <1>3, <2>1, <2>2, <2>3, <2>4, <2>5
<1> QED
  BY <1>1, <1>2, <1>3

\* The charge of a debit.
Charge(t) ==
  -(Amounts(Head(t.calls), t.override).delta + Amounts(Head(t.calls), t.override).fee)

LEMMA ChargeTyped ==
  ASSUME NEW t \in Slot, Proper(t), t.pc = "debit"
  PROVE  /\ Head(t.calls) \in Call /\ t.override \in BOOLEAN /\ Charge(t) \in Nat
         /\ Charge(t) = -(Amounts(Head(t.calls), t.override).delta
                           + Amounts(Head(t.calls), t.override).fee)
<1>1. t.calls \in Seq(Call) /\ t.calls # <<>> /\ t.override \in BOOLEAN
  <2>1. t.calls \in Seq(Call) /\ t.override \in BOOLEAN
    BY DEF Slot
  <2>2. Len(t.calls) \in 1..2
    BY DEF Proper
  <2>3. Len(t.calls) # 0
    BY <2>2
  <2> QED
    BY <2>1, <2>3
<1>2. Head(t.calls) \in Call
  BY <1>1, HeadTailProperties
<1> DEFINE d == Amounts(Head(t.calls), t.override).delta
           f == Amounts(Head(t.calls), t.override).fee
<1>3. d \in Int /\ d <= 0 /\ f \in Int /\ f <= 0
  BY <1>1, <1>2, AmountsTyped
<1> HIDE DEF d, f
<1>4. -(d + f) \in Nat
  BY <1>3
<1> QED
  BY <1>1, <1>2, <1>4 DEF Charge, d, f

\* A debit that lands, as a debit of its charge.
LEMMA PostTyped ==
  ASSUME Typed, NEW s \in Slots, slots[s].pc = "debit", Post(slots[s])
  PROVE  LET t == slots[s] IN
         /\ balance' = balance - Charge(t) /\ balance' \in Int
         /\ ledger' \in Seq(Row)
         /\ spent' = [x \in Accounts |-> spent[x] + (IF x \in Counters(t) THEN Charge(t) ELSE 0)]
         /\ spent' \in [Accounts -> Nat]
         /\ crossings' = crossings
              + (IF balance >= Threshold /\ balance' < Threshold THEN 1 ELSE 0)
         /\ crossings' \in Nat /\ crossings' - crossings \in Nat
<1> DEFINE t == slots[s]
           call == Head(t.calls)
           a == Amounts(call, t.override)
           final == balance + a.delta + a.fee
<1>1. t \in Slot /\ Proper(t) /\ balance \in Int /\ ledger \in Seq(Row) /\ crossings \in Nat
      /\ spent \in [Accounts -> Nat]
  BY SlotTyped DEF Typed, TypeOK
<1>2. call \in Call /\ t.override \in BOOLEAN /\ Charge(t) \in Nat /\ Charge(t) = -(a.delta + a.fee)
  BY <1>1, ChargeTyped
<1>3. a.delta \in Int /\ a.fee \in Int
  BY <1>2, AmountsTyped
<1>4. /\ balance' = final
      /\ ledger' = ledger \o Rows(a, call, final)
      /\ spent' = [x \in Accounts |-> spent[x] - (IF x \in Counters(t) THEN a.delta + a.fee ELSE 0)]
      /\ crossings' = crossings + (IF balance >= Threshold /\ final < Threshold THEN 1 ELSE 0)
  BY DEF Post
<1> HIDE DEF a, call, t
<1>5. balance' = balance - Charge(t) /\ balance' \in Int
  BY <1>1, <1>2, <1>3, <1>4
<1>6. ledger' \in Seq(Row)
  <2>1. final \in Int
    BY <1>1, <1>3
  <2> HIDE DEF final
  <2>2. /\ InferenceRow(a, call, final) \in Row /\ FeeRow(a, call, final) \in Row
        /\ ledger \o Rows(a, call, final)
             = IF a.fee = 0 THEN Append(ledger, InferenceRow(a, call, final))
               ELSE Append(Append(ledger, InferenceRow(a, call, final)), FeeRow(a, call, final))
    BY <1>1, <1>2, <2>1, RowsAppended DEF a
  <2>3. Append(ledger, InferenceRow(a, call, final)) \in Seq(Row)
    BY <1>1, <2>2, AppendProperties
  <2>4. Append(Append(ledger, InferenceRow(a, call, final)), FeeRow(a, call, final)) \in Seq(Row)
    BY <2>2, <2>3, AppendProperties
  <2> QED
    BY <1>4, <2>2, <2>3, <2>4
<1>7. spent' = [x \in Accounts |-> spent[x] + (IF x \in Counters(t) THEN Charge(t) ELSE 0)]
  BY <1>1, <1>2, <1>3, <1>4
<1>8. spent' \in [Accounts -> Nat]
  BY <1>1, <1>2, <1>7
<1>9. /\ crossings' = crossings + (IF balance >= Threshold /\ balance' < Threshold THEN 1 ELSE 0)
      /\ crossings' \in Nat /\ crossings' - crossings \in Nat
  BY <1>1, <1>4
<1> QED
  BY <1>5, <1>6, <1>7, <1>8, <1>9 DEF t

\* The request whose debit landed and answered.
Answered(t) == [t EXCEPT !.pc = "signal", !.delta = -Charge(t), !.after = balance - Charge(t)]

LEMMA AnsweredTyped ==
  ASSUME Typed, NEW s \in Slots, slots[s].pc = "debit"
  PROVE  LET t == slots[s] IN
         /\ Answered(t) \in Slot /\ Proper(Answered(t)) /\ Answered(t).pc = "signal"
         /\ Answered(t).delta = -Charge(t) /\ Answered(t).after = balance - Charge(t)
         /\ Answered(t).calls = t.calls /\ Answered(t).override = t.override
         /\ Answered(t).subOnly = t.subOnly /\ Answered(t).key = t.key /\ Answered(t).user = t.user
<1> DEFINE t == slots[s]
           x == Answered(t)
<1>1. t \in Slot /\ Proper(t) /\ balance \in Int /\ t.pc = "debit"
  BY SlotTyped DEF Typed, TypeOK
<1>2. Charge(t) \in Nat
  BY <1>1, ChargeTyped
<1>3. -Charge(t) \in Int /\ balance - Charge(t) \in Int
  BY <1>1, <1>2
<1> HIDE DEF t
<1>4. x \in Slot
  BY <1>1, <1>3 DEF Slot, PCs, Answered
<1>5. /\ x.pc = "signal" /\ x.delta = -Charge(t) /\ x.after = balance - Charge(t)
      /\ x.calls = t.calls /\ x.override = t.override
      /\ x.subOnly = t.subOnly /\ x.key = t.key /\ x.user = t.user /\ x.covered = t.covered
  BY <1>1 DEF Slot, Answered
<1> HIDE DEF x
<1>6. Proper(x)
  BY <1>1, <1>5 DEF Proper
<1> QED
  BY <1>4, <1>5, <1>6 DEF x, t

\* How a debit ends: it answers, its answer is lost, or it does not land.
LEMMA DebitCases ==
  ASSUME Typed, NEW s \in Slots, Debit(s)
  PROVE  LET t == slots[s] IN
         /\ t.pc = "debit" /\ UNCHANGED <<stored, signals, requests, topUps>>
         /\ \/ Post(t) /\ slots' = [slots EXCEPT ![s] = Answered(t)] /\ UNCHANGED missed
            \/ /\ Post(t) /\ slots' = [slots EXCEPT ![s] = Settled(t)]
               /\ missed' = missed + (crossings' - crossings)
            \/ /\ slots' = [slots EXCEPT ![s] = Settled(t)]
               /\ UNCHANGED <<balance, ledger, spent, crossings, missed>>
<1> DEFINE t == slots[s]
           a == Amounts(Head(t.calls), t.override)
<1>1. t.pc = "debit" /\ UNCHANGED <<stored, signals, requests, topUps>>
  BY DEF Debit
<1>2. ASSUME Post(t),
             slots' = [slots EXCEPT ![s] = [t EXCEPT !.pc = "signal", !.delta = a.delta + a.fee,
                                                     !.after = Returned(a, balance')]]
      PROVE  slots' = [slots EXCEPT ![s] = Answered(t)]
  <2>1. t \in Slot /\ Proper(t)
    BY SlotTyped DEF Typed
  <2>2. Charge(t) \in Nat /\ Charge(t) = -(a.delta + a.fee) /\ a.delta \in Int /\ a.fee \in Int
    BY <1>1, <2>1, ChargeTyped, AmountsTyped
  <2>3. Returned(a, balance') = balance - Charge(t)
    BY <1>1, <1>2, PostTyped DEF Returned
  <2> HIDE DEF a, t
  <2>4. a.delta + a.fee = -Charge(t)
    BY <2>2
  <2> QED
    BY <1>2, <2>3, <2>4 DEF Answered
<1> QED
  BY <1>1, <1>2 DEF Debit

\* How the look at the balance ends.
LEMMA SignalCases ==
  ASSUME Typed, NEW s \in Slots, Signal(s)
  PROVE  LET t == slots[s] IN
         /\ t.pc = "signal"
         /\ \E x \in Slot :
              /\ Proper(x) /\ x.pc \in {"idle", "debit"}
              /\ slots' = [slots EXCEPT ![s] = x]
              /\ \A n \in 1..2 :
                   /\ MayDebit(x, n) => MayDebit(t, n)
                   /\ \A a \in Accounts : MaySpend(x, a, n) => MaySpend(t, a, n)
         /\ \/ CrossedDown(t) /\ signals' = signals + 1 /\ UNCHANGED missed
            \/ CrossedDown(t) /\ missed' = missed + 1 /\ UNCHANGED signals
            \/ ~CrossedDown(t) /\ UNCHANGED <<signals, missed>>
         /\ signals' \in Nat /\ missed' \in Nat
         /\ UNCHANGED <<stored, balance, ledger, spent, crossings, requests, topUps>>
<1> DEFINE t == slots[s]
           y == Settled(t)
           x == [y EXCEPT !.delta = 0, !.after = 0]
<1>1. t \in Slot /\ Proper(t) /\ t.pc = "signal" /\ Len(t.calls) \in {1, 2}
  BY SlotTyped DEF Typed, Signal, Proper
<1>2. /\ \/ CrossedDown(t) /\ signals' = signals + 1 /\ UNCHANGED missed
         \/ CrossedDown(t) /\ missed' = missed + 1 /\ UNCHANGED signals
         \/ ~CrossedDown(t) /\ UNCHANGED <<signals, missed>>
      /\ signals' \in Nat /\ missed' \in Nat
  <2>1. signals \in Nat /\ missed \in Nat
    BY DEF Typed, TypeOK
  <2>2. \/ CrossedDown(t) /\ signals' = signals + 1 /\ UNCHANGED missed
        \/ CrossedDown(t) /\ missed' = missed + 1 /\ UNCHANGED signals
        \/ ~CrossedDown(t) /\ UNCHANGED <<signals, missed>>
    BY DEF Signal
  <2> HIDE DEF t
  <2> QED
    BY <2>1, <2>2
<1>3. UNCHANGED <<stored, balance, ledger, spent, crossings, requests, topUps>>
      /\ slots' = [slots EXCEPT ![s] = x]
  BY DEF Signal
<1>4. /\ y \in Slot /\ Proper(y) /\ y.pc \in {"idle", "debit"}
      /\ Len(t.calls) = 1 => y = Idle
      /\ Len(t.calls) = 2 =>
           /\ y.pc = "debit" /\ Len(y.calls) = 1
           /\ y.override = t.override /\ y.subOnly = t.subOnly
           /\ y.key = t.key /\ y.user = t.user
  BY <1>1, SettledTyped
<1> HIDE DEF y, t
<1>5. /\ x \in Slot /\ x.pc = y.pc /\ x.calls = y.calls /\ x.override = y.override
      /\ x.subOnly = y.subOnly /\ x.key = y.key /\ x.user = y.user /\ x.covered = y.covered
  <2>1. y \in Slot
    BY <1>4
  <2>2. [y EXCEPT !.delta = 0] \in Slot
    BY <2>1 DEF Slot
  <2>3. x = [[y EXCEPT !.delta = 0] EXCEPT !.after = 0]
    OBVIOUS
  <2>4. x \in Slot
    BY <2>2, <2>3 DEF Slot
  <2> QED
    BY <2>1, <2>4 DEF Slot
<1> HIDE DEF x
<1>6. Proper(x)
  BY <1>4, <1>5 DEF Proper
<1>7. ASSUME NEW n \in 1..2
      PROVE  /\ MayDebit(x, n) => MayDebit(t, n)
             /\ \A a \in Accounts : MaySpend(x, a, n) => MaySpend(t, a, n)
  <2>1. CASE Len(t.calls) = 1
    BY <1>4, <1>5, <2>1 DEF Idle, MayDebit, MaySpend, PastBalance, PastCap
  <2>2. CASE Len(t.calls) = 2
    <3>1. /\ x.pc = "debit" /\ Len(x.calls) = 1 /\ x.override = t.override
          /\ x.subOnly = t.subOnly /\ Counters(x) = Counters(t)
      BY <1>4, <1>5, <2>2 DEF Counters
    <3>2. Charging(x, n) => Charging(t, n)
      BY <1>1, <2>2, <3>1 DEF Charging
    <3> QED
      BY <1>1, <3>1, <3>2 DEF MayDebit, MaySpend, PastBalance, PastCap
  <2> QED
    BY <1>1, <2>1, <2>2
<1> QED
  BY <1>1, <1>2, <1>3, <1>4, <1>5, <1>6, <1>7 DEF t

\* Every step of a request, as a change of its slot.
LEMMA SlotSteps ==
  ASSUME Typed, NEW s \in Slots,
         Arrive(s) \/ BalanceGate(s) \/ CapGate(s) \/ Serve(s) \/ Debit(s) \/ Signal(s)
  PROVE  \E x \in Slot : Proper(x) /\ slots' = [slots EXCEPT ![s] = x] /\ UNCHANGED stored
<1>1. CASE Arrive(s) \/ BalanceGate(s) \/ CapGate(s) \/ Serve(s)
  BY <1>1, QuietSteps DEF Quiet, Books
<1>2. CASE Debit(s)
  <2>1. slots[s] \in Slot /\ Proper(slots[s]) /\ slots[s].pc = "debit" /\ UNCHANGED stored
    BY <1>2, SlotTyped, DebitCases DEF Typed
  <2>2. \/ slots' = [slots EXCEPT ![s] = Answered(slots[s])]
        \/ slots' = [slots EXCEPT ![s] = Settled(slots[s])]
    BY <1>2, DebitCases
  <2> QED
    BY <2>1, <2>2, AnsweredTyped, SettledTyped
<1>3. CASE Signal(s)
  BY <1>3, SignalCases
<1> QED
  BY <1>1, <1>2, <1>3

LEMMA PayTyped ==
  ASSUME Typed, Pay
  PROVE  LET row == [type |-> "top_up", payer |-> "deployment", notional |-> 0,
                     delta |-> TopUp, after |-> balance + TopUp] IN
         /\ row \in Row /\ ledger' = Append(ledger, row) /\ ledger' \in Seq(Row)
         /\ balance' = balance + TopUp /\ balance' \in Int /\ topUps' \in 0..MaxTopUps
         /\ UNCHANGED <<stored, spent, slots, crossings, signals, missed, requests>>
<1> DEFINE row == [type |-> "top_up", payer |-> "deployment", notional |-> 0,
                   delta |-> TopUp, after |-> balance + TopUp]
<1>1. balance \in Int /\ TopUp \in Nat /\ MaxTopUps \in Nat /\ ledger \in Seq(Row)
      /\ topUps \in 0..MaxTopUps
  BY BalanceAssumption DEF Typed, TypeOK
<1>2. row \in Row
  BY <1>1 DEF Row, Payers
<1>3. /\ ledger' = Append(ledger, row) /\ balance' = balance + TopUp
      /\ topUps < MaxTopUps /\ topUps' = topUps + 1
      /\ UNCHANGED <<stored, spent, slots, crossings, signals, missed, requests>>
  BY DEF Pay
<1> HIDE DEF row
<1>4. ledger' \in Seq(Row)
  BY <1>1, <1>2, <1>3, AppendProperties
<1>5. topUps' \in 0..MaxTopUps /\ balance' \in Int
  BY <1>1, <1>3
<1> QED
  BY <1>2, <1>3, <1>4, <1>5 DEF row

LEMMA InitTyped == Init => Typed
<1> SUFFICES ASSUME Init PROVE Typed
  OBVIOUS
<1>1. \A s \in Slots : slots[s] = Idle
  BY DEF Init
<1>2. slots \in [Slots -> Slot] /\ \A s \in Slots : Proper(slots[s])
  BY <1>1, IdleTyped DEF Init
<1>3. stored \in BOOLEAN /\ MaxRequests[stored] \in Nat
  BY ByokAssumption DEF Init
<1>4. requests \in 0..MaxRequests[stored] /\ topUps \in 0..MaxTopUps /\ balance \in Int
  BY <1>3, BalanceAssumption DEF Init
<1>5. ledger \in Seq(Row)
  BY EmptySeq DEF Init
<1> QED
  BY <1>2, <1>4, <1>5 DEF Init, Typed, TypeOK

LEMMA NextTyped == Typed /\ [Next]_vars => Typed'
<1> SUFFICES ASSUME Typed, [Next]_vars PROVE Typed'
  OBVIOUS
<1>1. CASE UNCHANGED vars
  BY <1>1 DEF vars, Typed, TypeOK, Proper
<1>2. CASE Pay
  BY <1>2, PayTyped DEF Typed, TypeOK, Proper
<1>3. ASSUME NEW s \in Slots,
             Arrive(s) \/ BalanceGate(s) \/ CapGate(s) \/ Serve(s) \/ Debit(s) \/ Signal(s)
      PROVE  Typed'
  <2>1. PICK x \in Slot : Proper(x) /\ slots' = [slots EXCEPT ![s] = x] /\ UNCHANGED stored
    BY <1>3, SlotSteps
  <2>2. slots \in [Slots -> Slot] /\ \A q \in Slots : Proper(slots[q])
    BY DEF Typed, TypeOK
  <2>3. slots' \in [Slots -> Slot]
    BY <2>1, <2>2
  <2>4. \A q \in Slots : Proper(slots'[q])
    BY <2>1, <2>2
  <2>5. \A q \in Slots : Proper(slots[q])'
    BY <2>1, <2>4 DEF Proper
  <2>6. /\ stored' \in ByokRows /\ balance' \in Int /\ ledger' \in Seq(Row)
        /\ spent' \in [Accounts -> Nat] /\ crossings' \in Nat /\ signals' \in Nat /\ missed' \in Nat
        /\ requests' \in 0..MaxRequests[stored'] /\ topUps' \in 0..MaxTopUps
    <3>1. CASE Arrive(s) \/ BalanceGate(s) \/ CapGate(s) \/ Serve(s)
      BY <2>1, <3>1, QuietSteps DEF Quiet, Books, Typed, TypeOK
    <3>2. CASE Debit(s)
      <4>1. slots[s].pc = "debit" /\ UNCHANGED <<stored, signals, requests, topUps>>
        BY <3>2, DebitCases
      <4>2. CASE Post(slots[s])
        <5>1. /\ balance' \in Int /\ ledger' \in Seq(Row) /\ spent' \in [Accounts -> Nat]
              /\ crossings' \in Nat /\ crossings' - crossings \in Nat
          BY <4>1, <4>2, PostTyped
        <5>2. missed \in Nat
          BY DEF Typed, TypeOK
        <5>3. missed' = missed \/ missed' = missed + (crossings' - crossings) \/ UNCHANGED missed
          BY <3>2, DebitCases
        <5>4. missed' \in Nat
          BY <5>1, <5>2, <5>3
        <5> QED
          BY <4>1, <5>1, <5>4 DEF Typed, TypeOK
      <4>3. CASE ~Post(slots[s])
        <5>1. UNCHANGED <<balance, ledger, spent, crossings, missed>>
          BY <3>2, <4>3, DebitCases
        <5> QED
          BY <4>1, <5>1 DEF Typed, TypeOK
      <4> QED
        BY <4>2, <4>3
    <3>3. CASE Signal(s)
      BY <3>3, SignalCases DEF Typed, TypeOK
    <3> QED
      BY <1>3, <3>1, <3>2, <3>3
  <2> QED
    BY <2>3, <2>5, <2>6 DEF Typed, TypeOK
<1> QED
  BY <1>1, <1>2, <1>3 DEF Next

\* Every variable keeps its type: the counters of DebitOrgCredits never fall
\* below zero, and what a slot still owes is a list of calls.
THEOREM TypedAlways == Spec => []TypeOK
<1>1. Typed => TypeOK
  BY DEF Typed
<1> QED
  BY <1>1, InitTyped, NextTyped, PTL DEF Spec

-----------------------------------------------------------------------------
(* Crossings.                                                              *)

\* The debits whose crossing of the threshold is still to be looked at.
Unseen == {s \in Slots : slots[s].pc = "signal" /\ CrossedDown(slots[s])}

LEMMA UnseenKept ==
  ASSUME Typed, NEW s \in Slots, NEW x, slots' = [slots EXCEPT ![s] = x],
         slots[s].pc # "signal", x.pc # "signal"
  PROVE  Unseen' = Unseen
<1>1. \A q \in Slots : (slots'[q].pc = "signal" /\ CrossedDown(slots'[q]))
                         <=> (slots[q].pc = "signal" /\ CrossedDown(slots[q]))
  BY DEF Typed, TypeOK
<1>2. Unseen' = {q \in Slots : slots'[q].pc = "signal" /\ CrossedDown(slots'[q])}
  BY DEF Unseen, CrossedDown
<1> QED
  BY <1>1, <1>2 DEF Unseen

LEMMA CrossingsCounted ==
  ASSUME Typed, EveryCrossingSeen, [Next]_vars
  PROVE  EveryCrossingSeen'
<1> DEFINE count == Cardinality(Unseen)
<1>1. IsFiniteSet(Unseen) /\ count \in Nat /\ signals + missed + count = crossings
      /\ signals \in Nat /\ missed \in Nat /\ crossings \in Nat
  <2>1. Unseen \subseteq Slots /\ IsFiniteSet(Slots)
    BY AccountAssumption DEF AccountAssumption, Unseen
  <2>2. IsFiniteSet(Unseen)
    BY <2>1, FS_Subset
  <2> QED
    BY <2>2, FS_CardinalityType DEF EveryCrossingSeen, Unseen, Typed, TypeOK
<1>2. SUFFICES signals' + missed' + Cardinality(Unseen') = crossings'
  BY DEF EveryCrossingSeen, Unseen
<1>3. CASE UNCHANGED vars \/ Pay
  <2>1. UNCHANGED <<slots, signals, missed, crossings>>
    BY <1>3, PayTyped DEF vars
  <2>2. Unseen' = Unseen
    BY <2>1 DEF Unseen, CrossedDown
  <2> QED
    BY <1>1, <2>1, <2>2
<1>4. ASSUME NEW s \in Slots, Arrive(s) \/ BalanceGate(s) \/ CapGate(s) \/ Serve(s)
      PROVE  signals' + missed' + Cardinality(Unseen') = crossings'
  <2>1. PICK x : Quiet(s, x)
    BY <1>4, QuietSteps
  <2>2. Unseen' = Unseen /\ UNCHANGED <<signals, missed, crossings>>
    BY <2>1, UnseenKept DEF Quiet, Books
  <2> QED
    BY <1>1, <2>2
<1>5. ASSUME NEW s \in Slots, Debit(s)
      PROVE  signals' + missed' + Cardinality(Unseen') = crossings'
  <2> DEFINE t == slots[s]
  <2>1. t \in Slot /\ Proper(t) /\ t.pc = "debit" /\ UNCHANGED signals
    BY <1>5, SlotTyped, DebitCases DEF Typed
  <2>2. Settled(t).pc # "signal"
    BY <2>1, SettledTyped
  <2>3. ASSUME slots' = [slots EXCEPT ![s] = Settled(t)] PROVE Unseen' = Unseen
    BY <2>1, <2>2, <2>3, UnseenKept
  <2>4. ASSUME Post(t), slots' = [slots EXCEPT ![s] = Answered(t)], UNCHANGED missed
        PROVE  signals' + missed' + Cardinality(Unseen') = crossings'
    <3> DEFINE x == Answered(t)
    <3>1. /\ x.pc = "signal" /\ x.delta = -Charge(t) /\ x.after = balance - Charge(t)
          /\ Charge(t) \in Nat /\ balance \in Int /\ Threshold \in Int
          /\ balance' = balance - Charge(t)
          /\ crossings' = crossings
               + (IF balance >= Threshold /\ balance' < Threshold THEN 1 ELSE 0)
      BY <2>1, <2>4, AnsweredTyped, ChargeTyped, PostTyped, BalanceAssumption DEF Typed, TypeOK
    <3>2. CrossedDown(x) <=> balance >= Threshold /\ balance' < Threshold
      BY <3>1 DEF CrossedDown
    <3>3. slots'[s] = x /\ \A q \in Slots \ {s} : slots'[q] = slots[q]
      BY <2>4 DEF Typed, TypeOK
    <3>4. Unseen' = {q \in Slots : slots'[q].pc = "signal" /\ CrossedDown(slots'[q])}
      BY DEF Unseen, CrossedDown
    <3> HIDE DEF x
    <3>5. Unseen' = IF CrossedDown(x) THEN Unseen \cup {s} ELSE Unseen
      BY <2>1, <3>1, <3>3, <3>4 DEF Unseen
    <3>6. s \notin Unseen
      BY <2>1 DEF Unseen
    <3>7. Cardinality(Unseen') = count + (IF CrossedDown(x) THEN 1 ELSE 0)
      BY <1>1, <3>5, <3>6, FS_AddElement
    <3> QED
      BY <1>1, <2>1, <2>4, <3>1, <3>2, <3>7
  <2>5. ASSUME Post(t), slots' = [slots EXCEPT ![s] = Settled(t)],
               missed' = missed + (crossings' - crossings)
        PROVE  signals' + missed' + Cardinality(Unseen') = crossings'
    <3>1. crossings' \in Nat
      BY <2>1, <2>5, PostTyped
    <3> QED
      BY <1>1, <2>1, <2>3, <2>5, <3>1
  <2>6. ASSUME slots' = [slots EXCEPT ![s] = Settled(t)], UNCHANGED <<crossings, missed>>
        PROVE  signals' + missed' + Cardinality(Unseen') = crossings'
    BY <1>1, <2>1, <2>3, <2>6
  <2> QED
    BY <1>5, <2>4, <2>5, <2>6, DebitCases
<1>6. ASSUME NEW s \in Slots, Signal(s)
      PROVE  signals' + missed' + Cardinality(Unseen') = crossings'
  <2> DEFINE t == slots[s]
  <2>1. /\ t.pc = "signal" /\ UNCHANGED crossings
        /\ \/ CrossedDown(t) /\ signals' = signals + 1 /\ UNCHANGED missed
           \/ CrossedDown(t) /\ missed' = missed + 1 /\ UNCHANGED signals
           \/ ~CrossedDown(t) /\ UNCHANGED <<signals, missed>>
    BY <1>6, SignalCases
  <2>2. PICK x \in Slot : x.pc # "signal" /\ slots' = [slots EXCEPT ![s] = x]
    BY <1>6, SignalCases
  <2>3. slots'[s] = x /\ \A q \in Slots \ {s} : slots'[q] = slots[q]
    BY <2>2 DEF Typed, TypeOK
  <2>4. Unseen' = {q \in Slots : slots'[q].pc = "signal" /\ CrossedDown(slots'[q])}
    BY DEF Unseen, CrossedDown
  <2>5. Unseen' = Unseen \ {s} /\ (s \in Unseen <=> CrossedDown(t))
    BY <2>1, <2>2, <2>3, <2>4 DEF Unseen
  <2>6. CASE CrossedDown(t)
    <3>1. Cardinality(Unseen') = count - 1
      BY <1>1, <2>5, <2>6, FS_RemoveElement
    <3>2. \/ signals' = signals + 1 /\ missed' = missed
          \/ missed' = missed + 1 /\ signals' = signals
      BY <2>1, <2>6
    <3> QED
      BY <1>1, <2>1, <3>1, <3>2
  <2>7. CASE ~CrossedDown(t)
    <3>1. Unseen' = Unseen
      BY <2>5, <2>7
    <3>2. signals' = signals /\ missed' = missed
      BY <2>1, <2>7
    <3> QED
      BY <1>1, <2>1, <3>1, <3>2
  <2> QED
    BY <2>6, <2>7
<1> QED
  BY <1>3, <1>4, <1>5, <1>6 DEF Next

\* A recharge signal is sent once for each debit that takes the balance below
\* the threshold, unless an error drops it: what Service.maybeSignalRecharge
\* rebuilds from the balance DebitOrgCredits returned is the balance that debit
\* found, whatever other debits and top-ups interleave.
THEOREM EveryCrossingAlwaysSeen == Spec => []EveryCrossingSeen
<1>1. Init => EveryCrossingSeen
  <2> SUFFICES ASSUME Init PROVE EveryCrossingSeen
    OBVIOUS
  <2>1. {s \in Slots : slots[s].pc = "signal" /\ CrossedDown(slots[s])} = {}
    BY DEF Init, Idle
  <2>2. signals = 0 /\ missed = 0 /\ crossings = 0
    BY DEF Init
  <2> QED
    BY <2>1, <2>2, FS_EmptySet DEF EveryCrossingSeen
<1>2. Typed /\ EveryCrossingSeen /\ [Next]_vars => EveryCrossingSeen'
  BY CrossingsCounted
<1> QED
  BY <1>1, <1>2, InitTyped, NextTyped, PTL DEF Spec

-----------------------------------------------------------------------------
(* Limits.  Each request may charge the balance, and each of its counters, *)
(* twice: for its inference and for its summary.  What a limit can be      *)
(* overrun by is what the requests that have passed its gate may still     *)
(* charge; the invariant counts the charges that cannot be made any more.  *)

Greatest == CHOOSE n \in Costs : \A m \in Costs : n >= m

LEMMA GreatestCost ==
  Greatest \in Nat /\ Greatest > 0 /\ MaxCharge = 2 * Greatest /\ \A m \in Costs : m <= Greatest
<1>1. PICK top \in Costs : top > 0 /\ \A m \in Costs : top >= m
  BY CostAssumption
<1>2. Greatest \in Costs /\ \A m \in Costs : Greatest >= m
  BY <1>1 DEF Greatest
<1>3. Greatest >= top
  BY <1>1, <1>2
<1> QED
  <2>1. MaxCharge = 2 * Greatest
    BY DEF MaxCharge, Greatest
  <2> QED
    BY <1>1, <1>2, <1>3, <2>1, CostAssumption

LEMMA Product ==
  ASSUME NEW m \in Nat, NEW k \in Nat, NEW l \in Nat, k <= l
  PROVE  k * m \in Nat /\ l * m \in Nat /\ k * m <= l * m /\ (k + 1) * m = k * m + m
<1>1. k * m \in Nat /\ l * m \in Nat /\ (l - k) * m \in Nat
  OBVIOUS
<1>2. l * m = k * m + (l - k) * m
  OBVIOUS
<1> QED
  BY <1>1, <1>2

\* A bound moves with what it is a bound of: a charge bars its request from
\* another one.
LEMMA RoomKept ==
  ASSUME NEW A, NEW B, NEW C \in SUBSET Slots, NEW D \in SUBSET Slots, A \subseteq C, B \subseteq D,
         NEW v \in Int, NEW w \in Int, NEW lim \in Int, NEW c \in Nat, c <= Greatest, w <= v + c,
         c > 0 => A # C \/ B # D,
         v < lim + (Cardinality(A) + Cardinality(B)) * Greatest
  PROVE  w < lim + (Cardinality(C) + Cardinality(D)) * Greatest
<1> DEFINE k == Cardinality(A) + Cardinality(B)
           l == Cardinality(C) + Cardinality(D)
<1>1. IsFiniteSet(C) /\ IsFiniteSet(D) /\ IsFiniteSet(A) /\ IsFiniteSet(B)
  BY AccountAssumption, FS_Subset DEF AccountAssumption
<1>2. /\ Cardinality(A) \in Nat /\ Cardinality(B) \in Nat
      /\ Cardinality(C) \in Nat /\ Cardinality(D) \in Nat
  BY <1>1, FS_CardinalityType
<1>3. /\ Cardinality(A) <= Cardinality(C) /\ Cardinality(B) <= Cardinality(D)
      /\ A # C => Cardinality(A) < Cardinality(C)
      /\ B # D => Cardinality(B) < Cardinality(D)
  <2>1. A \in SUBSET C /\ B \in SUBSET D
    OBVIOUS
  <2>2. /\ Cardinality(A) <= Cardinality(C)
        /\ Cardinality(A) = Cardinality(C) => A = C
    BY <1>1, <2>1, FS_Subset
  <2>3. /\ Cardinality(B) <= Cardinality(D)
        /\ Cardinality(B) = Cardinality(D) => B = D
    BY <1>1, <2>1, FS_Subset
  <2> QED
    BY <1>2, <2>2, <2>3
<1>4. k \in Nat /\ l \in Nat /\ k <= l /\ (c > 0 => k + 1 <= l)
  BY <1>2, <1>3
<1> HIDE DEF k, l
<1>5. CASE c = 0
  <2>1. k * Greatest <= l * Greatest /\ k * Greatest \in Nat /\ l * Greatest \in Nat
    BY <1>4, Product, GreatestCost
  <2>2. v < lim + k * Greatest
    BY DEF k
  <2>3. w < lim + l * Greatest
    BY <1>5, <2>1, <2>2
  <2> QED
    BY <2>3 DEF l
<1>6. CASE c > 0
  <2>1. /\ (k + 1) * Greatest <= l * Greatest /\ (k + 1) * Greatest = k * Greatest + Greatest
        /\ k * Greatest \in Nat /\ l * Greatest \in Nat
    BY <1>4, <1>6, Product, GreatestCost
  <2>2. v < lim + k * Greatest
    BY DEF k
  <2>3. w < lim + l * Greatest
    BY <1>6, <2>1, <2>2, GreatestCost
  <2> QED
    BY <2>3 DEF l
<1> QED
  BY <1>5, <1>6

\* The requests that may not charge the balance, or an account, n times more.
DebitsOver(n) == {s \in Slots : ~MayDebit(slots[s], n)}
SpendsOver(a, n) == {s \in Slots : ~MaySpend(slots[s], a, n)}

BalanceMetered ==
  -balance < (Cardinality(DebitsOver(1)) + Cardinality(DebitsOver(2))) * Greatest
AccountMetered(a) ==
  Limit[a] # NoLimit =>
    spent[a] < Limit[a]
                 + (Cardinality(SpendsOver(a, 1)) + Cardinality(SpendsOver(a, 2))) * Greatest

Metered == ~stored => BalanceMetered /\ \A a \in Accounts : AccountMetered(a)

LEMMA MeteredBounds == ASSUME Typed, Metered PROVE OvershootBounded
<1> DEFINE N == Cardinality(Slots)
<1> SUFFICES ASSUME ~stored
             PROVE  /\ balance > -(N * MaxCharge)
                    /\ \A a \in Accounts : Limit[a] # NoLimit => spent[a] < Limit[a] + N * MaxCharge
  BY DEF OvershootBounded
<1>1. IsFiniteSet(Slots) /\ N \in Nat
  BY AccountAssumption, FS_CardinalityType DEF AccountAssumption
<1>2. Greatest \in Nat /\ MaxCharge = 2 * Greatest
  BY GreatestCost
<1>3. ASSUME NEW A \in SUBSET Slots, NEW B \in SUBSET Slots
      PROVE  /\ (Cardinality(A) + Cardinality(B)) * Greatest \in Nat
             /\ (Cardinality(A) + Cardinality(B)) * Greatest <= N * MaxCharge
             /\ N * MaxCharge \in Nat
  <2> DEFINE k == Cardinality(A) + Cardinality(B)
  <2>1. Cardinality(A) \in Nat /\ Cardinality(B) \in Nat /\ Cardinality(A) <= N /\ Cardinality(B) <= N
    BY <1>1, FS_Subset, FS_CardinalityType
  <2> HIDE DEF N
  <2>2. k \in Nat /\ 2 * N \in Nat /\ k <= 2 * N
    BY <1>1, <2>1
  <2>3. N * (2 * Greatest) = (2 * N) * Greatest
    BY <1>1, <1>2
  <2> HIDE DEF k
  <2>4. k * Greatest <= (2 * N) * Greatest /\ k * Greatest \in Nat /\ (2 * N) * Greatest \in Nat
    BY <1>2, <2>2, Product
  <2> QED
    BY <1>2, <2>3, <2>4 DEF k
<1> HIDE DEF N
<1>4. balance > -(N * MaxCharge)
  <2> DEFINE k == (Cardinality(DebitsOver(1)) + Cardinality(DebitsOver(2))) * Greatest
  <2>1. k \in Nat /\ k <= N * MaxCharge /\ N * MaxCharge \in Nat
    BY <1>3 DEF DebitsOver
  <2>2. -balance < k /\ balance \in Int
    BY DEF Metered, BalanceMetered, Typed, TypeOK
  <2> HIDE DEF k
  <2> QED
    BY <2>1, <2>2
<1>5. ASSUME NEW a \in Accounts, Limit[a] # NoLimit PROVE spent[a] < Limit[a] + N * MaxCharge
  <2> DEFINE k == (Cardinality(SpendsOver(a, 1)) + Cardinality(SpendsOver(a, 2))) * Greatest
  <2>1. k \in Nat /\ k <= N * MaxCharge /\ N * MaxCharge \in Nat
    BY <1>3 DEF SpendsOver
  <2>2. spent[a] < Limit[a] + k
    BY <1>5 DEF Metered, AccountMetered
  <2>3. spent[a] \in Nat /\ Limit[a] \in Nat
    BY <1>5, LimitAssumption DEF Typed, TypeOK
  <2> HIDE DEF k
  <2> QED
    BY <2>1, <2>2, <2>3
<1> QED
  BY <1>4, <1>5

\* A request that settles a call may make one charge less, and what it is
\* charged is no more than a call can cost; a free one is charged nothing.
LEMMA SettlingBars ==
  ASSUME ~stored, NEW t \in Slot, Proper(t), t.pc = "debit", NEW x,
         \/ /\ x.calls = t.calls /\ x.pc = "signal" /\ x.override = t.override
            /\ x.subOnly = t.subOnly /\ x.key = t.key /\ x.user = t.user
         \/ x = Settled(t)
  PROVE  /\ Charge(t) \in Nat /\ Charge(t) <= Greatest
         /\ \A n \in 1..2 :
              /\ MayDebit(x, n) => MayDebit(t, n)
              /\ \A a \in Accounts : MaySpend(x, a, n) => MaySpend(t, a, n)
         /\ Charge(t) > 0 => \E n \in 1..2 :
              /\ MayDebit(t, n) /\ ~MayDebit(x, n)
              /\ \A a \in Counters(t) : MaySpend(t, a, n) /\ ~MaySpend(x, a, n)
<1>1. t.calls \in Seq(Call) /\ Len(t.calls) \in {1, 2} /\ t.override \in BOOLEAN
  BY DEF Slot, Proper
<1>2. /\ Charge(t) \in Nat /\ Charge(t) <= Greatest
      /\ Charge(t) > 0 => ~t.override /\ ~t.subOnly
  <2> DEFINE call == t.calls[1]
  <2>1. 1 \in DOMAIN t.calls /\ Head(t.calls) = call /\ call \in Call
    <3>0. Len(t.calls) # 0
      <4>1. Len(t.calls) \in 1..2
        BY DEF Proper
      <4> QED
        BY <4>1
    <3>1. DOMAIN t.calls = 1..Len(t.calls) /\ t.calls # <<>>
      BY <1>1, <3>0, LenProperties
    <3> QED
      BY <1>1, <3>1, ElementOfSeq, HeadTailProperties
  <2>2. call.payer # "byok" /\ (t.subOnly => call.payer = "subscription")
    BY <2>1 DEF Proper
  <2>3. call.notional \in Nat /\ call.notional <= Greatest
    BY <2>1, CostAssumption, GreatestCost DEF Call
  <2>4. Charge(t) = -(Amounts(call, t.override).delta + Amounts(call, t.override).fee)
    BY <2>1 DEF Charge
  <2> HIDE DEF call
  <2>5. Amounts(call, t.override).fee = 0
    BY <2>2 DEF Amounts
  <2>6. CASE t.override \/ t.subOnly
    <3>1. Amounts(call, t.override).delta = 0
      BY <2>2, <2>6 DEF Amounts
    <3> QED
      BY <2>4, <2>5, <3>1, GreatestCost
  <2>7. CASE ~t.override /\ ~t.subOnly
    <3>1. Amounts(call, t.override).delta \in {0, -call.notional}
      BY <2>7 DEF Amounts
    <3> QED
      BY <2>3, <2>4, <2>5, <2>7, <3>1, GreatestCost
  <2> QED
    BY <2>6, <2>7
<1>3. /\ MayDebit(t, 1) => ~t.override /\ ~t.subOnly
      /\ ~t.override /\ ~t.subOnly =>
           /\ MayDebit(t, 1) /\ \A a \in Counters(t) : MaySpend(t, a, 1)
           /\ Len(t.calls) = 2 =>
                MayDebit(t, 2) /\ \A a \in Counters(t) : MaySpend(t, a, 2)
  BY <1>1, SMTT(20) DEF MayDebit, MaySpend, Charging, PastBalance, PastCap
<1>4. ASSUME Len(t.calls) = 1, x.pc = "signal", x.calls = t.calls
      PROVE  \A n \in 1..2 : ~MayDebit(x, n) /\ \A a \in Accounts : ~MaySpend(x, a, n)
  <2>1. Len(x.calls) = 1
    BY <1>4
  <2>2. \A n \in 1..2 : ~Charging(x, n)
    <3>1. x.pc = "signal"
      BY <1>4
    <3>2. \A n \in 1..2 : ~(1 > n)
      OBVIOUS
    <3> QED
      BY <2>1, <3>1, <3>2 DEF Charging
  <2> QED
    BY <2>2 DEF MayDebit, MaySpend
<1>5. CASE Len(t.calls) = 1
  <2>1. \A n \in 1..2 : ~MayDebit(x, n) /\ \A a \in Accounts : ~MaySpend(x, a, n)
    BY <1>4, <1>5, SettledTyped, IdleChargesNothing
  <2>2. Counters(t) \subseteq Accounts
    BY DEF Counters, Slot, Accounts
  <2> QED
    BY <1>2, <1>3, <2>1, <2>2
<1>6. CASE Len(t.calls) = 2
  <2>1. /\ x.override = t.override /\ x.subOnly = t.subOnly /\ Counters(x) = Counters(t)
        /\ \A n \in 1..2 : Charging(x, n) <=> n = 1 /\ ~t.override /\ ~t.subOnly
    <3>1. CASE x = Settled(t)
      <4>1. /\ x.pc = "debit" /\ Len(x.calls) = 1 /\ x.override = t.override
            /\ x.subOnly = t.subOnly /\ x.key = t.key /\ x.user = t.user
        BY <1>6, <3>1, SettledTyped
      <4> QED
        BY <4>1 DEF Charging, Counters
    <3>2. CASE x # Settled(t)
      <4>1. /\ x.pc = "signal" /\ x.override = t.override
            /\ x.subOnly = t.subOnly /\ x.key = t.key /\ x.user = t.user
        BY <3>2
      <4>2. x.calls = t.calls
        BY <3>2
      <4>3. Len(x.calls) = 2
        BY <1>6, <4>2
      <4>4. \A n \in 1..2 : 2 > n <=> n = 1
        OBVIOUS
      <4>5. \A n \in 1..2 : Charging(x, n) <=> n = 1 /\ ~t.override /\ ~t.subOnly
        BY <4>1, <4>3, <4>4 DEF Charging
      <4> QED
        BY <4>1, <4>5 DEF Counters
    <3> QED
      BY <3>1, <3>2
  <2>2. \A n \in 1..2 : /\ MayDebit(x, n) => n = 1 /\ ~t.override /\ ~t.subOnly
                        /\ \A a \in Accounts : MaySpend(x, a, n) =>
                             n = 1 /\ ~t.override /\ ~t.subOnly /\ a \in Counters(t)
    BY <2>1 DEF MayDebit, MaySpend
  <2>3. Counters(t) \subseteq Accounts
    BY DEF Counters, Slot, Accounts
  <2> QED
    BY <1>2, <1>3, <1>6, <2>2, <2>3
<1> QED
  BY <1>1, <1>5, <1>6

\* One step on a slot: the balance and each account keep within what may still
\* be charged.
LEMMA SlotMetered ==
  ASSUME Typed, Metered, ~stored, NEW s \in Slots, NEW x, slots' = [slots EXCEPT ![s] = x],
         NEW charge \in Nat, charge <= Greatest,
         balance' \in Int, -balance' <= -balance + charge,
         \A n \in 1..2 : MayDebit(x, n) => MayDebit(slots[s], n) \/ (~Depleted /\ charge = 0),
         charge > 0 => \E n \in 1..2 : MayDebit(slots[s], n) /\ ~MayDebit(x, n)
  PROVE  BalanceMetered'
<1> DEFINE C(n) == {q \in Slots : ~MayDebit(slots'[q], n)}
<1>1. slots'[s] = x /\ \A q \in Slots \ {s} : slots'[q] = slots[q]
  BY DEF Typed, TypeOK
<1>2. \A n \in 1..2 : DebitsOver(n)' = C(n)
  BY DEF DebitsOver, MayDebit, Charging
<1>3. BalanceMetered' <=> -balance' < (Cardinality(C(1)) + Cardinality(C(2))) * Greatest
  BY <1>2 DEF BalanceMetered
<1>4. balance \in Int /\ -balance \in Int /\ -balance' \in Int
  BY DEF Typed, TypeOK
<1>8. PICK v \in Int, w \in Int : v = -balance /\ w = -balance' /\ w <= v + charge
  BY <1>4
<1>5. CASE \A n \in 1..2 : MayDebit(x, n) => MayDebit(slots[s], n)
  <2>1. \A n \in 1..2 : DebitsOver(n) \subseteq C(n)
    BY <1>1, <1>5 DEF DebitsOver
  <2>2. charge > 0 => DebitsOver(1) # C(1) \/ DebitsOver(2) # C(2)
    <3>1. \A n \in 1..2 : MayDebit(slots[s], n) /\ ~MayDebit(x, n) => s \in C(n) /\ s \notin DebitsOver(n)
      BY <1>1 DEF DebitsOver
    <3> QED
      BY <3>1
  <2>3. C(1) \in SUBSET Slots /\ C(2) \in SUBSET Slots
    OBVIOUS
  <2> HIDE DEF C
  <2>4. v < 0 + (Cardinality(DebitsOver(1)) + Cardinality(DebitsOver(2))) * Greatest
    <3>1. v < (Cardinality(DebitsOver(1)) + Cardinality(DebitsOver(2))) * Greatest
      BY <1>8 DEF Metered, BalanceMetered
    <3>2. (Cardinality(DebitsOver(1)) + Cardinality(DebitsOver(2))) * Greatest \in Int
      <4>1. IsFiniteSet(DebitsOver(1)) /\ IsFiniteSet(DebitsOver(2))
        BY AccountAssumption, FS_Subset DEF AccountAssumption, DebitsOver
      <4> QED
        BY <4>1, FS_CardinalityType, GreatestCost
    <3> QED
      BY <3>1, <3>2
  <2>5. w < 0 + (Cardinality(C(1)) + Cardinality(C(2))) * Greatest
    <3>1. 0 \in Int
      OBVIOUS
    <3> QED
      BY <1>8, <2>1, <2>2, <2>3, <2>4, <3>1, RoomKept
  <2>6. (Cardinality(C(1)) + Cardinality(C(2))) * Greatest \in Int
    <3>1. IsFiniteSet(C(1)) /\ IsFiniteSet(C(2))
      BY <2>3, AccountAssumption, FS_Subset DEF AccountAssumption
    <3> QED
      BY <3>1, FS_CardinalityType, GreatestCost
  <2>7. w < (Cardinality(C(1)) + Cardinality(C(2))) * Greatest
    BY <2>5, <2>6
  <2> QED
    BY <1>3, <1>8, <2>7
<1>6. CASE ~Depleted /\ charge = 0
  <2>1. w < 0
    <3>1. v < 0
      BY <1>4, <1>6, <1>8 DEF Depleted
    <3>2. w <= v + charge
      BY <1>8
    <3>3. charge = 0
      BY <1>6
    <3> QED
      BY <3>1, <3>2, <3>3
  <2>2. (Cardinality(C(1)) + Cardinality(C(2))) * Greatest \in Nat
    <3>1. IsFiniteSet(C(1)) /\ IsFiniteSet(C(2))
      BY AccountAssumption, FS_Subset DEF AccountAssumption
    <3> QED
      BY <3>1, FS_CardinalityType, GreatestCost
  <2> HIDE DEF C
  <2>3. w < (Cardinality(C(1)) + Cardinality(C(2))) * Greatest
    BY <2>1, <2>2
  <2> QED
    BY <1>3, <1>8, <2>3
<1> QED
  BY <1>5, <1>6

\* The same of a step that charges nothing.
LEMMA SlotUncharged ==
  ASSUME Typed, Metered, ~stored, NEW s \in Slots, NEW x, slots' = [slots EXCEPT ![s] = x],
         balance' \in Int, -balance' <= -balance,
         \A n \in 1..2 : MayDebit(x, n) => MayDebit(slots[s], n) \/ ~Depleted
  PROVE  BalanceMetered'
<1>1. balance \in Int /\ -balance \in Int /\ -balance' \in Int
  BY DEF Typed, TypeOK
<1>2. 0 \in Nat /\ 0 <= Greatest /\ ~(0 > 0)
  BY GreatestCost
<1>3. PICK v \in Int, w \in Int : v = -balance /\ w = -balance' /\ w <= v
  BY <1>1
<1>4. w <= v + 0
  BY <1>3
<1>5. -balance' <= -balance + 0
  BY <1>3, <1>4
<1> QED
  BY <1>2, <1>5, SlotMetered

LEMMA SlotMeteredOn ==
  ASSUME Typed, Metered, ~stored, NEW s \in Slots, NEW x, slots' = [slots EXCEPT ![s] = x],
         NEW charge \in Nat, charge <= Greatest, NEW a \in Accounts,
         spent'[a] \in Nat, spent'[a] <= spent[a] + charge,
         \A n \in 1..2 : MaySpend(x, a, n) =>
            MaySpend(slots[s], a, n) \/ (~Reached(a) /\ charge = 0),
         charge > 0 => \E n \in 1..2 : MaySpend(slots[s], a, n) /\ ~MaySpend(x, a, n)
  PROVE  AccountMetered(a)'
<1> DEFINE C(n) == {q \in Slots : ~MaySpend(slots'[q], a, n)}
<1> SUFFICES ASSUME Limit[a] # NoLimit PROVE AccountMetered(a)'
  BY DEF AccountMetered
<1>1. slots'[s] = x /\ \A q \in Slots \ {s} : slots'[q] = slots[q]
  BY DEF Typed, TypeOK
<1>2. \A n \in 1..2 : SpendsOver(a, n)' = C(n)
  BY DEF SpendsOver, MaySpend, Charging, Counters
<1>3. AccountMetered(a)' <=>
        spent'[a] < Limit[a] + (Cardinality(C(1)) + Cardinality(C(2))) * Greatest
  <2>1. SpendsOver(a, 1)' = C(1) /\ SpendsOver(a, 2)' = C(2)
    BY <1>2
  <2> HIDE DEF C
  <2> QED
    BY <2>1 DEF AccountMetered
<1>4. spent[a] \in Nat /\ Limit[a] \in Nat
  BY LimitAssumption DEF Typed, TypeOK
<1>5. CASE \A n \in 1..2 : MaySpend(x, a, n) => MaySpend(slots[s], a, n)
  <2>1. \A n \in 1..2 : SpendsOver(a, n) \subseteq C(n)
    BY <1>1, <1>5 DEF SpendsOver
  <2>2. charge > 0 => SpendsOver(a, 1) # C(1) \/ SpendsOver(a, 2) # C(2)
    <3>1. \A n \in 1..2 :
            MaySpend(slots[s], a, n) /\ ~MaySpend(x, a, n) => s \in C(n) /\ s \notin SpendsOver(a, n)
      BY <1>1 DEF SpendsOver
    <3> QED
      BY <3>1
  <2>3. C(1) \in SUBSET Slots /\ C(2) \in SUBSET Slots
    OBVIOUS
  <2> HIDE DEF C
  <2>4. spent[a] < Limit[a]
          + (Cardinality(SpendsOver(a, 1)) + Cardinality(SpendsOver(a, 2))) * Greatest
    BY DEF Metered, AccountMetered
  <2>5. spent'[a] < Limit[a] + (Cardinality(C(1)) + Cardinality(C(2))) * Greatest
    BY <1>4, <2>1, <2>2, <2>3, <2>4, RoomKept
  <2> QED
    BY <1>3, <2>5
<1>6. CASE ~Reached(a) /\ charge = 0
  <2>1. spent'[a] < Limit[a]
    <3>1. spent[a] < Limit[a]
      BY <1>4, <1>6 DEF Reached
    <3> QED
      BY <1>4, <1>6, <3>1
  <2>2. (Cardinality(C(1)) + Cardinality(C(2))) * Greatest \in Nat
    <3>1. IsFiniteSet(C(1)) /\ IsFiniteSet(C(2))
      BY AccountAssumption, FS_Subset DEF AccountAssumption
    <3> QED
      BY <3>1, FS_CardinalityType, GreatestCost
  <2> HIDE DEF C
  <2> QED
    BY <1>3, <1>4, <2>1, <2>2
<1> QED
  BY <1>5, <1>6

LEMMA SlotUnchargedOn ==
  ASSUME Typed, Metered, ~stored, NEW s \in Slots, NEW x, slots' = [slots EXCEPT ![s] = x],
         UNCHANGED spent, NEW a \in Accounts,
         \A n \in 1..2 : MaySpend(x, a, n) => MaySpend(slots[s], a, n) \/ ~Reached(a)
  PROVE  AccountMetered(a)'
<1>1. spent[a] \in Nat /\ spent'[a] = spent[a]
  BY DEF Typed, TypeOK
<1>2. 0 \in Nat /\ 0 <= Greatest /\ ~(0 > 0)
  BY GreatestCost
<1>3. spent'[a] \in Nat /\ spent'[a] <= spent[a] + 0
  BY <1>1
<1> QED
  BY <1>2, <1>3, SlotMeteredOn

LEMMA MeteredKept ==
  ASSUME Typed, Metered, [Next]_vars
  PROVE  Metered'
<1>0. UNCHANGED stored
  <2>1. ASSUME NEW s \in Slots,
               Arrive(s) \/ BalanceGate(s) \/ CapGate(s) \/ Serve(s) \/ Debit(s) \/ Signal(s)
        PROVE  UNCHANGED stored
    BY <2>1, SlotSteps
  <2> QED
    BY <2>1 DEF Next, Pay, vars
<1>1. SUFFICES ASSUME ~stored PROVE BalanceMetered' /\ \A a \in Accounts : AccountMetered(a)'
  BY <1>0 DEF Metered
<1>2. balance \in Int /\ spent \in [Accounts -> Nat] /\ Greatest \in Nat
  BY GreatestCost DEF Typed, TypeOK
<1>3. CASE UNCHANGED vars
  <2>1. Metered' /\ ~stored'
    BY <1>1, <1>3 DEF vars, Metered, BalanceMetered, AccountMetered, DebitsOver, SpendsOver,
                      MayDebit, MaySpend, Charging, Counters
  <2> QED
    BY <2>1 DEF Metered
<1>4. CASE Pay
  <2>1. /\ balance' = balance + TopUp /\ TopUp \in Nat /\ balance' \in Int
        /\ UNCHANGED <<slots, spent>>
    BY <1>4, PayTyped, BalanceAssumption
  <2>2. PICK s \in Slots : TRUE
    BY AccountAssumption DEF AccountAssumption
  <2>3. slots' = [slots EXCEPT ![s] = slots[s]]
    BY <2>1 DEF Typed, TypeOK
  <2>4. -balance' <= -balance
    BY <1>2, <2>1
  <2>5. BalanceMetered'
    BY <1>1, <2>1, <2>3, <2>4, SlotUncharged
  <2>6. \A a \in Accounts : AccountMetered(a)'
    BY <1>1, <2>1, <2>3, SlotUnchargedOn
  <2> QED
    BY <2>5, <2>6
<1>5. ASSUME NEW s \in Slots, Arrive(s) \/ BalanceGate(s) \/ CapGate(s) \/ Serve(s)
      PROVE  BalanceMetered' /\ \A a \in Accounts : AccountMetered(a)'
  <2>1. PICK x : Quiet(s, x) /\ GainsAtGates(s, x)
    BY <1>5, QuietSteps
  <2>2. /\ slots' = [slots EXCEPT ![s] = x] /\ UNCHANGED <<balance, spent>>
        /\ balance' \in Int /\ -balance' <= -balance
    BY <1>2, <2>1 DEF Quiet, Books
  <2>3. BalanceMetered'
    BY <1>1, <2>1, <2>2, SlotUncharged DEF GainsAtGates
  <2>4. \A a \in Accounts : AccountMetered(a)'
    BY <1>1, <2>1, <2>2, SlotUnchargedOn DEF GainsAtGates
  <2> QED
    BY <2>3, <2>4
<1>6. ASSUME NEW s \in Slots, Debit(s)
      PROVE  BalanceMetered' /\ \A a \in Accounts : AccountMetered(a)'
  <2> DEFINE t == slots[s]
  <2>1. t \in Slot /\ Proper(t) /\ t.pc = "debit"
    BY <1>6, SlotTyped, DebitCases DEF Typed
  <2>2. PICK x : x \in {Answered(t), Settled(t)} /\ slots' = [slots EXCEPT ![s] = x]
    BY <1>6, DebitCases
  <2>3. /\ Charge(t) \in Nat /\ Charge(t) <= Greatest
        /\ \A n \in 1..2 :
             /\ MayDebit(x, n) => MayDebit(t, n)
             /\ \A a \in Accounts : MaySpend(x, a, n) => MaySpend(t, a, n)
        /\ Charge(t) > 0 => \E n \in 1..2 :
             /\ MayDebit(t, n) /\ ~MayDebit(x, n)
             /\ \A a \in Counters(t) : MaySpend(t, a, n) /\ ~MaySpend(x, a, n)
    BY <1>1, <2>1, <2>2, AnsweredTyped, SettlingBars
  <2> HIDE DEF t
  <2>4. CASE UNCHANGED <<balance, spent>>
    <3>0. balance' \in Int /\ -balance' <= -balance
      BY <1>2, <2>4
    <3>1. BalanceMetered'
      BY <1>1, <2>2, <2>3, <2>4, <3>0, SlotUncharged DEF t
    <3>2. \A a \in Accounts : AccountMetered(a)'
      BY <1>1, <2>2, <2>3, <2>4, SlotUnchargedOn DEF t
    <3> QED
      BY <3>1, <3>2
  <2>5. CASE Post(t)
    <3>1. /\ balance' = balance - Charge(t) /\ balance' \in Int
          /\ spent' = [q \in Accounts |-> spent[q] + (IF q \in Counters(t) THEN Charge(t) ELSE 0)]
          /\ spent' \in [Accounts -> Nat]
      BY <2>1, <2>5, PostTyped DEF t
    <3>2. -balance' <= -balance + Charge(t)
      BY <1>2, <2>3, <3>1
    <3>3. BalanceMetered'
      BY <1>1, <2>2, <2>3, <3>1, <3>2, SlotMetered DEF t
    <3>4. ASSUME NEW a \in Accounts PROVE AccountMetered(a)'
      <4> DEFINE charge == IF a \in Counters(t) THEN Charge(t) ELSE 0
      <4>1. charge \in Nat /\ charge <= Greatest /\ spent'[a] = spent[a] + charge
        BY <1>2, <2>3, <3>1
      <4>2. charge > 0 => \E n \in 1..2 : MaySpend(t, a, n) /\ ~MaySpend(x, a, n)
        BY <2>3
      <4> HIDE DEF charge
      <4>3. spent'[a] \in Nat /\ spent'[a] <= spent[a] + charge
        BY <1>2, <3>1, <4>1
      <4> QED
        BY <1>1, <2>2, <2>3, <4>1, <4>2, <4>3, SlotMeteredOn DEF t
    <3> QED
      BY <3>3, <3>4
  <2> QED
    BY <1>6, <2>4, <2>5, DebitCases DEF t
<1>7. ASSUME NEW s \in Slots, Signal(s)
      PROVE  BalanceMetered' /\ \A a \in Accounts : AccountMetered(a)'
  <2>1. PICK x \in Slot :
              /\ slots' = [slots EXCEPT ![s] = x]
              /\ \A n \in 1..2 :
                   /\ MayDebit(x, n) => MayDebit(slots[s], n)
                   /\ \A a \in Accounts : MaySpend(x, a, n) => MaySpend(slots[s], a, n)
    BY <1>7, SignalCases
  <2>2. UNCHANGED <<balance, spent>> /\ balance' \in Int /\ -balance' <= -balance
    BY <1>2, <1>7, SignalCases
  <2>3. BalanceMetered'
    BY <1>1, <2>1, <2>2, SlotUncharged
  <2>4. \A a \in Accounts : AccountMetered(a)'
    BY <1>1, <2>1, <2>2, SlotUnchargedOn
  <2> QED
    BY <2>3, <2>4
<1> QED
  BY <1>3, <1>4, <1>5, <1>6, <1>7 DEF Next

LEMMA InitMetered == Init => Metered
<1> SUFFICES ASSUME Init PROVE Metered
  OBVIOUS
<1>1. \A n \in 1..2 : DebitsOver(n) = Slots /\ \A a \in Accounts : SpendsOver(a, n) = Slots
  BY IdleChargesNothing DEF Init, DebitsOver, SpendsOver
<1>2. Cardinality(Slots) \in Nat /\ Cardinality(Slots) > 0
  BY AccountAssumption, FS_CardinalityType, FS_EmptySet DEF AccountAssumption
<1>3. (Cardinality(Slots) + Cardinality(Slots)) * Greatest \in Nat
      /\ (Cardinality(Slots) + Cardinality(Slots)) * Greatest > 0
  BY <1>2, GreatestCost, Product
<1>4. BalanceMetered
  BY <1>1, <1>3, BalanceAssumption DEF Init, BalanceMetered
<1>5. ASSUME NEW a \in Accounts PROVE AccountMetered(a)
  BY <1>1, <1>3, LimitAssumption DEF Init, AccountMetered
<1> QED
  BY <1>4, <1>5 DEF Metered

\* No limit is overrun by more than what the requests in flight can cost, two
\* calls each: the gates are read long before the debit, but nothing is charged
\* that did not pass its gate while its limit stood (stored keys apart).
THEOREM OvershootAlwaysBounded == Spec => []OvershootBounded
<1>1. Typed /\ Metered => OvershootBounded
  BY MeteredBounds
<1>2. Typed /\ Metered /\ [Next]_vars => Metered'
  BY MeteredKept
<1> QED
  BY <1>1, <1>2, InitTyped, NextTyped, InitMetered, PTL DEF Spec


-----------------------------------------------------------------------------
(* Books.  One statement moves the balance, writes the rows and moves the  *)
(* counters; the books balance before it and after it.                     *)

Share(row) == IF row.type = "top_up" THEN 0 ELSE -row.delta
TakenBy(rows) == SumFunction([i \in DOMAIN rows |-> Share(rows[i])])

Before(rows, i) == IF i = 1 THEN StartBalance ELSE rows[i - 1].after
Replays(rows, final) ==
  /\ \A i \in DOMAIN rows : rows[i].after = Before(rows, i) + rows[i].delta
  /\ final = Before(rows, Len(rows) + 1)

\* One more row.
LEMMA RowAdded ==
  ASSUME NEW rows \in Seq(Row), NEW row \in Row
  PROVE  LET more == Append(rows, row)
             n == Len(rows) IN
         /\ n \in Nat /\ DOMAIN rows = 1..n /\ DOMAIN more = 1..(n + 1) /\ Len(more) = n + 1
         /\ more[n + 1] = row /\ \A i \in 1..n : more[i] = rows[i]
  BY AppendProperties, LenProperties

LEMMA ShareTyped == ASSUME NEW row \in Row PROVE Share(row) \in Int /\ row.delta \in Int /\ row.after \in Int
  BY DEF Share, Row

LEMMA SumMoved ==
  ASSUME NEW f, NEW g, NEW S, IsFiniteSet(S), NEW e \in S, NEW d \in Int,
         \A x \in S : f[x] \in Int, g[e] = f[e] + d, \A x \in S \ {e} : g[x] = f[x]
  PROVE  SumFunctionOnSet(g, S) = SumFunctionOnSet(f, S) + d
<1> DEFINE rest == SumFunctionOnSet(f, S \ {e})
<1>1. \A x \in S : g[x] \in Int
  BY SMT
<1>2. IsFiniteSet(S \ {e})
  BY FS_RemoveElement
<1>3. SumFunctionOnSet(g, S \ {e}) = rest
  BY <1>2, SumSame
<1>4. SumFunctionOnSet(f, S) = f[e] + rest
  BY SumWithout
<1>5. SumFunctionOnSet(g, S) = g[e] + rest
  BY <1>1, <1>3, SumWithout
<1>6. rest \in Int /\ f[e] \in Int
  BY <1>2, SumTyped
<1> HIDE DEF rest
<1> QED
  BY <1>4, <1>5, <1>6

LEMMA TakenAdded ==
  ASSUME NEW rows \in Seq(Row), NEW row \in Row
  PROVE  TakenBy(rows) \in Int /\ TakenBy(Append(rows, row)) = TakenBy(rows) + Share(row)
<1> DEFINE n == Len(rows)
           more == Append(rows, row)
           f == [i \in DOMAIN rows |-> Share(rows[i])]
           g == [i \in DOMAIN more |-> Share(more[i])]
<1>1. /\ n \in Nat /\ DOMAIN rows = 1..n /\ DOMAIN more = 1..(n + 1)
      /\ more[n + 1] = row /\ \A i \in 1..n : more[i] = rows[i]
  BY RowAdded
<1>2. \A i \in 1..n : rows[i] \in Row
  BY <1>1, ElementOfSeq
<1> HIDE DEF n, more
<1>3. \A i \in 1..n : f[i] \in Int /\ g[i] = f[i]
  BY <1>1, <1>2, ShareTyped
<1>4. g[n + 1] = Share(row) /\ DOMAIN f = 1..n /\ DOMAIN g = 1..(n + 1)
  BY <1>1
<1>5. TakenBy(rows) = SumFunctionOnSet(f, 1..n) /\ TakenBy(more) = SumFunctionOnSet(g, 1..(n + 1))
  <2>1. TakenBy(rows) = SumFunction(f) /\ TakenBy(more) = SumFunction(g)
    BY DEF TakenBy
  <2> HIDE DEF f, g
  <2> QED
    BY <1>4, <2>1 DEF SumFunction, SumFunctionOnSet, FoldFunction
<1> HIDE DEF f, g
<1>6. IsFiniteSet(1..n) /\ IsFiniteSet(1..(n + 1))
  BY <1>1, FS_Interval
<1>7. SumFunctionOnSet(f, 1..n) \in Int
  BY <1>3, <1>6, SumTyped
<1>8. SumFunctionOnSet(g, 1..(n + 1)) = g[n + 1] + SumFunctionOnSet(g, (1..(n + 1)) \ {n + 1})
  <2>1. n + 1 \in 1..(n + 1)
    BY <1>1
  <2>2. \A i \in 1..(n + 1) : i = n + 1 \/ i \in 1..n
    BY <1>1
  <2>3. \A i \in 1..(n + 1) : g[i] \in Int
    BY <1>3, <1>4, <2>2, ShareTyped
  <2> QED
    BY <1>6, <2>1, <2>3, SumWithout
<1>9. (1..(n + 1)) \ {n + 1} = 1..n
  BY <1>1
<1>10. SumFunctionOnSet(g, 1..n) = SumFunctionOnSet(f, 1..n)
  BY <1>3, <1>6, SumSame
<1>11. TakenBy(more) = Share(row) + TakenBy(rows) /\ TakenBy(rows) \in Int
  BY <1>4, <1>5, <1>7, <1>8, <1>9, <1>10
<1> QED
  BY <1>11, ShareTyped DEF more

LEMMA ReplayAdded ==
  ASSUME NEW rows \in Seq(Row), NEW row \in Row, NEW final, Replays(rows, final),
         row.after = final + row.delta
  PROVE  Replays(Append(rows, row), row.after)
<1> DEFINE n == Len(rows)
           more == Append(rows, row)
<1>1. /\ n \in Nat /\ DOMAIN rows = 1..n /\ DOMAIN more = 1..(n + 1) /\ Len(more) = n + 1
      /\ more[n + 1] = row /\ \A i \in 1..n : more[i] = rows[i]
  BY RowAdded
<1> HIDE DEF more
<1>2. \A i \in 1..(n + 1) : Before(more, i) = Before(rows, i)
  <2>1. \A i \in 1..(n + 1) : i # 1 => i - 1 \in 1..n
    BY <1>1
  <2> QED
    BY <1>1, <2>1 DEF Before
<1>3. \A i \in 1..n : more[i].after = Before(more, i) + more[i].delta
  <2>1. \A i \in 1..n : i \in 1..(n + 1)
    BY <1>1
  <2> QED
    BY <1>1, <1>2, <2>1 DEF Replays
<1>4. more[n + 1].after = Before(more, n + 1) + more[n + 1].delta
  <2>1. n + 1 \in 1..(n + 1) /\ Before(rows, n + 1) = final
    BY <1>1 DEF Replays
  <2> QED
    BY <1>1, <1>2, <2>1
<1>5. Before(more, (n + 1) + 1) = row.after
  <2>1. (n + 1) + 1 # 1 /\ ((n + 1) + 1) - 1 = n + 1
    BY <1>1
  <2> QED
    BY <1>1, <2>1 DEF Before
<1>6. \A i \in DOMAIN more : more[i].after = Before(more, i) + more[i].delta
  <2>1. \A i \in 1..(n + 1) : i = n + 1 \/ i \in 1..n
    BY <1>1
  <2> QED
    BY <1>1, <1>3, <1>4, <2>1
<1>7. Replays(more, row.after)
  BY <1>1, <1>5, <1>6 DEF Replays
<1> QED
  BY <1>7 DEF more

\* The rows of a debit replay, and say what it took.
LEMMA DebitReplays ==
  ASSUME NEW call \in Call, NEW override \in BOOLEAN, NEW rows \in Seq(Row), NEW before \in Int,
         Replays(rows, before)
  PROVE  LET a == Amounts(call, override)
             final == before + a.delta + a.fee
             more == rows \o Rows(a, call, final) IN
         Replays(more, final) /\ TakenBy(more) = TakenBy(rows) - (a.delta + a.fee)
<1> DEFINE a == Amounts(call, override)
           d == a.delta
           f == a.fee
           final == before + d + f
           one == InferenceRow(a, call, final)
           two == FeeRow(a, call, final)
           more == rows \o Rows(a, call, final)
<1>1. d \in Int /\ f \in Int
  BY AmountsTyped
<1>2. final \in Int
  BY <1>1
<1>3. /\ one \in Row /\ two \in Row
      /\ more = IF f = 0 THEN Append(rows, one) ELSE Append(Append(rows, one), two)
  BY <1>2, RowsAppended
<1>4. /\ one.delta = d /\ one.after = final - f /\ Share(one) = -d
      /\ two.delta = f /\ two.after = final /\ Share(two) = -f
  BY DEF InferenceRow, FeeRow, BeforeFee, Share
<1>5. final - f = before + d /\ final = (before + d) + f
  BY <1>1
<1> HIDE DEF a, d, f, final, one, two, more
<1>6. /\ Replays(Append(rows, one), before + d) /\ Append(rows, one) \in Seq(Row)
      /\ TakenBy(Append(rows, one)) = TakenBy(rows) + (-d)
      /\ TakenBy(rows) \in Int
  BY <1>3, <1>4, <1>5, ReplayAdded, TakenAdded, AppendProperties
<1>7. CASE f = 0
  <2>1. more = Append(rows, one) /\ final = before + d
    BY <1>1, <1>3, <1>5, <1>7
  <2>2. TakenBy(rows) + (-d) = TakenBy(rows) - (d + f)
    BY <1>1, <1>6, <1>7
  <2>3. Replays(more, final) /\ TakenBy(more) = TakenBy(rows) - (d + f)
    BY <1>6, <2>1, <2>2
  <2> QED
    BY <2>3 DEF a, d, f, final, more
<1>8. CASE f # 0
  <2>1. more = Append(Append(rows, one), two)
    BY <1>3, <1>8
  <2>2. two.after = (before + d) + two.delta
    BY <1>4, <1>5
  <2>3. Replays(more, final) /\ TakenBy(more) = TakenBy(Append(rows, one)) + (-f)
    BY <1>3, <1>4, <1>6, <2>1, <2>2, ReplayAdded, TakenAdded
  <2>4. (TakenBy(rows) + (-d)) + (-f) = TakenBy(rows) - (d + f)
    BY <1>1, <1>6
  <2>5. TakenBy(more) = TakenBy(rows) - (d + f)
    BY <1>6, <2>3, <2>4
  <2> QED
    BY <2>3, <2>5 DEF a, d, f, final, more
<1> QED
  BY <1>7, <1>8

LEMMA BooksRead ==
  BooksBalance <=> /\ Replays(ledger, balance)
                   /\ spent[Org] = SumFunctionOnSet(spent, Keys)
                   /\ spent[Org] = TakenBy(ledger)
                   /\ SumFunctionOnSet(spent, Users) <= spent[Org]
<1>1. LedgerReplays <=> Replays(ledger, balance)
  BY DEF LedgerReplays, Replays, Before
<1>2. Taken = TakenBy(ledger)
  BY DEF Taken, TakenBy, Share
<1> QED
  BY <1>1, <1>2 DEF BooksBalance, Over

\* A charge moves the organisation's counter, one key's and at most one
\* engineer's, all by the same.
LEMMA CountersMoved ==
  ASSUME NEW f \in [Accounts -> Nat], NEW charge \in Nat, NEW key \in Keys,
         NEW user \in Users \cup {Nobody}, NEW g,
         g = [x \in Accounts |-> f[x] + (IF x \in {key, user, Org} \ {Nobody} THEN charge ELSE 0)]
  PROVE  /\ g[Org] = f[Org] + charge
         /\ SumFunctionOnSet(g, Keys) = SumFunctionOnSet(f, Keys) + charge
         /\ SumFunctionOnSet(f, Users) \in Int
         /\ SumFunctionOnSet(g, Users) \in Int
         /\ SumFunctionOnSet(g, Users) <= SumFunctionOnSet(f, Users) + charge
<1>1. /\ IsFiniteSet(Keys) /\ IsFiniteSet(Users) /\ Keys \cap Users = {}
      /\ Org \notin Keys /\ Org \notin Users /\ Nobody \notin Keys /\ Nobody \notin Users
      /\ Nobody # Org /\ Keys \subseteq Accounts /\ Users \subseteq Accounts /\ Org \in Accounts
  BY AccountAssumption DEF AccountAssumption, Accounts
<1>2. \A x \in Accounts : f[x] \in Int /\ f[x] + 0 = f[x]
  OBVIOUS
<1>3. g[Org] = f[Org] + charge
  BY <1>1
<1>4. g[key] = f[key] + charge /\ \A x \in Keys \ {key} : g[x] = f[x]
  BY <1>1, <1>2
<1>5. SumFunctionOnSet(g, Keys) = SumFunctionOnSet(f, Keys) + charge
  <2>1. charge \in Int /\ \A x \in Keys : f[x] \in Int
    BY <1>1, <1>2
  <2> QED
    BY <1>1, <1>4, <2>1, SumMoved
<1>6. SumFunctionOnSet(f, Users) \in Int
  BY <1>1, <1>2, SumTyped
<1>7. CASE user = Nobody
  <2>1. \A x \in Users : g[x] = f[x]
    BY <1>1, <1>2, <1>7
  <2>2. SumFunctionOnSet(g, Users) = SumFunctionOnSet(f, Users)
    BY <1>1, <2>1, SumSame
  <2> QED
    BY <1>3, <1>5, <1>6, <2>2
<1>8. CASE user # Nobody
  <2>1. user \in Users /\ g[user] = f[user] + charge /\ \A x \in Users \ {user} : g[x] = f[x]
    BY <1>1, <1>2, <1>8
  <2>2. charge \in Int /\ \A x \in Users : f[x] \in Int
    BY <1>1, <1>2
  <2>3. SumFunctionOnSet(g, Users) = SumFunctionOnSet(f, Users) + charge
    BY <1>1, <2>1, <2>2, SumMoved
  <2> QED
    BY <1>3, <1>5, <1>6, <2>3
<1> QED
  BY <1>7, <1>8

LEMMA BooksKept ==
  ASSUME Typed, BooksBalance, [Next]_vars
  PROVE  BooksBalance'
<1>1. /\ Replays(ledger, balance)
      /\ spent[Org] = SumFunctionOnSet(spent, Keys)
      /\ spent[Org] = TakenBy(ledger)
      /\ SumFunctionOnSet(spent, Users) <= spent[Org]
  BY BooksRead
<1>2. BooksBalance' <=> /\ Replays(ledger', balance')
                        /\ spent'[Org] = SumFunctionOnSet(spent', Keys)
                        /\ spent'[Org] = TakenBy(ledger')
                        /\ SumFunctionOnSet(spent', Users) <= spent'[Org]
  <2>1. LedgerReplays' <=> Replays(ledger', balance')
    BY DEF LedgerReplays, Replays, Before
  <2>2. Taken' = TakenBy(ledger')
    BY DEF Taken, TakenBy, Share
  <2> QED
    BY <2>1, <2>2 DEF BooksBalance, Over
<1>3. ledger \in Seq(Row) /\ balance \in Int /\ spent \in [Accounts -> Nat] /\ Org \in Accounts
  BY DEF Typed, TypeOK, Accounts
<1>4. CASE UNCHANGED <<balance, ledger, spent>>
  BY <1>1, <1>2, <1>4
<1>5. CASE Pay
  <2> DEFINE row == [type |-> "top_up", payer |-> "deployment", notional |-> 0,
                     delta |-> TopUp, after |-> balance + TopUp]
  <2>1. /\ row \in Row /\ ledger' = Append(ledger, row)
        /\ balance' = balance + TopUp /\ UNCHANGED spent
    BY <1>5, PayTyped
  <2>2. row.after = balance + row.delta /\ row.after = balance + TopUp /\ Share(row) = 0
    BY DEF Share
  <2> HIDE DEF row
  <2>3. Replays(Append(ledger, row), row.after)
    BY <1>1, <1>3, <2>1, <2>2, ReplayAdded
  <2>4. TakenBy(Append(ledger, row)) = TakenBy(ledger)
    BY <1>3, <2>1, <2>2, TakenAdded
  <2> QED
    BY <1>1, <1>2, <2>1, <2>2, <2>3, <2>4
<1>6. ASSUME NEW s \in Slots, slots[s].pc = "debit", Post(slots[s])
      PROVE  BooksBalance'
  <2> DEFINE t == slots[s]
             call == Head(t.calls)
             a == Amounts(call, t.override)
             final == balance + a.delta + a.fee
  <2>1. t \in Slot /\ Proper(t) /\ t.pc = "debit" /\ t.user \in Users \cup {Nobody}
        /\ t.key \in Keys
    BY <1>6, SlotTyped DEF Typed, Proper
  <2>2. /\ call \in Call /\ t.override \in BOOLEAN /\ Charge(t) \in Nat
        /\ Charge(t) = -(a.delta + a.fee)
    BY <2>1, ChargeTyped
  <2>3. balance' = final /\ ledger' = ledger \o Rows(a, call, final)
    BY <1>6 DEF Post
  <2>4. spent' = [x \in Accounts |-> spent[x] + (IF x \in Counters(t) THEN Charge(t) ELSE 0)]
        /\ spent' \in [Accounts -> Nat]
    BY <1>6, PostTyped
  <2>5. a.delta \in Int /\ a.fee \in Int
    BY <2>2, AmountsTyped
  <2>6. Replays(ledger', balance') /\ TakenBy(ledger') = TakenBy(ledger) - (a.delta + a.fee)
    BY <1>1, <1>3, <2>2, <2>3, DebitReplays
  <2> HIDE DEF a, call, t, final
  <2>7. TakenBy(ledger') = spent[Org] + Charge(t)
    <3>1. TakenBy(ledger) = spent[Org] /\ spent[Org] \in Nat
      BY <1>1, <1>3
    <3>2. spent[Org] - (a.delta + a.fee) = spent[Org] + Charge(t)
      BY <2>2, <2>5, <3>1
    <3> QED
      BY <2>6, <3>1, <3>2
  <2>8. /\ spent'[Org] = spent[Org] + Charge(t)
        /\ SumFunctionOnSet(spent', Keys) = SumFunctionOnSet(spent, Keys) + Charge(t)
        /\ SumFunctionOnSet(spent, Users) \in Int
        /\ SumFunctionOnSet(spent', Users) \in Int
        /\ SumFunctionOnSet(spent', Users) <= SumFunctionOnSet(spent, Users) + Charge(t)
    <3>1. spent' = [x \in Accounts |->
                      spent[x] + (IF x \in {t.key, t.user, Org} \ {Nobody} THEN Charge(t) ELSE 0)]
      BY <2>4 DEF Counters
    <3> DEFINE key == t.key
               user == t.user
               charge == Charge(t)
    <3>2. charge \in Nat /\ key \in Keys /\ user \in Users \cup {Nobody}
      BY <2>1, <2>2
    <3>3. spent' = [x \in Accounts |->
                      spent[x] + (IF x \in {key, user, Org} \ {Nobody} THEN charge ELSE 0)]
      BY <3>1
    <3> HIDE DEF key, user, charge
    <3>4. PICK f \in [Accounts -> Nat] : f = spent
      BY <1>3
    <3>5. PICK g : g = spent'
      OBVIOUS
    <3>6. g = [x \in Accounts |-> f[x] + (IF x \in {key, user, Org} \ {Nobody} THEN charge ELSE 0)]
      BY <3>3, <3>4, <3>5
    <3>7. /\ g[Org] = f[Org] + charge
          /\ SumFunctionOnSet(g, Keys) = SumFunctionOnSet(f, Keys) + charge
          /\ SumFunctionOnSet(f, Users) \in Int
          /\ SumFunctionOnSet(g, Users) \in Int
          /\ SumFunctionOnSet(g, Users) <= SumFunctionOnSet(f, Users) + charge
      BY <3>2, <3>6, CountersMoved
    <3> QED
      BY <3>4, <3>5, <3>7 DEF charge
  <2>9. PICK n \in Int : n = SumFunctionOnSet(spent', Users)
    BY <2>8
  <2>10. n <= spent[Org] + Charge(t)
    <3>1. PICK m \in Int : m = SumFunctionOnSet(spent, Users)
      BY <2>8
    <3>2. n <= m + Charge(t) /\ m <= spent[Org] /\ spent[Org] \in Nat
      BY <1>1, <1>3, <2>8, <2>9, <3>1
    <3> QED
      BY <2>2, <3>2
  <2> QED
    BY <1>1, <1>2, <2>6, <2>7, <2>8, <2>9, <2>10
<1>7. ASSUME NEW s \in Slots,
             Arrive(s) \/ BalanceGate(s) \/ CapGate(s) \/ Serve(s) \/ Debit(s) \/ Signal(s)
      PROVE  UNCHANGED <<balance, ledger, spent>> \/ (slots[s].pc = "debit" /\ Post(slots[s]))
  BY <1>7, QuietSteps, DebitCases, SignalCases DEF Quiet, Books
<1>8. CASE UNCHANGED vars
  BY <1>4, <1>8 DEF vars
<1> QED
  BY <1>4, <1>5, <1>6, <1>7, <1>8 DEF Next

LEMMA InitBooks == Init => BooksBalance
<1> SUFFICES ASSUME Init PROVE BooksBalance
  OBVIOUS
<1>1. ledger = <<>> /\ balance = StartBalance /\ spent = [a \in Accounts |-> 0]
  BY DEF Init
<1>2. Replays(ledger, balance)
  BY <1>1 DEF Replays, Before
<1>3. TakenBy(ledger) = 0
  <2> DEFINE f == [i \in DOMAIN ledger |-> Share(ledger[i])]
  <2>1. DOMAIN f = {} /\ TakenBy(ledger) = SumFunction(f)
    BY <1>1 DEF TakenBy
  <2> HIDE DEF f
  <2>2. TakenBy(ledger) = SumFunctionOnSet(f, {})
    BY <2>1 DEF SumFunction, SumFunctionOnSet, FoldFunction
  <2> QED
    BY <2>2, SumEmpty
<1>4. ASSUME NEW S \in SUBSET Accounts, IsFiniteSet(S) PROVE SumFunctionOnSet(spent, S) = 0
  <2> DEFINE T == {n \in Nat : \A s \in SUBSET S :
                      Cardinality(s) = n => SumFunctionOnSet(spent, s) = 0}
  <2>1. \A s \in SUBSET S : IsFiniteSet(s) /\ Cardinality(s) \in Nat
    BY <1>4, FS_Subset, FS_CardinalityType
  <2>2. 0 \in T
    BY <2>1, FS_EmptySet, SumEmpty
  <2>3. ASSUME NEW n \in Nat, n \in T PROVE n + 1 \in T
    <3> SUFFICES ASSUME NEW s \in SUBSET S, Cardinality(s) = n + 1
                 PROVE  SumFunctionOnSet(spent, s) = 0
      OBVIOUS
    <3>1. s # {}
      BY FS_EmptySet
    <3>2. OneOf(s) \in s /\ s \ {OneOf(s)} \in SUBSET S /\ Cardinality(s \ {OneOf(s)}) = n
      BY <2>1, <3>1, Smaller
    <3>3. SumFunctionOnSet(spent, s \ {OneOf(s)}) = 0
      BY <2>3, <3>2
    <3>4. spent[OneOf(s)] = 0
      BY <1>1, <3>2
    <3>5. SumFunctionOnSet(spent, s) = spent[OneOf(s)] + SumFunctionOnSet(spent, s \ {OneOf(s)})
      BY <2>1, <3>1, SumChosen
    <3> QED
      BY <3>3, <3>4, <3>5
  <2>4. Cardinality(S) \in T
    <3> HIDE DEF T
    <3> QED
      BY <2>1, <2>2, <2>3, Induction
  <2> QED
    BY <2>4
<1>5. /\ SumFunctionOnSet(spent, Keys) = 0 /\ SumFunctionOnSet(spent, Users) = 0
      /\ spent[Org] = 0
  BY <1>1, <1>4, AccountAssumption DEF AccountAssumption, Accounts
<1>6. 0 <= 0
  OBVIOUS
<1> QED
  BY <1>2, <1>3, <1>5, <1>6, BooksRead

\* The books balance: the ledger replays to the balance whatever debits and
\* top-ups interleave, and the spend counters of the organisation, of its keys
\* and of its engineers agree with each other and with what the ledger took
\* (DebitOrgCredits moves them in one statement).
THEOREM BooksAlwaysBalance == Spec => []BooksBalance
<1>1. Typed /\ BooksBalance /\ [Next]_vars => BooksBalance'
  BY BooksKept
<1> QED
  BY <1>1, InitTyped, NextTyped, InitBooks, PTL DEF Spec

==============================================================================
