---------------------------- MODULE DispatchProofs ----------------------------
(***************************************************************************)
(* What Dispatch keeps for every catalog, every set of keys, clients and   *)
(* exclusions, and every number of retries.                                *)
(***************************************************************************)
EXTENDS Dispatch, SequenceTheorems, WellFoundedInduction, TLAPS

-----------------------------------------------------------------------------
(* Induction, and what a list keeps of another.                            *)

\* A set of naturals that holds zero and, of each, the next, holds them all.
LEMMA Induction ==
  ASSUME NEW T, 0 \in T, \A n \in Nat : n \in T => n + 1 \in T
  PROVE  Nat \subseteq T
<1> DEFINE Below == {p \in Nat \X Nat : p[1] < p[2]}
<1>1. IsWellFoundedOn(Below, Nat)
  BY NatLessThanWellFounded DEF OpToRel
<1> HIDE DEF Below
<1>2. SUFFICES ASSUME Nat \ T # {} PROVE FALSE
  OBVIOUS
<1>3. PICK n \in Nat \ T : \A m \in Nat \ T : ~(<<m, n>> \in Below)
  BY <1>1, <1>2, WFMin
<1>4. n # 0 /\ n - 1 \in Nat
  BY <1>3
<1>5. <<n - 1, n>> \in Below
  BY <1>4 DEF Below
<1>6. n - 1 \in T
  BY <1>3, <1>4, <1>5
<1> QED
  BY <1>3, <1>4, <1>6

IsPart(part, list, set, S) ==
  /\ part \in Seq(S)
  /\ \A k \in DOMAIN part : part[k] \in set /\ \E j \in DOMAIN list : part[k] = list[j]

\* What Within returns: elements of the list, all of them in the set.
LEMMA WithinIsPart ==
  ASSUME NEW S, NEW list \in Seq(S), NEW set
  PROVE  IsPart(Within(list, set), list, set, S)
<1> DEFINE Body(f, n) == IF n = 0 THEN <<>>
                         ELSE IF list[n] \in set THEN Append(f[n - 1], list[n]) ELSE f[n - 1]
           Upto(m) == \E f : f = [n \in 0..m |-> Body(f, n)]
           N == Len(list)
           Good(s) == /\ s \in Seq(S)
                      /\ \A k \in DOMAIN s : s[k] \in set /\ \E j \in 1..N : s[k] = list[j]
           T == {m \in Nat : Upto(m)}
<1>1. N \in Nat /\ DOMAIN list = 1..N
  BY LenProperties
<1>2. Upto(0)
  <2> DEFINE f == [n \in 0..0 |-> <<>>]
  <2>1. f = [n \in 0..0 |-> Body(f, n)]
    OBVIOUS
  <2> QED
    BY <2>1
<1>3. ASSUME NEW m \in Nat, Upto(m) PROVE Upto(m + 1)
  <2>1. PICK f : f = [n \in 0..m |-> Body(f, n)]
    BY <1>3
  <2> DEFINE g == [n \in 0..(m + 1) |-> IF n = m + 1 THEN Body(f, n) ELSE f[n]]
  <2>2. \A n \in 0..(m + 1) : g[n] = Body(g, n)
    <3> SUFFICES ASSUME NEW n \in 0..(m + 1) PROVE g[n] = Body(g, n)
      OBVIOUS
    <3>1. g[n] = Body(f, n)
      <4>1. n # m + 1 => n \in 0..m /\ g[n] = f[n]
        OBVIOUS
      <4>2. n = m + 1 => g[n] = Body(f, n)
        OBVIOUS
      <4> HIDE DEF g
      <4> QED
        BY <2>1, <4>1, <4>2
    <3>2. n # 0 => g[n - 1] = f[n - 1]
      OBVIOUS
    <3> HIDE DEF g
    <3> QED
      BY <3>1, <3>2
  <2>3. g = [n \in 0..(m + 1) |-> Body(g, n)]
    BY <2>2
  <2> HIDE DEF g
  <2> QED
    BY <2>3
<1>4. Upto(N)
  <2> HIDE DEF Upto
  <2>0. 0 \in T /\ \A n \in Nat : n \in T => n + 1 \in T
    BY <1>2, <1>3
  <2> HIDE DEF T
  <2>1. Nat \subseteq T
    BY <2>0, Induction
  <2> QED
    BY <2>1, <1>1 DEF T
<1> DEFINE kept == CHOOSE f : f = [n \in 0..N |-> Body(f, n)]
<1>5. kept = [n \in 0..N |-> Body(kept, n)]
  BY <1>4
<1>6. Within(list, set) = kept[N]
  BY DEF Within
<1> HIDE DEF kept
<1> DEFINE U == {m \in Nat : m <= N => Good(kept[m])}
<1>7. 0 \in U
  BY <1>1, <1>5
<1>8. ASSUME NEW m \in Nat, m \in U PROVE m + 1 \in U
  <2> SUFFICES ASSUME m + 1 <= N PROVE Good(kept[m + 1])
    OBVIOUS
  <2>1. Good(kept[m])
    BY <1>1, <1>8
  <2>2. kept[m + 1] = IF list[m + 1] \in set THEN Append(kept[m], list[m + 1]) ELSE kept[m]
    <3>1. m + 1 \in 0..N /\ m + 1 # 0 /\ (m + 1) - 1 = m
      BY <1>1
    <3>2. kept[m + 1] = Body(kept, m + 1)
      <4> HIDE DEF Body
      <4> QED BY <1>5, <3>1
    <3> QED
      BY <3>1, <3>2
  <2>3. m + 1 \in 1..N /\ list[m + 1] \in S
    BY <1>1, ElementOfSeq
  <2>4. CASE list[m + 1] \in set
    BY <2>1, <2>2, <2>3, <2>4, AppendProperties
  <2>5. CASE list[m + 1] \notin set
    BY <2>1, <2>2, <2>5
  <2> QED
    BY <2>4, <2>5
<1>9. N \in U
  <2> HIDE DEF U
  <2>1. Nat \subseteq U
    BY <1>7, <1>8, Induction
  <2> QED
    BY <2>1, <1>1
<1>10. Good(kept[N])
  BY <1>1, <1>9
<1> QED
  BY <1>1, <1>6, <1>10 DEF IsPart

\* The places of a list with one element more.
LEMMA AppendPlaces ==
  ASSUME NEW S, NEW list \in Seq(S), NEW e \in S
  PROVE  \A k \in DOMAIN Append(list, e) :
           \/ k \in DOMAIN list /\ Append(list, e)[k] = list[k]
           \/ k = Len(list) + 1 /\ Append(list, e)[k] = e
<1>1. Append(list, e) \in Seq(S) /\ Len(Append(list, e)) = Len(list) + 1
  BY AppendProperties
<1>2. DOMAIN Append(list, e) = 1..(Len(list) + 1) /\ DOMAIN list = 1..Len(list) /\ Len(list) \in Nat
  BY <1>1, LenProperties
<1> QED
  BY <1>1, <1>2, AppendProperties

-----------------------------------------------------------------------------
(* Types and the place in the walk.                                        *)

Attempting == {"call", "upstream", "streaming", "failed", "backoff"}

Positioned ==
  /\ stage = "resolve" => phase = "primary" /\ walk = <<>> /\ i = 1 /\ calls = <<>>
  /\ stage = "bind" /\ walk = <<>> => i = 1
  /\ stage = "bind" /\ walk # <<>> => i <= Len(walk)
  /\ stage \in Attempting => i <= Len(walk)
  /\ phase # "primary" => req.surface = "messages" /\ walk # <<>>
  /\ walk = <<>> => calls = <<>>
  /\ stage = "backoff" => retries < MaxSameBindingRetries

Typed == TypeOK /\ Reachable(req) /\ Positioned

Sinks == [held : Seq(Chunk), sealed : BOOLEAN, committed : BOOLEAN,
          body : Seq(Chunk), wire : Seq(Chunk), label : Providers]

LEMMA BindingsAre ==
  ASSUME NEW r \in Requests, NEW failover \in BOOLEAN
  PROVE  /\ Bindings(r, failover) \in Seq(Providers)
         /\ \A k \in DOMAIN Bindings(r, failover) :
              LET p == Bindings(r, failover)[k]
              IN  /\ p = r.primary \/ \E j \in DOMAIN r.catalog : p = r.catalog[j]
                  /\ p = r.primary \/ p \in r.keyed
                  /\ failover => p \notin r.excluded
<1> DEFINE open == Open(r)
           barred == r.primary \in r.excluded
           others == Within(open, Providers \ {r.primary})
           ours(p) == /\ p = r.primary \/ \E j \in DOMAIN r.catalog : p = r.catalog[j]
                      /\ p = r.primary \/ p \in r.keyed
                      /\ failover => p \notin r.excluded
           good(w) == w \in Seq(Providers) /\ \A k \in DOMAIN w : ours(w[k])
<1>1. r.catalog \in Seq(Providers) /\ r.primary \in Providers
  BY DispatchAssumption DEF DispatchAssumption, Requests
<1>2. good(open)
  <2>1. IsPart(open, r.catalog, r.keyed \ r.excluded, Providers)
    BY <1>1, WithinIsPart DEF Open
  <2> HIDE DEF open
  <2> QED
    BY <2>1 DEF IsPart
<1>3. others \in Seq(Providers) /\ \A k \in DOMAIN others : \E j \in DOMAIN open : others[k] = open[j]
  <2>1. open \in Seq(Providers)
    BY <1>2
  <2>2. IsPart(others, open, Providers \ {r.primary}, Providers)
    BY <2>1, WithinIsPart
  <2> HIDE DEF open, others
  <2> QED
    BY <2>2 DEF IsPart
<1>4. good(others)
  <2> SUFFICES ASSUME NEW k \in DOMAIN others
               PROVE  ours(others[k])
    BY <1>3
  <2>1. PICK j \in DOMAIN open : others[k] = open[j]
    BY <1>3
  <2>2. ours(open[j])
    BY <1>2
  <2> HIDE DEF ours, open, others
  <2> QED
    BY <2>1, <2>2
<1>5. ~failover \/ ~barred => good(<<r.primary>>)
  BY <1>1
<1> DEFINE both == <<r.primary>> \o others
<1>6. ~barred => good(both)
  <2> SUFFICES ASSUME ~barred PROVE good(both)
    OBVIOUS
  <2>1. good(<<r.primary>>)
    BY <1>5
  <2> DEFINE one == <<r.primary>>
  <2>2. one \in Seq(Providers) /\ Len(one) = 1 /\ DOMAIN one = 1..1
    BY <1>1
  <2> HIDE DEF one, others, ours
  <2>3. /\ one \o others \in Seq(Providers)
        /\ Len(one \o others) = 1 + Len(others)
        /\ \A k \in 1..(1 + Len(others)) :
             (one \o others)[k] = IF k <= 1 THEN one[k] ELSE others[k - 1]
    BY <2>2, <1>4, ConcatProperties
  <2>4. DOMAIN (one \o others) = 1..(1 + Len(others)) /\ DOMAIN others = 1..Len(others) /\ Len(others) \in Nat
    BY <2>3, <1>4, LenProperties
  <2>5. \A k \in 1..(1 + Len(others)) : ours((one \o others)[k])
    BY <2>1, <2>2, <2>3, <2>4, <1>4 DEF one
  <2> QED
    BY <2>3, <2>4, <2>5 DEF one
<1>7. \/ ~failover /\ Bindings(r, failover) = <<r.primary>>
      \/ Bindings(r, failover) = <<>>
      \/ ~barred /\ Bindings(r, failover) = <<r.primary>>
      \/ Bindings(r, failover) = open
      \/ ~barred /\ Bindings(r, failover) = both
  BY DEF Bindings
<1>8. good(<<>>)
  OBVIOUS
<1>8a. good(open)
  BY <1>2
<1> HIDE DEF open, both, barred, good
<1>9. good(Bindings(r, failover))
  BY <1>8a, <1>5, <1>6, <1>7, <1>8
<1> QED
  BY <1>9 DEF good

\* What the buffer and the writer behind it do keeps a sink a sink.
LEMMA DeliverTyped ==
  ASSUME NEW s \in Sinks, NEW cs \in Seq(Chunk), cs # <<>>
  PROVE  Deliver(s, cs) \in Sinks
<1>1. <<Created>> \in Seq(Chunk)
  BY DEF Created, Chunk, Kinds
<1>2. Greeted(s.wire) \in Seq(Chunk)
  BY <1>1 DEF Greeted, Sinks
<1>3. Events(cs) \in Seq(Chunk)
  <2>1. Len(cs) \in Nat /\ \A k \in 1..(Len(cs) - 1) : cs[k] \in Chunk
    BY LenProperties
  <2>2. SubSeq(cs, 1, Len(cs) - 1) \in Seq(Chunk)
    BY <2>1, SubSeqProperties
  <2> QED
    BY <2>2 DEF Events
<1>4. s.wire \o cs \in Seq(Chunk) /\ s.body \o cs \in Seq(Chunk) /\ Greeted(s.wire) \o Events(cs) \in Seq(Chunk)
  BY <1>2, <1>3, ConcatProperties DEF Sinks
<1> QED
  BY <1>4 DEF Deliver, Sinks

LEMMA WriteTyped ==
  ASSUME NEW s \in Sinks, NEW c \in Chunk
  PROVE  Write(s, c) \in Sinks
<1>1. <<c>> \in Seq(Chunk) /\ <<c>> # <<>>
  OBVIOUS
<1>2. Append(s.held, c) \in Seq(Chunk) /\ Append(s.held, c) # <<>>
  BY AppendProperties DEF Sinks
<1>3. [s EXCEPT !.committed = TRUE, !.held = <<>>] \in Sinks
  BY EmptySeq DEF Sinks
<1>4. [s EXCEPT !.held = Append(@, c)] \in Sinks
  BY <1>2 DEF Sinks
<1> QED
  BY <1>1, <1>2, <1>3, <1>4, DeliverTyped DEF Write

LEMMA SinksTyped ==
  ASSUME TypeOK, NEW s \in Sinks
  PROVE  /\ Discard(s) \in Sinks /\ Seal(s) \in Sinks /\ Prelude(s) \in Sinks
         /\ \A e : Flush(s, e) \in Sinks
         /\ \A w : Greet(s, w) \in Sinks
         /\ Closing(s) \in Sinks
         /\ i <= Len(walk) => Labelled(s) \in Sinks
<1>1. Len(calls) \in Nat /\ req.primary \in Providers
  BY DispatchAssumption, LenProperties DEF TypeOK, Requests
<1>2. Discard(s) \in Sinks /\ Seal(s) \in Sinks
  <2>1. [s EXCEPT !.held = <<>>, !.sealed = FALSE, !.label = req.primary] \in Sinks
    BY <1>1, EmptySeq DEF Sinks
  <2>2. [s EXCEPT !.sealed = TRUE] \in Sinks
    BY DEF Sinks
  <2> QED
    BY <2>1, <2>2 DEF Discard, Seal
<1>3. Prelude(s) \in Sinks
  <2>1. [kind |-> "start", call |-> Len(calls) + 1] \in Chunk
    BY <1>1 DEF Chunk, Kinds
  <2> QED
    BY <2>1, WriteTyped DEF Prelude
<1>4. \A e : Flush(s, e) \in Sinks
  <2>1. [kind |-> "envelope", call |-> Len(calls)] \in Chunk
    BY <1>1 DEF Chunk, Kinds
  <2>2. Append(s.wire, [kind |-> "envelope", call |-> Len(calls)]) \in Seq(Chunk)
    BY <2>1, AppendProperties DEF Sinks
  <2> QED
    BY <2>2 DEF Flush, Sinks
<1>5. \A w : Greet(s, w) \in Sinks
  <2>1. <<Created>> \in Seq(Chunk)
    BY DEF Created, Chunk, Kinds
  <2> QED
    BY <2>1 DEF Greet, Sinks
<1>6. Closing(s) \in Sinks
  <2>1. OwnReply("errorFrame") \in Seq(Chunk) /\ OwnReply("badGateway") \in Seq(Chunk)
    BY DEF OwnReply, Chunk, Kinds
  <2>2. s.wire \o OwnReply("errorFrame") \in Seq(Chunk)
    BY <2>1, ConcatProperties DEF Sinks
  <2> QED
    BY <2>1, <2>2 DEF Closing, Sinks
<1>7. i <= Len(walk) => Labelled(s) \in Sinks
  <2>1. i <= Len(walk) => walk[i] \in Providers
    BY ElementOfSeq, LenProperties DEF TypeOK
  <2> QED
    BY <2>1 DEF Labelled, Sinks
<1> QED
  BY <1>2, <1>3, <1>4, <1>5, <1>6, <1>7

LEMMA WalkTyped ==
  ASSUME Typed
  PROVE  /\ Len(walk) \in Nat /\ Len(calls) \in Nat
         /\ \A k \in 1..Len(walk) : walk[k] \in Providers
         /\ (stage = "bind" /\ walk # <<>>) \/ stage \in Attempting => i \in 1..Len(walk) /\ walk[i] \in Providers
         /\ req \in Requests /\ req.primary \in Providers /\ req.failover \in BOOLEAN /\ req.deployKey \in BOOLEAN
         /\ sink \in Sinks
<1>1. Len(walk) \in Nat /\ Len(calls) \in Nat /\ \A k \in 1..Len(walk) : walk[k] \in Providers
  BY ElementOfSeq, LenProperties DEF Typed, TypeOK
<1> QED
  BY <1>1 DEF Typed, TypeOK, Positioned, Requests, Sinks

LEMMA SaysTyped ==
  ASSUME Typed, NEW k \in Kinds
  PROVE  FromUpstream(k) \in Chunk
  BY WalkTyped DEF FromUpstream, Chunk

\* Everything but the request and the sink.
Fields ==
  /\ phase \in Phases /\ stage \in Stages
  /\ walk \in Seq(Providers) /\ i \in Nat \ {0}
  /\ retries \in 0..MaxSameBindingRetries
  /\ auto \in BOOLEAN /\ expired \in BOOLEAN
  /\ err \in Errors \cup {"none"}
  /\ winner \in Providers \cup {NoProvider}
  /\ calls \in Seq(Call)

LEMMA FieldsTyped == TypeOK <=> req \in Requests /\ Fields /\ sink \in Sinks
  BY DEF TypeOK, Fields, Sinks

LEMMA RequestStays == [Next]_vars => req' = req
<1> SUFFICES ASSUME [Next]_vars PROVE req' = req
  OBVIOUS
<1>1. CASE Refuse
  BY <1>1 DEF Refuse
<1>2. CASE Resolve
  BY <1>2 DEF Resolve
<1>3. CASE NoBinding
  BY <1>3 DEF NoBinding
<1>4. CASE Bind
  BY <1>4 DEF Bind
<1>5. CASE BindMissing
  BY <1>5 DEF BindMissing
<1>6. CASE CallUpstream
  BY <1>6 DEF CallUpstream
<1>7. CASE UpstreamFails
  BY <1>7 DEF UpstreamFails
<1>8. CASE RetryWithAuto
  BY <1>8 DEF RetryWithAuto
<1>9. CASE UpstreamEmpty
  BY <1>9 DEF UpstreamEmpty
<1>10. CASE UpstreamOutput
  BY <1>10 DEF UpstreamOutput
<1>11. CASE UpstreamCompletes
  BY <1>11 DEF UpstreamCompletes
<1>12. CASE UpstreamBreaks
  BY <1>12 DEF UpstreamBreaks
<1>13. CASE UpstreamCut
  BY <1>13 DEF UpstreamCut
<1>14. CASE FailCommitted
  BY <1>14 DEF FailCommitted
<1>15. CASE RetrySameBinding
  BY <1>15 DEF RetrySameBinding
<1>16. CASE BackoffElapses
  BY <1>16 DEF BackoffElapses
<1>17. CASE BackoffAborts
  BY <1>17 DEF BackoffAborts
<1>18. CASE FailOver
  BY <1>18 DEF FailOver
<1>19. CASE Exhausted
  BY <1>19 DEF Exhausted
<1>20. CASE BaselineFailover
  BY <1>20 DEF BaselineFailover, Rescue
<1>21. CASE SubscriptionFailover
  BY <1>21 DEF SubscriptionFailover, Rescue
<1>22. CASE SurfaceDeferred
  BY <1>22 DEF SurfaceDeferred
<1>23. CASE NothingDeferred
  BY <1>23 DEF NothingDeferred
<1>24. CASE Reply
  BY <1>24 DEF Reply
<1>25. CASE UNCHANGED vars
  BY <1>25 DEF vars
<1> QED
  BY <1>1, <1>2, <1>3, <1>4, <1>5, <1>6, <1>7, <1>8, <1>9, <1>10, <1>11, <1>12, <1>13, <1>14, <1>15, <1>16, <1>17, <1>18, <1>19, <1>20, <1>21, <1>22, <1>23, <1>24, <1>25 DEF Next, Step, Answered

LEMMA FieldsStep == Typed /\ [Next]_vars => Fields' /\ Positioned'
<1> SUFFICES ASSUME Typed, [Next]_vars PROVE Fields' /\ Positioned'
  OBVIOUS
<1> USE WalkTyped DEF Stages, Phases
<1>0. Fields /\ Positioned /\ MaxSameBindingRetries \in Nat
  BY DispatchAssumption, FieldsTyped DEF Typed
<1>1. CASE Refuse
  BY <1>0, <1>1 DEF Refuse, Fields, Positioned, Attempting, Errors, Retryable
<1>2. CASE Resolve
  BY <1>0, <1>2, BindingsAre DEF Resolve, Fields, Positioned, Attempting
<1>3. CASE NoBinding
  BY <1>0, <1>3 DEF NoBinding, Fields, Positioned, Attempting, Errors, Buffered
<1>4. CASE Bind
  BY <1>0, <1>4 DEF Bind, Fields, Positioned, Attempting
<1>5. CASE BindMissing
  BY <1>0, <1>5 DEF BindMissing, Fields, Positioned, Attempting, Errors, Retryable
<1>6. CASE CallUpstream
  <2>1. [phase |-> phase, provider |-> walk[i]] \in Call
    BY <1>0, <1>6 DEF CallUpstream, Fields, Attempting, Call
  <2>2. calls' \in Seq(Call)
    BY <1>0, <1>6, <2>1, AppendProperties DEF CallUpstream, Fields
  <2>3. walk # <<>>
    BY <1>6 DEF CallUpstream, Attempting
  <2> QED
    BY <1>0, <1>6, <2>2, <2>3 DEF CallUpstream, Fields, Positioned, Attempting
<1>7. CASE UpstreamFails
  <2>1. err' \in Errors \cup {"none"} /\ expired' \in BOOLEAN
    BY <1>7 DEF UpstreamFails, Silent, Buffered, Retryable, Errors
  <2> QED
    BY <1>0, <1>7, <2>1 DEF UpstreamFails, Fields, Positioned, Attempting
<1>8. CASE RetryWithAuto
  <2>1. [phase |-> phase, provider |-> walk[i]] \in Call
    BY <1>0, <1>8 DEF RetryWithAuto, Fields, Attempting, Call
  <2>2. calls' \in Seq(Call)
    BY <1>0, <1>8, <2>1, AppendProperties DEF RetryWithAuto, Fields
  <2> QED
    BY <1>0, <1>8, <2>2 DEF RetryWithAuto, Fields, Positioned, Attempting
<1>9. CASE UpstreamEmpty
  BY <1>0, <1>9 DEF UpstreamEmpty, Fields, Positioned, Attempting, Served, Failed, Errors, Retryable
<1>10. CASE UpstreamOutput
  BY <1>0, <1>10 DEF UpstreamOutput, Fields, Positioned, Attempting
<1>11. CASE UpstreamCompletes
  BY <1>0, <1>11 DEF UpstreamCompletes, Fields, Positioned, Attempting, Served
<1>12. CASE UpstreamBreaks
  BY <1>0, <1>12 DEF UpstreamBreaks, Fields, Positioned, Attempting, Failed, Errors, Retryable
<1>13. CASE UpstreamCut
  BY <1>0, <1>13 DEF UpstreamCut, Fields, Positioned, Attempting, Served, Failed, Errors, Retryable
<1>14. CASE FailCommitted
  BY <1>0, <1>14 DEF FailCommitted, Fields, Positioned, Attempting
<1>15. CASE RetrySameBinding
  BY <1>0, <1>15 DEF RetriesSameBinding, RetrySameBinding, Fields, Positioned, Attempting
<1>16. CASE BackoffElapses
  BY <1>0, <1>16 DEF BackoffElapses, Fields, Positioned, Attempting
<1>17. CASE BackoffAborts
  BY <1>0, <1>17 DEF BackoffAborts, Fields, Positioned, Attempting
<1>18. CASE FailOver
  BY <1>0, <1>18 DEF FailOver, Fields, Positioned, Attempting, MovesOn
<1>19. CASE Exhausted
  BY <1>0, <1>19 DEF Exhausted, Fields, Positioned, Attempting
<1>20. CASE BaselineFailover
  BY <1>0, <1>20, DispatchAssumption DEF DispatchAssumption, BaselineFailover, Fields, Positioned, Attempting, Rescue, BaselineRescues, BaselineEligible, BaselineViable
<1>21. CASE SubscriptionFailover
  BY <1>0, <1>21, BindingsAre DEF SubscriptionFailover, Fields, Positioned, Attempting, Rescue, SubscriptionRescues, SubscriptionEligible
<1>22. CASE SurfaceDeferred
  BY <1>0, <1>22 DEF SurfaceDeferred, Fields, Positioned, Attempting
<1>23. CASE NothingDeferred
  BY <1>0, <1>23 DEF NothingDeferred, Fields, Positioned, Attempting
<1>24. CASE Reply
  BY <1>0, <1>24 DEF Reply, Fields, Positioned, Attempting
<1>25. CASE UNCHANGED vars
  BY <1>0, <1>25 DEF vars, Fields, Positioned
<1> QED
  BY <1>1, <1>2, <1>3, <1>4, <1>5, <1>6, <1>7, <1>8, <1>9, <1>10, <1>11, <1>12, <1>13, <1>14, <1>15, <1>16, <1>17, <1>18, <1>19, <1>20, <1>21, <1>22, <1>23, <1>24, <1>25 DEF Next, Step, Answered

LEMMA SinkStep == Typed /\ [Next]_vars => sink' \in Sinks
<1> SUFFICES ASSUME Typed, [Next]_vars PROVE sink' \in Sinks
  OBVIOUS
<1> USE WalkTyped
<1>0. /\ TypeOK
      /\ \A k \in Kinds : FromUpstream(k) \in Chunk
      /\ Complaint \in Chunk
  BY SaysTyped DEF Typed, Complaint, Kinds
<1>1. CASE Refuse
  BY <1>0, <1>1, SinksTyped DEF Refuse
<1>2. CASE Resolve
  BY <1>0, <1>2, SinksTyped DEF Resolve
<1>3. CASE NoBinding
  BY <1>0, <1>3, SinksTyped DEF NoBinding
<1>4. CASE Bind
  BY <1>0, <1>4, SinksTyped DEF Bind, FreshFor
<1>5. CASE BindMissing
  BY <1>0, <1>5, SinksTyped DEF BindMissing, FreshFor
<1>6. CASE CallUpstream
  BY <1>0, <1>6, SinksTyped DEF CallUpstream, Attempting
<1>7. CASE UpstreamFails
  BY <1>0, <1>7, SinksTyped, WriteTyped DEF UpstreamFails, Kinds
<1>8. CASE RetryWithAuto
  BY <1>0, <1>8, SinksTyped DEF RetryWithAuto
<1>9. CASE UpstreamEmpty
  BY <1>0, <1>9, SinksTyped, WriteTyped DEF UpstreamEmpty, Kinds
<1>10. CASE UpstreamOutput
  BY <1>0, <1>10, SinksTyped, WriteTyped DEF UpstreamOutput, Kinds
<1>11. CASE UpstreamCompletes
  BY <1>0, <1>11, SinksTyped, WriteTyped DEF UpstreamCompletes, Kinds
<1>12. CASE UpstreamBreaks
  BY <1>0, <1>12, SinksTyped, WriteTyped DEF UpstreamBreaks, Kinds
<1>13. CASE UpstreamCut
  BY <1>0, <1>13, SinksTyped, WriteTyped DEF UpstreamCut, Kinds
<1>14. CASE FailCommitted
  BY <1>0, <1>14, SinksTyped DEF FailCommitted
<1>15. CASE RetrySameBinding
  BY <1>0, <1>15, SinksTyped DEF RetrySameBinding
<1>16. CASE BackoffElapses
  BY <1>0, <1>16, SinksTyped DEF BackoffElapses
<1>17. CASE BackoffAborts
  BY <1>0, <1>17, SinksTyped DEF BackoffAborts
<1>18. CASE FailOver
  BY <1>0, <1>18, SinksTyped DEF FailOver
<1>19. CASE Exhausted
  BY <1>0, <1>19, SinksTyped DEF Exhausted
<1>20. CASE BaselineFailover
  BY <1>0, <1>20, SinksTyped DEF BaselineFailover, Rescue
<1>21. CASE SubscriptionFailover
  BY <1>0, <1>21, SinksTyped DEF SubscriptionFailover, Rescue
<1>22. CASE SurfaceDeferred
  BY <1>0, <1>22, SinksTyped DEF SurfaceDeferred
<1>23. CASE NothingDeferred
  BY <1>0, <1>23, SinksTyped DEF NothingDeferred
<1>24. CASE Reply
  <2>1. Closing(sink) \in Sinks
    BY <1>0, SinksTyped
  <2>2. OwnReply("generic") \in Seq(Chunk)
    BY DEF OwnReply, Chunk, Kinds
  <2>3. [Closing(sink) EXCEPT !.wire = OwnReply("generic")] \in Sinks
    BY <2>1, <2>2 DEF Sinks
  <2>4. sink' = Closing(sink) \/ sink' = [Closing(sink) EXCEPT !.wire = OwnReply("generic")]
    BY <1>24 DEF Reply
  <2> QED
    BY <2>1, <2>3, <2>4
<1>25. CASE UNCHANGED vars
  BY <1>25 DEF vars
<1> QED
  BY <1>1, <1>2, <1>3, <1>4, <1>5, <1>6, <1>7, <1>8, <1>9, <1>10, <1>11, <1>12, <1>13, <1>14, <1>15, <1>16, <1>17, <1>18, <1>19, <1>20, <1>21, <1>22, <1>23, <1>24, <1>25 DEF Next, Step, Answered

LEMMA TypedStep == Typed /\ [Next]_vars => Typed'
<1> SUFFICES ASSUME Typed, [Next]_vars PROVE Typed'
  OBVIOUS
<1>1. Fields' /\ Positioned'
  BY FieldsStep
<1>2. sink' \in Sinks
  BY SinkStep
<1>3. req' = req
  BY RequestStays
<1>4. req \in Requests
  BY WalkTyped
<1>5. Reachable(req')
  BY <1>3 DEF Typed
<1>6. TypeOK'
  BY <1>1, <1>2, <1>3, <1>4 DEF TypeOK, Fields, Sinks
<1> QED
  BY <1>1, <1>5, <1>6 DEF Typed

LEMMA TypedInit == Init => Typed
<1> SUFFICES ASSUME Init PROVE Typed
  OBVIOUS
<1>1. req \in Requests /\ Reachable(req)
  BY WorkloadAssumption DEF Init
<1>2. req.primary \in Providers
  BY <1>1 DEF Requests
<1>3. TypeOK
  <2>1. sink \in Sinks
    BY <1>2, EmptySeq DEF Init, Sinks
  <2>2. Fields
    <3>1. <<>> \in Seq(Providers) /\ <<>> \in Seq(Call)
      BY EmptySeq
    <3>2. 0 \in 0..MaxSameBindingRetries
      BY DispatchAssumption DEF DispatchAssumption
    <3>3. walk \in Seq(Providers) /\ calls \in Seq(Call)
      BY <3>1 DEF Init
    <3>4. retries \in 0..MaxSameBindingRetries
      BY <3>2 DEF Init
    <3>5. phase \in Phases /\ stage \in Stages /\ i \in Nat \ {0}
      BY DEF Init, Phases, Stages
    <3>6. auto \in BOOLEAN /\ expired \in BOOLEAN
      BY DEF Init
    <3>7. err \in Errors \cup {"none"} /\ winner \in Providers \cup {NoProvider}
      BY DEF Init
    <3> QED
      BY <3>3, <3>4, <3>5, <3>6, <3>7 DEF Fields
  <2> QED
    BY <1>1, <2>1, <2>2, FieldsTyped
<1>4. Positioned
  BY DEF Init, Positioned, Attempting
<1> QED
  BY <1>1, <1>3, <1>4 DEF Typed

\* Every variable of the dispatch has its type.
THEOREM TypedAlways == Spec => []Typed
  BY TypedInit, TypedStep, PTL DEF Spec


-----------------------------------------------------------------------------
(* What may be called.                                                     *)

\* The walk is laid out when the decision is resolved and by the two rescues.
LEMMA WalkStays ==
  [Next]_vars => \/ Resolve \/ BaselineFailover \/ SubscriptionFailover
                 \/ UNCHANGED <<walk, phase>>
  BY DEF Next, Step, Answered, vars, Refuse, NoBinding, Bind, BindMissing, CallUpstream,
         UpstreamFails, RetryWithAuto, UpstreamEmpty, UpstreamOutput, UpstreamCompletes,
         UpstreamBreaks, UpstreamCut, FailCommitted, RetrySameBinding, BackoffElapses,
         BackoffAborts, FailOver, Exhausted, SurfaceDeferred, NothingDeferred, Reply

\* An upstream is called by an attempt, or once more within it.
LEMMA CallsStay ==
  [Next]_vars => CallUpstream \/ RetryWithAuto \/ UNCHANGED calls
  BY DEF Next, Step, Answered, vars, Refuse, Resolve, NoBinding, Bind, BindMissing,
         UpstreamFails, UpstreamEmpty, UpstreamOutput, UpstreamCompletes,
         UpstreamBreaks, UpstreamCut, FailCommitted, RetrySameBinding, BackoffElapses,
         BackoffAborts, FailOver, Exhausted, BaselineFailover, SubscriptionFailover, Rescue,
         SurfaceDeferred, NothingDeferred, Reply

WalkAllowed ==
  /\ \A k \in DOMAIN walk : CallAllowed([phase |-> phase, provider |-> walk[k]])
  /\ phase = "primary" => \A k \in DOMAIN walk : FamilyFor(walk[k]) = FamilyFor(req.primary)

Allowed == Typed /\ WalkAllowed /\ CallsAreAllowed

LEMMA AllowedStep == Allowed /\ [Next]_vars => Allowed'
<1> SUFFICES ASSUME Allowed, [Next]_vars PROVE WalkAllowed' /\ CallsAreAllowed'
  BY TypedStep DEF Allowed
<1>0. req' = req /\ Typed /\ WalkAllowed /\ CallsAreAllowed
  BY RequestStays DEF Allowed
<1>1. WalkAllowed'
  <2>1. CASE Resolve
    <3>1. /\ \A k \in DOMAIN walk' : \/ walk'[k] = req.primary
                                    \/ \E j \in DOMAIN req.catalog : walk'[k] = req.catalog[j]
          /\ \A k \in DOMAIN walk' : walk'[k] = req.primary \/ walk'[k] \in req.keyed
          /\ req.failover => \A k \in DOMAIN walk' : walk'[k] \notin req.excluded
      BY <1>0, <2>1, WalkTyped, BindingsAre DEF Resolve
    <3>2. \A k \in DOMAIN walk' : FamilyFor(walk'[k]) = FamilyFor(req.primary)
      BY <1>0, <3>1 DEF Typed, Reachable
    <3>3. phase' = "primary"
      BY <1>0, <2>1 DEF Resolve, Typed, Positioned
    <3> QED
      BY <1>0, <3>1, <3>2, <3>3 DEF WalkAllowed, CallAllowed, DeploymentServes
  <2>2. CASE BaselineFailover
    <3>1. phase' = "baseline" /\ walk' = <<Anthropic>> /\ ~req.forced /\ Anthropic \notin req.excluded
      BY <2>2 DEF BaselineFailover, BaselineRescues, BaselineEligible, BaselineViable, Rescue
    <3> QED
      BY <1>0, <3>1 DEF WalkAllowed, CallAllowed
  <2>3. CASE SubscriptionFailover
    <3>1. phase' = "subscription" /\ walk' = Bindings(req, req.deployKey)
      BY <2>3 DEF SubscriptionFailover, Rescue
    <3>2. req \in Requests /\ req.deployKey \in BOOLEAN
      BY <1>0 DEF Typed, TypeOK, Requests
    <3>3. \A k \in DOMAIN walk' : /\ walk'[k] = req.primary \/ walk'[k] \in req.keyed
                                  /\ req.deployKey => walk'[k] \notin req.excluded
      BY <3>1, <3>2, BindingsAre
    <3> QED
      BY <1>0, <3>1, <3>3 DEF WalkAllowed, CallAllowed, DeploymentServes
  <2>4. CASE UNCHANGED <<walk, phase>>
    BY <1>0, <2>4 DEF WalkAllowed, CallAllowed, DeploymentServes
  <2> QED
    BY <2>1, <2>2, <2>3, <2>4, WalkStays
<1>2. CallsAreAllowed'
  <2>1. CASE CallUpstream \/ RetryWithAuto
    <3> DEFINE call == [phase |-> phase, provider |-> walk[i]]
    <3>1. calls' = Append(calls, call) /\ stage \in Attempting
      BY <2>1 DEF CallUpstream, RetryWithAuto, Attempting
    <3>2. i \in DOMAIN walk /\ calls \in Seq(Call) /\ walk \in Seq(Providers)
      BY <1>0, <3>1, WalkTyped DEF Typed, TypeOK
    <3>3. CallAllowed(call)
      BY <1>0, <3>2 DEF WalkAllowed
    <3>4. call \in Call
      BY <1>0, <3>1, WalkTyped DEF Call, Typed, TypeOK
    <3> HIDE DEF call
    <3>5. \A n \in DOMAIN calls' : calls'[n] = call \/ (n \in DOMAIN calls /\ calls'[n] = calls[n])
      BY <3>1, <3>2, <3>4, AppendPlaces
    <3> QED
      BY <1>0, <3>3, <3>5 DEF CallsAreAllowed, CallAllowed, DeploymentServes
  <2>2. CASE UNCHANGED calls
    BY <1>0, <2>2 DEF CallsAreAllowed, CallAllowed, DeploymentServes
  <2> QED
    BY <2>1, <2>2, CallsStay
<1> QED
  BY <1>1, <1>2

LEMMA AllowedInit == Init => Allowed
<1> SUFFICES ASSUME Init PROVE Allowed
  OBVIOUS
<1>1. Typed /\ walk = <<>> /\ calls = <<>> /\ phase = "primary"
  BY TypedInit DEF Init
<1> QED
  BY <1>1 DEF Allowed, WalkAllowed, CallsAreAllowed

\* Where the deployment chooses the bindings an excluded provider is never
\* called, by failover or by rescue; a walk leaves the decision's own provider
\* only for one the deployment has a key of; and a forced model is served by its
\* own bindings or not at all.
THEOREM CallsAreAlwaysAllowed == Spec => []CallsAreAllowed
<1>1. Allowed => CallsAreAllowed
  BY DEF Allowed
<1> QED
  BY <1>1, AllowedInit, AllowedStep, PTL DEF Spec

-----------------------------------------------------------------------------
(* What the sink holds at each stage of the walk.                          *)

Start(n) == [kind |-> "start", call |-> n]

\* Nothing of any upstream's has been written past the writer.
Untouched(w) == \/ w = <<>>
                \/ Rewritten /\ req.stream /\ w = <<Created>>

\* The attempt n may hold its prelude back, no more.
Holding(s, n) ==
  /\ ~s.committed /\ s.body = <<>> /\ Untouched(s.wire)
  /\ \/ s.held = <<>>
     \/ req.stream /\ ~Rewritten /\ s.held = <<Start(n)>>

Clean(s) ==
  ~s.committed /\ ~s.sealed /\ s.held = <<>> /\ s.body = <<>> /\ Untouched(s.wire)

\* What may still be written after.
Unfinished(w) == w # <<>> => w[1].kind \notin R!Whole

\* The attempt n has spoken, to the client or to the writer that keeps its body.
Spoken(s, n) ==
  /\ s.committed /\ s.held = <<>>
  /\ R!Coherent(s.wire, n) /\ R!Coherent(s.body, n)
  /\ ~Rewritten => s.wire # <<>> /\ s.body = <<>>
  /\ Rewritten /\ req.stream => s.wire # <<>> /\ s.wire[1] = Created /\ s.body = <<>>
  /\ Rewritten /\ ~req.stream => s.wire = <<>>

\* The error body of the attempt n has been shown.
Shown(s, n) ==
  /\ ~s.committed /\ ~Rewritten /\ s.held = <<>> /\ s.body = <<>>
  /\ s.wire = <<[kind |-> "envelope", call |-> n]>>

SinkInv ==
  LET n == Len(calls)
  IN  /\ stage \in {"resolve", "call", "backoff"} => Clean(sink)
      /\ stage = "bind" => IF i = 1 THEN Clean(sink) ELSE Holding(sink, n)
      /\ stage = "upstream" => Holding(sink, n) /\ sink.sealed
      /\ stage = "streaming" => Spoken(sink, n) /\ Unfinished(sink.wire) /\ Unfinished(sink.body)
      /\ stage = "failed" => Holding(sink, n) \/ Spoken(sink, n)
      /\ stage = "after" => Clean(sink) \/ Spoken(sink, n) \/ (~Deferred /\ Shown(sink, n))
      /\ stage = "reply" => Holding(sink, n) \/ Spoken(sink, n) \/ Shown(sink, n)

\* An error after the client has bytes is never one whose body was kept.
Outcome ==
  /\ stage \in {"failed", "backoff", "after"} => err # "none"
  /\ stage \in {"failed", "after"} /\ sink.committed => err \notin Buffered

LEMMA CoherentOne ==
  ASSUME NEW n \in Nat, NEW c \in Chunk, c.call = 0 \/ c.call = n
  PROVE  R!Coherent(<<c>>, n)
  BY DEF R!Coherent, R!Own

\* Output may follow what is not a whole reply.
LEMMA CoherentNext ==
  ASSUME NEW n \in Nat, NEW w \in Seq(Chunk), R!Coherent(w, n), Unfinished(w),
         NEW c \in Chunk, c.call = 0 \/ c.call = n, c.kind \notin R!Whole \cup {"start"}
  PROVE  /\ w \o <<c>> \in Seq(Chunk) /\ w \o <<c>> # <<>>
         /\ (w \o <<c>>)[Len(w \o <<c>>)] = c
         /\ w # <<>> => (w \o <<c>>)[1] = w[1]
         /\ R!Coherent(w \o <<c>>, n) /\ Unfinished(w \o <<c>>)
<1> DEFINE u == Append(w, c)
<1>1. u = w \o <<c>>
  BY AppendIsConcat
<1>2. /\ u \in Seq(Chunk) /\ u # <<>> /\ Len(u) = Len(w) + 1 /\ Len(w) \in Nat
      /\ \A k \in 1..Len(w) : u[k] = w[k]
      /\ u[Len(w) + 1] = c
  BY AppendProperties, LenProperties
<1>3. DOMAIN u = 1..(Len(w) + 1) /\ DOMAIN w = 1..Len(w)
  BY <1>2, LenProperties
<1>4. w # <<>> => Len(w) >= 1
  BY EmptySeq, <1>2
<1> HIDE DEF u
<1>5. w = <<>> => Len(w) = 0
  BY EmptySeq
<1>6. w # <<>> => u[1] = w[1]
  BY <1>2, <1>4
<1>7. w = <<>> => u[1] = c
  BY <1>2, <1>5
<1>8. Unfinished(u)
  BY <1>6, <1>7 DEF Unfinished
<1>9. \A k \in DOMAIN u : (k \in DOMAIN w /\ u[k] = w[k]) \/ u[k] = c
  BY <1>2, <1>3
<1>10. R!Coherent(u, n)
  <2>1. \A k \in DOMAIN u : R!Own(u[k]) \/ u[k].call = n
    BY <1>9 DEF R!Coherent, R!Own
  <2>2. \A k \in DOMAIN u : u[k].kind \in R!Whole \cup {"start"} => k = 1
    BY <1>9 DEF R!Coherent
  <2>3. Len(u) > 1 => u[1].kind \notin R!Whole
    BY <1>2, <1>8 DEF Unfinished
  <2> QED
    BY <2>1, <2>2, <2>3 DEF R!Coherent
<1> QED
  BY <1>1, <1>2, <1>6, <1>8, <1>10

\* What is written later is read later.
LEMMA Lengthens ==
  ASSUME NEW w \in Seq(Chunk), NEW more \in Seq(Chunk)
  PROVE  Len(w) <= Len(w \o more) /\ SubSeq(w \o more, 1, Len(w)) = w
<1>1. Len(w) \in Nat /\ Len(more) \in Nat /\ Len(w \o more) = Len(w) + Len(more)
  BY ConcatProperties, LenProperties
<1>2. CASE w = <<>>
  <2>1. Len(w) = 0
    BY <1>2, EmptySeq
  <2> QED
    BY <1>1, <1>2, <2>1, SubSeqEmpty
<1>3. CASE w # <<>>
  <2>1. Len(w) >= 1
    BY <1>1, <1>3, EmptySeq
  <2>2. SubSeq(w \o more, 1, Len(w)) = SubSeq(w, 1, Len(w))
    BY <1>1, <2>1, SubSeqOfConcat1
  <2> QED
    BY <1>1, <2>2, SubSeqFull
<1> QED
  BY <1>2, <1>3

\* The first words of an attempt: they may be its complaint, or a whole body.
First(c, n) == /\ c \in Chunk /\ c.call = n
               /\ c.kind \in {"output", "stop", "errorFrame"} \/ (c.kind = "badGateway" /\ ~req.stream)

Later(c, n) == c \in Chunk /\ c.call = n /\ c.kind \in {"output", "stop", "errorFrame"}

\* One step of writing: the wire grows, and ends only when the upstream does.
Grows(s, t, c) ==
  /\ \E more \in Seq(Chunk) : t.wire = s.wire \o more
  /\ Rewritten /\ Ends(t.wire) => Ends(s.wire) \/ c.kind = "stop"
  /\ ~Rewritten => t.wire # <<>> /\ t.wire[Len(t.wire)] = c
  /\ t.label = s.label

LEMMA Created0 == Created \in Chunk /\ Created.call = 0 /\ Created.kind = "start"
  BY DEF Created, Chunk, Kinds

LEMMA EventsOfOne ==
  ASSUME NEW c \in Chunk
  PROVE  Events(<<c>>) = IF c.kind = "errorFrame" THEN <<>> ELSE <<c>>
<1>1. Len(<<c>>) = 1 /\ <<c>>[1] = c
  OBVIOUS
<1> DEFINE one == <<c>>
<1>2. SubSeq(one, 1, 0) = <<>>
  BY SubSeqEmpty
<1>3. Len(one) = 1 /\ one[1] = c /\ Len(one) - 1 = 0
  BY <1>1
<1> HIDE DEF one
<1>4. Events(one) = IF c.kind = "errorFrame" THEN <<>> ELSE one
  BY <1>2, <1>3 DEF Events
<1> QED
  BY <1>4 DEF one

LEMMA FirstWrite ==
  ASSUME Typed, NEW s \in Sinks, NEW n \in Nat, Holding(s, n), s.sealed, NEW c, First(c, n)
  PROVE  /\ Spoken(Write(s, c), n) /\ Grows(s, Write(s, c), c)
         /\ Later(c, n) => Unfinished(Write(s, c).wire) /\ Unfinished(Write(s, c).body)
<1> DEFINE open == [s EXCEPT !.committed = TRUE, !.held = <<>>]
           t == Write(s, c)
<1>1. t = Deliver(open, Append(s.held, c))
  BY DEF Write, Holding
<1>2. open \in Sinks /\ c \in Chunk /\ s.body = <<>> /\ s.wire \in Seq(Chunk)
  BY EmptySeq DEF Sinks, First, Holding
<1>3. CASE ~Rewritten
  <2>1. s.wire = <<>> /\ open.wire = <<>> /\ open.body = <<>>
    BY <1>3 DEF Holding, Untouched
  <2>2. t = [open EXCEPT !.wire = <<>> \o Append(s.held, c)]
    BY <1>1, <1>3, <2>1 DEF Deliver
  <2>3. CASE s.held = <<>>
    <3>1. Append(s.held, c) = <<c>> /\ <<c>> \in Seq(Chunk)
      BY <1>2, <2>3
    <3>2. <<>> \o <<c>> = <<c>>
      BY <3>1, ConcatEmptySeq
    <3>3. t = [open EXCEPT !.wire = <<c>>]
      BY <2>2, <3>1, <3>2
    <3>4. t.wire = <<c>> /\ t.body = <<>> /\ t.committed /\ t.held = <<>> /\ t.label = s.label
      BY <1>2, <2>1, <3>3 DEF Sinks
    <3>5. R!Coherent(<<c>>, n) /\ R!Coherent(<<>>, n)
      BY CoherentOne, <1>2 DEF First, R!Coherent
    <3>6. t.wire = s.wire \o <<c>>
      BY <2>1, <3>2, <3>4
    <3>7. Spoken(t, n)
      BY <1>3, <3>4, <3>5 DEF Spoken
    <3>8. Grows(s, t, c)
      BY <1>3, <3>1, <3>4, <3>6 DEF Grows
    <3> QED
      BY <3>4, <3>7, <3>8 DEF Unfinished, R!Whole, Later
  <2>4. CASE s.held = <<Start(n)>> /\ req.stream
    <3>1. Start(n) \in Chunk /\ Start(n).call = n /\ Start(n).kind = "start"
      BY DEF Start, Chunk, Kinds
    <3>2. <<Start(n)>> \in Seq(Chunk) /\ Unfinished(<<Start(n)>>)
      BY <3>1 DEF Unfinished, R!Whole
    <3> DEFINE two == <<Start(n)>> \o <<c>>
    <3>3. Append(s.held, c) = two
      BY <1>2, <2>4, <3>2, AppendIsConcat
    <3>4. /\ two \in Seq(Chunk) /\ two # <<>> /\ two[Len(two)] = c
          /\ R!Coherent(two, n) /\ Unfinished(two)
      <4>1. c.kind \notin R!Whole \cup {"start"} /\ c.call = n
        BY <2>4 DEF First, R!Whole
      <4>2. R!Coherent(<<Start(n)>>, n)
        BY <3>1, CoherentOne
      <4> QED
        BY <1>2, <3>2, <4>1, <4>2, CoherentNext
    <3> HIDE DEF two
    <3>5. <<>> \o two = two
      BY <3>4, ConcatEmptySeq
    <3>6. t = [open EXCEPT !.wire = two]
      BY <2>2, <3>3, <3>5
    <3>7. t.wire = two /\ t.body = <<>> /\ t.committed /\ t.held = <<>> /\ t.label = s.label
      BY <1>2, <2>1, <3>6 DEF Sinks
    <3>8. R!Coherent(<<>>, n)
      BY DEF R!Coherent
    <3>9. Spoken(t, n)
      BY <1>3, <3>4, <3>7, <3>8 DEF Spoken
    <3>10. Grows(s, t, c)
      BY <1>3, <2>1, <3>4, <3>5, <3>7 DEF Grows
    <3> QED
      BY <3>4, <3>7, <3>9, <3>10 DEF Unfinished
  <2> QED
    BY <2>3, <2>4 DEF Holding
<1>4. CASE Rewritten
  <2>1. s.held = <<>> /\ Append(s.held, c) = <<c>> /\ <<c>> \in Seq(Chunk)
    <3>1. s.held = <<>>
      BY <1>4 DEF Holding
    <3> QED
      BY <1>2, <3>1
  <2>2. CASE req.stream
    <3>1. Greeted(s.wire) = <<Created>>
      BY DEF Holding, Untouched, Greeted
    <3>2. t = [open EXCEPT !.wire = <<Created>> \o Events(<<c>>)]
      BY <1>1, <1>4, <2>1, <2>2, <3>1 DEF Deliver
    <3>3. <<Created>> \in Seq(Chunk) /\ Unfinished(<<Created>>) /\ ~Ends(<<Created>>)
      BY Created0 DEF Unfinished, R!Whole, Ends
    <3>4. R!Coherent(<<Created>>, n) /\ R!Coherent(<<>>, n)
      BY CoherentOne, Created0 DEF R!Coherent
    <3> DEFINE wire == <<Created>> \o Events(<<c>>)
    <3>5. /\ wire \in Seq(Chunk) /\ wire # <<>> /\ wire[1] = Created
          /\ R!Coherent(wire, n) /\ Unfinished(wire) /\ (Ends(wire) => c.kind = "stop")
          /\ \E more \in Seq(Chunk) : wire = s.wire \o more
      <4>1. CASE c.kind = "errorFrame"
        <5>1. wire = <<Created>>
          BY <1>2, <3>3, <4>1, EventsOfOne, ConcatEmptySeq
        <5>2. s.wire = <<>> \/ s.wire = <<Created>>
          BY DEF Holding, Untouched
        <5>3. <<>> \o <<Created>> = <<Created>> /\ <<Created>> \o <<>> = <<Created>> /\ <<>> \in Seq(Chunk)
          BY <3>3, EmptySeq, ConcatEmptySeq
        <5>4. \E more \in Seq(Chunk) : <<Created>> = s.wire \o more
          BY <3>3, <5>2, <5>3
        <5>5. <<Created>> # <<>> /\ <<Created>>[1] = Created
          OBVIOUS
        <5> HIDE DEF wire
        <5> QED
          BY <3>3, <3>4, <5>1, <5>4, <5>5
      <4>2. CASE c.kind # "errorFrame"
        <5>1. wire = <<Created>> \o <<c>>
          BY <1>2, <4>2, EventsOfOne
        <5>2. /\ <<Created>> \o <<c>> \in Seq(Chunk) /\ <<Created>> \o <<c>> # <<>>
              /\ (<<Created>> \o <<c>>)[Len(<<Created>> \o <<c>>)] = c
              /\ (<<Created>> \o <<c>>)[1] = Created
              /\ R!Coherent(<<Created>> \o <<c>>, n) /\ Unfinished(<<Created>> \o <<c>>)
          BY <1>2, <2>2, <3>3, <3>4, Created0, CoherentNext DEF First, R!Whole
        <5>3. s.wire = <<>> \/ s.wire = <<Created>>
          BY DEF Holding, Untouched
        <5>4. <<>> \o (<<Created>> \o <<c>>) = <<Created>> \o <<c>>
          BY <5>2, ConcatEmptySeq
        <5>5. \E more \in Seq(Chunk) : <<Created>> \o <<c>> = s.wire \o more
          BY <2>1, <5>2, <5>3, <5>4
        <5> QED
          BY <5>1, <5>2, <5>5 DEF Ends
      <4> QED
        BY <4>1, <4>2
    <3> HIDE DEF wire
    <3>6. t.wire = wire /\ t.body = <<>> /\ t.committed /\ t.held = <<>> /\ t.label = s.label
      BY <1>2, <3>2 DEF Sinks, wire
    <3>7. Spoken(t, n)
      BY <1>4, <2>2, <3>4, <3>5, <3>6 DEF Spoken
    <3>8. Grows(s, t, c)
      BY <1>4, <3>5, <3>6 DEF Grows
    <3> QED
      BY <3>5, <3>6, <3>7, <3>8 DEF Unfinished
  <2>3. CASE ~req.stream
    <3>1. s.wire = <<>> /\ open.body = <<>> /\ open.wire = <<>>
      BY <1>4, <2>3 DEF Holding, Untouched
    <3>2. <<>> \o <<c>> = <<c>> /\ <<>> \o <<>> = <<>> /\ <<>> \in Seq(Chunk)
      BY <2>1, ConcatEmptySeq, EmptySeq
    <3>3. t = [open EXCEPT !.body = <<c>>]
      BY <1>1, <1>4, <2>1, <2>3, <3>1, <3>2 DEF Deliver
    <3>4. t.wire = <<>> /\ t.body = <<c>> /\ t.committed /\ t.held = <<>> /\ t.label = s.label
      BY <1>2, <3>1, <3>3 DEF Sinks
    <3>5. R!Coherent(<<c>>, n) /\ R!Coherent(<<>>, n)
      BY CoherentOne, <1>2 DEF First, R!Coherent
    <3>6. Spoken(t, n)
      BY <1>4, <2>3, <3>4, <3>5 DEF Spoken
    <3>7. Grows(s, t, c)
      BY <1>4, <3>1, <3>2, <3>4 DEF Grows, Ends
    <3> QED
      BY <3>4, <3>6, <3>7 DEF Unfinished, R!Whole, Later
  <2> QED
    BY <2>2, <2>3
<1> QED
  BY <1>3, <1>4

LEMMA NextWrite ==
  ASSUME NEW s \in Sinks, NEW n \in Nat, Spoken(s, n),
         Unfinished(s.wire), Unfinished(s.body), NEW c, Later(c, n)
  PROVE  /\ Spoken(Write(s, c), n) /\ Grows(s, Write(s, c), c)
         /\ Unfinished(Write(s, c).wire) /\ Unfinished(Write(s, c).body)
<1> DEFINE t == Write(s, c)
<1>1. t = Deliver(s, <<c>>)
  BY DEF Write, Spoken
<1>2. /\ c \in Chunk /\ c.call = n /\ c.kind \notin R!Whole \cup {"start"}
      /\ s.wire \in Seq(Chunk) /\ s.body \in Seq(Chunk) /\ <<c>> \in Seq(Chunk)
  BY DEF Later, R!Whole, Sinks
<1>3. CASE ~Rewritten
  <2> DEFINE wire == s.wire \o <<c>>
  <2>1. t = [s EXCEPT !.wire = wire]
    BY <1>1, <1>3 DEF Deliver
  <2>2. /\ wire \in Seq(Chunk) /\ wire # <<>> /\ wire[Len(wire)] = c
        /\ R!Coherent(wire, n) /\ Unfinished(wire)
    BY <1>2, CoherentNext DEF Spoken
  <2>3. t.wire = wire /\ t.body = s.body /\ t.held = s.held /\ t.committed = s.committed /\ t.label = s.label
    BY <2>1 DEF Sinks
  <2>4. Grows(s, t, c)
    BY <1>2, <1>3, <2>2, <2>3 DEF Grows
  <2> HIDE DEF wire
  <2> QED
    BY <1>3, <2>2, <2>3, <2>4 DEF Spoken
<1>4. CASE Rewritten /\ req.stream
  <2> DEFINE wire == s.wire \o Events(<<c>>)
  <2>1. s.wire # <<>> /\ s.wire[1] = Created /\ s.body = <<>>
    BY <1>4 DEF Spoken
  <2>2. t = [s EXCEPT !.wire = wire]
    BY <1>1, <1>4, <2>1 DEF Deliver, Greeted
  <2>3. Events(<<c>>) = IF c.kind = "errorFrame" THEN <<>> ELSE <<c>>
    BY <1>2, EventsOfOne
  <2>4. /\ wire \in Seq(Chunk) /\ wire # <<>> /\ wire[1] = Created
        /\ R!Coherent(wire, n) /\ Unfinished(wire)
        /\ Ends(wire) => Ends(s.wire) \/ c.kind = "stop"
        /\ \E more \in Seq(Chunk) : wire = s.wire \o more
    <3>1. CASE c.kind = "errorFrame"
      <4>1. wire = s.wire /\ s.wire = s.wire \o <<>> /\ <<>> \in Seq(Chunk)
        BY <1>2, <2>3, <3>1, ConcatEmptySeq, EmptySeq
      <4>2. \E more \in Seq(Chunk) : s.wire = s.wire \o more
        BY <4>1
      <4> HIDE DEF wire
      <4> QED
        BY <1>2, <2>1, <4>1, <4>2 DEF Spoken
    <3>2. CASE c.kind # "errorFrame"
      <4>1. wire = s.wire \o <<c>>
        BY <2>3, <3>2
      <4> HIDE DEF wire
      <4>2. /\ wire \in Seq(Chunk) /\ wire # <<>> /\ wire[Len(wire)] = c /\ wire[1] = s.wire[1]
            /\ R!Coherent(wire, n) /\ Unfinished(wire)
        BY <1>2, <2>1, <4>1, CoherentNext DEF Spoken
      <4> QED
        BY <1>2, <2>1, <4>1, <4>2 DEF Ends
    <3> QED
      BY <3>1, <3>2
  <2> HIDE DEF wire
  <2>5. t.wire = wire /\ t.body = s.body /\ t.held = s.held /\ t.committed = s.committed /\ t.label = s.label
    BY <2>2 DEF Sinks
  <2>6. Grows(s, t, c)
    BY <1>4, <2>4, <2>5 DEF Grows
  <2> QED
    BY <1>4, <2>1, <2>4, <2>5, <2>6 DEF Spoken
<1>5. CASE Rewritten /\ ~req.stream
  <2> DEFINE body == s.body \o <<c>>
  <2>1. t = [s EXCEPT !.body = body]
    BY <1>1, <1>5 DEF Deliver
  <2>2. /\ body \in Seq(Chunk) /\ R!Coherent(body, n) /\ Unfinished(body)
    BY <1>2, CoherentNext DEF Spoken
  <2> HIDE DEF body
  <2>3. t.wire = s.wire /\ t.body = body /\ t.held = s.held /\ t.committed = s.committed /\ t.label = s.label
    BY <2>1 DEF Sinks
  <2>4. s.wire = s.wire \o <<>> /\ <<>> \in Seq(Chunk)
    BY <1>2, ConcatEmptySeq, EmptySeq
  <2>5. Grows(s, t, c)
    BY <1>5, <2>3, <2>4 DEF Grows
  <2> QED
    BY <1>5, <2>2, <2>3, <2>5 DEF Spoken
<1> QED
  BY <1>3, <1>4, <1>5

\* A clean sink suits any attempt.
LEMMA CleanHolds == ASSUME NEW s, NEW n, Clean(s) PROVE Holding(s, n)
  BY DEF Clean, Holding

\* A discarded attempt leaves nothing.
LEMMA DiscardCleans ==
  ASSUME NEW s \in Sinks, NEW n, Holding(s, n)
  PROVE  Clean(Discard(s)) /\ Discard(s).wire = s.wire
<1>1. /\ Discard(s).held = <<>> /\ ~Discard(s).sealed /\ ~Discard(s).committed
      /\ Discard(s).body = s.body /\ Discard(s).wire = s.wire
  BY DEF Discard, Holding, Sinks
<1> QED
  BY <1>1 DEF Clean, Holding

\* The attempt holds its prelude back, sealed.
LEMMA PreludeHolds ==
  ASSUME Typed, NEW s \in Sinks, Clean(s)
  PROVE  LET t == Seal(Prelude(s))
         IN  Holding(t, Len(calls) + 1) /\ t.sealed /\ t.wire = s.wire /\ t.label = s.label
<1> DEFINE c == [kind |-> "start", call |-> Len(calls) + 1]
<1>0. req \in Requests /\ req.stream \in BOOLEAN /\ req.surface \in Surfaces
  BY WalkTyped DEF Requests
<1>1. CASE Prelude(s) = s
  <2>1. /\ Seal(s).sealed /\ Seal(s).held = s.held /\ Seal(s).wire = s.wire /\ Seal(s).label = s.label
        /\ Seal(s).body = s.body /\ Seal(s).committed = s.committed
    BY DEF Seal, Sinks
  <2> QED
    BY <1>1, <2>1 DEF Clean, Holding
<1>2. CASE Prelude(s) # s
  <2>1. /\ req.stream /\ (Translator \in {"openai", "gemini"} \/ req.surface = "chat")
        /\ Prelude(s) = Write(s, c)
    BY <1>2 DEF Prelude
  <2>2. ~Rewritten
    <3>1. req.surface = "responses" => Translator \in {"bytes", "chat"}
      BY <1>0 DEF Translator
    <3> QED
      BY <2>1, <3>1 DEF Rewritten
  <2>3. Write(s, c) = [s EXCEPT !.held = Append(@, c)]
    BY DEF Write, Clean
  <2>4. s.held = <<>>
    BY DEF Clean
  <2>5. Append(s.held, c) = <<c>>
    BY <2>4
  <2>6. Prelude(s) = [s EXCEPT !.held = <<c>>]
    BY <2>1, <2>3, <2>5
  <2> DEFINE t == Seal(Prelude(s))
  <2>7. /\ t.sealed /\ t.held = <<c>> /\ t.wire = s.wire /\ t.label = s.label
        /\ t.body = s.body /\ t.committed = s.committed
    BY <2>6 DEF Seal, Sinks
  <2>8. req.stream
    BY <2>1, <1>2 DEF Prelude
  <2> HIDE DEF t
  <2> QED
    BY <2>2, <2>7, <2>8 DEF Clean, Holding, Start, t
<1> QED
  BY <1>1, <1>2

LEMMA LabelledClean ==
  ASSUME NEW s \in Sinks, Clean(s)
  PROVE  Clean(Labelled(s)) /\ Labelled(s).wire = s.wire /\ Labelled(s).label = walk[i]
<1>1. /\ Labelled(s).held = s.held /\ Labelled(s).sealed = s.sealed /\ Labelled(s).committed = s.committed
      /\ Labelled(s).body = s.body /\ Labelled(s).wire = s.wire /\ Labelled(s).label = walk[i]
  BY DEF Labelled, Clean, Sinks
<1> QED
  BY <1>1 DEF Clean

\* What the flush of an explained error shows, past a clean sink.
LEMMA FlushShows ==
  ASSUME NEW s \in Sinks, Clean(s), NEW e
  PROVE  \/ e \in Buffered /\ ~Rewritten /\ Shown(Flush(s, e), Len(calls)) /\ s.wire = <<>>
         \/ (e \in Buffered => Rewritten) /\ Flush(s, e) = s
<1> DEFINE c == [kind |-> "envelope", call |-> Len(calls)]
<1>1. CASE e \in Buffered /\ ~Rewritten
  <2>1. s.wire = <<>>
    BY <1>1 DEF Clean, Untouched
  <2>2. Append(s.wire, c) = <<c>>
    BY <2>1
  <2>3. Flush(s, e) = [s EXCEPT !.wire = <<c>>]
    BY <1>1, <2>2 DEF Flush
  <2>4. /\ Flush(s, e).wire = <<c>> /\ Flush(s, e).held = s.held /\ Flush(s, e).body = s.body
        /\ Flush(s, e).committed = s.committed
    BY <2>3 DEF Sinks
  <2> QED
    BY <1>1, <2>1, <2>4 DEF Shown, Clean
<1>2. CASE ~(e \in Buffered /\ ~Rewritten)
  BY <1>2 DEF Flush
<1> QED
  BY <1>1, <1>2

LEMMA GreetCleans ==
  ASSUME NEW s \in Sinks, Clean(s), NEW w
  PROVE  Clean(Greet(s, w)) /\ \E more \in Seq(Chunk) : Greet(s, w).wire = s.wire \o more
<1>1. s.wire \in Seq(Chunk) /\ s.wire \o <<>> = s.wire /\ <<>> \in Seq(Chunk)
  BY EmptySeq, ConcatEmptySeq DEF Sinks
<1>2. CASE Greet(s, w) = s
  BY <1>1, <1>2
<1>3. CASE Greet(s, w) # s
  <2>1. Rewritten /\ req.stream /\ Greet(s, w) = [s EXCEPT !.wire = <<Created>>]
    BY <1>3 DEF Greet
  <2>2. /\ Greet(s, w).wire = <<Created>> /\ Greet(s, w).held = s.held /\ Greet(s, w).body = s.body
        /\ Greet(s, w).committed = s.committed /\ Greet(s, w).sealed = s.sealed
    BY <2>1 DEF Sinks
  <2>3. Clean(Greet(s, w))
    BY <2>1, <2>2 DEF Clean, Untouched
  <2>4. <<Created>> \in Seq(Chunk) /\ <<>> \o <<Created>> = <<Created>>
    BY Created0, ConcatEmptySeq
  <2>5. s.wire = <<>> \/ s.wire = <<Created>>
    BY DEF Clean, Untouched
  <2> QED
    BY <1>1, <2>2, <2>3, <2>4, <2>5
<1> QED
  BY <1>2, <1>3

\* SinkInv of the next state, whose request is the same.
SinkNext ==
  LET n == Len(calls')
  IN  /\ stage' \in {"resolve", "call", "backoff"} => Clean(sink')
      /\ stage' = "bind" => IF i' = 1 THEN Clean(sink') ELSE Holding(sink', n)
      /\ stage' = "upstream" => Holding(sink', n) /\ sink'.sealed
      /\ stage' = "streaming" => Spoken(sink', n) /\ Unfinished(sink'.wire) /\ Unfinished(sink'.body)
      /\ stage' = "failed" => Holding(sink', n) \/ Spoken(sink', n)
      /\ stage' = "after" => Clean(sink') \/ Spoken(sink', n) \/ (~Deferred' /\ Shown(sink', n))
      /\ stage' = "reply" => Holding(sink', n) \/ Spoken(sink', n) \/ Shown(sink', n)

LEMMA SinkCarried == req' = req /\ SinkNext => SinkInv'
  BY DEF SinkNext, SinkInv, Clean, Holding, Spoken, Shown, Unfinished, Untouched, Rewritten,
         Verbatim, Created, Start

LEMMA OutcomeStep == Typed /\ SinkInv /\ Outcome /\ [Next]_vars => Outcome'
<1> SUFFICES ASSUME Typed, SinkInv, Outcome, [Next]_vars PROVE Outcome'
  OBVIOUS
<1>0. "none" \notin Errors /\ Retryable \subseteq Errors /\ Silent \subseteq Errors /\ sink \in Sinks
  BY WalkTyped DEF Errors, Retryable, Silent, Buffered
<1>1. "unconfigured" \notin Buffered /\ "net" \notin Buffered /\ "incomplete" \notin Buffered
      /\ "gone" \notin Buffered /\ "broken" \notin Buffered /\ "status" \notin Buffered
  BY DEF Buffered
<1>2. stage = "bind" /\ walk = <<>> => ~sink.committed
  BY DEF SinkInv, Clean, Typed, Positioned
<1>3. stage \in {"upstream", "backoff"} => ~sink.committed
  BY DEF SinkInv, Clean, Holding
<1>4. CASE Refuse
  BY <1>0, <1>1, <1>3, <1>4 DEF Refuse, Outcome
<1>5. CASE Resolve
  BY <1>0, <1>1, <1>3, <1>5 DEF Resolve, Outcome
<1>6. CASE NoBinding
  <2>1. Flush(sink, err').committed = sink.committed
    BY <1>0 DEF Flush, Sinks
  <2> QED
    BY <1>0, <1>1, <1>2, <1>6, <2>1 DEF NoBinding, Outcome
<1>7. CASE Bind
  BY <1>0, <1>1, <1>3, <1>7 DEF Bind, Outcome
<1>8. CASE BindMissing
  BY <1>0, <1>1, <1>8 DEF BindMissing, Outcome
<1>9. CASE CallUpstream
  BY <1>0, <1>1, <1>3, <1>9 DEF CallUpstream, Outcome
<1>10. CASE UpstreamFails
  BY <1>0, <1>1, <1>3, <1>10 DEF UpstreamFails, Outcome
<1>11. CASE RetryWithAuto
  BY <1>0, <1>1, <1>3, <1>11 DEF RetryWithAuto, Outcome
<1>12. CASE UpstreamEmpty
  BY <1>0, <1>1, <1>3, <1>12 DEF UpstreamEmpty, Outcome, Served, Failed
<1>13. CASE UpstreamOutput
  BY <1>0, <1>1, <1>3, <1>13 DEF UpstreamOutput, Outcome
<1>14. CASE UpstreamCompletes
  BY <1>0, <1>1, <1>3, <1>14 DEF UpstreamCompletes, Outcome, Served
<1>15. CASE UpstreamBreaks
  BY <1>0, <1>1, <1>3, <1>15 DEF UpstreamBreaks, Outcome, Failed
<1>16. CASE UpstreamCut
  BY <1>0, <1>1, <1>3, <1>16 DEF UpstreamCut, Outcome, Served, Failed
<1>17. CASE FailCommitted
  BY <1>0, <1>1, <1>3, <1>17 DEF FailCommitted, Outcome
<1>18. CASE RetrySameBinding
  BY <1>0, <1>18 DEF RetrySameBinding, Outcome
<1>19. CASE BackoffElapses
  BY <1>0, <1>1, <1>3, <1>19 DEF BackoffElapses, Outcome
<1>20. CASE BackoffAborts
  BY <1>0, <1>1, <1>3, <1>20 DEF BackoffAborts, Outcome
<1>21. CASE FailOver
  BY <1>0, <1>1, <1>3, <1>21 DEF FailOver, Outcome
<1>22. CASE Exhausted
  <2>1. ~Discard(sink).committed /\ Flush(Discard(sink), err).committed = Discard(sink).committed
    BY <1>0, <1>22 DEF Exhausted, Flush, Discard, Sinks
  <2> QED
    BY <1>22, <2>1 DEF Exhausted, Outcome
<1>23. CASE BaselineFailover
  BY <1>0, <1>1, <1>3, <1>23 DEF BaselineFailover, Outcome, Rescue
<1>24. CASE SubscriptionFailover
  BY <1>0, <1>1, <1>3, <1>24 DEF SubscriptionFailover, Outcome, Rescue
<1>25. CASE SurfaceDeferred
  BY <1>0, <1>1, <1>3, <1>25 DEF SurfaceDeferred, Outcome
<1>26. CASE NothingDeferred
  BY <1>0, <1>1, <1>3, <1>26 DEF NothingDeferred, Outcome
<1>27. CASE Reply
  BY <1>0, <1>1, <1>3, <1>27 DEF Reply, Outcome
<1>28. CASE UNCHANGED vars
  BY <1>28 DEF vars, Outcome
<1> QED
  BY <1>4, <1>5, <1>6, <1>7, <1>8, <1>9, <1>10, <1>11, <1>12, <1>13, <1>14, <1>15, <1>16, <1>17, <1>18, <1>19, <1>20, <1>21, <1>22, <1>23, <1>24, <1>25, <1>26, <1>27, <1>28 DEF Next, Step, Answered

\* What a step does to what the client reads: nothing, a call before anything
\* was read, or more of one reply.
WireNext ==
  \/ stage' # "done" /\ calls' = calls /\ sink'.wire = sink.wire
  \/ stage' # "done" /\ Len(calls') = Len(calls) + 1 /\ sink'.wire = sink.wire /\ Untouched(sink.wire)
  \/ /\ calls' = calls /\ R!Coherent(sink'.wire, Len(calls))
     /\ \E more \in Seq(Chunk) : sink'.wire = sink.wire \o more

LEMMA UntouchedCoherent ==
  ASSUME NEW w, Untouched(w), NEW n \in Nat
  PROVE  R!Coherent(w, n)
<1>1. w = <<>> \/ w = <<Created>>
  BY DEF Untouched
<1>2. R!Coherent(<<>>, n)
  BY DEF R!Coherent
<1> QED
  BY <1>1, <1>2, CoherentOne, Created0

LEMMA ShownIsReply ==
  ASSUME NEW t, NEW n \in Nat, Shown(t, n)
  PROVE  R!Coherent(t.wire, n) /\ \E more \in Seq(Chunk) : t.wire = <<>> \o more
<1> DEFINE c == [kind |-> "envelope", call |-> n]
<1>1. c \in Chunk /\ c.call = n
  BY DEF Chunk, Kinds
<1> HIDE DEF c
<1>2. <<c>> \in Seq(Chunk) /\ <<c>> = <<>> \o <<c>>
  BY <1>1, ConcatEmptySeq
<1>3. t.wire = <<c>>
  BY DEF Shown, c
<1> QED
  BY <1>1, <1>2, <1>3, CoherentOne

LEMMA SinkKept ==
  Typed /\ SinkInv /\ Outcome /\ [Next]_vars =>
    SinkNext /\ (stage \notin {"reply", "done"} => WireNext)
<1> SUFFICES ASSUME Typed, SinkInv, Outcome, [Next]_vars
             PROVE  SinkNext /\ (stage \notin {"reply", "done"} => WireNext)
  OBVIOUS
<1> DEFINE n == Len(calls)
<1>0. /\ n \in Nat /\ sink \in Sinks /\ i \in Nat \ {0} /\ TypeOK /\ Positioned
      /\ sink.wire \in Seq(Chunk)
      /\ Complaint \in Chunk /\ \A k \in Kinds : FromUpstream(k) \in Chunk
  BY WalkTyped, SaysTyped DEF Typed, TypeOK, Sinks, Complaint, Kinds
<1>s. /\ stage = "resolve" \/ stage = "call" \/ stage = "backoff" => Clean(sink)
      /\ stage = "bind" /\ i = 1 => Clean(sink)
      /\ stage = "bind" => Holding(sink, n)
      /\ stage = "upstream" => Holding(sink, n) /\ sink.sealed
      /\ stage = "streaming" => Spoken(sink, n) /\ Unfinished(sink.wire) /\ Unfinished(sink.body)
      /\ stage = "failed" => Holding(sink, n) \/ Spoken(sink, n)
      /\ stage = "after" => Clean(sink) \/ Spoken(sink, n) \/ (~Deferred /\ Shown(sink, n))
  BY CleanHolds DEF SinkInv
<1>c. /\ Clean(sink) \/ Holding(sink, n) => ~sink.committed
      /\ Spoken(sink, n) => sink.committed
  BY DEF Clean, Holding, Spoken
<1>w. /\ Clean(sink) \/ Holding(sink, n) => Untouched(sink.wire)
      /\ sink.wire = sink.wire \o <<>> /\ <<>> \in Seq(Chunk)
  BY <1>0, EmptySeq, ConcatEmptySeq DEF Clean, Holding
<1>f. stage = "bind" => /\ Clean(FreshFor(i)) /\ FreshFor(i).wire = sink.wire
  BY <1>0, <1>s, DiscardCleans DEF FreshFor
<1>g. \A k \in {"output", "stop", "errorFrame"} : Later(FromUpstream(k), n) /\ First(FromUpstream(k), n)
  BY <1>0 DEF Later, First, FromUpstream, Kinds
<1>h. First(Complaint, n)
  <2>1. req.stream \in BOOLEAN
    BY WalkTyped DEF Requests
  <2> QED
    BY <1>0, <2>1 DEF First, Complaint, FromUpstream
<1> HIDE DEF n
<1>1. CASE Refuse
  <2>1. stage = "resolve" /\ stage' = "reply" /\ UNCHANGED <<calls, sink>>
    BY <1>1 DEF Refuse
  <2> QED
    BY <1>s, <2>1, CleanHolds DEF SinkNext, WireNext, n
<1>2. CASE Resolve
  <2>1. stage = "resolve" /\ stage' = "bind" /\ i' = 1 /\ UNCHANGED calls /\ sink' = Greet(sink, walk')
    BY <1>0, <1>2 DEF Resolve, Positioned
  <2>2. Clean(sink') /\ \E more \in Seq(Chunk) : sink'.wire = sink.wire \o more
    BY <1>0, <1>s, <2>1, GreetCleans
  <2>3. R!Coherent(sink'.wire, n)
    BY <1>0, <2>2, UntouchedCoherent DEF Clean
  <2> QED
    BY <2>1, <2>2, <2>3 DEF SinkNext, WireNext, n
<1>3. CASE NoBinding
  <2>1. /\ stage = "bind" /\ stage' = "after" /\ UNCHANGED <<calls, req, phase>> /\ Clean(sink)
        /\ sink' = IF Deferred THEN sink ELSE Flush(sink, err')
    BY <1>0, <1>3, <1>s DEF NoBinding, Positioned
  <2>2. Deferred' = Deferred
    BY <2>1 DEF Deferred, BaselineViable, SubscriptionEligible
  <2>3. CASE sink' = sink
    BY <2>1, <2>3 DEF SinkNext, WireNext
  <2>4. CASE sink' # sink
    <3>1. ~Deferred /\ Shown(sink', n) /\ sink.wire = <<>>
      BY <1>0, <2>1, <2>4, FlushShows DEF n
    <3>2. R!Coherent(sink'.wire, n) /\ \E more \in Seq(Chunk) : sink'.wire = sink.wire \o more
      BY <1>0, <3>1, ShownIsReply
    <3> QED
      BY <2>1, <2>2, <3>1, <3>2 DEF SinkNext, WireNext, n
  <2> QED
    BY <2>3, <2>4
<1>4. CASE Bind
  <2>1. stage = "bind" /\ stage' = "call" /\ UNCHANGED calls /\ sink' = FreshFor(i)
    BY <1>4 DEF Bind
  <2> QED
    BY <1>f, <2>1 DEF SinkNext, WireNext
<1>5. CASE BindMissing
  <2>1. /\ stage = "bind" /\ UNCHANGED calls /\ sink' = FreshFor(i)
        /\ (stage' = "bind" /\ i' # 1) \/ stage' = "after"
    BY <1>0, <1>5 DEF BindMissing
  <2> QED
    BY <1>f, <2>1, CleanHolds DEF SinkNext, WireNext
<1>6. CASE CallUpstream
  <2>1. stage = "call" /\ stage' = "upstream" /\ sink' = Seal(Prelude(Labelled(sink)))
    BY <1>6 DEF CallUpstream
  <2>2. Labelled(sink) \in Sinks /\ Clean(Labelled(sink)) /\ Labelled(sink).wire = sink.wire
    BY <1>0, <1>s, <2>1, LabelledClean, SinksTyped DEF Positioned, Attempting
  <2>3. Len(calls') = n + 1
    <3>1. [phase |-> phase, provider |-> walk[i]] \in Call
      BY <1>0, <2>1, WalkTyped DEF Attempting, Call, TypeOK
    <3> QED
      BY <1>0, <1>6, <3>1, AppendProperties DEF CallUpstream, TypeOK, n
  <2>4. Holding(sink', n + 1) /\ sink'.sealed /\ sink'.wire = sink.wire
    BY <2>1, <2>2, PreludeHolds DEF n
  <2> QED
    BY <1>s, <1>w, <2>1, <2>3, <2>4 DEF SinkNext, WireNext, n
<1>7. CASE UpstreamFails
  <2>1. stage = "upstream" /\ stage' = "failed" /\ UNCHANGED <<calls, sink>>
    BY <1>7 DEF UpstreamFails
  <2> QED
    BY <1>s, <2>1 DEF SinkNext, WireNext, n
<1>8. CASE RetryWithAuto
  <2>1. stage = "upstream" /\ stage' = "upstream" /\ sink' = Seal(Prelude(Discard(sink)))
    BY <1>8 DEF RetryWithAuto
  <2>2. Discard(sink) \in Sinks /\ Clean(Discard(sink)) /\ Discard(sink).wire = sink.wire
    BY <1>0, <1>s, <2>1, DiscardCleans, SinksTyped
  <2>3. Len(calls') = n + 1
    <3>1. [phase |-> phase, provider |-> walk[i]] \in Call
      BY <1>0, <2>1, WalkTyped DEF Attempting, Call, TypeOK
    <3> QED
      BY <1>0, <1>8, <3>1, AppendProperties DEF RetryWithAuto, TypeOK, n
  <2>4. Holding(sink', n + 1) /\ sink'.sealed /\ sink'.wire = sink.wire
    BY <2>1, <2>2, PreludeHolds DEF n
  <2> QED
    BY <1>s, <1>w, <2>1, <2>3, <2>4 DEF SinkNext, WireNext, n
<1>9. CASE UpstreamEmpty
  <2>1. /\ stage = "upstream" /\ UNCHANGED calls
        /\ \/ stage' = "reply" /\ UNCHANGED sink
           \/ stage' = "failed" /\ (UNCHANGED sink \/ sink' = Write(sink, Complaint))
    BY <1>9 DEF UpstreamEmpty, Served, Failed
  <2>2. CASE sink' = sink
    BY <1>s, <2>1, <2>2 DEF SinkNext, WireNext, n
  <2>3. CASE sink' = Write(sink, Complaint) /\ stage' = "failed"
    <3>1. Spoken(sink', n) /\ Grows(sink, sink', Complaint)
      BY <1>0, <1>h, <1>s, <2>1, <2>3, FirstWrite
    <3> QED
      BY <2>1, <2>3, <3>1 DEF SinkNext, WireNext, Grows, Spoken, n
  <2> QED
    BY <2>1, <2>2, <2>3
<1>10. CASE UpstreamOutput
  <2>1. stage = "upstream" /\ stage' = "streaming" /\ UNCHANGED calls /\ sink' = Write(sink, FromUpstream("output"))
    BY <1>10 DEF UpstreamOutput
  <2>2. /\ Spoken(sink', n) /\ Grows(sink, sink', FromUpstream("output"))
        /\ Unfinished(sink'.wire) /\ Unfinished(sink'.body)
    BY <1>0, <1>g, <1>s, <2>1, FirstWrite
  <2> QED
    BY <2>1, <2>2 DEF SinkNext, WireNext, Grows, Spoken, n
<1>11. CASE UpstreamCompletes
  <2>1. stage' = "reply" /\ UNCHANGED calls
    BY <1>11 DEF UpstreamCompletes, Served
  <2>2. CASE stage = "streaming" /\ sink' = Write(sink, FromUpstream("stop"))
    <3>1. Spoken(sink', n) /\ Grows(sink, sink', FromUpstream("stop"))
      BY <1>0, <1>g, <1>s, <2>2, NextWrite
    <3> QED
      BY <2>1, <3>1 DEF SinkNext, WireNext, Grows, Spoken, n
  <2>3. CASE stage = "upstream" /\ sink' = Write(Write(sink, FromUpstream("output")), FromUpstream("stop"))
    <3> DEFINE one == Write(sink, FromUpstream("output"))
    <3>1. /\ Spoken(one, n) /\ Grows(sink, one, FromUpstream("output"))
          /\ Unfinished(one.wire) /\ Unfinished(one.body)
      BY <1>0, <1>g, <1>s, <2>3, FirstWrite
    <3>2. one \in Sinks
      BY <1>0, WriteTyped DEF Kinds
    <3> HIDE DEF one
    <3>3. Spoken(sink', n) /\ Grows(one, sink', FromUpstream("stop"))
      BY <1>0, <1>g, <2>3, <3>1, <3>2, NextWrite DEF one
    <3>4. \E more \in Seq(Chunk) : sink'.wire = sink.wire \o more
      <4>1. PICK m1 \in Seq(Chunk) : one.wire = sink.wire \o m1
        BY <3>1 DEF Grows
      <4>2. PICK m2 \in Seq(Chunk) : sink'.wire = one.wire \o m2
        BY <3>3 DEF Grows
      <4>3. (sink.wire \o m1) \o m2 = sink.wire \o (m1 \o m2)
        <5> DEFINE w == sink.wire
        <5>1. w \in Seq(Chunk)
          BY <1>0
        <5> HIDE DEF w
        <5>2. (w \o m1) \o m2 = w \o (m1 \o m2)
          BY <5>1, <4>1, <4>2, ConcatAssociative
        <5> QED
          BY <5>2 DEF w
      <4>4. m1 \o m2 \in Seq(Chunk)
        BY ConcatProperties
      <4> QED
        BY <4>1, <4>2, <4>3, <4>4
    <3> QED
      BY <2>1, <3>3, <3>4 DEF SinkNext, WireNext, Spoken, n
  <2> QED
    BY <1>11, <2>2, <2>3 DEF UpstreamCompletes
<1>12. CASE UpstreamBreaks
  <2>1. /\ stage = "streaming" /\ stage' = "failed" /\ UNCHANGED calls
        /\ sink' = sink \/ sink' = Write(sink, FromUpstream("errorFrame"))
    BY <1>12 DEF UpstreamBreaks, Failed
  <2>2. CASE sink' = sink
    BY <1>s, <2>1, <2>2 DEF SinkNext, WireNext, n
  <2>3. CASE sink' = Write(sink, FromUpstream("errorFrame"))
    <3>1. Spoken(sink', n) /\ Grows(sink, sink', FromUpstream("errorFrame"))
      BY <1>0, <1>g, <1>s, <2>1, <2>3, NextWrite
    <3> QED
      BY <2>1, <3>1 DEF SinkNext, WireNext, Grows, Spoken, n
  <2> QED
    BY <2>1, <2>2, <2>3
<1>13. CASE UpstreamCut
  <2>1. /\ stage = "streaming" /\ stage' \in {"failed", "reply"} /\ UNCHANGED calls
        /\ sink' = sink \/ sink' = Write(sink, FromUpstream("errorFrame"))
    BY <1>13 DEF UpstreamCut, Failed, Served
  <2>2. CASE sink' = sink
    BY <1>s, <2>1, <2>2 DEF SinkNext, WireNext, n
  <2>3. CASE sink' = Write(sink, FromUpstream("errorFrame"))
    <3>1. Spoken(sink', n) /\ Grows(sink, sink', FromUpstream("errorFrame"))
      BY <1>0, <1>g, <1>s, <2>1, <2>3, NextWrite
    <3> QED
      BY <2>1, <3>1 DEF SinkNext, WireNext, Grows, Spoken, n
  <2> QED
    BY <2>1, <2>2, <2>3
<1>14. CASE FailCommitted
  <2>1. stage = "failed" /\ stage' = "after" /\ UNCHANGED <<calls, sink>> /\ sink.committed
    BY <1>14 DEF FailCommitted
  <2> QED
    BY <1>c, <1>s, <2>1 DEF SinkNext, WireNext, n
<1>15. CASE RetrySameBinding
  <2>1. stage = "failed" /\ stage' = "backoff" /\ UNCHANGED calls /\ ~sink.committed /\ sink' = Discard(sink)
    BY <1>15 DEF RetrySameBinding
  <2> QED
    BY <1>0, <1>c, <1>s, <2>1, DiscardCleans DEF SinkNext, WireNext
<1>16. CASE BackoffElapses
  <2>1. stage = "backoff" /\ stage' = "call" /\ UNCHANGED <<calls, sink>>
    BY <1>16 DEF BackoffElapses
  <2> QED
    BY <1>s, <2>1 DEF SinkNext, WireNext
<1>17. CASE BackoffAborts
  <2>1. stage = "backoff" /\ stage' = "after" /\ UNCHANGED <<calls, sink>>
    BY <1>17 DEF BackoffAborts
  <2> QED
    BY <1>s, <2>1 DEF SinkNext, WireNext
<1>18. CASE FailOver
  <2>1. stage = "failed" /\ stage' = "bind" /\ UNCHANGED <<calls, sink>> /\ ~sink.committed /\ i' # 1
    BY <1>0, <1>18 DEF FailOver
  <2> QED
    BY <1>c, <1>s, <2>1 DEF SinkNext, WireNext, n
<1>19. CASE Exhausted
  <2>1. /\ stage = "failed" /\ stage' = "after" /\ ~sink.committed /\ UNCHANGED <<calls, req, phase>>
        /\ sink' = IF Deferred THEN Discard(sink) ELSE Flush(Discard(sink), err)
    BY <1>19 DEF Exhausted
  <2>2. Deferred' = Deferred
    BY <2>1 DEF Deferred, BaselineViable, SubscriptionEligible
  <2>3. Discard(sink) \in Sinks /\ Clean(Discard(sink)) /\ Discard(sink).wire = sink.wire
    BY <1>0, <1>c, <1>s, <2>1, DiscardCleans, SinksTyped
  <2>4. CASE sink' = Discard(sink)
    BY <2>1, <2>3, <2>4 DEF SinkNext, WireNext
  <2>5. CASE sink' # Discard(sink)
    <3>1. ~Deferred /\ Shown(sink', n) /\ sink.wire = <<>>
      BY <2>1, <2>3, <2>5, FlushShows DEF n
    <3>2. R!Coherent(sink'.wire, n) /\ \E more \in Seq(Chunk) : sink'.wire = sink.wire \o more
      BY <1>0, <3>1, ShownIsReply
    <3> QED
      BY <2>1, <2>2, <3>1, <3>2 DEF SinkNext, WireNext, n
  <2> QED
    BY <2>4, <2>5
<1>20. CASE BaselineFailover \/ SubscriptionFailover
  <2>1. /\ stage = "after" /\ stage' = "bind" /\ i' = 1 /\ UNCHANGED <<calls, sink>> /\ ~sink.committed /\ Deferred
    BY <1>20 DEF BaselineFailover, SubscriptionFailover, Rescue, BaselineRescues, SubscriptionRescues,
                 BaselineEligible, Deferred
  <2> QED
    BY <1>c, <1>s, <2>1 DEF SinkNext, WireNext
<1>21. CASE SurfaceDeferred
  <2>1. /\ stage = "after" /\ stage' = "reply" /\ UNCHANGED calls /\ Deferred
        /\ sink' = sink \/ sink' = Flush(sink, err)
    BY <1>21 DEF SurfaceDeferred
  <2>2. CASE sink' = sink
    BY <1>s, <2>1, <2>2, CleanHolds DEF SinkNext, WireNext, n
  <2>3. CASE sink' # sink
    <3>1. err \in Buffered
      BY <2>1, <2>3 DEF Flush
    <3>2. Clean(sink)
      BY <1>c, <1>s, <2>1, <3>1 DEF Outcome
    <3>3. Shown(sink', n) /\ sink.wire = <<>>
      BY <1>0, <2>1, <2>3, <3>2, FlushShows DEF n
    <3>4. R!Coherent(sink'.wire, n) /\ \E more \in Seq(Chunk) : sink'.wire = sink.wire \o more
      BY <1>0, <3>3, ShownIsReply
    <3> QED
      BY <2>1, <3>3, <3>4 DEF SinkNext, WireNext, n
  <2> QED
    BY <2>2, <2>3
<1>22. CASE NothingDeferred
  <2>1. stage = "after" /\ stage' = "reply" /\ UNCHANGED <<calls, sink>>
    BY <1>22 DEF NothingDeferred
  <2> QED
    BY <1>s, <2>1, CleanHolds DEF SinkNext, WireNext, n
<1>23. CASE Reply
  BY <1>23 DEF Reply, SinkNext
<1>24. CASE UNCHANGED vars
  <2>1. Deferred' = Deferred
    BY <1>24 DEF vars, Deferred, BaselineViable, SubscriptionEligible
  <2>2. /\ stage' = stage /\ i' = i /\ calls' = calls /\ sink' = sink
    BY <1>24 DEF vars
  <2> QED
    BY <2>1, <2>2 DEF SinkNext, SinkInv, WireNext
<1> QED
  BY <1>1, <1>2, <1>3, <1>4, <1>5, <1>6, <1>7, <1>8, <1>9, <1>10, <1>11, <1>12, <1>13, <1>14, <1>15,
     <1>16, <1>17, <1>18, <1>19, <1>20, <1>21, <1>22, <1>23, <1>24 DEF Next, Step, Answered

-----------------------------------------------------------------------------
(* One reply.                                                              *)

LEMMA OwnReplies ==
  ASSUME NEW k \in Kinds, NEW n \in Nat
  PROVE  /\ OwnReply(k) \in Seq(Chunk) /\ OwnReply(k) # <<>> /\ Len(OwnReply(k)) = 1
         /\ OwnReply(k)[1].kind = k /\ R!Coherent(OwnReply(k), n)
<1> DEFINE c == [kind |-> k, call |-> 0]
<1>1. c \in Chunk /\ c.call = 0 /\ c.kind = k /\ OwnReply(k) = <<c>>
  BY DEF OwnReply, Chunk
<1> HIDE DEF c
<1> QED
  BY <1>1, CoherentOne

\* What the handler leaves of what was written.
LEMMA Closes ==
  ASSUME Typed, SinkInv, Reply
  PROVE  /\ R!Coherent(sink'.wire, Len(calls))
         /\ \E more \in Seq(Chunk) : sink'.wire = sink.wire \o more
<1> DEFINE n == Len(calls)
           w == sink.wire
           frame == OwnReply("errorFrame")
           goes(u) == R!Coherent(u, n) /\ \E more \in Seq(Chunk) : u = w \o more
<1>0. /\ n \in Nat /\ sink \in Sinks /\ w \in Seq(Chunk) /\ sink.body \in Seq(Chunk)
      /\ Holding(sink, n) \/ Spoken(sink, n) \/ Shown(sink, n)
      /\ req.stream \in BOOLEAN
  BY WalkTyped DEF Sinks, SinkInv, Reply, Requests
<1>1. sink'.wire = IF err # "none" /\ Closing(sink).wire = <<>> THEN OwnReply("generic") ELSE Closing(sink).wire
  <2>1. Closing(sink) \in Sinks
    BY <1>0, SinksTyped DEF Typed
  <2> QED
    BY <2>1 DEF Reply, Sinks
<1>2. w \o <<>> = w /\ <<>> \in Seq(Chunk)
  BY <1>0, EmptySeq, ConcatEmptySeq
<1>3. R!Coherent(w, n)
  BY <1>0, UntouchedCoherent, ShownIsReply DEF Holding, Spoken
<1>4. goes(w)
  BY <1>2, <1>3
<1>5. ASSUME w = <<>>, NEW u \in Seq(Chunk), R!Coherent(u, n) PROVE goes(u)
  <2>1. u = w \o u
    BY <1>5, ConcatEmptySeq
  <2> QED
    BY <1>5, <2>1
<1>6. \A k \in Kinds : OwnReply(k) \in Seq(Chunk) /\ R!Coherent(OwnReply(k), n) /\ OwnReply(k) # <<>>
  BY <1>0, OwnReplies
<1>7. "generic" \in Kinds /\ "badGateway" \in Kinds /\ "errorFrame" \in Kinds
  BY DEF Kinds
<1> HIDE DEF goes, n
<1>8. CASE ~Rewritten
  <2>1. Closing(sink).wire = w
    BY <1>8 DEF Closing
  <2> QED
    BY <1>0, <1>1, <1>4, <1>5, <1>6, <1>7, <2>1 DEF goes, n
<1>9. CASE Rewritten /\ w # <<>>
  <2>1. w[1] = Created /\ req.stream
    BY <1>0, <1>9 DEF Holding, Spoken, Shown, Untouched
  <2>2. Unfinished(w)
    BY <2>1, Created0 DEF Unfinished, R!Whole
  <2> DEFINE c == [kind |-> "errorFrame", call |-> 0]
  <2>3. goes(w \o <<c>>)
    <3>1. c \in Chunk /\ c.call = 0 /\ c.kind \notin R!Whole \cup {"start"}
      BY DEF Chunk, Kinds, R!Whole
    <3> HIDE DEF c
    <3>2. R!Coherent(w \o <<c>>, n)
      BY <1>0, <1>3, <2>2, <3>1, CoherentNext
    <3>3. <<c>> \in Seq(Chunk)
      BY <3>1
    <3> QED
      BY <3>2, <3>3 DEF goes
  <2>4. Closing(sink) = [sink EXCEPT !.wire = IF Ends(@) THEN @ ELSE @ \o <<c>>]
    BY <1>9 DEF Closing, OwnReply
  <2>5. Closing(sink).wire = IF Ends(w) THEN w ELSE w \o <<c>>
    BY <1>0, <2>4 DEF Sinks
  <2>6. goes(Closing(sink).wire)
    BY <1>4, <2>3, <2>5
  <2>7. Closing(sink).wire # <<>>
    <3>1. <<c>> \in Seq(Chunk) /\ <<c>> # <<>>
      BY DEF Chunk, Kinds
    <3> HIDE DEF c
    <3>2. w \o <<c>> # <<>>
      BY <1>0, <3>1, ConcatEqualIffEmpty
    <3> QED
      BY <1>9, <2>5, <3>2
  <2> QED
    BY <1>1, <2>6, <2>7 DEF goes, n
<1>10. CASE Rewritten /\ w = <<>>
  <2>1. err # "none" => Closing(sink).wire = <<>>
    BY <1>10 DEF Closing
  <2>2. err = "none" => Closing(sink).wire = IF Ends(sink.body) THEN sink.body ELSE OwnReply("badGateway")
    BY <1>0, <1>10 DEF Closing, Sinks
  <2>3. R!Coherent(sink.body, n)
    <3>1. Holding(sink, n) => sink.body = <<>>
      BY DEF Holding
    <3>2. R!Coherent(<<>>, n)
      BY DEF R!Coherent
    <3> QED
      BY <1>0, <1>10, <3>1, <3>2 DEF Spoken, Shown
  <2> QED
    BY <1>0, <1>1, <1>5, <1>6, <1>7, <1>10, <2>1, <2>2, <2>3 DEF goes, n
<1> QED
  BY <1>8, <1>9, <1>10

Inv == Typed /\ SinkInv /\ Outcome

LEMMA InvInit == Init => Inv
<1> SUFFICES ASSUME Init PROVE SinkInv /\ Outcome
  BY TypedInit DEF Inv
<1>1. stage = "resolve" /\ Clean(sink)
  BY DEF Init, Clean, Untouched
<1> QED
  BY <1>1 DEF SinkInv, Outcome

LEMMA InvStep == Inv /\ [Next]_vars => Inv'
  BY TypedStep, SinkKept, SinkCarried, RequestStays, OutcomeStep DEF Inv

\* Every step of the dispatch is a step of the reply, or none.
LEMMA ReplyStep == Inv /\ [Next]_vars => [R!Next]_(R!vars)
<1> SUFFICES ASSUME Inv, [Next]_vars PROVE [R!Next]_(R!vars)
  OBVIOUS
<1>0. /\ Typed /\ SinkInv /\ sink \in Sinks /\ Len(calls) \in Nat
      /\ sink.wire \in Seq(Chunk)
  BY WalkTyped DEF Inv, Sinks
<1>1. CASE UNCHANGED vars
  BY <1>1 DEF vars, R!vars, Wire
<1>2. CASE Reply
  <2>1. stage # "done" /\ calls' = calls
    BY <1>2 DEF Reply
  <2>2. PICK more \in Seq(Chunk) : sink'.wire = sink.wire \o more
    BY <1>0, <1>2, Closes
  <2>3. R!Extends(Wire)
    BY <1>0, <2>2, Lengthens DEF R!Extends, Wire
  <2>4. R!Coherent(Wire', Len(calls))
    BY <1>0, <1>2, Closes DEF Wire
  <2> QED
    BY <2>1, <2>3, <2>4 DEF R!Next, R!Say
<1>3. CASE Step /\ ~Reply
  <2>1. stage \notin {"reply", "done"}
    BY <1>3 DEF Step, Refuse, Resolve, NoBinding, Bind, BindMissing, CallUpstream,
         UpstreamFails, RetryWithAuto, UpstreamEmpty, UpstreamOutput, UpstreamCompletes,
         UpstreamBreaks, UpstreamCut, FailCommitted, RetrySameBinding, BackoffElapses,
         BackoffAborts, FailOver, Exhausted, BaselineFailover, SubscriptionFailover, Rescue,
         SurfaceDeferred, NothingDeferred
  <2>2. WireNext
    BY <2>1, SinkKept DEF Inv
  <2>3. CASE stage' # "done" /\ calls' = calls /\ sink'.wire = sink.wire
    BY <2>1, <2>3 DEF R!vars, Wire
  <2>4. CASE stage' # "done" /\ Len(calls') = Len(calls) + 1 /\ sink'.wire = sink.wire /\ Untouched(sink.wire)
    <3>1. \A k \in DOMAIN sink.wire : R!Own(sink.wire[k]) /\ sink.wire[k].kind = "start"
      BY <2>4, Created0 DEF Untouched, R!Own
    <3> QED
      BY <2>1, <2>4, <3>1 DEF R!Next, R!Ask, Wire
  <2>5. CASE /\ calls' = calls /\ R!Coherent(sink'.wire, Len(calls))
             /\ \E more \in Seq(Chunk) : sink'.wire = sink.wire \o more
    <3>1. R!Extends(Wire)
      BY <1>0, <2>5, Lengthens DEF R!Extends, Wire
    <3> QED
      BY <2>1, <2>5, <3>1 DEF R!Next, R!Say, Wire
  <2> QED
    BY <2>2, <2>3, <2>4, <2>5 DEF WireNext
<1> QED
  BY <1>1, <1>2, <1>3 DEF Next, Answered

\* The client reads one reply, in the voice of the last upstream asked.
THEOREM ClientReadsOneReply == Spec => OneReply
<1>1. Init => R!Init
  BY EmptySeq DEF Init, R!Init, Wire
<1>2. Inv /\ [Next]_vars => [R!Next]_(R!vars)
  BY ReplyStep
<1> QED
  BY <1>1, <1>2, InvInit, InvStep, PTL DEF Spec, OneReply, R!Spec

-----------------------------------------------------------------------------
(* The error that is shown.                                                *)

\* An explained error is on the wire as soon as no rescue can follow.
Explained ==
  err \in Buffered /\ ~sink.committed /\ ~expired /\ ~Rewritten =>
    /\ stage = "after" /\ ~Deferred => Shown(sink, Len(calls))
    /\ stage = "reply" => Shown(sink, Len(calls))
    /\ stage = "done" => sink.wire # <<>> /\ sink.wire[1].kind = "envelope"

ExplainedNext ==
  err' \in Buffered /\ ~sink'.committed /\ ~expired' /\ ~Rewritten =>
    /\ stage' = "after" /\ ~Deferred' => Shown(sink', Len(calls'))
    /\ stage' = "reply" => Shown(sink', Len(calls'))
    /\ stage' = "done" => sink'.wire # <<>> /\ sink'.wire[1].kind = "envelope"

LEMMA ExplainedCarried == req' = req /\ ExplainedNext => Explained'
  BY DEF ExplainedNext, Explained, Shown, Rewritten, Verbatim

LEMMA ExplainedStep == Inv /\ Explained /\ [Next]_vars => Explained'
<1> SUFFICES ASSUME Inv, Explained, [Next]_vars PROVE ExplainedNext
  BY ExplainedCarried, RequestStays
<1> DEFINE n == Len(calls)
<1>0. Typed /\ SinkInv /\ Outcome /\ sink \in Sinks /\ n \in Nat
  BY WalkTyped DEF Inv
<1>1. "unconfigured" \notin Buffered /\ "none" \notin Buffered /\ "status" \notin Buffered
  BY DEF Buffered
<1>2. CASE NoBinding
  <2>1. Clean(sink) /\ calls' = calls /\ stage' = "after" /\ UNCHANGED <<req, phase>>
    BY <1>0, <1>2 DEF NoBinding, SinkInv, Typed, Positioned
  <2>2. Deferred' = Deferred
    BY <2>1 DEF Deferred, BaselineViable, SubscriptionEligible
  <2>3. ~Deferred => sink' = Flush(sink, err')
    BY <1>2 DEF NoBinding
  <2>4. ~Deferred /\ err' \in Buffered /\ ~Rewritten => Shown(sink', n)
    BY <1>0, <2>1, <2>3, FlushShows
  <2> QED
    BY <2>1, <2>2, <2>4 DEF ExplainedNext
<1>3. CASE Exhausted
  <2>1. calls' = calls /\ stage' = "after" /\ err' = err /\ UNCHANGED <<req, phase>>
    BY <1>3 DEF Exhausted
  <2>2. Deferred' = Deferred
    BY <2>1 DEF Deferred, BaselineViable, SubscriptionEligible
  <2>3. Clean(Discard(sink)) /\ Discard(sink) \in Sinks
    <3>1. Holding(sink, n)
      BY <1>0, <1>3 DEF Exhausted, SinkInv, Spoken
    <3> QED
      BY <1>0, <3>1, DiscardCleans, SinksTyped DEF Typed
  <2>4. ~Deferred => sink' = Flush(Discard(sink), err)
    BY <1>3 DEF Exhausted
  <2>5. ~Deferred /\ err' \in Buffered /\ ~Rewritten => Shown(sink', n)
    BY <2>1, <2>3, <2>4, FlushShows
  <2> QED
    BY <2>1, <2>2, <2>5 DEF ExplainedNext
<1>4. CASE SurfaceDeferred
  <2>1. calls' = calls /\ stage = "after" /\ stage' = "reply" /\ err' = err /\ Deferred
    BY <1>4 DEF SurfaceDeferred
  <2>2. sink.committed => sink'.committed
    BY <1>0, <1>4 DEF SurfaceDeferred, Flush, Sinks
  <2>3. ~sink.committed => Clean(sink) /\ sink' = Flush(sink, err)
    BY <1>0, <1>4, <2>1 DEF SurfaceDeferred, SinkInv, Spoken
  <2>4. ~sink.committed /\ err' \in Buffered /\ ~Rewritten => Shown(sink', n)
    BY <1>0, <2>1, <2>3, FlushShows
  <2> QED
    BY <2>1, <2>2, <2>4 DEF ExplainedNext
<1>5. CASE NothingDeferred
  BY <1>5 DEF NothingDeferred, Explained, ExplainedNext
<1>6. CASE Reply
  <2>1. CASE err \in Buffered /\ ~sink'.committed /\ ~expired /\ ~Rewritten
    <3>1. Closing(sink) = sink
      BY <2>1 DEF Closing
    <3>2. sink'.committed = sink.committed /\ sink'.wire = IF err # "none" /\ sink.wire = <<>> THEN OwnReply("generic") ELSE sink.wire
      BY <1>0, <1>6, <3>1 DEF Reply, Sinks
    <3>3. Shown(sink, n)
      BY <1>6, <2>1, <3>2 DEF Reply, Explained
    <3>4. sink.wire # <<>> /\ sink.wire[1].kind = "envelope"
      BY <3>3 DEF Shown
    <3> QED
      BY <1>6, <3>2, <3>4 DEF Reply, ExplainedNext
  <2>2. CASE ~(err \in Buffered /\ ~sink'.committed /\ ~expired /\ ~Rewritten)
    BY <1>6, <2>2 DEF Reply, ExplainedNext
  <2> QED
    BY <2>1, <2>2
<1>7. CASE UNCHANGED vars
  <2>1. Deferred' = Deferred
    BY <1>7 DEF vars, Deferred, BaselineViable, SubscriptionEligible
  <2> QED
    BY <1>7, <2>1 DEF vars, Explained, ExplainedNext
<1>8. CASE Refuse \/ BindMissing \/ FailCommitted \/ BackoffAborts
  BY <1>1, <1>8 DEF Refuse, BindMissing, FailCommitted, BackoffAborts, ExplainedNext
<1>9. CASE UpstreamEmpty \/ UpstreamCompletes \/ UpstreamCut
  BY <1>1, <1>9 DEF UpstreamEmpty, UpstreamCompletes, UpstreamCut, Served, Failed, ExplainedNext
<1>10. CASE \/ Resolve \/ Bind \/ CallUpstream \/ UpstreamFails \/ RetryWithAuto \/ UpstreamOutput
            \/ UpstreamBreaks \/ RetrySameBinding \/ BackoffElapses \/ FailOver
            \/ BaselineFailover \/ SubscriptionFailover
  BY <1>10 DEF Resolve, Bind, CallUpstream, UpstreamFails, RetryWithAuto, UpstreamOutput,
     UpstreamBreaks, Failed, RetrySameBinding, BackoffElapses, FailOver,
     BaselineFailover, SubscriptionFailover, Rescue, ExplainedNext
<1> QED
  BY <1>2, <1>3, <1>4, <1>5, <1>6, <1>7, <1>8, <1>9, <1>10 DEF Next, Step, Answered

\* An error the upstream explained is shown with its own envelope, however
\* often its flush was put off.
THEOREM ExplainedErrorIsAlwaysShown == Spec => []ExplainedErrorIsShown
<1>1. Init => Explained
  BY DEF Init, Explained, Buffered
<1>2. Explained => ExplainedErrorIsShown
  BY DEF Explained, ExplainedErrorIsShown, Wire
<1> QED
  BY <1>1, <1>2, ExplainedStep, InvInit, InvStep, PTL DEF Spec

-----------------------------------------------------------------------------
(* The end of a stream.                                                    *)

\* What StreamsTerminate asks of the sink when the request is over.
Ended(s, e) ==
  req.stream /\ s.wire # <<>> =>
    LET last == s.wire[Len(s.wire)].kind
    IN  /\ Rewritten /\ s.wire[1].kind = "start" =>
             last = "errorFrame" \/ (last = "stop" /\ e = "none")
        /\ req.surface = "gemini" /\ s.committed /\ e # "none" =>
             last = "errorFrame"

GeminiTold(s, e) ==
  req.surface = "gemini" /\ req.stream /\ s.committed /\ e # "none" =>
    s.wire # <<>> /\ s.wire[Len(s.wire)].kind = "errorFrame"

\* A rewritten stream is not ended before the upstream served it, and a Gemini
\* stream that failed has its frame.
Framed ==
  /\ stage \in {"streaming", "failed", "after"} /\ Rewritten => ~Ends(sink.wire)
  /\ stage = "reply" /\ Rewritten /\ Ends(sink.wire) => err = "none"
  /\ stage \in {"failed", "after", "reply"} => GeminiTold(sink, err)
  /\ stage = "done" => Ended(sink, err)

FramedNext ==
  /\ stage' \in {"streaming", "failed", "after"} /\ Rewritten => ~Ends(sink'.wire)
  /\ stage' = "reply" /\ Rewritten /\ Ends(sink'.wire) => err' = "none"
  /\ stage' \in {"failed", "after", "reply"} => GeminiTold(sink', err')
  /\ stage' = "done" => Ended(sink', err')

LEMMA FramedCarried == req' = req /\ FramedNext => Framed'
  BY DEF FramedNext, Framed, GeminiTold, Ended, Ends, Rewritten, Verbatim

LEMMA UntouchedOpen == ASSUME NEW w, Untouched(w) PROVE ~Ends(w)
<1>1. w = <<>> \/ w = <<Created>>
  BY DEF Untouched
<1>2. Len(<<Created>>) = 1 /\ <<Created>>[1].kind = "start"
  BY Created0
<1> QED
  BY <1>1, <1>2 DEF Ends

\* The end of the handler leaves a stream ended.
LEMMA ReplyEnds ==
  ASSUME Inv, Framed, Reply
  PROVE  Ended(sink', err')
<1> DEFINE n == Len(calls)
<1>0. /\ Typed /\ SinkInv /\ sink \in Sinks /\ n \in Nat /\ sink.wire \in Seq(Chunk)
      /\ Holding(sink, n) \/ Spoken(sink, n) \/ Shown(sink, n)
      /\ stage = "reply" /\ err' = err
  BY WalkTyped DEF Inv, SinkInv, Reply, Sinks
<1>1. CASE ~Rewritten
  <2>1. Closing(sink) = sink
    BY <1>1 DEF Closing
  <2>2. req.surface = "gemini" /\ req.stream /\ sink.committed /\ err # "none" =>
          sink.wire # <<>> /\ sink.wire[Len(sink.wire)].kind = "errorFrame"
    BY <1>0 DEF Framed, GeminiTold
  <2>3. sink'.committed = sink.committed /\ (sink.wire # <<>> => sink'.wire = sink.wire)
    BY <1>0, <2>1 DEF Reply, Sinks
  <2> QED
    BY <1>0, <1>1, <2>2, <2>3 DEF Ended
<1>2. CASE Rewritten /\ sink.wire # <<>>
  <2> DEFINE c == [kind |-> "errorFrame", call |-> 0]
  <2>1. sink'.wire = IF Ends(sink.wire) THEN sink.wire ELSE sink.wire \o <<c>>
    <3>1. Closing(sink) = [sink EXCEPT !.wire = IF Ends(@) THEN @ ELSE @ \o <<c>>]
      BY <1>2 DEF Closing, OwnReply
    <3>2. Closing(sink).wire = IF Ends(sink.wire) THEN sink.wire ELSE sink.wire \o <<c>>
      BY <1>0, <3>1 DEF Sinks
    <3>3. <<c>> \in Seq(Chunk) /\ <<c>> # <<>>
      BY DEF Chunk, Kinds
    <3> HIDE DEF c
    <3>4. Closing(sink).wire # <<>>
      BY <1>0, <1>2, <3>2, <3>3, ConcatEqualIffEmpty
    <3> QED
      BY <3>2, <3>4 DEF Reply
  <2>2. req.surface # "gemini"
    BY <1>2 DEF Rewritten
  <2>3. CASE Ends(sink.wire)
    <3>1. err = "none"
      BY <1>0, <1>2, <2>3 DEF Framed
    <3> QED
      BY <1>0, <2>1, <2>2, <2>3, <3>1 DEF Ended, Ends
  <2>4. CASE ~Ends(sink.wire)
    <3>1. c \in Chunk /\ c.kind = "errorFrame"
      BY DEF Chunk, Kinds
    <3> HIDE DEF c
    <3>2. sink'.wire = Append(sink.wire, c)
      BY <1>0, <2>1, <2>4, <3>1, AppendIsConcat
    <3>3. sink'.wire[Len(sink'.wire)] = c
      BY <1>0, <3>1, <3>2, AppendProperties
    <3> QED
      BY <2>2, <3>1, <3>3 DEF Ended
  <2> QED
    BY <2>3, <2>4
<1>3. CASE Rewritten /\ sink.wire = <<>>
  <2>1. req.surface # "gemini"
    BY <1>3 DEF Rewritten
  <2>2. CASE req.stream
    <3>1. sink.body = <<>>
      BY <1>0, <1>3, <2>2 DEF Holding, Spoken, Shown
    <3>2. err = "none" => Closing(sink).wire = OwnReply("badGateway")
      BY <1>0, <1>3, <3>1 DEF Closing, Ends, Sinks
    <3>3. err # "none" => Closing(sink).wire = <<>>
      BY <1>3 DEF Closing
    <3>4. Closing(sink) \in Sinks
      BY <1>0, SinksTyped DEF Typed
    <3>5. sink'.wire = OwnReply("badGateway") \/ sink'.wire = OwnReply("generic")
      BY <3>2, <3>3, <3>4 DEF Reply, Sinks
    <3>6. sink'.wire[1].kind # "start"
      BY <1>0, <3>5, OwnReplies DEF Kinds
    <3> QED
      BY <2>1, <3>6 DEF Ended
  <2> QED
    BY <2>2 DEF Ended
<1> QED
  BY <1>1, <1>2, <1>3

LEMMA FramedStep == Inv /\ Framed /\ [Next]_vars => Framed'
<1> SUFFICES ASSUME Inv, Framed, [Next]_vars PROVE FramedNext
  BY FramedCarried, RequestStays
<1> DEFINE n == Len(calls)
<1>0. Typed /\ SinkInv /\ sink \in Sinks /\ n \in Nat /\ i \in Nat \ {0} /\ Positioned /\ req \in Requests
  BY WalkTyped DEF Inv, Typed, TypeOK
<1>s. /\ stage \in {"resolve", "backoff"} => Clean(sink)
      /\ stage = "bind" /\ i = 1 => Clean(sink)
      /\ stage = "bind" => Holding(sink, n)
      /\ stage = "upstream" => Holding(sink, n) /\ sink.sealed
      /\ stage = "streaming" => Spoken(sink, n) /\ Unfinished(sink.wire) /\ Unfinished(sink.body)
  BY <1>0, CleanHolds DEF SinkInv
<1>c. Clean(sink) \/ Holding(sink, n) => ~sink.committed /\ ~Ends(sink.wire)
  BY UntouchedOpen DEF Clean, Holding
<1>g. req.surface = "gemini" => ~Rewritten /\ Translator = "google" /\ ~Deferred
  BY <1>0 DEF Rewritten, Translator, Positioned, Deferred, BaselineViable, SubscriptionEligible
<1>w. /\ Later(FromUpstream("output"), n) /\ First(FromUpstream("output"), n)
      /\ Later(FromUpstream("errorFrame"), n) /\ First(Complaint, n) /\ Complaint.kind # "stop"
  <2>1. req.stream \in BOOLEAN
    BY <1>0 DEF Requests
  <2> QED
    BY <1>0, <2>1 DEF First, Later, Complaint, FromUpstream, Chunk, Kinds
<1>k. FromUpstream("output").kind = "output" /\ FromUpstream("errorFrame").kind = "errorFrame"
  BY DEF FromUpstream
<1> HIDE DEF n
<1>1. CASE Refuse
  BY <1>1, <1>c, <1>s DEF Refuse, FramedNext, GeminiTold
<1>2. CASE NoBinding
  <2>1. Clean(sink) /\ stage' = "after" /\ (sink' = sink \/ sink' = Flush(sink, err'))
    BY <1>0, <1>2, <1>s DEF NoBinding, Positioned
  <2>2. sink'.committed = sink.committed /\ (Rewritten => sink' = sink)
    BY <1>0, <2>1 DEF Flush, Sinks
  <2> QED
    BY <1>c, <2>1, <2>2 DEF FramedNext, GeminiTold
<1>3. CASE BindMissing
  <2>1. Clean(FreshFor(i))
    BY <1>0, <1>3, <1>s, DiscardCleans DEF FreshFor, BindMissing
  <2>2. ~FreshFor(i).committed /\ ~Ends(FreshFor(i).wire)
    BY <2>1, UntouchedOpen DEF Clean
  <2> QED
    BY <1>3, <2>2 DEF BindMissing, FramedNext, GeminiTold
<1>4. CASE UpstreamFails
  BY <1>4, <1>c, <1>s DEF UpstreamFails, FramedNext, GeminiTold
<1>5. CASE UpstreamEmpty
  <2>1. CASE stage' = "reply"
    BY <1>5, <2>1 DEF UpstreamEmpty, Served, Failed, FramedNext, GeminiTold
  <2>2. CASE stage' = "failed"
    <3>1. Holding(sink, n) /\ sink.sealed
      BY <1>5, <1>s DEF UpstreamEmpty
    <3>2. CASE sink' = sink
      BY <1>c, <2>2, <3>1, <3>2 DEF FramedNext, GeminiTold
    <3>3. CASE sink' # sink
      <4>1. sink' = Write(sink, Complaint) /\ ~(Translator = "google" /\ req.stream)
        BY <1>5, <2>2, <3>3 DEF UpstreamEmpty, Served, Failed
      <4>2. Grows(sink, sink', Complaint)
        BY <1>0, <1>w, <3>1, <4>1, FirstWrite
      <4> QED
        BY <1>c, <1>g, <1>w, <2>2, <3>1, <4>1, <4>2 DEF FramedNext, GeminiTold, Grows
    <3> QED
      BY <3>2, <3>3
  <2> QED
    BY <1>5, <2>1, <2>2 DEF UpstreamEmpty, Served, Failed
<1>6. CASE UpstreamOutput
  <2>1. Grows(sink, sink', FromUpstream("output")) /\ stage' = "streaming" /\ ~Ends(sink.wire)
    BY <1>0, <1>6, <1>c, <1>s, <1>w, FirstWrite DEF UpstreamOutput
  <2> QED
    BY <1>k, <2>1 DEF FramedNext, Grows
<1>7. CASE UpstreamCompletes
  BY <1>7 DEF UpstreamCompletes, Served, FramedNext, GeminiTold
<1>8. CASE UpstreamBreaks
  <2>1. stage = "streaming" /\ stage' = "failed" /\ (Rewritten => ~Ends(sink.wire))
    BY <1>8 DEF UpstreamBreaks, Failed, Framed
  <2>2. CASE Translator = "google" /\ req.stream
    <3>1. sink' = Write(sink, FromUpstream("errorFrame"))
      BY <1>8, <2>2 DEF UpstreamBreaks
    <3>2. Grows(sink, sink', FromUpstream("errorFrame"))
      BY <1>0, <1>s, <1>w, <2>1, <3>1, NextWrite
    <3> QED
      BY <1>g, <1>k, <2>1, <3>2 DEF FramedNext, GeminiTold, Grows
  <2>3. CASE ~(Translator = "google" /\ req.stream)
    <3>1. sink' = sink
      BY <1>8, <2>3 DEF UpstreamBreaks
    <3> QED
      BY <1>g, <2>1, <2>3, <3>1 DEF FramedNext, GeminiTold
  <2> QED
    BY <2>2, <2>3
<1>9. CASE UpstreamCut
  <2>1. stage = "streaming" /\ (Rewritten => ~Ends(sink.wire))
    BY <1>9 DEF UpstreamCut, Framed
  <2>2. CASE stage' = "reply"
    BY <1>9, <2>2 DEF UpstreamCut, Served, Failed, FramedNext, GeminiTold
  <2>3. CASE stage' = "failed"
    <3>1. Translator # "google" /\ (sink' = sink \/ sink' = Write(sink, FromUpstream("errorFrame")))
      BY <1>9, <2>3 DEF UpstreamCut, Served, Failed
    <3>2. sink' = Write(sink, FromUpstream("errorFrame")) => Grows(sink, sink', FromUpstream("errorFrame"))
      BY <1>0, <1>s, <1>w, <2>1, NextWrite
    <3>3. Rewritten => ~Ends(sink'.wire)
      BY <1>k, <2>1, <3>1, <3>2 DEF Grows
    <3> QED
      BY <1>g, <2>3, <3>1, <3>3 DEF FramedNext, GeminiTold
  <2> QED
    BY <1>9, <2>2, <2>3 DEF UpstreamCut, Served, Failed
<1>10. CASE FailCommitted
  BY <1>10 DEF FailCommitted, Framed, FramedNext
<1>11. CASE BackoffAborts
  BY <1>11, <1>c, <1>s DEF BackoffAborts, FramedNext, GeminiTold
<1>12. CASE Exhausted
  <2>1. /\ stage = "failed" /\ stage' = "after" /\ ~sink.committed /\ (Rewritten => ~Ends(sink.wire))
        /\ sink' = Discard(sink) \/ sink' = Flush(Discard(sink), err)
    BY <1>12 DEF Exhausted, Framed
  <2>2. ~Discard(sink).committed /\ Discard(sink).wire = sink.wire
    BY <1>0, <2>1 DEF Discard, Sinks
  <2>3. ~sink'.committed /\ (Rewritten => sink'.wire = sink.wire)
    <3> DEFINE d == Discard(sink)
    <3>1. d \in Sinks
      BY <1>0, SinksTyped DEF Typed
    <3> HIDE DEF d
    <3>2. Flush(d, err).committed = d.committed /\ (Rewritten => Flush(d, err) = d)
      BY <3>1 DEF Flush, Sinks
    <3> QED
      BY <2>1, <2>2, <3>2 DEF d
  <2> QED
    BY <2>1, <2>3 DEF FramedNext, GeminiTold
<1>13. CASE SurfaceDeferred
  <2>1. /\ stage = "after" /\ stage' = "reply" /\ Deferred /\ err' = err
        /\ sink' = sink \/ sink' = Flush(sink, err)
    BY <1>13 DEF SurfaceDeferred
  <2>2. Rewritten => sink' = sink
    BY <2>1 DEF Flush
  <2> QED
    BY <1>g, <2>1, <2>2 DEF Framed, FramedNext, GeminiTold
<1>14. CASE NothingDeferred
  BY <1>14 DEF NothingDeferred, Framed, FramedNext
<1>15. CASE Reply
  BY <1>15, ReplyEnds DEF Reply, FramedNext
<1>16. CASE UNCHANGED vars
  BY <1>16 DEF vars, Framed, FramedNext
<1>17. CASE \/ Resolve \/ Bind \/ CallUpstream \/ RetryWithAuto \/ RetrySameBinding \/ BackoffElapses
            \/ FailOver \/ BaselineFailover \/ SubscriptionFailover
  BY <1>17 DEF Resolve, Bind, CallUpstream, RetryWithAuto, RetrySameBinding, BackoffElapses, FailOver,
     BaselineFailover, SubscriptionFailover, Rescue, FramedNext
<1> QED
  BY <1>1, <1>2, <1>3, <1>4, <1>5, <1>6, <1>7, <1>8, <1>9, <1>10, <1>11, <1>12, <1>13, <1>14, <1>15,
     <1>16, <1>17 DEF Next, Step, Answered

\* Codex never sees a stream closed before its end, and a Gemini stream that
\* failed after it began ends with an error frame.
THEOREM StreamsAlwaysTerminate == Spec => []StreamsTerminate
<1>1. Init => Framed
  BY DEF Init, Framed
<1>2. Framed => StreamsTerminate
  BY DEF Framed, Ended, StreamsTerminate, Wire
<1> QED
  BY <1>1, <1>2, FramedStep, InvInit, InvStep, PTL DEF Spec

-----------------------------------------------------------------------------
(* Who is recorded.                                                        *)

Caller == calls[Len(calls)].provider

Attributed ==
  /\ stage \in {"upstream", "streaming", "failed", "backoff"} => calls # <<>> /\ Caller = walk[i]
  /\ stage \in {"upstream", "streaming"} => sink.label = walk[i]
  /\ stage \in {"after", "reply", "done"} /\ calls # <<>> /\ err \notin {"unconfigured", "status"} =>
       winner = Caller
  /\ stage \in {"reply", "done"} /\ calls # <<>> /\ err = "none" => sink.label = winner

LEMMA LabelsKept ==
  ASSUME NEW s \in Sinks
  PROVE  /\ \A cs : Deliver(s, cs).label = s.label
         /\ \A c : Write(s, c).label = s.label
         /\ Seal(s).label = s.label /\ Prelude(s).label = s.label /\ Closing(s).label = s.label
         /\ Discard(s).label = IF s.committed THEN s.label ELSE req.primary
<1>1. \A cs : Deliver(s, cs).label = s.label
  BY DEF Deliver, Sinks
<1> DEFINE open == [s EXCEPT !.committed = TRUE, !.held = <<>>]
<1>2. open.label = s.label /\ \A cs : Deliver(open, cs).label = open.label
  <2>1. open \in Sinks /\ open.label = s.label
    BY EmptySeq DEF Sinks
  <2> HIDE DEF open
  <2> QED
    BY <2>1 DEF Deliver, Sinks
<1>3. \A c : Write(s, c).label = s.label
  BY <1>1, <1>2 DEF Write, Sinks
<1>4. Seal(s).label = s.label /\ Closing(s).label = s.label
  BY DEF Seal, Closing, Sinks
<1>5. Prelude(s).label = s.label
  BY <1>3 DEF Prelude
<1>6. Discard(s).label = IF s.committed THEN s.label ELSE req.primary
  BY DEF Discard, Sinks
<1> QED
  BY <1>1, <1>3, <1>4, <1>5, <1>6

\* Only Google speaks for the Gemini family, so a Gemini call repeated has the
\* provider of the decision.
LEMMA GeminiIsGoogle ==
  ASSUME Typed, WalkAllowed, stage = "upstream", Translator \in {"gemini", "chat"},
         FamilyFor(req.primary) = "gemini"
  PROVE  walk[i] = req.primary
<1>1. phase = "primary"
  BY DEF Translator
<1>2. i \in DOMAIN walk
  BY WalkTyped DEF Attempting, Typed, TypeOK
<1>3. FamilyFor(walk[i]) = "gemini"
  BY <1>1, <1>2 DEF WalkAllowed
<1> QED
  BY <1>3 DEF FamilyFor

LEMMA AttributedStep == Inv /\ Allowed /\ Attributed /\ [Next]_vars => Attributed'
<1> SUFFICES ASSUME Inv, Allowed, Attributed, [Next]_vars PROVE Attributed'
  OBVIOUS
<1> DEFINE call == [phase |-> phase, provider |-> walk[i]]
<1>0. Typed /\ SinkInv /\ WalkAllowed /\ sink \in Sinks /\ calls \in Seq(Call) /\ TypeOK /\ Positioned /\ Outcome
  BY WalkTyped DEF Inv, Allowed, Typed, TypeOK
<1>1. CallUpstream \/ RetryWithAuto => calls' # <<>> /\ calls'[Len(calls')] = call
  <2>1. SUFFICES ASSUME CallUpstream \/ RetryWithAuto
                 PROVE  calls' # <<>> /\ calls'[Len(calls')] = call
    OBVIOUS
  <2>2. calls' = Append(calls, call) /\ call \in Call
    BY <1>0, <2>1, WalkTyped DEF CallUpstream, RetryWithAuto, Attempting, Call, TypeOK
  <2> HIDE DEF call
  <2> QED
    BY <1>0, <2>2, AppendProperties
<1>2. CASE CallUpstream
  <2>1. Labelled(sink) \in Sinks /\ Labelled(sink).label = walk[i]
    BY <1>0, <1>2, LabelledClean, SinksTyped DEF CallUpstream, SinkInv, Positioned, Attempting
  <2>2. Prelude(Labelled(sink)) \in Sinks
    BY <1>0, <2>1, SinksTyped
  <2>3. sink'.label = walk[i]
    BY <1>2, <2>1, <2>2, LabelsKept DEF CallUpstream
  <2> QED
    BY <1>1, <1>2, <2>3 DEF CallUpstream, Attributed, Caller
<1>3. CASE RetryWithAuto
  <2>1. Discard(sink) \in Sinks /\ Discard(sink).label = walk[i]
    BY <1>0, <1>3, LabelsKept, GeminiIsGoogle, SinksTyped DEF RetryWithAuto
  <2>2. Prelude(Discard(sink)) \in Sinks
    BY <1>0, <2>1, SinksTyped
  <2>3. sink'.label = walk[i]
    BY <1>3, <2>1, <2>2, LabelsKept DEF RetryWithAuto
  <2> QED
    BY <1>1, <1>3, <2>3 DEF RetryWithAuto, Attributed, Caller
<1>4. CASE UpstreamFails
  BY <1>4 DEF UpstreamFails, Attributed, Caller
<1>5. CASE UpstreamEmpty
  BY <1>0, <1>5, LabelsKept DEF UpstreamEmpty, Attributed, Caller, Served, Failed
<1>6. CASE UpstreamOutput
  BY <1>0, <1>6, LabelsKept DEF UpstreamOutput, Attributed, Caller
<1>7. CASE UpstreamCompletes
  <2>1. Write(sink, FromUpstream("output")) \in Sinks
    BY <1>0, WriteTyped, SaysTyped DEF Kinds
  <2>2. sink'.label = sink.label
    BY <1>0, <1>7, <2>1, LabelsKept DEF UpstreamCompletes
  <2> QED
    BY <1>7, <2>2 DEF UpstreamCompletes, Attributed, Caller, Served
<1>8. CASE UpstreamBreaks
  BY <1>8 DEF UpstreamBreaks, Attributed, Caller, Failed
<1>9. CASE UpstreamCut
  BY <1>9 DEF UpstreamCut, Attributed, Caller, Served, Failed
<1>10. CASE FailCommitted \/ BackoffAborts \/ Exhausted
  BY <1>10 DEF FailCommitted, BackoffAborts, Exhausted, Attributed, Caller
<1>11. CASE NoBinding
  BY <1>0, <1>11 DEF NoBinding, Attributed, Caller, Positioned
<1>12. CASE BindMissing
  BY <1>12 DEF BindMissing, Attributed
<1>13. CASE Refuse
  BY <1>13 DEF Refuse, Attributed
<1>14. CASE SurfaceDeferred \/ NothingDeferred
  BY <1>0, <1>14 DEF SurfaceDeferred, NothingDeferred, Attributed, Caller, Outcome
<1>15. CASE Reply
  <2>1. Closing(sink) \in Sinks /\ Closing(sink).label = sink.label
    BY <1>0, LabelsKept, SinksTyped
  <2>2. sink'.label = sink.label
    BY <1>15, <2>1 DEF Reply, Sinks
  <2> QED
    BY <1>15, <2>2 DEF Reply, Attributed, Caller
<1>16. CASE RetrySameBinding
  BY <1>16 DEF RetrySameBinding, Attributed, Caller
<1>17. CASE UNCHANGED vars
  BY <1>17 DEF vars, Attributed, Caller
<1>18. CASE Resolve \/ Bind \/ BackoffElapses \/ FailOver \/ BaselineFailover \/ SubscriptionFailover
  BY <1>18 DEF Resolve, Bind, BackoffElapses, FailOver, BaselineFailover, SubscriptionFailover, Rescue, Attributed
<1> QED
  BY <1>2, <1>3, <1>4, <1>5, <1>6, <1>7, <1>8, <1>9, <1>10, <1>11, <1>12, <1>13, <1>14, <1>15,
     <1>16, <1>17, <1>18 DEF Next, Step, Answered

\* Usage, price and strikes go to the provider of the last call, and a served
\* response carries its name.
THEOREM AlwaysAttributedToCaller == Spec => []AttributedToCaller
<1>1. Init => Attributed
  BY DEF Init, Attributed
<1>2. Typed /\ Attributed => AttributedToCaller
  <2> SUFFICES ASSUME Typed, Attributed, stage = "done", calls # <<>>, err \notin {"unconfigured", "status"}
               PROVE  FinalProvider = Caller /\ (err = "none" => sink.label = FinalProvider)
    BY DEF AttributedToCaller, Caller
  <2>1. winner = Caller /\ (err = "none" => sink.label = winner)
    BY DEF Attributed
  <2>2. calls \in Seq(Call) /\ Len(calls) \in 1..Len(calls)
    BY EmptySeq DEF Typed, TypeOK
  <2>3. Caller \in Providers
    <3>1. calls[Len(calls)] \in Call
      BY <2>2, ElementOfSeq
    <3> QED
      BY <3>1 DEF Caller, Call
  <2>4. winner # NoProvider
    BY <2>1, <2>3, DispatchAssumption DEF DispatchAssumption
  <2> QED
    BY <2>1, <2>4 DEF FinalProvider
<1>3. Inv => Typed
  BY DEF Inv
<1> QED
  BY <1>1, <1>2, <1>3, AttributedStep, AllowedInit, AllowedStep, InvInit, InvStep, PTL DEF Spec

===============================================================================
