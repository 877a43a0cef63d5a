--------------------------- MODULE KeyCacheProofs ---------------------------
(***************************************************************************)
(* What the cache of API keys guarantees for any keys, replicas, lookups   *)
(* and administrators.                                                     *)
(***************************************************************************)
EXTENDS KeyCache, FiniteSetTheorems, TLAPS

-----------------------------------------------------------------------------
(* Types.                                                                  *)

Entries == UNION {[K -> Entry] : K \in SUBSET Keys}

VerifierState ==
  [at : {"idle", "read", "refuse", "index", "add", "check", "remove"},
   key : Keys, rev : Nat, overtaken : BOOLEAN, bared : BOOLEAN]

AdminState ==
  [at : {"idle", "delete", "issue", "create", "invalidate", "evict"},
   kind : CallKinds, key : Keys, drained : SUBSET Keys, rev : Nat]

ListenerState == [busy : BOOLEAN, drained : SUBSET Keys]

Types ==
  /\ db \in [key : [Keys -> KeyState], rev : Nat]
  /\ positive \in [Replicas -> Entries]
  /\ negative \in [Replicas -> SUBSET Keys]
  /\ index \in [Replicas -> SUBSET Keys]
  /\ verifier \in [Verifiers -> VerifierState]
  /\ admin \in [Admins -> AdminState]
  /\ told \subseteq Replicas
  /\ listener \in [Replicas -> ListenerState]
  /\ changes \in 0..MaxChanges

\* The operations on the LRU of one replica yield an LRU.
LEMMA EntriesClosed ==
  ASSUME NEW f \in Entries
  PROVE  /\ DOMAIN f \subseteq Keys
         /\ \A k \in DOMAIN f : f[k] \in Entry
         /\ \A k \in Keys : Without(f, k) \in Entries
         /\ \A k \in Keys, e \in Entry : With(f, k, e) \in Entries
<1>1. PICK K \in SUBSET Keys : f \in [K -> Entry]
  BY DEF Entries
<1>2. \A k \in Keys : Without(f, k) \in [K \ {k} -> Entry]
  BY <1>1 DEF Without
<1>3. \A k \in Keys, e \in Entry : With(f, k, e) \in [K \cup {k} -> Entry]
  BY <1>1 DEF With
<1>4. \A k \in Keys : K \ {k} \in SUBSET Keys
  OBVIOUS
<1>5. \A k \in Keys : K \cup {k} \in SUBSET Keys
  OBVIOUS
<1>0. \A S \in SUBSET Keys : \A g \in [S -> Entry] : g \in Entries
  BY Zenon DEF Entries
<1>6. \A k \in Keys : Without(f, k) \in Entries
  BY <1>0, <1>2, <1>4
<1>7. \A k \in Keys, e \in Entry : With(f, k, e) \in Entries
  BY <1>0, <1>3, <1>5
<1> QED
  BY <1>1, <1>6, <1>7

\* Changing the entries of an LRU, each to an entry, yields an LRU.
LEMMA EntriesMapped ==
  ASSUME NEW f \in Entries, NEW g, DOMAIN g = DOMAIN f, g = [k \in DOMAIN f |-> g[k]],
         \A k \in DOMAIN f : g[k] \in Entry
  PROVE  g \in Entries
<1>1. DOMAIN f \in SUBSET Keys
  BY EntriesClosed
<1>2. g \in [DOMAIN f -> Entry]
  OBVIOUS
<1> QED
  BY <1>1, <1>2 DEF Entries

LEMMA WaitingType == Waiting \in VerifierState
<1>1. (CHOOSE k \in Keys : TRUE) \in Keys
  BY KeyCacheAssumption DEF KeyCacheAssumption
<1> QED
  BY <1>1 DEF Waiting, VerifierState

LEMMA RestingType == Resting \in AdminState
<1>1. (CHOOSE k \in Keys : TRUE) \in Keys
  BY KeyCacheAssumption DEF KeyCacheAssumption
<1> QED
  BY <1>1 DEF Resting, AdminState, CallKinds

LEMMA BareType ==
  ASSUME NEW r, NEW k, NEW vs \in [Verifiers -> VerifierState]
  PROVE  Bare(r, k, vs) \in [Verifiers -> VerifierState]
  BY DEF Bare, VerifierState

\* What the steps of the other requests leave of a request's own state.
LEMMA BareKeeps ==
  ASSUME NEW r, NEW k, NEW vs \in [Verifiers -> VerifierState], NEW t \in Verifiers
  PROVE  /\ Bare(r, k, vs)[t].at = vs[t].at
         /\ Bare(r, k, vs)[t].key = vs[t].key
         /\ Bare(r, k, vs)[t].overtaken = vs[t].overtaken
         /\ vs[t].bared => Bare(r, k, vs)[t].bared
         /\ Home[t] = r /\ vs[t].key = k /\ vs[t].at = "add" /\ k \in index[r]
              => Bare(r, k, vs)[t].bared
  BY DEF Bare, VerifierState

LEMMA RemoveType ==
  ASSUME Types, NEW r \in Replicas, NEW k \in Keys, NEW vs \in [Verifiers -> VerifierState],
         Remove(r, k, vs)
  PROVE  /\ positive' \in [Replicas -> Entries]
         /\ index' \in [Replicas -> SUBSET Keys]
         /\ verifier' \in [Verifiers -> VerifierState]
<1>1. Without(positive[r], k) \in Entries
  BY EntriesClosed DEF Types
<1>2. positive' \in [Replicas -> Entries]
  BY <1>1 DEF Types, Remove
<1>3. index' \in [Replicas -> SUBSET Keys]
  BY DEF Types, Remove
<1>4. verifier' \in [Verifiers -> VerifierState]
  BY BareType DEF Remove
<1> QED
  BY <1>2, <1>3, <1>4

LEMMA OvertakeType ==
  ASSUME Types, NEW r \in Replicas, Overtake(r)
  PROVE  /\ positive' \in [Replicas -> Entries]
         /\ index' \in [Replicas -> SUBSET Keys]
         /\ verifier' \in [Verifiers -> VerifierState]
<1> DEFINE g == [k \in DOMAIN positive[r] |-> [positive[r][k] EXCEPT !.overtaken = TRUE]]
<1>1. positive[r] \in Entries
  BY DEF Types
<1>2. \A k \in DOMAIN g : g[k] \in Entry
  BY <1>1, EntriesClosed DEF Entry
<1>3. g \in Entries
  <2> HIDE DEF g
  <2>1. DOMAIN g = DOMAIN positive[r] /\ g = [k \in DOMAIN positive[r] |-> g[k]]
    BY DEF g
  <2> QED
    BY <1>1, <1>2, <2>1, EntriesMapped
<1>4. positive' = [positive EXCEPT ![r] = g]
  BY DEF Overtake
<1>5. positive' \in [Replicas -> Entries]
  <2> HIDE DEF g
  <2> QED
    BY <1>3, <1>4 DEF Types
<1>6. index' \in [Replicas -> SUBSET Keys]
  BY DEF Types, Overtake
<1>7. verifier' \in [Verifiers -> VerifierState]
  BY DEF Types, Overtake, VerifierState
<1> QED
  BY <1>5, <1>6, <1>7

LEMMA CommitType ==
  ASSUME Types, NEW a \in Admins, NEW states \in [Keys -> KeyState],
         NEW pc \in {"idle", "delete", "issue", "create", "invalidate", "evict"},
         Commit(a, states, pc)
  PROVE  db' \in [key : [Keys -> KeyState], rev : Nat] /\ admin' \in [Admins -> AdminState]
<1>1. db.rev + 1 \in Nat
  BY DEF Types
<1>2. db' \in [key : [Keys -> KeyState], rev : Nat]
  BY <1>1 DEF Commit
<1>3. [admin[a] EXCEPT !.at = pc, !.rev = db.rev + 1] \in AdminState
  <2>1. admin[a] \in AdminState
    BY DEF Types
  <2> QED
    BY <1>1, <2>1 DEF AdminState
<1>4. admin' = [admin EXCEPT ![a] = [admin[a] EXCEPT !.at = pc, !.rev = db.rev + 1]]
  BY DEF Commit
<1>5. admin' \in [Admins -> AdminState]
  BY <1>3, <1>4 DEF Types
<1> QED
  BY <1>2, <1>5

LEMMA FailType ==
  ASSUME Types, NEW a \in Admins, Fail(a)
  PROVE  admin' \in [Admins -> AdminState]
<1>1. Resting \in AdminState
  BY RestingType DEF Types, AdminState
<1> QED
  BY <1>1 DEF Types, Fail

\* Every step keeps the types.
LEMMA TypesNext ==
  ASSUME Types, [Next]_vars
  PROVE  Types'
<1>1. CASE UNCHANGED vars
  BY <1>1 DEF Types, vars, cache, remote
<1>2. ASSUME NEW r \in Replicas, NEW k \in Keys, Expire(r, k)
      PROVE  Types'
  <2>1. positive[r] \in Entries /\ k \in DOMAIN positive[r]
    BY <1>2 DEF Types, Expire, Served
  <2> DEFINE g == [positive[r] EXCEPT ![k] = [@ EXCEPT !.expired = TRUE, !.rev = 0]]
  <2>2. \A x \in DOMAIN positive[r] : g[x] \in Entry
    BY <2>1, EntriesClosed DEF Entry
  <2>3. g \in Entries
    <3>1. DOMAIN g = DOMAIN positive[r] /\ g = [x \in DOMAIN positive[r] |-> g[x]]
      OBVIOUS
    <3> HIDE DEF g
    <3> QED
      BY <2>1, <2>2, <3>1, EntriesMapped
  <2>4. positive' = [positive EXCEPT ![r] = g]
    BY <1>2, <2>1 DEF Expire, Types
  <2>5. positive' \in [Replicas -> Entries]
    <3> HIDE DEF g
    <3> QED
      BY <2>3, <2>4 DEF Types
  <2> QED
    BY <1>2, <2>5 DEF Types, Expire, remote
<1>3. ASSUME NEW r \in Replicas, NEW k \in Keys, ForgetBad(r, k)
      PROVE  Types'
  BY <1>3 DEF Types, ForgetBad, remote
<1>4. ASSUME NEW t \in Verifiers, NEW k \in Keys, Lookup(t, k)
      PROVE  Types'
  BY <1>4, ZenonT(40) DEF Types, Lookup, VerifierState, cache, remote
<1>5. ASSUME NEW t \in Verifiers, Read(t)
      PROVE  Types'
  BY <1>5, WaitingType DEF Types, Read, Goto, Done, VerifierState, cache, remote
<1>6. ASSUME NEW t \in Verifiers, RememberBad(t)
      PROVE  Types'
  BY <1>6, WaitingType, ZenonT(40) DEF Types, RememberBad, Done, VerifierState, remote
<1>7. ASSUME NEW t \in Verifiers, SetIndex(t)
      PROVE  Types'
  <2>1. verifier[t] \in VerifierState
    BY DEF Types
  <2>2. [verifier[t] EXCEPT !.at = "add", !.overtaken = FALSE, !.bared = FALSE] \in VerifierState
    BY <2>1 DEF VerifierState
  <2>3. verifier' = [verifier EXCEPT ![t] = [verifier[t] EXCEPT !.at = "add", !.overtaken = FALSE, !.bared = FALSE]]
    BY <1>7 DEF SetIndex
  <2>4. index' \in [Replicas -> SUBSET Keys]
    BY <1>7, <2>1 DEF SetIndex, Types, VerifierState
  <2> QED
    BY <1>7, <2>2, <2>3, <2>4 DEF Types, SetIndex, remote
<1>8. ASSUME NEW t \in Verifiers, SetAdd(t)
      PROVE  Types'
  <2>1. Home[t] \in Replicas /\ positive[Home[t]] \in Entries /\ verifier[t] \in VerifierState
    BY KeyCacheAssumption DEF KeyCacheAssumption, Types
  <2> DEFINE e == [rev |-> verifier[t].rev, expired |-> FALSE,
                   overtaken |-> verifier[t].overtaken, bared |-> verifier[t].bared]
  <2>2. e \in Entry /\ verifier[t].key \in Keys
    BY <2>1 DEF VerifierState, Entry
  <2>3. positive' = [positive EXCEPT ![Home[t]] = With(positive[Home[t]], verifier[t].key, e)]
    BY <1>8 DEF SetAdd
  <2>4. positive' \in [Replicas -> Entries]
    <3> HIDE DEF e
    <3> QED
      BY <2>1, <2>2, <2>3, EntriesClosed DEF Types
  <2>5. verifier' \in [Verifiers -> VerifierState]
    BY <1>8, <2>1 DEF SetAdd, Types, VerifierState
  <2> QED
    BY <1>8, <2>4, <2>5 DEF Types, SetAdd, remote
<1>9. ASSUME NEW t \in Verifiers, SetCheck(t)
      PROVE  Types'
  <2> DEFINE r == Home[t]
             k == verifier[t].key
             g == BareEntry(r, k)
  <2>1. index' \in [Replicas -> SUBSET Keys]
    BY <1>9 DEF SetCheck, Types
  <2>2. r \in Replicas /\ positive[r] \in Entries
    BY KeyCacheAssumption DEF KeyCacheAssumption, Types
  <2>3. \A x \in DOMAIN positive[r] : g[x] \in Entry
    BY <2>2, EntriesClosed DEF Entry, BareEntry
  <2>4. g \in Entries
    <3>1. DOMAIN g = DOMAIN positive[r] /\ g = [x \in DOMAIN positive[r] |-> g[x]]
      BY DEF BareEntry
    <3> HIDE DEF g
    <3> QED
      BY <2>2, <2>3, <3>1, EntriesMapped
  <2>5. positive' = [positive EXCEPT ![r] = g] \/ positive' = positive
    BY <1>9 DEF SetCheck
  <2>6. positive' \in [Replicas -> Entries]
    <3> HIDE DEF g
    <3> QED
      BY <2>4, <2>5 DEF Types
  <2>7. [verifier EXCEPT ![t].at = "remove"] \in [Verifiers -> VerifierState]
    BY DEF Types, VerifierState
  <2>8. verifier' \in [Verifiers -> VerifierState]
    <3>1. CASE verifier' = Bare(r, k, [verifier EXCEPT ![t].at = "remove"])
      BY <2>7, <3>1, BareType
    <3>2. CASE Done(t)
      BY <3>2, WaitingType DEF Done, Types
    <3> QED
      BY <1>9, <3>1, <3>2 DEF SetCheck
  <2> QED
    BY <1>9, <2>1, <2>6, <2>8 DEF Types, SetCheck, remote
<1>10. ASSUME NEW t \in Verifiers, SetRemove(t)
       PROVE  Types'
  <2>1. Home[t] \in Replicas /\ verifier[t].key \in Keys
    BY KeyCacheAssumption DEF KeyCacheAssumption, Types, VerifierState
  <2>2. [verifier EXCEPT ![t] = Waiting] \in [Verifiers -> VerifierState]
    BY WaitingType DEF Types
  <2> QED
    BY <1>10, <2>1, <2>2, RemoveType DEF Types, SetRemove, remote
<1>11. ASSUME NEW a \in Admins, NEW kind \in Calls[a], NEW k \in Keys, Begin(a, kind, k)
       PROVE  Types'
  <2>1. kind \in CallKinds
    BY KeyCacheAssumption DEF KeyCacheAssumption
  <2>2. changes' \in 0..MaxChanges
    BY <1>11, KeyCacheAssumption DEF Begin, Types, KeyCacheAssumption
  <2>3. admin[a] \in AdminState
    BY DEF Types
  <2>4. [admin[a] EXCEPT !.at = "delete", !.kind = kind, !.key = k, !.rev = 0]
          \in AdminState
    BY <2>1, <2>3 DEF AdminState
  <2>5. admin' = [admin EXCEPT ![a] = [admin[a] EXCEPT !.at = "delete", !.kind = kind, !.key = k,
                                                       !.rev = 0]]
    BY <1>11 DEF Begin
  <2> QED
    BY <1>11, <2>2, <2>4, <2>5 DEF Types, Begin, cache, remote
<1>12. ASSUME NEW a \in Admins, SoftDelete(a)
       PROVE  Types'
  <2>1. admin[a] \in AdminState /\ [db.key EXCEPT ![admin[a].key] = "deleted"] \in [Keys -> KeyState]
    BY DEF Types, AdminState, KeyState
  <2>2. db' \in [key : [Keys -> KeyState], rev : Nat] /\ admin' \in [Admins -> AdminState]
    <3>1. CASE Commit(a, [db.key EXCEPT ![admin[a].key] = "deleted"],
                      IF admin[a].kind = "rotate" THEN "issue" ELSE "invalidate")
      BY <2>1, <3>1, CommitType
    <3>2. CASE admin' = [admin EXCEPT ![a].at = "invalidate"] /\ UNCHANGED db
      BY <3>2 DEF Types, AdminState
    <3>3. CASE Fail(a) /\ UNCHANGED db
      BY <3>3, FailType DEF Types
    <3> QED
      BY <1>12, <3>1, <3>2, <3>3 DEF SoftDelete
  <2> QED
    BY <1>12, <2>2 DEF Types, SoftDelete, cache, remote
<1>13. ASSUME NEW a \in Admins, Issue(a)
       PROVE  Types'
  <2>1. ASSUME NEW k PROVE [db.key EXCEPT ![k] = "active"] \in [Keys -> KeyState]
    BY DEF Types, KeyState
  <2>2. db' \in [key : [Keys -> KeyState], rev : Nat] /\ admin' \in [Admins -> AdminState]
    <3>1. CASE Commit(a, [db.key EXCEPT ![CHOOSE k \in Unissued : TRUE] = "active"], "invalidate")
      BY <2>1, <3>1, CommitType
    <3>2. CASE Fail(a) /\ UNCHANGED db
      BY <3>2, FailType DEF Types
    <3> QED
      BY <1>13, <3>1, <3>2 DEF Issue
  <2> QED
    BY <1>13, <2>2 DEF Types, Issue, cache, remote
<1>14. ASSUME NEW a \in Admins, Update(a)
       PROVE  Types'
  <2>1. db' \in [key : [Keys -> KeyState], rev : Nat] /\ admin' \in [Admins -> AdminState]
    <3>1. ASSUME NEW next \in {"create", "invalidate"}, Commit(a, db.key, next)
          PROVE  db' \in [key : [Keys -> KeyState], rev : Nat] /\ admin' \in [Admins -> AdminState]
      BY <3>1, CommitType DEF Types
    <3>2. CASE Fail(a) /\ UNCHANGED db
      BY <3>2, FailType DEF Types
    <3> QED
      BY <1>14, <3>1, <3>2 DEF Update
  <2> QED
    BY <1>14, <2>1 DEF Types, Update, cache, remote
<1>15. ASSUME NEW a \in Admins, CreateExternal(a)
       PROVE  Types'
  <2>1. db' \in [key : [Keys -> KeyState], rev : Nat] /\ admin' \in [Admins -> AdminState]
    <3>1. CASE Commit(a, db.key, "invalidate")
      BY <3>1, CommitType DEF Types
    <3>2. CASE Fail(a) /\ UNCHANGED db
      BY <3>2, FailType DEF Types
    <3> QED
      BY <1>15, <3>1, <3>2 DEF CreateExternal
  <2> QED
    BY <1>15, <2>1 DEF Types, CreateExternal, cache, remote
<1>16. ASSUME NEW a \in Admins, Invalidate(a)
       PROVE  Types'
  <2>1. Home[a] \in Replicas /\ index[Home[a]] \in SUBSET Keys /\ admin[a] \in AdminState
    BY KeyCacheAssumption DEF KeyCacheAssumption, Types
  <2>2. [admin[a] EXCEPT !.at = "evict", !.drained = index[Home[a]]] \in AdminState
    BY <2>1 DEF AdminState
  <2>3. admin' = [admin EXCEPT ![a] = [admin[a] EXCEPT !.at = "evict", !.drained = index[Home[a]]]]
    BY <1>16 DEF Invalidate
  <2>4. admin' \in [Admins -> AdminState]
    BY <2>2, <2>3 DEF Types
  <2> QED
    BY <1>16, <2>1, <2>4, OvertakeType DEF Types, Invalidate, remote
<1>17. ASSUME NEW a \in Admins, Evict(a)
       PROVE  Types'
  <2>1. PICK k \in admin[a].drained :
             /\ Remove(Home[a], k, verifier)
             /\ admin' = [admin EXCEPT ![a].drained = @ \ {k}]
    BY <1>17 DEF Evict
  <2>2. Home[a] \in Replicas /\ k \in Keys
    BY KeyCacheAssumption DEF KeyCacheAssumption, Types, AdminState
  <2>3. admin' \in [Admins -> AdminState]
    BY <2>1 DEF Types, AdminState
  <2> QED
    BY <1>17, <2>1, <2>2, <2>3, RemoveType DEF Types, Evict, remote
<1>18. ASSUME NEW a \in Admins, Return(a)
       PROVE  Types'
  BY <1>18, RestingType DEF Types, Return, cache
<1>19. ASSUME NEW r \in Replicas, Receive(r)
       PROVE  Types'
  <2>1. listener' \in [Replicas -> ListenerState]
    BY <1>19 DEF Receive, Types, ListenerState
  <2> QED
    BY <1>19, <2>1, OvertakeType DEF Types, Receive
<1>20. ASSUME NEW r \in Replicas, ListenerEvicts(r)
       PROVE  Types'
  <2>1. PICK k \in listener[r].drained :
             /\ Remove(r, k, verifier)
             /\ listener' = [listener EXCEPT ![r].drained = @ \ {k}]
    BY <1>20 DEF ListenerEvicts
  <2>2. k \in Keys
    BY DEF Types, ListenerState
  <2>3. listener' \in [Replicas -> ListenerState]
    BY <2>1 DEF Types, ListenerState
  <2> QED
    BY <1>20, <2>1, <2>2, <2>3, RemoveType DEF Types, ListenerEvicts
<1>21. ASSUME NEW r \in Replicas, Ack(r)
       PROVE  Types'
  BY <1>21 DEF Types, Ack, ListenerState, cache
<1>22. ASSUME NEW r \in Replicas, NEW k \in Keys, CleanUp(r, k) \/ MakeRoom(r, k)
       PROVE  Types'
  <2>1. Remove(r, k, verifier) /\ UNCHANGED <<db, negative, admin, remote, changes>>
    BY <1>22 DEF CleanUp, MakeRoom
  <2> QED
    BY <2>1, RemoveType DEF Types, remote
<1> QED
  BY <1>1, <1>2, <1>3, <1>4, <1>5, <1>6, <1>7, <1>8, <1>9, <1>10, <1>11, <1>12, <1>13, <1>14,
     <1>15, <1>16, <1>17, <1>18, <1>19, <1>20, <1>21, <1>22
     DEF Next, Cache, Fill, Administer, Listen

LEMMA TypesInit == Init => Types
<1> SUFFICES ASSUME Init PROVE Types
  OBVIOUS
<1>1. [k \in {} |-> 0] \in Entries
  BY DEF Entries
<1>2. positive \in [Replicas -> Entries]
  BY <1>1 DEF Init
<1>3. changes \in 0..MaxChanges
  BY KeyCacheAssumption DEF Init, KeyCacheAssumption
<1>4. db \in [key : [Keys -> KeyState], rev : Nat]
  BY DEF Init, KeyState
<1> QED
  BY <1>2, <1>3, <1>4, WaitingType, RestingType DEF Init, Types, ListenerState

LEMMA TypesHold == Spec => []Types
  BY TypesInit, TypesNext, PTL DEF Spec

-----------------------------------------------------------------------------
(* The index of a replica.                                                 *)

\* The lookup t of a replica has indexed its key and not yet cached it.
Adding(t, r, k) == Home[t] = r /\ verifier[t].key = k /\ verifier[t].at = "add"

\* An indexed key is cached, or the section of Set that indexed it is
\* followed by the one that caches it.
IndexedIsAdded ==
  \A r \in Replicas : \A k \in index[r] :
    k \in DOMAIN positive[r] \/ \E t \in Verifiers : Adding(t, r, k)

\* A removal from the LRU takes the key from the index.
LEMMA RemovalsKeepIndexed ==
  ASSUME Types, IndexedIsAdded, NEW r \in Replicas, NEW k \in Keys, NEW vs, Remove(r, k, vs),
         NEW q \in Replicas, NEW x \in index'[q]
  PROVE  x \in DOMAIN positive'[q] \/ \E t \in Verifiers : Adding(t, q, x)
<1>1. index'[q] \subseteq index[q]
  BY DEF Remove, Types
<1>2. DOMAIN positive'[q] = IF q = r THEN DOMAIN positive[q] \ {k} ELSE DOMAIN positive[q]
  BY DEF Remove, Types, Without
<1>3. q = r /\ k \in DOMAIN positive[r] => index'[q] = index[q] \ {k}
  BY DEF Remove, Types
<1> QED
  BY <1>1, <1>2, <1>3 DEF IndexedIsAdded

LEMMA IndexedNext ==
  ASSUME Types, IndexedIsAdded, [Next]_vars
  PROVE  IndexedIsAdded'
<1> USE KeyCacheAssumption DEF KeyCacheAssumption
<1>0. Types'
  BY TypesNext
<1> SUFFICES ASSUME NEW q \in Replicas, NEW x \in index'[q], x \notin DOMAIN positive'[q]
             PROVE  \E u \in Verifiers : Adding(u, q, x)'
  BY DEF IndexedIsAdded
<1>1. ASSUME index' = index, positive' = positive,
             \A u \in Verifiers : Adding(u, q, x) => Adding(u, q, x)'
      PROVE  \E u \in Verifiers : Adding(u, q, x)'
  BY <1>1 DEF IndexedIsAdded
<1>2. ASSUME NEW r \in Replicas, NEW k \in Keys, NEW vs \in [Verifiers -> VerifierState],
             Remove(r, k, vs),
             \A u \in Verifiers : Adding(u, q, x) => vs[u].at = "add" /\ vs[u].key = x
      PROVE  \E u \in Verifiers : Adding(u, q, x)'
  <2>1. PICK u \in Verifiers : Adding(u, q, x)
    BY <1>2, RemovalsKeepIndexed
  <2>2. verifier'[u].at = vs[u].at /\ verifier'[u].key = vs[u].key
    BY <1>2, BareKeeps DEF Remove
  <2>3. Adding(u, q, x)'
    BY <1>2, <2>1, <2>2 DEF Adding
  <2> QED
    BY <2>3
<1>3. ASSUME NEW r \in Replicas, Overtake(r)
      PROVE  \E u \in Verifiers : Adding(u, q, x)'
  <2>1. q # r /\ x \in index[q] /\ x \notin DOMAIN positive[q]
    BY <1>3 DEF Overtake, Types
  <2>2. PICK u \in Verifiers : Adding(u, q, x)
    BY <2>1 DEF IndexedIsAdded
  <2>3. Adding(u, q, x)'
    BY <1>3, <2>1, <2>2 DEF Adding, Overtake, Types, VerifierState
  <2> QED
    BY <2>3
<1>4. CASE UNCHANGED vars
  BY <1>1, <1>4 DEF vars, cache, Adding
<1>22. ASSUME NEW r \in Replicas, NEW k \in Keys, Remove(r, k, verifier)
       PROVE  \E u \in Verifiers : Adding(u, q, x)'
  BY <1>2, <1>22 DEF Adding, Types
<1>5. ASSUME NEW r \in Replicas, NEW k \in Keys, Expire(r, k) \/ CleanUp(r, k) \/ MakeRoom(r, k)
      PROVE  \E u \in Verifiers : Adding(u, q, x)'
  <2>1. CASE Expire(r, k)
    <3>1. index' = index /\ DOMAIN positive'[q] = DOMAIN positive[q] /\ verifier' = verifier
      BY <2>1 DEF Expire, Types
    <3> QED
      BY <3>1 DEF IndexedIsAdded, Adding
  <2> QED
    BY <1>5, <1>22, <2>1 DEF CleanUp, MakeRoom
<1>6. ASSUME NEW r \in Replicas, NEW k \in Keys, ForgetBad(r, k)
      PROVE  \E u \in Verifiers : Adding(u, q, x)'
  BY <1>1, <1>6 DEF ForgetBad, Adding
<1>7. ASSUME NEW t \in Verifiers, NEW k \in Keys, Lookup(t, k)
      PROVE  \E u \in Verifiers : Adding(u, q, x)'
  BY <1>1, <1>7 DEF Lookup, Adding, At, cache, Types, VerifierState
<1>8. ASSUME NEW t \in Verifiers, Read(t)
      PROVE  \E u \in Verifiers : Adding(u, q, x)'
  BY <1>1, <1>8 DEF Read, Adding, At, Goto, Done, cache, Types, VerifierState
<1>9. ASSUME NEW t \in Verifiers, RememberBad(t)
      PROVE  \E u \in Verifiers : Adding(u, q, x)'
  BY <1>1, <1>9 DEF RememberBad, Adding, At, Done, Types, VerifierState
<1>10. ASSUME NEW t \in Verifiers, SetIndex(t)
       PROVE  \E u \in Verifiers : Adding(u, q, x)'
  <2>1. q = Home[t] /\ x = verifier[t].key => Adding(t, q, x)'
    BY <1>10 DEF SetIndex, Adding, Types, VerifierState
  <2>2. ASSUME NEW u \in Verifiers, Adding(u, q, x)
        PROVE  Adding(u, q, x)'
    BY <1>10, <2>2 DEF SetIndex, Adding, At, Types, VerifierState
  <2>3. x \in index[q] \/ (q = Home[t] /\ x = verifier[t].key)
    BY <1>10 DEF SetIndex, Types
  <2>4. CASE x \in index[q]
    BY <1>10, <2>2, <2>4 DEF SetIndex, IndexedIsAdded
  <2>5. CASE q = Home[t] /\ x = verifier[t].key
    BY <2>1, <2>5
  <2> QED
    BY <2>3, <2>4, <2>5
<1>11. ASSUME NEW t \in Verifiers, SetAdd(t)
       PROVE  \E u \in Verifiers : Adding(u, q, x)'
  <2>1. DOMAIN positive'[q] = IF q = Home[t] THEN DOMAIN positive[q] \cup {verifier[t].key}
                              ELSE DOMAIN positive[q]
    BY <1>11 DEF SetAdd, With, Types
  <2>2. PICK u \in Verifiers : Adding(u, q, x)
    BY <1>11, <2>1 DEF SetAdd, IndexedIsAdded
  <2>3. u # t
    BY <2>1, <2>2 DEF Adding
  <2>4. Adding(u, q, x)'
    BY <1>11, <2>2, <2>3 DEF SetAdd, Adding, Types
  <2> QED
    BY <2>4
<1>12. ASSUME NEW t \in Verifiers, SetCheck(t)
       PROVE  \E u \in Verifiers : Adding(u, q, x)'
  <2>1. x \in index[q] /\ DOMAIN positive'[q] = DOMAIN positive[q]
    BY <1>12 DEF SetCheck, BareEntry, Types
  <2>2. PICK u \in Verifiers : Adding(u, q, x)
    BY <2>1 DEF IndexedIsAdded
  <2>3. u # t
    BY <1>12, <2>2 DEF Adding, SetCheck, At
  <2>4. Adding(u, q, x)'
    <3>1. [verifier EXCEPT ![t].at = "remove"] \in [Verifiers -> VerifierState]
      BY DEF Types, VerifierState
    <3>2. verifier'[u].at = verifier[u].at /\ verifier'[u].key = verifier[u].key
      <4>1. CASE verifier' = Bare(Home[t], verifier[t].key, [verifier EXCEPT ![t].at = "remove"])
        <5> DEFINE vs == [verifier EXCEPT ![t].at = "remove"]
        <5>1. verifier'[u].at = vs[u].at /\ verifier'[u].key = vs[u].key
          <6>1. vs \in [Verifiers -> VerifierState] /\ verifier' = Bare(Home[t], verifier[t].key, vs)
            BY <3>1, <4>1
          <6> HIDE DEF vs
          <6> QED
            BY <6>1, BareKeeps
        <5> QED
          BY <2>3, <5>1 DEF Types
      <4>2. CASE Done(t)
        BY <2>3, <4>2 DEF Done, Types
      <4> QED
        BY <1>12, <4>1, <4>2 DEF SetCheck
    <3> QED
      BY <2>2, <3>2 DEF Adding
  <2> QED
    BY <2>4
<1>13. ASSUME NEW t \in Verifiers, SetRemove(t)
       PROVE  \E u \in Verifiers : Adding(u, q, x)'
  <2>1. Home[t] \in Replicas /\ verifier[t].key \in Keys
    BY DEF Types, VerifierState
  <2>2. ASSUME NEW u \in Verifiers, Adding(u, q, x)
        PROVE  u # t
    BY <1>13, <2>2 DEF SetRemove, Adding, At
  <2>3. [verifier EXCEPT ![t] = Waiting] \in [Verifiers -> VerifierState]
    BY WaitingType DEF Types
  <2> QED
    BY <1>2, <1>13, <2>1, <2>2, <2>3 DEF SetRemove, Adding, Types
<1>14. ASSUME NEW a \in Admins, NEW kind \in Calls[a], NEW k \in Keys, Begin(a, kind, k)
       PROVE  \E u \in Verifiers : Adding(u, q, x)'
  BY <1>1, <1>14 DEF Begin, Adding, cache
<1>15. ASSUME NEW a \in Admins, SoftDelete(a) \/ Issue(a) \/ Update(a) \/ CreateExternal(a)
       PROVE  \E u \in Verifiers : Adding(u, q, x)'
  <2>1. UNCHANGED <<cache, verifier>>
    BY <1>15 DEF SoftDelete, Issue, Update, CreateExternal
  <2> QED
    BY <1>1, <2>1 DEF Adding, cache
<1>16. ASSUME NEW a \in Admins, Invalidate(a)
       PROVE  \E u \in Verifiers : Adding(u, q, x)'
  BY <1>3, <1>16 DEF Invalidate
<1>17. ASSUME NEW a \in Admins, Evict(a)
       PROVE  \E u \in Verifiers : Adding(u, q, x)'
  <2>1. PICK k \in admin[a].drained : Remove(Home[a], k, verifier)
    BY <1>17 DEF Evict
  <2>2. k \in Keys
    BY DEF Types, AdminState
  <2> QED
    BY <1>22, <2>1, <2>2
<1>18. ASSUME NEW a \in Admins, Return(a)
       PROVE  \E u \in Verifiers : Adding(u, q, x)'
  BY <1>1, <1>18 DEF Return, Adding, cache
<1>19. ASSUME NEW r \in Replicas, Receive(r)
       PROVE  \E u \in Verifiers : Adding(u, q, x)'
  BY <1>3, <1>19 DEF Receive
<1>20. ASSUME NEW r \in Replicas, ListenerEvicts(r)
       PROVE  \E u \in Verifiers : Adding(u, q, x)'
  <2>1. PICK k \in listener[r].drained : Remove(r, k, verifier)
    BY <1>20 DEF ListenerEvicts
  <2>2. k \in Keys
    BY DEF Types, ListenerState
  <2> QED
    BY <1>22, <2>1, <2>2
<1>21. ASSUME NEW r \in Replicas, Ack(r)
       PROVE  \E u \in Verifiers : Adding(u, q, x)'
  BY <1>1, <1>21 DEF Ack, Adding, cache
<1> QED
  BY <1>4, <1>5, <1>6, <1>7, <1>8, <1>9, <1>10, <1>11, <1>12, <1>13, <1>14,
     <1>15, <1>16, <1>17, <1>18, <1>19, <1>20, <1>21
     DEF Next, Cache, Fill, Administer, Listen

\* The index never grows with the keys that come and go: on every replica an
\* indexed key is cached, or a lookup that is filling the cache with it runs.
THEOREM IndexedIsCachedAlways == Spec => []IndexedIsCached
<1>1. Init => IndexedIsAdded
  BY DEF Init, IndexedIsAdded
<1>2. IndexedIsAdded => IndexedIsCached
  BY DEF IndexedIsAdded, IndexedIsCached, Adding, Setting
<1>3. Types /\ IndexedIsAdded /\ [Next]_vars => IndexedIsAdded'
  BY IndexedNext
<1> QED
  BY <1>1, <1>2, <1>3, TypesHold, PTL DEF Spec

-----------------------------------------------------------------------------
(* Rotations.                                                              *)

Active == {k \in Keys : db.key[k] = "active"}
Issuing == {a \in Admins : admin[a].at = "issue"}

\* A rotation that has deleted a key and not yet issued another holds the
\* place of its successor.
PlacesKept == Cardinality(Active) + Cardinality(Issuing) <= Cardinality(Issued)

LEMMA FiniteKeys ==
  /\ IsFiniteSet(Active) /\ Cardinality(Active) \in Nat
  /\ IsFiniteSet(Issuing) /\ Cardinality(Issuing) \in Nat
  /\ Cardinality(Issued) \in Nat
<1>1. IsFiniteSet(Keys) /\ IsFiniteSet(Admins) /\ Issued \subseteq Keys
  BY KeyCacheAssumption DEF KeyCacheAssumption
<1>2. IsFiniteSet(Active) /\ IsFiniteSet(Issuing) /\ IsFiniteSet(Issued)
  BY <1>1, FS_Subset DEF Active, Issuing
<1> QED
  BY <1>2, FS_CardinalityType

\* Of no more active keys and no more rotations in between there are no more.
LEMMA FewerPlaces ==
  ASSUME PlacesKept, Active' \subseteq Active, Issuing' \subseteq Issuing
  PROVE  PlacesKept'
<1>1. Cardinality(Active') <= Cardinality(Active) /\ Cardinality(Issuing') <= Cardinality(Issuing)
  BY FiniteKeys, FS_Subset
<1>2. Cardinality(Active') \in Nat /\ Cardinality(Issuing') \in Nat
  BY FiniteKeys, FS_Subset, FS_CardinalityType
<1> QED
  BY <1>1, <1>2, FiniteKeys DEF PlacesKept

LEMMA PlacesNext ==
  ASSUME Types, PlacesKept, [Next]_vars
  PROVE  PlacesKept'
<1> USE KeyCacheAssumption DEF KeyCacheAssumption
<1>1. ASSUME db' = db, admin' = admin
      PROVE  PlacesKept'
  BY <1>1 DEF PlacesKept, Active, Issuing
<1>2. ASSUME NEW a \in Admins, db' = db, NEW s, s.at # "issue", admin' = [admin EXCEPT ![a] = s]
      PROVE  PlacesKept'
  <2>1. Active' \subseteq Active /\ Issuing' \subseteq Issuing
    BY <1>2 DEF Active, Issuing, Types
  <2> QED
    BY <2>1, FewerPlaces
<1>3. ASSUME NEW a \in Admins, UNCHANGED db, Fail(a)
      PROVE  PlacesKept'
  <2>1. Resting.at # "issue"
    BY DEF Resting
  <2> QED
    BY <1>2, <1>3, <2>1 DEF Fail
<1>4. ASSUME NEW a \in Admins, SoftDelete(a)
      PROVE  PlacesKept'
  <2> DEFINE k == admin[a].key
  <2>0. k \in Keys
    BY DEF Types, AdminState
  <2>1. CASE /\ db.key[k] = "active"
             /\ Commit(a, [db.key EXCEPT ![k] = "deleted"],
                       IF admin[a].kind = "rotate" THEN "issue" ELSE "invalidate")
    <3>1. Active' = Active \ {k} /\ k \in Active
      BY <2>0, <2>1 DEF Commit, Active, Types
    <3>2. Issuing' \subseteq Issuing \cup {a}
      BY <2>1 DEF Commit, Issuing, Types, AdminState
    <3>3. Cardinality(Active') = Cardinality(Active) - 1
      BY <3>1, FiniteKeys, FS_RemoveElement
    <3>4. IsFiniteSet(Issuing \cup {a}) /\ Cardinality(Issuing \cup {a}) <= Cardinality(Issuing) + 1
      <4>1. IsFiniteSet(Issuing \cup {a})
        BY FiniteKeys, FS_AddElement
      <4>2. \/ Cardinality(Issuing \cup {a}) = Cardinality(Issuing)
            \/ Cardinality(Issuing \cup {a}) = Cardinality(Issuing) + 1
        BY FiniteKeys, FS_AddElement, Zenon
      <4> QED
        BY <4>1, <4>2, FiniteKeys
    <3>5. Cardinality(Issuing') <= Cardinality(Issuing \cup {a}) /\ Cardinality(Issuing') \in Nat
      BY <3>2, <3>4, FS_Subset, FS_CardinalityType
    <3> QED
      BY <3>3, <3>4, <3>5, FiniteKeys, FS_CardinalityType DEF PlacesKept
  <2>2. CASE admin' = [admin EXCEPT ![a].at = "invalidate"] /\ UNCHANGED db
    <3>1. Active' \subseteq Active /\ Issuing' \subseteq Issuing
      BY <2>2 DEF Active, Issuing, Types, AdminState
    <3> QED
      BY <3>1, FewerPlaces
  <2>3. CASE Fail(a) /\ UNCHANGED db
    BY <1>3, <2>3
  <2> QED
    BY <1>4, <2>1, <2>2, <2>3 DEF SoftDelete
<1>5. ASSUME NEW a \in Admins, Issue(a)
      PROVE  PlacesKept'
  <2> DEFINE k == CHOOSE k \in Unissued : TRUE
  <2>1. CASE Unissued # {} /\ Commit(a, [db.key EXCEPT ![k] = "active"], "invalidate")
    <3>1. k \in Keys /\ k \notin Active
      BY <2>1 DEF Unissued, Active
    <3>2. db'.key = [db.key EXCEPT ![k] = "active"]
      BY <2>1 DEF Commit
    <3> HIDE DEF k
    <3>3. Active' = Active \cup {k}
      BY <3>1, <3>2 DEF Active, Types
    <3>4. Issuing' = Issuing \ {a} /\ a \in Issuing
      BY <1>5, <2>1 DEF Issue, On, Commit, Issuing, Types, AdminState
    <3>5. Cardinality(Active') = Cardinality(Active) + 1
      BY <3>1, <3>3, FiniteKeys, FS_AddElement
    <3>6. Cardinality(Issuing') = Cardinality(Issuing) - 1
      BY <3>4, FiniteKeys, FS_RemoveElement
    <3> QED
      BY <3>5, <3>6, FiniteKeys DEF PlacesKept
  <2>2. CASE Fail(a) /\ UNCHANGED db
    BY <1>3, <2>2
  <2> QED
    BY <1>5, <2>1, <2>2 DEF Issue
<1>6. ASSUME NEW a \in Admins, NEW pc \in {"create", "invalidate"}, Commit(a, db.key, pc)
      PROVE  PlacesKept'
  <2>1. Active' \subseteq Active
    BY <1>6 DEF Commit, Active
  <2>2. Issuing' \subseteq Issuing
    BY <1>6 DEF Commit, Issuing, Types, AdminState
  <2> QED
    BY <2>1, <2>2, FewerPlaces
<1>7. ASSUME NEW a \in Admins, Update(a) \/ CreateExternal(a)
      PROVE  PlacesKept'
  BY <1>3, <1>6, <1>7 DEF Update, CreateExternal
<1>8. ASSUME NEW a \in Admins, UNCHANGED db, \A b \in Admins \ {a} : admin'[b].at = admin[b].at,
             admin'[a].at # "issue"
      PROVE  PlacesKept'
  <2>1. Active' \subseteq Active /\ Issuing' \subseteq Issuing
    BY <1>8 DEF Active, Issuing
  <2> QED
    BY <2>1, FewerPlaces
<1>9. ASSUME NEW a \in Admins, NEW kind \in Calls[a], NEW k \in Keys, Begin(a, kind, k)
      PROVE  PlacesKept'
  <2>1. /\ \A b \in Admins \ {a} : admin'[b].at = admin[b].at
        /\ admin'[a].at # "issue"
    BY <1>9 DEF Begin, Types, AdminState
  <2> QED
    BY <1>8, <1>9, <2>1 DEF Begin
<1>10. ASSUME NEW a \in Admins, Invalidate(a)
       PROVE  PlacesKept'
  <2>1. /\ \A b \in Admins \ {a} : admin'[b].at = admin[b].at
        /\ admin'[a].at # "issue"
    BY <1>10 DEF Invalidate, Types, AdminState
  <2> QED
    BY <1>8, <1>10, <2>1 DEF Invalidate
<1>11. ASSUME NEW a \in Admins, Evict(a)
       PROVE  PlacesKept'
  <2>1. /\ \A b \in Admins \ {a} : admin'[b].at = admin[b].at
        /\ admin'[a].at # "issue"
    BY <1>11 DEF Evict, On, Types, AdminState
  <2> QED
    BY <1>8, <1>11, <2>1 DEF Evict
<1>12. ASSUME NEW a \in Admins, Return(a)
       PROVE  PlacesKept'
  <2>1. Resting.at # "issue"
    BY DEF Resting
  <2> QED
    BY <1>2, <1>12, <2>1 DEF Return
<1>13. ASSUME NEW t \in Verifiers, NEW k \in Keys, Lookup(t, k) \/ Fill(t)
       PROVE  PlacesKept'
  BY <1>1, <1>13 DEF Lookup, Fill, Read, RememberBad, SetIndex, SetAdd, SetCheck, SetRemove
<1>14. ASSUME NEW r \in Replicas, Cache(r) \/ Listen(r)
       PROVE  PlacesKept'
  BY <1>1, <1>14 DEF Cache, Expire, CleanUp, MakeRoom, ForgetBad, Listen, Receive,
                     ListenerEvicts, Ack
<1>15. CASE UNCHANGED vars
  BY <1>1, <1>15 DEF vars
<1>16. \E k : k \in Keys
  OBVIOUS
<1> QED
  BY <1>4, <1>5, <1>7, <1>9, <1>10, <1>11, <1>12, <1>13, <1>14, <1>15, <1>16 DEF Next, Administer

\* Whatever rotates, on any replicas at once, and wherever a rotation fails,
\* the active keys never outnumber those there were at first: two rotations of
\* one key do not both issue a successor.
THEOREM OneSuccessorAlways == Spec => []OneSuccessor
<1>1. Init => PlacesKept
  <2> SUFFICES ASSUME Init PROVE PlacesKept
    OBVIOUS
  <2>1. Active = Issued
    BY KeyCacheAssumption DEF Init, Active, KeyCacheAssumption
  <2>2. Issuing = {}
    BY DEF Init, Issuing, Resting
  <2> QED
    BY <2>1, <2>2, FiniteKeys, FS_EmptySet DEF PlacesKept
<1>2. PlacesKept => OneSuccessor
  BY FiniteKeys DEF PlacesKept, OneSuccessor, Active
<1>3. Types /\ PlacesKept /\ [Next]_vars => PlacesKept'
  BY PlacesNext
<1> QED
  BY <1>1, <1>2, <1>3, TypesHold, PTL DEF Spec

-----------------------------------------------------------------------------
(* The race of Set with an invalidation.                                   *)

\* The last sections of a Set that an invalidation came into.
Cleaning(t, r, k) ==
  /\ Home[t] = r /\ verifier[t].key = k
  /\ verifier[t].at \in {"check", "remove"} /\ verifier[t].overtaken

\* Someone is going to take the entry of k out, or knows that it is there.
Known(r, k) ==
  \/ positive[r][k].bared
  \/ Evicting(r, k)
  \/ \E t \in Verifiers : Cleaning(t, r, k)
  \/ k \in index[r] /\ ~positive[r][k].overtaken

EntriesKnown == \A r \in Replicas : \A k \in DOMAIN positive[r] : Known(r, k)

\* The same of the entry that a Set is about to add.
SlotsKnown ==
  \A t \in Verifiers :
    verifier[t].at = "add" => \/ verifier[t].overtaken \/ verifier[t].bared
                              \/ verifier[t].key \in index[Home[t]]

\* The eviction list of an invalidation is empty until it is drawn up.
NothingDrained ==
  /\ \A a \in Admins : admin[a].at # "evict" => admin[a].drained = {}
  /\ \A r \in Replicas : ~listener[r].busy => listener[r].drained = {}

LEMMA KnownIsEnough == EntriesKnown => OnlyBaredOutliveInvalidation
  BY DEF EntriesKnown, Known, Cleaning, Setting, OnlyBaredOutliveInvalidation

\* What is on its way to be evicted stays so while no list is replaced.
EvictionsGoOn(r, k) == Evicting(r, k) => Evicting(r, k)'

\* A removal does no harm to the entries that are left.
LEMMA RemovalsKeepKnown ==
  ASSUME Types, EntriesKnown, SlotsKnown, NEW r \in Replicas, NEW k \in Keys,
         NEW vs \in [Verifiers -> VerifierState], Remove(r, k, vs),
         \A q \in Replicas, x \in Keys : <<q, x>> # <<r, k>> => EvictionsGoOn(q, x),
         \A t \in Verifiers : \/ vs[t] = verifier[t]
                              \/ vs[t].at = "idle" /\ Home[t] = r /\ verifier[t].key = k
  PROVE  EntriesKnown' /\ SlotsKnown'
<1> USE KeyCacheAssumption DEF KeyCacheAssumption
<1>1. ASSUME NEW q \in Replicas, NEW x \in DOMAIN positive'[q]
      PROVE  Known(q, x)'
  <2>1. /\ x \in DOMAIN positive[q] /\ positive'[q][x] = positive[q][x]
        /\ q = r => x # k \/ k \notin DOMAIN positive[r]
    BY <1>1 DEF Remove, Types, Without
  <2>2. Known(q, x) /\ x \in Keys
    BY <2>1, EntriesClosed DEF EntriesKnown, Types
  <2>3. <<q, x>> # <<r, k>>
    BY <2>1
  <2>4. CASE positive[q][x].bared
    BY <2>1, <2>4 DEF Known
  <2>5. CASE Evicting(q, x)
    BY <2>2, <2>3, <2>5 DEF Known, EvictionsGoOn
  <2>6. CASE \E t \in Verifiers : Cleaning(t, q, x)
    <3>1. PICK t \in Verifiers : Cleaning(t, q, x)
      BY <2>6
    <3>2. vs[t] = verifier[t]
      BY <2>3, <3>1 DEF Cleaning
    <3>3. /\ verifier'[t].at = vs[t].at /\ verifier'[t].key = vs[t].key
          /\ verifier'[t].overtaken = vs[t].overtaken
      BY BareKeeps DEF Remove
    <3>4. Cleaning(t, q, x)'
      BY <3>1, <3>2, <3>3 DEF Cleaning
    <3> QED
      BY <3>4 DEF Known
  <2>7. CASE x \in index[q] /\ ~positive[q][x].overtaken
    <3>1. x \in index'[q]
      BY <2>1, <2>3, <2>7 DEF Remove, Types
    <3> QED
      BY <2>1, <2>7, <3>1 DEF Known
  <2> QED
    BY <2>2, <2>4, <2>5, <2>6, <2>7 DEF Known
<1>2. ASSUME NEW t \in Verifiers, verifier'[t].at = "add"
      PROVE  \/ verifier'[t].overtaken \/ verifier'[t].bared
             \/ verifier'[t].key \in index'[Home[t]]
  <2>1. /\ verifier'[t].at = vs[t].at /\ verifier'[t].key = vs[t].key
        /\ verifier'[t].overtaken = vs[t].overtaken
        /\ vs[t].bared => verifier'[t].bared
    BY BareKeeps DEF Remove
  <2>2. vs[t] = verifier[t]
    BY <1>2, <2>1
  <2>3. CASE verifier[t].overtaken \/ verifier[t].bared
    BY <2>1, <2>2, <2>3
  <2>4. CASE verifier[t].key \in index[Home[t]] /\ Home[t] = r /\ verifier[t].key = k
    <3>1. CASE k \in DOMAIN positive[r]
      BY <1>2, <2>1, <2>2, <2>4, <3>1, BareKeeps DEF Remove
    <3>2. CASE k \notin DOMAIN positive[r]
      BY <2>1, <2>2, <2>4, <3>2 DEF Remove
    <3> QED
      BY <3>1, <3>2
  <2>5. CASE verifier[t].key \in index[Home[t]] /\ ~(Home[t] = r /\ verifier[t].key = k)
    <3>1. verifier[t].key \in index'[Home[t]]
      BY <2>5 DEF Remove, Types
    <3> QED
      BY <2>1, <2>2, <3>1
  <2> QED
    BY <1>2, <2>1, <2>2, <2>3, <2>4, <2>5 DEF SlotsKnown
<1> QED
  BY <1>1, <1>2 DEF EntriesKnown, SlotsKnown

\* An invalidation puts what was indexed on the list of entries to evict.
LEMMA OvertakingKeepsKnown ==
  ASSUME Types, EntriesKnown, SlotsKnown, NEW r \in Replicas, Overtake(r),
         \A q \in Replicas, x \in Keys : EvictionsGoOn(q, x),
         \A x \in index[r] : Evicting(r, x)'
  PROVE  EntriesKnown' /\ SlotsKnown'
<1>1. ASSUME NEW q \in Replicas, NEW x \in DOMAIN positive'[q]
      PROVE  Known(q, x)'
  <2>1. /\ x \in DOMAIN positive[q] /\ positive'[q][x].bared = positive[q][x].bared
        /\ q # r => positive'[q][x] = positive[q][x] /\ index'[q] = index[q]
    <3>1. positive[q] \in Entries
      BY DEF Types
    <3>2. CASE q = r
      <4>1. positive'[q] = [k \in DOMAIN positive[q] |-> [positive[q][k] EXCEPT !.overtaken = TRUE]]
        BY <3>2 DEF Overtake, Types
      <4>2. x \in DOMAIN positive[q] /\ positive[q][x] \in Entry
        BY <3>1, <4>1, EntriesClosed
      <4> QED
        BY <3>2, <4>1, <4>2 DEF Entry
    <3>3. CASE q # r
      BY <3>3 DEF Overtake, Types
    <3> QED
      BY <3>2, <3>3
  <2>2. Known(q, x) /\ x \in Keys
    BY <2>1, EntriesClosed DEF EntriesKnown, Types
  <2>3. CASE positive[q][x].bared
    BY <2>1, <2>3 DEF Known
  <2>4. CASE Evicting(q, x)
    BY <2>2, <2>4 DEF Known, EvictionsGoOn
  <2>5. CASE \E t \in Verifiers : Cleaning(t, q, x)
    <3>1. PICK t \in Verifiers : Cleaning(t, q, x)
      BY <2>5
    <3>2. Cleaning(t, q, x)'
      BY <3>1 DEF Cleaning, Overtake, Types, VerifierState
    <3> QED
      BY <3>2 DEF Known
  <2>6. CASE x \in index[q] /\ ~positive[q][x].overtaken
    BY <2>1, <2>6 DEF Known
  <2> QED
    BY <2>2, <2>3, <2>4, <2>5, <2>6 DEF Known
<1>2. ASSUME NEW t \in Verifiers, verifier'[t].at = "add"
      PROVE  \/ verifier'[t].overtaken \/ verifier'[t].bared
             \/ verifier'[t].key \in index'[Home[t]]
  <2>1. CASE Home[t] = r
    BY <1>2, <2>1 DEF Overtake, Types, VerifierState
  <2>2. CASE Home[t] # r
    <3>1. verifier'[t] = verifier[t] /\ index'[Home[t]] = index[Home[t]]
      BY <2>2, KeyCacheAssumption DEF Overtake, Types, KeyCacheAssumption
    <3> QED
      BY <1>2, <3>1 DEF SlotsKnown
  <2> QED
    BY <2>1, <2>2
<1> QED
  BY <1>1, <1>2 DEF EntriesKnown, SlotsKnown

\* A step that leaves the cache alone, and the requests but for one that is
\* not between the sections of Set, does no harm.
LEMMA OthersKeepKnown ==
  ASSUME Types, EntriesKnown, SlotsKnown, positive' = positive, index' = index,
         \A q \in Replicas, x \in Keys : EvictionsGoOn(q, x),
         \A t \in Verifiers : \/ verifier'[t] = verifier[t]
                              \/ /\ verifier'[t].at # "add"
                                 /\ \A q, x : ~Cleaning(t, q, x)
  PROVE  EntriesKnown' /\ SlotsKnown'
<1>1. ASSUME NEW q \in Replicas, NEW x \in DOMAIN positive[q]
      PROVE  Known(q, x)'
  <2>1. Known(q, x) /\ x \in Keys
    BY EntriesClosed DEF EntriesKnown, Types
  <2>2. ASSUME NEW t \in Verifiers, Cleaning(t, q, x)
        PROVE  Cleaning(t, q, x)'
    BY <2>2 DEF Cleaning
  <2> QED
    BY <2>1, <2>2 DEF Known, EvictionsGoOn
<1>2. SlotsKnown'
  BY DEF SlotsKnown
<1> QED
  BY <1>1, <1>2 DEF EntriesKnown

LEMMA SetAddKeepsKnown ==
  ASSUME Types, EntriesKnown, SlotsKnown, NEW t \in Verifiers, SetAdd(t)
  PROVE  EntriesKnown' /\ SlotsKnown'
<1> USE KeyCacheAssumption DEF KeyCacheAssumption
<1> DEFINE r == Home[t]
           k == verifier[t].key
<1>1. /\ verifier[t].at = "add" /\ verifier'[t].at = "check" /\ verifier'[t].key = k
      /\ verifier'[t].overtaken = verifier[t].overtaken
      /\ \A u \in Verifiers \ {t} : verifier'[u] = verifier[u]
      /\ index' = index
  BY DEF SetAdd, At, Types, VerifierState
<1>2. \A q, x : Evicting(q, x)' <=> Evicting(q, x)
  BY DEF SetAdd, Evicting, remote
<1>3. /\ k \in DOMAIN positive'[r]
      /\ positive'[r][k].overtaken = verifier[t].overtaken
      /\ verifier[t].bared => positive'[r][k].bared
      /\ \A q \in Replicas : \A x \in DOMAIN positive'[q] :
           <<q, x>> # <<r, k>> => x \in DOMAIN positive[q] /\ positive'[q][x] = positive[q][x]
  BY DEF SetAdd, With, Types
<1>4. Known(r, k)'
  <2>1. CASE verifier[t].overtaken
    <3>1. Cleaning(t, r, k)'
      BY <1>1, <2>1 DEF Cleaning
    <3> QED
      BY <3>1 DEF Known
  <2>2. CASE verifier[t].bared
    BY <1>1, <1>3, <2>2 DEF Known
  <2>3. CASE k \in index[r] /\ ~verifier[t].overtaken
    BY <1>1, <1>3, <2>3 DEF Known
  <2> QED
    BY <1>1, <2>1, <2>2, <2>3 DEF SlotsKnown
<1>5. ASSUME NEW q \in Replicas, NEW x \in DOMAIN positive'[q], <<q, x>> # <<r, k>>
      PROVE  Known(q, x)'
  <2>1. x \in DOMAIN positive[q] /\ positive'[q][x] = positive[q][x] /\ Known(q, x)
    BY <1>3, <1>5 DEF EntriesKnown
  <2>2. ASSUME NEW u \in Verifiers, Cleaning(u, q, x)
        PROVE  Cleaning(u, q, x)'
    <3>1. u # t
      BY <1>1, <2>2 DEF Cleaning
    <3> QED
      BY <1>1, <2>2, <3>1 DEF Cleaning
  <2> QED
    BY <1>1, <1>2, <2>1, <2>2 DEF Known
<1>6. SlotsKnown'
  BY <1>1 DEF SlotsKnown
<1> QED
  <2>1. ASSUME NEW q \in Replicas, NEW x \in DOMAIN positive'[q]
        PROVE  Known(q, x)'
    <3>1. CASE q = r /\ x = k
      BY <1>1, <1>4, <3>1
    <3>2. CASE ~(q = r /\ x = k)
      BY <1>5, <3>2
    <3> QED
      BY <3>1, <3>2
  <2> QED
    BY <1>6, <2>1 DEF EntriesKnown

\* The slot that a Set gives back bares the entry, whoever added it.
LEMMA SetCheckKeepsKnown ==
  ASSUME Types, EntriesKnown, SlotsKnown, NEW t \in Verifiers, SetCheck(t), verifier[t].overtaken
  PROVE  EntriesKnown' /\ SlotsKnown'
<1> USE KeyCacheAssumption DEF KeyCacheAssumption
<1> DEFINE r == Home[t]
           k == verifier[t].key
           vs == [verifier EXCEPT ![t].at = "remove"]
<1>1. /\ vs \in [Verifiers -> VerifierState] /\ verifier[t].at = "check"
      /\ vs[t].at = "remove" /\ vs[t].key = k /\ vs[t].overtaken
      /\ \A u \in Verifiers \ {t} : vs[u] = verifier[u]
  BY DEF SetCheck, At, Types, VerifierState
<1>2. index' = [index EXCEPT ![r] = @ \ {k}] /\ verifier' = Bare(r, k, vs)
  BY DEF SetCheck
<1>3. \A u \in Verifiers :
        /\ verifier'[u].at = vs[u].at /\ verifier'[u].key = vs[u].key
        /\ verifier'[u].overtaken = vs[u].overtaken
        /\ vs[u].bared => verifier'[u].bared
        /\ Home[u] = r /\ vs[u].key = k /\ vs[u].at = "add" /\ k \in index[r] => verifier'[u].bared
  <2> HIDE DEF vs
  <2> QED
    BY <1>1, <1>2, BareKeeps
<1>4. \A q, x : Evicting(q, x)' <=> Evicting(q, x)
  BY DEF SetCheck, Evicting, remote
<1>5. ASSUME NEW q \in Replicas, NEW x \in DOMAIN positive'[q]
      PROVE  /\ x \in DOMAIN positive[q] /\ positive[q][x] \in Entry
             /\ positive[q][x].bared => positive'[q][x].bared
             /\ positive'[q][x].overtaken = positive[q][x].overtaken
  <2>1. x \in DOMAIN positive[q]
    BY <1>5 DEF SetCheck, BareEntry, Types
  <2>2. positive[q][x] \in Entry
    BY <2>1, EntriesClosed DEF Types
  <2>3. positive'[q][x] = positive[q][x] \/ positive'[q][x] = [positive[q][x] EXCEPT !.bared = TRUE]
    BY <2>1 DEF SetCheck, BareEntry, Types
  <2> QED
    BY <2>1, <2>2, <2>3 DEF Entry
<1> HIDE DEF vs
<1>6. ASSUME NEW q \in Replicas, NEW x \in DOMAIN positive'[q]
      PROVE  Known(q, x)'
  <2>1. CASE q = r /\ x = k
    <3>1. Cleaning(t, q, x)'
      BY <1>1, <1>3, <2>1 DEF Cleaning
    <3> QED
      BY <3>1 DEF Known
  <2>2. CASE ~(q = r /\ x = k)
    <3>1. Known(q, x)
      BY <1>5, <1>6 DEF EntriesKnown
    <3>2. x \in index[q] => x \in index'[q]
      BY <1>2, <2>2 DEF Types
    <3>3. ASSUME NEW u \in Verifiers, Cleaning(u, q, x)
          PROVE  Cleaning(u, q, x)'
      <4>1. u # t
        BY <2>2, <3>3 DEF Cleaning
      <4> QED
        BY <1>1, <1>3, <3>3, <4>1 DEF Cleaning
    <3> QED
      BY <1>4, <1>5, <1>6, <3>1, <3>2, <3>3 DEF Known
  <2> QED
    BY <2>1, <2>2
<1>7. ASSUME NEW u \in Verifiers, verifier'[u].at = "add"
      PROVE  \/ verifier'[u].overtaken \/ verifier'[u].bared
             \/ verifier'[u].key \in index'[Home[u]]
  <2>1. vs[u].at = "add" /\ u # t
    BY <1>1, <1>3, <1>7
  <2>2. vs[u] = verifier[u]
    BY <1>1, <2>1
  <2>3. CASE verifier[u].overtaken \/ verifier[u].bared
    BY <1>3, <2>2, <2>3
  <2>4. CASE verifier[u].key \in index[Home[u]] /\ Home[u] = r /\ verifier[u].key = k
    BY <1>3, <2>1, <2>2, <2>4
  <2>5. CASE verifier[u].key \in index[Home[u]] /\ ~(Home[u] = r /\ verifier[u].key = k)
    <3>1. verifier[u].key \in index'[Home[u]]
      BY <1>2, <2>5 DEF Types
    <3> QED
      BY <1>3, <2>2, <3>1
  <2> QED
    BY <2>1, <2>2, <2>3, <2>4, <2>5 DEF SlotsKnown
<1> QED
  BY <1>6, <1>7 DEF EntriesKnown, SlotsKnown

\* Nothing is taken off the lists of keys to evict.
LEMMA SameLists ==
  ASSUME NothingDrained,
         \A a \in Admins : admin'[a].drained = admin[a].drained,
         \A a \in Admins :
           admin[a].at = "evict" => admin'[a].at = "evict" \/ admin[a].drained = {},
         \A r \in Replicas : listener'[r].drained = listener[r].drained,
         \A r \in Replicas : listener[r].busy => listener'[r].busy \/ listener[r].drained = {}
  PROVE  (\A q \in Replicas, x \in Keys : EvictionsGoOn(q, x)) /\ NothingDrained'
<1>1. ASSUME NEW q \in Replicas, NEW x \in Keys
      PROVE  EvictionsGoOn(q, x)
  BY DEF EvictionsGoOn, Evicting
<1>2. NothingDrained'
  BY DEF NothingDrained
<1> QED
  BY <1>1, <1>2

KnownInv == EntriesKnown /\ SlotsKnown /\ NothingDrained

LEMMA KnownNext == ASSUME Types, KnownInv, [Next]_vars PROVE KnownInv'
<1> USE KeyCacheAssumption DEF KeyCacheAssumption, KnownInv
<1> DEFINE GoOn == \A q \in Replicas, x \in Keys : EvictionsGoOn(q, x)
<1>1. UNCHANGED <<admin, listener>> => GoOn /\ NothingDrained'
  BY DEF EvictionsGoOn, Evicting, NothingDrained
<1>2. ASSUME UNCHANGED <<positive, index, verifier>>, GoOn, NothingDrained'
      PROVE  KnownInv'
  BY <1>2, OthersKeepKnown
<1>3. ASSUME NEW r \in Replicas, NEW k \in Keys, Remove(r, k, verifier), NothingDrained',
             \A q \in Replicas, x \in Keys : Evicting(q, x) => Evicting(q, x)' \/ (q = r /\ x = k)
      PROVE  KnownInv'
  <2>1. verifier \in [Verifiers -> VerifierState]
    BY DEF Types
  <2> QED
    BY <1>3, <2>1, RemovalsKeepKnown DEF EvictionsGoOn
<1>4. ASSUME NEW r \in Replicas, NEW k \in Keys, Expire(r, k)
      PROVE  KnownInv'
  <2>1. UNCHANGED <<admin, listener, verifier, index>>
    BY <1>4 DEF Expire, remote
  <2>2. ASSUME NEW q \in Replicas, NEW x \in DOMAIN positive'[q]
        PROVE  /\ x \in DOMAIN positive[q]
               /\ positive'[q][x].overtaken = positive[q][x].overtaken
               /\ positive[q][x].bared => positive'[q][x].bared
    <3>1. x \in DOMAIN positive[q] /\ positive[q][x] \in Entry
      BY <1>4, EntriesClosed DEF Expire, Types
    <3>2. \/ positive'[q][x] = positive[q][x]
          \/ positive'[q][x] = [positive[q][x] EXCEPT !.expired = TRUE, !.rev = 0]
      BY <1>4, <3>1 DEF Expire, Types
    <3> QED
      BY <3>1, <3>2 DEF Entry
  <2>3. EntriesKnown'
    <3> SUFFICES ASSUME NEW q \in Replicas, NEW x \in DOMAIN positive'[q]
                 PROVE  Known(q, x)'
      BY DEF EntriesKnown
    <3>1. Known(q, x)
      BY <2>2 DEF EntriesKnown
    <3>2. \A t \in Verifiers : Cleaning(t, q, x)' <=> Cleaning(t, q, x)
      BY <2>1 DEF Cleaning
    <3>3. Evicting(q, x)' <=> Evicting(q, x)
      BY <2>1 DEF Evicting
    <3> QED
      BY <2>1, <2>2, <3>1, <3>2, <3>3 DEF Known
  <2>4. SlotsKnown'
    BY <2>1 DEF SlotsKnown
  <2> QED
    BY <1>1, <2>1, <2>3, <2>4
<1>5. ASSUME NEW r \in Replicas, NEW k \in Keys, CleanUp(r, k) \/ MakeRoom(r, k)
      PROVE  KnownInv'
  <2>1. Remove(r, k, verifier) /\ UNCHANGED <<admin, listener>>
    BY <1>5 DEF CleanUp, MakeRoom, remote
  <2> QED
    BY <1>1, <1>3, <2>1 DEF EvictionsGoOn
<1>6. ASSUME NEW r \in Replicas, NEW k \in Keys, ForgetBad(r, k)
      PROVE  KnownInv'
  BY <1>1, <1>2, <1>6 DEF ForgetBad, remote
<1>7. ASSUME NEW t \in Verifiers, UNCHANGED <<admin, listener, positive>>,
             verifier[t].at \notin {"check", "remove"} \/ ~verifier[t].overtaken,
             verifier'[t].at # "add", \A u \in Verifiers \ {t} : verifier'[u] = verifier[u],
             index' = index
      PROVE  KnownInv'
  <2>1. \A q, x : ~Cleaning(t, q, x)
    BY <1>7 DEF Cleaning
  <2> QED
    BY <1>1, <1>7, <2>1, OthersKeepKnown
<1>8. ASSUME NEW t \in Verifiers, NEW k \in Keys, Lookup(t, k)
      PROVE  KnownInv'
  <2>1. /\ verifier[t].at = "idle" /\ verifier'[t].at = "read"
        /\ \A u \in Verifiers \ {t} : verifier'[u] = verifier[u]
    BY <1>8 DEF Lookup, At, Types, VerifierState
  <2> QED
    BY <1>7, <1>8, <2>1 DEF Lookup, remote, cache
<1>9. ASSUME NEW t \in Verifiers, Read(t) \/ RememberBad(t)
      PROVE  KnownInv'
  <2>1. /\ verifier[t].at \in {"read", "refuse"} /\ verifier'[t].at \in {"index", "refuse", "idle"}
        /\ \A u \in Verifiers \ {t} : verifier'[u] = verifier[u]
    BY <1>9 DEF Read, RememberBad, At, Goto, Done, Waiting, Types, VerifierState
  <2> QED
    BY <1>7, <1>9, <2>1 DEF Read, RememberBad, remote, cache
<1>10. ASSUME NEW t \in Verifiers, SetIndex(t)
       PROVE  KnownInv'
  <2>1. /\ verifier[t].at = "index" /\ verifier'[t].key = verifier[t].key
        /\ verifier[t].key \in index'[Home[t]]
        /\ \A u \in Verifiers \ {t} : verifier'[u] = verifier[u]
        /\ \A q \in Replicas : index[q] \subseteq index'[q]
        /\ UNCHANGED <<admin, listener, positive>>
    BY <1>10 DEF SetIndex, At, remote, Types, VerifierState
  <2>2. SlotsKnown'
    BY <2>1 DEF SlotsKnown
  <2>3. EntriesKnown'
    <3> SUFFICES ASSUME NEW q \in Replicas, NEW x \in DOMAIN positive[q]
                 PROVE  Known(q, x)'
      BY <2>1 DEF EntriesKnown
    <3>1. Known(q, x)
      BY DEF EntriesKnown
    <3>2. \A u \in Verifiers : Cleaning(u, q, x) => Cleaning(u, q, x)'
      BY <2>1 DEF Cleaning
    <3>3. Evicting(q, x)' <=> Evicting(q, x)
      BY <2>1 DEF Evicting
    <3> QED
      BY <2>1, <3>1, <3>2, <3>3 DEF Known
  <2> QED
    BY <1>1, <2>1, <2>2, <2>3
<1>11. ASSUME NEW t \in Verifiers, SetAdd(t)
       PROVE  KnownInv'
  BY <1>1, <1>11, SetAddKeepsKnown DEF SetAdd, remote
<1>12. ASSUME NEW t \in Verifiers, SetCheck(t)
       PROVE  KnownInv'
  <2>1. CASE verifier[t].overtaken
    BY <1>1, <1>12, <2>1, SetCheckKeepsKnown DEF SetCheck, remote
  <2>2. CASE ~verifier[t].overtaken
    <3>1. verifier'[t].at = "idle" /\ \A u \in Verifiers \ {t} : verifier'[u] = verifier[u]
      BY <1>12, <2>2 DEF SetCheck, Done, Waiting, Types
    <3> QED
      BY <1>7, <1>12, <2>2, <3>1 DEF SetCheck, remote
  <2> QED
    BY <2>1, <2>2
<1>13. ASSUME NEW t \in Verifiers, SetRemove(t)
       PROVE  KnownInv'
  <2> DEFINE vs == [verifier EXCEPT ![t] = Waiting]
  <2>1. /\ Home[t] \in Replicas /\ verifier[t].key \in Keys /\ vs \in [Verifiers -> VerifierState]
        /\ vs[t].at = "idle" /\ \A u \in Verifiers \ {t} : vs[u] = verifier[u]
    BY WaitingType DEF Types, VerifierState, Waiting
  <2>2. Remove(Home[t], verifier[t].key, vs) /\ UNCHANGED <<admin, listener>>
    BY <1>13 DEF SetRemove, remote
  <2> HIDE DEF vs
  <2> QED
    BY <1>1, <2>1, <2>2, RemovalsKeepKnown
<1>14. ASSUME NEW t \in Verifiers, Fill(t)
       PROVE  KnownInv'
  BY <1>9, <1>10, <1>11, <1>12, <1>13, <1>14 DEF Fill
<1>15. ASSUME NEW a \in Admins, admin[a].at # "evict" \/ admin[a].drained = {},
              UNCHANGED <<positive, index, verifier, listener>>,
              \A b \in Admins \ {a} : admin'[b] = admin[b],
              admin'[a].drained = admin[a].drained \/ admin'[a].drained = {}
       PROVE  KnownInv'
  <2>1. admin[a].drained = {}
    BY <1>15 DEF NothingDrained
  <2>2. \A b \in Admins : admin'[b].drained = admin[b].drained
    BY <1>15, <2>1
  <2>3. \A b \in Admins : admin[b].at = "evict" => admin'[b].at = "evict" \/ admin[b].drained = {}
    BY <1>15, <2>1
  <2>4. GoOn /\ NothingDrained'
    BY <1>15, <2>2, <2>3, SameLists
  <2> QED
    BY <1>2, <1>15, <2>4
<1>16. ASSUME NEW a \in Admins, Fail(a)
       PROVE  admin'[a].drained = {} /\ \A b \in Admins \ {a} : admin'[b] = admin[b]
  BY <1>16 DEF Fail, Resting, Types
<1>17. ASSUME NEW a \in Admins, NEW keys, NEW pc, Commit(a, keys, pc)
       PROVE  admin'[a].drained = admin[a].drained /\ \A b \in Admins \ {a} : admin'[b] = admin[b]
  BY <1>17 DEF Commit, Types, AdminState
<1>18. ASSUME NEW a \in Admins, NEW kind \in Calls[a], NEW k \in Keys, Begin(a, kind, k)
       PROVE  KnownInv'
  <2>1. /\ admin[a].at # "evict" /\ admin'[a].drained = admin[a].drained
        /\ \A b \in Admins \ {a} : admin'[b] = admin[b]
        /\ UNCHANGED <<positive, index, verifier, listener>>
    BY <1>18 DEF Begin, On, cache, remote, Types, AdminState
  <2> QED
    BY <1>15, <2>1
<1>19. ASSUME NEW a \in Admins, SoftDelete(a) \/ Issue(a) \/ Update(a) \/ CreateExternal(a)
       PROVE  KnownInv'
  <2>1. admin[a].at # "evict" /\ UNCHANGED <<positive, index, verifier, listener>>
    BY <1>19 DEF SoftDelete, Issue, Update, CreateExternal, On, cache, remote
  <2>2. CASE admin' = [admin EXCEPT ![a].at = "invalidate"]
    <3>1. admin'[a].drained = admin[a].drained /\ \A b \in Admins \ {a} : admin'[b] = admin[b]
      BY <2>2 DEF Types, AdminState
    <3> QED
      BY <1>15, <2>1, <3>1
  <2>3. CASE Fail(a)
    BY <1>15, <1>16, <2>1, <2>3
  <2>4. CASE \E keys, pc : Commit(a, keys, pc)
    BY <1>15, <1>17, <2>1, <2>4
  <2> QED
    BY <1>19, <2>2, <2>3, <2>4 DEF SoftDelete, Issue, Update, CreateExternal
<1>20. ASSUME NEW a \in Admins, Invalidate(a)
       PROVE  KnownInv'
  <2>1. /\ admin[a].at = "invalidate" /\ admin'[a].at = "evict" /\ admin'[a].drained = index[Home[a]]
        /\ \A b \in Admins \ {a} : admin'[b] = admin[b]
        /\ listener' = listener /\ Overtake(Home[a]) /\ Home[a] \in Replicas
    BY <1>20 DEF Invalidate, On, remote, Types, AdminState
  <2>2. admin[a].drained = {}
    BY <2>1 DEF NothingDrained
  <2>3. GoOn
    BY <2>1, <2>2 DEF EvictionsGoOn, Evicting
  <2>4. NothingDrained'
    BY <2>1 DEF NothingDrained
  <2>5. \A x \in index[Home[a]] : Evicting(Home[a], x)'
    BY <2>1 DEF Evicting
  <2> QED
    BY <2>1, <2>3, <2>4, <2>5, OvertakingKeepsKnown
<1>21. ASSUME NEW a \in Admins, Evict(a)
       PROVE  KnownInv'
  <2>1. PICK k \in admin[a].drained : /\ Remove(Home[a], k, verifier)
                                      /\ admin' = [admin EXCEPT ![a].drained = @ \ {k}]
    BY <1>21 DEF Evict
  <2>2. k \in Keys /\ Home[a] \in Replicas /\ listener' = listener /\ admin[a].at = "evict"
    BY <1>21 DEF Evict, On, remote, Types, AdminState
  <2>3. /\ admin'[a].drained = admin[a].drained \ {k} /\ admin'[a].at = admin[a].at
        /\ \A b \in Admins \ {a} : admin'[b] = admin[b]
    BY <2>1 DEF Types, AdminState
  <2>4. \A q \in Replicas, x \in Keys : Evicting(q, x) => Evicting(q, x)' \/ (q = Home[a] /\ x = k)
    BY <2>2, <2>3 DEF Evicting
  <2>5. NothingDrained'
    BY <2>2, <2>3 DEF NothingDrained
  <2> QED
    BY <1>3, <2>1, <2>2, <2>4, <2>5
<1>22. ASSUME NEW a \in Admins, Return(a)
       PROVE  KnownInv'
  <2>1. /\ admin[a].drained = {} /\ admin'[a].drained = {}
        /\ \A b \in Admins \ {a} : admin'[b] = admin[b]
        /\ UNCHANGED <<positive, index, verifier, listener>>
    BY <1>22 DEF Return, Resting, cache, Types
  <2> QED
    BY <1>15, <2>1
<1>23. ASSUME NEW r \in Replicas, Receive(r)
       PROVE  KnownInv'
  <2>1. /\ ~listener[r].busy /\ listener'[r] = [busy |-> TRUE, drained |-> index[r]]
        /\ \A q \in Replicas \ {r} : listener'[q] = listener[q]
        /\ admin' = admin /\ Overtake(r)
    BY <1>23 DEF Receive, Types
  <2>2. listener[r].drained = {}
    BY <2>1 DEF NothingDrained
  <2>3. GoOn
    BY <2>1, <2>2 DEF EvictionsGoOn, Evicting
  <2>4. NothingDrained'
    BY <2>1 DEF NothingDrained
  <2>5. \A x \in index[r] : Evicting(r, x)'
    BY <2>1 DEF Evicting
  <2> QED
    BY <2>1, <2>3, <2>4, <2>5, OvertakingKeepsKnown
<1>24. ASSUME NEW r \in Replicas, ListenerEvicts(r)
       PROVE  KnownInv'
  <2>1. PICK k \in listener[r].drained : /\ Remove(r, k, verifier)
                                         /\ listener' = [listener EXCEPT ![r].drained = @ \ {k}]
    BY <1>24 DEF ListenerEvicts
  <2>2. k \in Keys /\ admin' = admin /\ listener[r].busy
    BY <1>24 DEF ListenerEvicts, Types, ListenerState
  <2>3. /\ listener'[r].drained = listener[r].drained \ {k} /\ listener'[r].busy = listener[r].busy
        /\ \A q \in Replicas \ {r} : listener'[q] = listener[q]
    BY <2>1 DEF Types, ListenerState
  <2>4. \A q \in Replicas, x \in Keys : Evicting(q, x) => Evicting(q, x)' \/ (q = r /\ x = k)
    BY <2>2, <2>3 DEF Evicting
  <2>5. NothingDrained'
    BY <2>2, <2>3 DEF NothingDrained
  <2> QED
    BY <1>3, <2>1, <2>2, <2>4, <2>5
<1>25. ASSUME NEW r \in Replicas, Ack(r)
       PROVE  KnownInv'
  <2>1. /\ listener[r].drained = {} /\ listener'[r].drained = {}
        /\ \A q \in Replicas \ {r} : listener'[q] = listener[q]
        /\ UNCHANGED <<admin, positive, index, verifier>>
    BY <1>25 DEF Ack, cache, Types, ListenerState
  <2>2. GoOn /\ NothingDrained'
    BY <2>1, SameLists
  <2> QED
    BY <1>2, <2>1, <2>2
<1>26. CASE UNCHANGED vars
  BY <1>1, <1>2, <1>26 DEF vars, cache, remote
<1> QED
  BY <1>4, <1>5, <1>6, <1>8, <1>14, <1>18, <1>19, <1>20, <1>21, <1>22, <1>23, <1>24, <1>25, <1>26
  DEF Next, Cache, Administer, Listen

\* Of all that was cached before an invalidation, on any number of replicas and
\* with any requests, calls, messages and evictions in between, nothing is left
\* once the invalidation is over and every Set that it came into has ended, but
\* for an entry whose slot in the index an eviction, or a Set that gave up,
\* took from it.
THEOREM OnlyBaredOutlive == Spec => []OnlyBaredOutliveInvalidation
<1>1. Init => KnownInv
  BY DEF Init, Waiting, Resting, KnownInv, EntriesKnown, SlotsKnown, NothingDrained
<1>2. KnownInv => OnlyBaredOutliveInvalidation
  BY KnownIsEnough DEF KnownInv
<1>3. Types /\ KnownInv /\ [Next]_vars => KnownInv'
  BY KnownNext
<1> QED
  BY <1>1, <1>2, <1>3, TypesHold, PTL DEF Spec
=============================================================================
