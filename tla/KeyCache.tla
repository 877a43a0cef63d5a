------------------------------- MODULE KeyCache -------------------------------
(***************************************************************************)
(* The API keys of one installation, on several replicas: the lookup of a  *)
(* request's key through the in-process cache (auth/service.go,            *)
(* VerifyAPIKey), the changes an administrator makes (DeleteAPIKey,        *)
(* RotateAPIKey, UpsertExternalAPIKey and the settings, which all commit   *)
(* and then invalidate), the message to the other replicas                 *)
(* (pubsub/invalidation.go), and the cache itself (auth/apikey_cache.go):  *)
(* an LRU of positive entries beside an index of the installation's        *)
(* entries, each behind a lock of its own.                                 *)
(*                                                                         *)
(* A step is a critical section: a section of the cache's mutex, an        *)
(* operation of the LRU with the eviction callback it runs, or a database  *)
(* statement.  A removal runs the callback before it lets go of the LRU's  *)
(* lock, and no section of the mutex looks into the LRU, so the removal    *)
(* and the callback's own section are one step.                            *)
(*                                                                         *)
(* An entry whose time to live has ended is a miss, but stays in the LRU   *)
(* and in the index until the LRU's cleanup comes by, evicts it and runs   *)
(* the callback, or until it is added anew, which runs none.               *)
(*                                                                         *)
(* The generation counter is only ever compared for equality, so what is   *)
(* kept is the comparison: whoever holds an older generation is overtaken. *)
(***************************************************************************)
EXTENDS Naturals, FiniteSets

CONSTANTS Keys,        \* key hashes
          Issued,      \* the keys active at first
          Replicas,
          Verifiers,   \* requests being authenticated
          Admins,      \* administrative calls in progress
          Home,        \* the replica of each
          Asks,        \* Asks[t]: the keys verifier t presents
          Calls,       \* Calls[a]: the administrative calls made on a
          MaxChanges   \* bound on administrative calls

CallKinds == {"delete", "rotate", "update"}

ASSUME KeyCacheAssumption ==
  /\ IsFiniteSet(Keys) /\ Keys # {}
  /\ IsFiniteSet(Admins)
  /\ Issued \subseteq Keys
  /\ Home \in [Verifiers \cup Admins -> Replicas]
  /\ Asks \in [Verifiers -> SUBSET Keys]
  /\ Calls \in [Admins -> SUBSET CallKinds]
  /\ MaxChanges \in Nat

VARIABLES db,        \* the rows: the state of each key and the revision of all else
          positive,  \* of each replica: the LRU, what each entry it holds was read at
          negative,  \* ... the keys known to be bad
          index,     \* ... byInstallation[installation]
          verifier,  \* where each request is
          admin,     \* where each administrative call is
          told,      \* the replicas that a message waits for
          listener,  \* of each replica: the callback of its subscription
          changes    \* number of administrative calls

vars == <<db, positive, negative, index, verifier, admin, told, listener, changes>>
cache == <<positive, negative, index>>
remote == <<told, listener>>

KeyState == {"unissued", "active", "deleted"}
Entry    == [rev : Nat, expired : BOOLEAN, overtaken : BOOLEAN, bared : BOOLEAN]

TypeOK ==
  /\ db \in [key : [Keys -> KeyState], rev : Nat]
  /\ \A r \in Replicas :
       /\ DOMAIN positive[r] \subseteq Keys
       /\ \A k \in DOMAIN positive[r] : positive[r][k] \in Entry
  /\ negative \in [Replicas -> SUBSET Keys] /\ index \in [Replicas -> SUBSET Keys]
  /\ told \subseteq Replicas
  /\ listener \in [Replicas -> [busy : BOOLEAN, drained : SUBSET Keys]]
  /\ changes \in 0..MaxChanges
  /\ verifier \in [Verifiers ->
       [at : {"idle", "read", "refuse", "index", "add", "check", "remove"},
        key : Keys, rev : Nat, overtaken : BOOLEAN, bared : BOOLEAN]]
  /\ admin \in [Admins ->
       [at : {"idle", "delete", "issue", "create", "invalidate", "evict"},
        kind : CallKinds, key : Keys, drained : SUBSET Keys, rev : Nat]]

-----------------------------------------------------------------------------
(* The LRU.  A removal runs onPositiveEvict.                               *)

Without(f, k) == [x \in DOMAIN f \ {k} |-> f[x]]

With(f, k, e) == [x \in DOMAIN f \cup {k} |-> IF x = k THEN e ELSE f[x]]

\* History: the slot of k in the index is taken from the requests, as vs has
\* them, that put it there and have yet to add the entry.
Bare(r, k, vs) ==
  [t \in Verifiers |-> IF Home[t] = r /\ vs[t].key = k /\ vs[t].at = "add" /\ k \in index[r]
                       THEN [vs[t] EXCEPT !.bared = TRUE] ELSE vs[t]]

\* Mutant: the eviction callback leaves the index alone.
RemoveUnindexed(r, k, vs) ==
  /\ positive' = [positive EXCEPT ![r] = Without(@, k)]
  /\ verifier' = vs
  /\ UNCHANGED index

\* vs: the requests after the step, but for the history.
Remove(r, k, vs) ==
  /\ positive' = [positive EXCEPT ![r] = Without(@, k)]
  /\ IF k \in DOMAIN positive[r]
     THEN index' = [index EXCEPT ![r] = @ \ {k}] /\ verifier' = Bare(r, k, vs)
     ELSE UNCHANGED index /\ verifier' = vs

\* The entries that a lookup finds.
Served(r) == {k \in DOMAIN positive[r] : ~positive[r][k].expired}

\* Mutant: the entries have no time to live.
ExpireNever(r, k) == FALSE /\ UNCHANGED vars

\* The time to live of an entry ends: it is a miss from now on, and what it was
\* read at matters to no one.
Expire(r, k) ==
  /\ k \in Served(r)
  /\ positive' = [positive EXCEPT ![r][k].expired = TRUE, ![r][k].rev = 0]
  /\ UNCHANGED <<db, negative, index, verifier, admin, remote, changes>>

\* The cleanup comes by.
CleanUp(r, k) ==
  /\ k \in DOMAIN positive[r] \ Served(r)
  /\ Remove(r, k, verifier)
  /\ UNCHANGED <<db, negative, admin, remote, changes>>

\* An entry, of another installation perhaps, is added to a full LRU and
\* evicts the oldest.
MakeRoom(r, k) ==
  /\ k \in DOMAIN positive[r]
  /\ Remove(r, k, verifier)
  /\ UNCHANGED <<db, negative, admin, remote, changes>>

\* A key known to be bad is evicted, or its time ends; no callback runs.
ForgetBad(r, k) ==
  /\ k \in negative[r]
  /\ negative' = [negative EXCEPT ![r] = @ \ {k}]
  /\ UNCHANGED <<db, positive, index, verifier, admin, remote, changes>>

-----------------------------------------------------------------------------
(* VerifyAPIKey.                                                           *)

At(t, pc) == verifier[t].at = pc
Goto(t, pc) == verifier' = [verifier EXCEPT ![t].at = pc]

Waiting == [at |-> "idle", key |-> CHOOSE k \in Keys : TRUE,
            rev |-> 0, overtaken |-> FALSE, bared |-> FALSE]

\* The request leaves the cache; what it filled it with is forgotten.
Done(t) == verifier' = [verifier EXCEPT ![t] = Waiting]

\* A hit serves the request at once; an entry that has expired is none.
Lookup(t, k) ==
  /\ At(t, "idle") /\ k \in Asks[t] /\ db.key[k] # "unissued"
  /\ k \notin Served(Home[t]) \cup negative[Home[t]]
  /\ verifier' = [verifier EXCEPT ![t].key = k, ![t].at = "read"]
  /\ UNCHANGED <<db, cache, admin, remote, changes>>

\* The row is read, with the external keys and the cluster lists; an error of
\* the lists serves the request and caches nothing, one of the row serves no one.
Read(t) ==
  /\ At(t, "read")
  /\ \/ /\ db.key[verifier[t].key] = "active"
        /\ verifier' = [verifier EXCEPT ![t].at = "index", ![t].rev = db.rev]
     \/ db.key[verifier[t].key] # "active" /\ Goto(t, "refuse")
     \/ Done(t)
  /\ UNCHANGED <<db, cache, admin, remote, changes>>

RememberBad(t) ==
  /\ At(t, "refuse")
  /\ negative' = [negative EXCEPT ![Home[t]] = @ \cup {verifier[t].key}]
  /\ Done(t)
  /\ UNCHANGED <<db, positive, index, admin, remote, changes>>

\* LRUAPIKeyCache.Set, first section.
SetIndex(t) ==
  /\ At(t, "index")
  /\ index' = [index EXCEPT ![Home[t]] = @ \cup {verifier[t].key}]
  /\ verifier' = [verifier EXCEPT ![t].at = "add", ![t].overtaken = FALSE,
                                     ![t].bared = FALSE]
  /\ UNCHANGED <<db, positive, negative, admin, remote, changes>>

\* An entry that is there already is overwritten and its time starts anew.
SetAdd(t) ==
  /\ At(t, "add")
  /\ positive' = [positive EXCEPT ![Home[t]] =
                    With(@, verifier[t].key, [rev |-> verifier[t].rev, expired |-> FALSE,
                                              overtaken |-> verifier[t].overtaken,
                                              bared |-> verifier[t].bared])]
  /\ verifier' = [verifier EXCEPT ![t].at = "check", ![t].rev = 0, ![t].bared = FALSE]
  /\ UNCHANGED <<db, negative, index, admin, remote, changes>>

\* Mutant: the entry stays whatever happened since the index was written.
SetUnchecked(t) ==
  /\ At(t, "check")
  /\ Done(t)
  /\ UNCHANGED <<db, cache, admin, remote, changes>>

\* History: the entry of k loses its slot.
BareEntry(r, k) ==
  [x \in DOMAIN positive[r] |-> IF x = k /\ k \in index[r]
                                THEN [positive[r][x] EXCEPT !.bared = TRUE] ELSE positive[r][x]]

\* ... last section: an invalidation came between, and the slot is given back,
\* whoever it belongs to by now.
SetCheck(t) ==
  LET r == Home[t]
      k == verifier[t].key
  IN  /\ At(t, "check")
      /\ IF verifier[t].overtaken
         THEN /\ index' = [index EXCEPT ![r] = @ \ {k}]
              /\ positive' = [positive EXCEPT ![r] = BareEntry(r, k)]
              /\ verifier' = Bare(r, k, [verifier EXCEPT ![t].at = "remove"])
         ELSE UNCHANGED <<index, positive>> /\ Done(t)
      /\ UNCHANGED <<db, negative, admin, remote, changes>>

SetRemove(t) ==
  /\ At(t, "remove")
  /\ Remove(Home[t], verifier[t].key, [verifier EXCEPT ![t] = Waiting])
  /\ UNCHANGED <<db, negative, admin, remote, changes>>

-----------------------------------------------------------------------------
(* InvalidateInstallation: the section of the mutex empties the index and  *)
(* moves the generation; what was indexed is then removed one by one.      *)

Overtake(r) ==
  /\ index' = [index EXCEPT ![r] = {}]
  /\ positive' = [positive EXCEPT ![r] = [k \in DOMAIN @ |-> [@[k] EXCEPT !.overtaken = TRUE]]]
  /\ verifier' = [t \in Verifiers |->
                    IF Home[t] = r /\ verifier[t].at \in {"add", "check", "remove"}
                    THEN [verifier[t] EXCEPT !.overtaken = TRUE] ELSE verifier[t]]

-----------------------------------------------------------------------------
(* Administrative calls.  rev is the last change the call has committed.   *)

On(a, pc) == admin[a].at = pc

\* A statement of call a commits: what a lookup returns has a new revision.
Commit(a, keyStates, pc) ==
  /\ db' = [key |-> keyStates, rev |-> db.rev + 1]
  /\ admin' = [admin EXCEPT ![a].at = pc, ![a].rev = db.rev + 1]

Resting == [at |-> "idle", kind |-> "update", key |-> CHOOSE k \in Keys : TRUE,
            drained |-> {}, rev |-> 0]

\* A call begins; RotateAPIKey lists the active keys first.
Begin(a, kind, k) ==
  /\ On(a, "idle") /\ changes < MaxChanges /\ kind \in Calls[a]
  /\ kind \in {"delete", "rotate"} => db.key[k] # "unissued"
  /\ kind = "rotate" => db.key[k] = "active"
  /\ kind = "update" => k = Resting.key
  /\ changes' = changes + 1
  /\ admin' = [admin EXCEPT ![a].at = "delete", ![a].kind = kind, ![a].key = k,
                            ![a].rev = 0]
  /\ UNCHANGED <<db, cache, verifier, remote>>

Fail(a) == admin' = [admin EXCEPT ![a] = Resting]

\* Mutant: the number of rows the delete matched is ignored.
SoftDeleteUncounted(a) ==
  /\ On(a, "delete") /\ admin[a].kind \in {"delete", "rotate"}
  /\ Commit(a, [db.key EXCEPT ![admin[a].key] = "deleted"],
            IF admin[a].kind = "rotate" THEN "issue" ELSE "invalidate")
  /\ UNCHANGED <<cache, verifier, remote, changes>>

\* SoftDelete of a key: a rotation that matched no row stops, a deletion goes on.
SoftDelete(a) ==
  /\ On(a, "delete") /\ admin[a].kind \in {"delete", "rotate"}
  /\ \/ /\ db.key[admin[a].key] = "active"
        /\ Commit(a, [db.key EXCEPT ![admin[a].key] = "deleted"],
                  IF admin[a].kind = "rotate" THEN "issue" ELSE "invalidate")
     \/ /\ db.key[admin[a].key] # "active" /\ admin[a].kind = "delete"
        /\ admin' = [admin EXCEPT ![a].at = "invalidate"]
        /\ UNCHANGED db
     \/ /\ db.key[admin[a].key] # "active" /\ admin[a].kind = "rotate"
        /\ Fail(a)
        /\ UNCHANGED db
     \/ Fail(a) /\ UNCHANGED db
  /\ UNCHANGED <<cache, verifier, remote, changes>>

Unissued == {k \in Keys : db.key[k] = "unissued"}

\* IssueAPIKey, the second statement of a rotation: a key nobody has seen.
Issue(a) ==
  /\ On(a, "issue")
  /\ \/ /\ Unissued # {}
        /\ Commit(a, [db.key EXCEPT ![CHOOSE k \in Unissued : TRUE] = "active"], "invalidate")
     \/ Fail(a) /\ UNCHANGED db
  /\ UNCHANGED <<cache, verifier, remote, changes>>

\* SetInstallation... and DeleteExternalAPIKey are one statement;
\* UpsertExternalAPIKey deletes the provider's key, then creates the new one.
Update(a) ==
  /\ On(a, "delete") /\ admin[a].kind = "update"
  /\ \/ \E next \in {"create", "invalidate"} : Commit(a, db.key, next)
     \/ Fail(a) /\ UNCHANGED db
  /\ UNCHANGED <<cache, verifier, remote, changes>>

CreateExternal(a) ==
  /\ On(a, "create")
  /\ \/ Commit(a, db.key, "invalidate")
     \/ Fail(a) /\ UNCHANGED db
  /\ UNCHANGED <<cache, verifier, remote, changes>>

\* invalidateInstallation, in the replica of the call.
Invalidate(a) ==
  /\ On(a, "invalidate")
  /\ admin' = [admin EXCEPT ![a].at = "evict", ![a].drained = index[Home[a]]]
  /\ Overtake(Home[a])
  /\ UNCHANGED <<db, negative, remote, changes>>

Evict(a) ==
  /\ On(a, "evict")
  /\ \E k \in admin[a].drained :
       /\ Remove(Home[a], k, verifier)
       /\ admin' = [admin EXCEPT ![a].drained = @ \ {k}]
  /\ UNCHANGED <<db, negative, remote, changes>>

\* The call returns to the administrator.  Its message is published in the
\* background: it reaches the subscription of every replica, this one's too,
\* or times out and is lost.
Return(a) ==
  /\ On(a, "evict") /\ admin[a].drained = {}
  /\ admin' = [admin EXCEPT ![a] = Resting]
  /\ told' \in {told, Replicas}
  /\ UNCHANGED <<db, cache, verifier, listener, changes>>

-----------------------------------------------------------------------------
(* The subscription of a replica (pubsub/invalidation.go, Run): messages   *)
(* come late and again.  They name the installation alone, so two that     *)
(* wait are as good as one.                                                *)

Receive(r) ==
  /\ r \in told /\ ~listener[r].busy
  /\ listener' = [listener EXCEPT ![r] = [busy |-> TRUE, drained |-> index[r]]]
  /\ Overtake(r)
  /\ UNCHANGED <<db, negative, admin, told, changes>>

ListenerEvicts(r) ==
  /\ listener[r].busy
  /\ \E k \in listener[r].drained :
       /\ Remove(r, k, verifier)
       /\ listener' = [listener EXCEPT ![r].drained = @ \ {k}]
  /\ UNCHANGED <<db, negative, admin, told, changes>>

\* The acknowledgement may not arrive, and the message comes again.
Ack(r) ==
  /\ listener[r].busy /\ listener[r].drained = {}
  /\ listener' = [listener EXCEPT ![r].busy = FALSE]
  /\ told' \in {told, told \ {r}}
  /\ UNCHANGED <<db, cache, verifier, admin, changes>>

-----------------------------------------------------------------------------
Init ==
  /\ db = [key |-> [k \in Keys |-> IF k \in Issued THEN "active" ELSE "unissued"],
           rev |-> 0]
  /\ positive = [r \in Replicas |-> [k \in {} |-> 0]]
  /\ negative = [r \in Replicas |-> {}] /\ index = [r \in Replicas |-> {}]
  /\ verifier = [t \in Verifiers |-> Waiting]
  /\ admin = [a \in Admins |-> Resting]
  /\ told = {} /\ listener = [r \in Replicas |-> [busy |-> FALSE, drained |-> {}]]
  /\ changes = 0

\* The steps of a lookup that missed.
Fill(t) == \/ Read(t) \/ RememberBad(t)
           \/ SetIndex(t) \/ SetAdd(t) \/ SetCheck(t) \/ SetRemove(t)

Administer(a) == \/ \E kind \in Calls[a], k \in Keys : Begin(a, kind, k)
                 \/ SoftDelete(a) \/ Issue(a) \/ Update(a) \/ CreateExternal(a)
                 \/ Invalidate(a) \/ Evict(a) \/ Return(a)

Listen(r) == Receive(r) \/ ListenerEvicts(r) \/ Ack(r)

Cache(r) == \E k \in Keys : Expire(r, k) \/ CleanUp(r, k) \/ MakeRoom(r, k) \/ ForgetBad(r, k)

Next == \/ \E r \in Replicas : Cache(r)
        \/ \E t \in Verifiers, k \in Keys : Lookup(t, k)
        \/ \E t \in Verifiers : Fill(t)
        \/ \E a \in Admins : Administer(a)
        \/ \E r \in Replicas : Listen(r)

Spec == Init /\ [][Next]_vars

\* A lookup that began goes on and an entry reaches the end of its time to
\* live, which is of a key that requests of its replica present; nothing is
\* assumed of the cleanup, the administrators, the messages or the listeners.
Fairness ==
  \A t \in Verifiers : /\ WF_vars(Fill(t))
                       /\ \A k \in Asks[t] : WF_vars(Expire(Home[t], k))

FairSpec == Spec /\ Fairness

-----------------------------------------------------------------------------
(* Properties.                                                             *)

\* A verifier of the replica is between the sections of Set for the key k.
Setting(r, k) ==
  \E t \in Verifiers : Home[t] = r /\ verifier[t].key = k /\ verifier[t].at \in {"add", "check", "remove"}

Evicting(r, k) == \/ \E a \in Admins : Home[a] = r /\ k \in admin[a].drained
                  \/ k \in listener[r].drained

\* The index holds no key that is neither cached nor about to be: it does not
\* grow with the keys that come and go (apikey_cache.go, onPositiveEvict).
IndexedIsCached == \A r \in Replicas : \A k \in index[r] : k \in DOMAIN positive[r] \/ Setting(r, k)

\* An entry that was set before an invalidation, of the replica's own or of a
\* message, is gone once the invalidation and the set are over.
NoEntryOutlivesInvalidation ==
  \A r \in Replicas : \A k \in DOMAIN positive[r] :
    ~Setting(r, k) /\ ~Evicting(r, k) => ~positive[r][k].overtaken

\* The one way in which an entry can outlive an invalidation is that its slot in
\* the index was taken, by the eviction of an older entry of its key or by
\* another request that gave up its own, and the invalidation did not find it.
\* The race of a set with an invalidation is closed (apikey_cache.go, "Closes
\* the race"): what was set across one is removed again.
OnlyBaredOutliveInvalidation ==
  \A r \in Replicas : \A k \in DOMAIN positive[r] :
    /\ ~Setting(r, k) /\ ~Evicting(r, k)
    /\ positive[r][k].overtaken
    => positive[r][k].bared

\* However many rotate one key at once, on whatever replicas, one successor is
\* issued: the active keys never outnumber those there were (auth/service.go,
\* RotateAPIKey).
OneSuccessor == Cardinality({k \in Keys : db.key[k] = "active"}) <= Cardinality(Issued)

\* When the changes end, every replica comes to serve the last of them for
\* good, though messages may be lost and a lookup may cache the old row after
\* the invalidation: the time to live is the last resort
\* (pubsub/invalidation.go, NotifyInstallationChanged).
ChangeReachesEveryReplica ==
  <>[](\A r \in Replicas : \A k \in Served(r) : positive[r][k].rev = db.rev)

\* A change applies on the next request, on the replica that made it at least
\* (auth/service.go, SetInstallationRoutingPreference, DeleteAPIKey).
ChangeAppliesToNextRequest ==
  \A a \in Admins : \A k \in Served(Home[a]) :
    /\ On(a, "evict") /\ admin[a].drained = {}
    /\ ~Setting(Home[a], k) /\ ~Evicting(Home[a], k)
    => positive[Home[a]][k].rev >= admin[a].rev

\* A call that committed a change has invalidated the cache when it ends
\* (auth/service.go, invalidateInstallation).
CommitsAreInvalidated ==
  [][\A a \in Admins : admin[a].rev # 0 /\ On(a, "idle")' => On(a, "evict")]_vars
=============================================================================
