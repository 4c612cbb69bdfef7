------------------------------- MODULE DbWatch -------------------------------
(***************************************************************************)
(* Watches of the db8 object store: MojDbWatcher, the watch half of        *)
(* MojDbIndex, the commit monitors of MojDbStorageTxn and the calls of     *)
(* MojDb::find / MojDb::watch / MojDbCursor::close that drive them.        *)
(*                                                                         *)
(* One index is modelled.  Writer threads run transactions that move       *)
(* entries of the index, client threads run a query with a watch, a        *)
(* schema thread closes the index, and the shard engine announces shards.  *)
(* Every critical section (index m_lock, watcher m_mutex) is one action;   *)
(* the code drops the index lock before it takes a watcher's mutex, so     *)
(* the threads interleave between those actions.                           *)
(***************************************************************************)
EXTENDS Integers, Sequences, FiniteSetsExt

CONSTANTS
  Watchers,   \* one MojDbWatcher per client query
  Txns,       \* the addresses of the MojDbStorageTxn objects (m_pendingKeys is ordered by them)
  Keys,       \* index keys, in index order
  Domains,    \* caller domains, counted by m_watcherMap
  Query,      \* Query[w]: what the client of w asks for
  NoKey       \* the empty MojDbKey

\* A query plan: the key ranges in plan order, the direction and the limit,
\* and whether the client called MojDb::find or MojDb::watch.
QueryPlan == [ranges : Seq(SUBSET Keys), desc : BOOLEAN, limit : Nat \ {0},
              call : {"find", "watch"}, domain : Domains]

ASSUME KeysAssumption    == Keys \subseteq Nat /\ IsFiniteSet(Keys)
ASSUME NoKeyAssumption   == NoKey \notin Nat
ASSUME TxnsAssumption    == Txns \subseteq Nat /\ IsFiniteSet(Txns)
ASSUME WatchersAssumption == IsFiniteSet(Watchers)
ASSUME QueryAssumption   ==
  /\ Query \in [Watchers -> QueryPlan]
  \* MojDb::watch sets limit(1) on its query
  /\ \A w \in Watchers : Query[w].call = "watch" => Query[w].limit = 1

VARIABLES
  \* MojDbIndex
  indexOpen,     \* m_collection != NULL
  entries,       \* the committed keys of the index
  watcherVec,    \* m_watcherVec, as a set
  watcherMap,    \* m_watcherMap: watches per domain
  pendingKeys,   \* m_pendingKeys: keys touched by each open transaction
  \* MojDbWatcher
  state,         \* m_state
  bound,         \* m_index != NULL
  fireKey,       \* m_fireKey
  limitKey,      \* m_limitKey
  shardSlot,     \* shardStatusChangedSlot: "off", "connected", "invoked"
  \* writer threads
  txn,           \* control state of the transaction
  ins, del,      \* its uncommitted inserts and deletes
  triggers,      \* committed(): the (watcher, key) pairs still to be fired
  \* client threads
  pc,            \* where the client is in find ... cursor.close()
  endKey,        \* m_endKey of its storage query
  \* schema thread
  abandoning,    \* watchers abandonWatchers() still has to visit
  closer,        \* "idle", "closing", "closed"
  \* observations
  notified,      \* how often the client's slot was invoked
  stale,         \* a commit changed the answer the client has read
  asserts        \* MojAsserts that failed

indexVars  == <<indexOpen, entries, watcherVec, watcherMap, pendingKeys>>
watchVars  == <<state, bound, fireKey, limitKey, shardSlot>>
txnVars    == <<txn, ins, del, triggers>>
clientVars == <<pc, endKey>>
closeVars  == <<abandoning, closer>>
obsVars    == <<notified, stale, asserts>>
vars == <<indexVars, watchVars, txnVars, clientVars, closeVars, obsVars>>

-----------------------------------------------------------------------------
(* Queries *)

InQuery(w) == UNION {Query[w].ranges[i] : i \in DOMAIN Query[w].ranges}

\* j is returned before k by the query of w
Precedes(w, j, k) == IF Query[w].desc THEN j > k ELSE j < k

\* The keys the query of w returns when the index holds E: the first "limit"
\* matches in query order.
Answer(w, E) ==
  LET match == E \cap InQuery(w)
  IN  {k \in match : Cardinality({j \in match : Precedes(w, j, k)}) < Query[w].limit}

\* MojDbKey::increment: the least key above every key that starts with k
Increment(k) == k + 1

\* MojDbIsamQuery::incrementCount / saveEndKey: the end key is kept only when
\* the limit was hit, and is one past the last key of an ascending query.
EndKey(w, E) ==
  LET answer == Answer(w, E)
  IN  IF Cardinality(answer) < Query[w].limit THEN NoKey
      ELSE IF Query[w].desc THEN Min(answer) ELSE Increment(Max(answer))

-----------------------------------------------------------------------------
(* Locks: the schema lock is held shared by a writer from begin to the end *)
(* of its commit and by a client until find or watch returns.              *)

SchemaShared ==
  \/ \E t \in Txns : txn[t] # "idle"
  \/ \E w \in Watchers : pc[w] \in {"added", "inited", "found"}

SchemaExclusive == closer = "closing"

-----------------------------------------------------------------------------
(* MojDbWatcher.  These operators run under the watcher's mutex.           *)

\* A key is rejected by a limit it lies beyond.
WithinLimit(w, key, limit) ==
  limit # NoKey => IF Query[w].desc THEN key >= limit ELSE key <= limit

\* Faulty variant: the domain count is not decremented.
CancelWatchUncounted(w) ==
  /\ watcherVec' = watcherVec \ {w}
  /\ UNCHANGED <<watcherMap, asserts>>

\* MojDbIndex::cancelWatch, called by invalidate() on the index it leaves.
CancelWatch(w) ==
  /\ watcherVec' = watcherVec \ {w}
  /\ watcherMap' = IF w \in watcherVec
                   THEN [watcherMap EXCEPT ![Query[w].domain] = @ - 1]
                   ELSE watcherMap
  /\ asserts' = asserts \cup (IF indexOpen THEN {} ELSE {"cancelWatchIsOpen"})

\* invalidate(): leave the index and stop listening for shards.
Invalidate(w) ==
  /\ bound' = [bound EXCEPT ![w] = FALSE]
  /\ state' = [state EXCEPT ![w] = "Invalid"]
  /\ CancelWatch(w)
  /\ shardSlot' = [shardSlot EXCEPT ![w] = IF @ = "connected" THEN "off" ELSE @]

\* Faulty variant: the client is signalled and the watcher stays registered.
FireImplRepeats(w) ==
  /\ notified' = [notified EXCEPT ![w] = @ + 1]
  /\ UNCHANGED <<watcherVec, watcherMap, bound, state, shardSlot, asserts>>

\* fireImpl(): invalidate, then m_signal.fire() invokes the client once.
FireImpl(w) ==
  /\ Invalidate(w)
  /\ notified' = [notified EXCEPT ![w] = @ + 1]

\* Faulty variant: the last early key is kept instead of the first in order.
FireKeepsLast(w, key) ==
  \/ /\ ~WithinLimit(w, key, limitKey[w]) \/ state[w] = "Invalid"
     /\ UNCHANGED <<watcherVec, watcherMap, watchVars, notified, asserts>>
  \/ /\ WithinLimit(w, key, limitKey[w]) /\ state[w] = "Active"
     /\ FireImpl(w)
     /\ UNCHANGED <<fireKey, limitKey>>
  \/ /\ WithinLimit(w, key, limitKey[w]) /\ state[w] = "Pending"
     /\ fireKey' = [fireKey EXCEPT ![w] = key]
     /\ UNCHANGED <<watcherVec, watcherMap, state, bound, limitKey, shardSlot,
                    notified, asserts>>

\* Faulty variant: a fire that comes before activation is dropped.
FireActiveOnly(w, key) ==
  \/ /\ ~WithinLimit(w, key, limitKey[w]) \/ state[w] # "Active"
     /\ UNCHANGED <<watcherVec, watcherMap, watchVars, notified, asserts>>
  \/ /\ WithinLimit(w, key, limitKey[w]) /\ state[w] = "Active"
     /\ FireImpl(w)
     /\ UNCHANGED <<fireKey, limitKey>>

\* fire(key): ignored beyond the limit, delivered when active, remembered
\* (smallest key, largest for a descending query) while pending.
Fire(w, key) ==
  \/ /\ ~WithinLimit(w, key, limitKey[w]) \/ state[w] = "Invalid"
     /\ UNCHANGED <<watcherVec, watcherMap, watchVars, notified, asserts>>
  \/ /\ WithinLimit(w, key, limitKey[w]) /\ state[w] = "Active"
     /\ FireImpl(w)
     /\ UNCHANGED <<fireKey, limitKey>>
  \/ /\ WithinLimit(w, key, limitKey[w]) /\ state[w] = "Pending"
     /\ fireKey' = [fireKey EXCEPT ![w] =
                      IF @ # NoKey => Precedes(w, key, @) THEN key ELSE @]
     /\ UNCHANGED <<watcherVec, watcherMap, state, bound, limitKey, shardSlot,
                    notified, asserts>>

-----------------------------------------------------------------------------
(* Client threads: find or watch, then cursor.close(), perhaps a cancel.   *)

\* MojDb::watch connects the shard slot before it runs the query.
ConnectShardSlot(w) ==
  shardSlot' = [shardSlot EXCEPT ![w] = IF Query[w].call = "watch" THEN "connected" ELSE @]

\* The query is refused (unknown kind, no index) before a watch is added.
FindFails(w) ==
  /\ pc[w] = "idle" /\ ~SchemaExclusive
  /\ ConnectShardSlot(w)
  /\ pc' = [pc EXCEPT ![w] = "failed"]
  /\ UNCHANGED <<indexVars, state, bound, fireKey, limitKey, txnVars, endKey,
                 closeVars, obsVars>>

\* Faulty variant: the watch is not counted for its domain.
AddWatchUncounted(w) ==
  /\ pc[w] = "idle" /\ ~SchemaExclusive /\ indexOpen
  /\ ConnectShardSlot(w)
  /\ watcherVec' = watcherVec \cup {w}
  /\ pc' = [pc EXCEPT ![w] = "added"]
  /\ UNCHANGED <<indexOpen, entries, watcherMap, pendingKeys, state, bound, fireKey,
                 limitKey, txnVars, endKey, closeVars, obsVars>>

\* MojDbIndex::addWatch up to guard.unlock().
AddWatch(w) ==
  /\ pc[w] = "idle" /\ ~SchemaExclusive /\ indexOpen
  /\ ConnectShardSlot(w)
  /\ watcherVec' = watcherVec \cup {w}
  /\ watcherMap' = [watcherMap EXCEPT ![Query[w].domain] = @ + 1]
  /\ pc' = [pc EXCEPT ![w] = "added"]
  /\ UNCHANGED <<indexOpen, entries, pendingKeys, state, bound, fireKey, limitKey,
                 txnVars, endKey, closeVars, obsVars>>

\* MojDbWatcher::init, called by addWatch after it dropped the index lock.
InitWatcher(w) ==
  /\ pc[w] = "added"
  /\ bound' = [bound EXCEPT ![w] = TRUE]
  /\ state' = [state EXCEPT ![w] = "Pending"]
  /\ pc' = [pc EXCEPT ![w] = "inited"]
  /\ UNCHANGED <<indexVars, fireKey, limitKey, shardSlot, txnVars, endKey,
                 closeVars, obsVars>>

\* MojDbIndex::find opens the storage query: the engine's iterator is a
\* snapshot of the committed entries, and what it returns decides the end key.
OpenCursor(w) ==
  /\ pc[w] = "inited"
  /\ endKey' = [endKey EXCEPT ![w] = EndKey(w, entries)]
  /\ pc' = [pc EXCEPT ![w] = IF Query[w].call = "watch" /\ Answer(w, entries) # {}
                             THEN "found" ELSE "open"]
  /\ UNCHANGED <<indexVars, watchVars, txnVars, closeVars, obsVars>>

\* Faulty variant: a match is reported without consuming the watch.
FireFoundSkipped(w) ==
  /\ pc[w] = "found"
  /\ pc' = [pc EXCEPT ![w] = "open"]
  /\ UNCHANGED <<indexVars, watchVars, txnVars, endKey, closeVars, obsVars>>

\* MojDb::watch fires its own watcher when something matches already.
FireFound(w) ==
  /\ pc[w] = "found"
  /\ Fire(w, endKey[w])
  /\ pc' = [pc EXCEPT ![w] = "open"]
  /\ UNCHANGED <<indexOpen, entries, pendingKeys, txnVars, endKey, closeVars, stale>>

\* Fired before activation, by a key the cursor's answer reaches.
FiredEarly(w) == fireKey[w] # NoKey /\ WithinLimit(w, fireKey[w], endKey[w])

\* MojDbCursor::close -> MojDbWatcher::activate(endKey)
Activate(w) ==
  /\ pc[w] = "open"
  /\ pc' = [pc EXCEPT ![w] = "done"]
  /\ \/ /\ state[w] = "Invalid"
        /\ UNCHANGED <<watcherVec, watcherMap, watchVars, notified, asserts>>
     \/ /\ state[w] # "Invalid"
        /\ FiredEarly(w)
        /\ FireImpl(w)
        /\ UNCHANGED <<fireKey, limitKey>>
     \/ /\ state[w] # "Invalid"
        /\ ~FiredEarly(w)
        /\ state' = [state EXCEPT ![w] = "Active"]
        /\ limitKey' = [limitKey EXCEPT ![w] = endKey[w]]
        /\ UNCHANGED <<watcherVec, watcherMap, bound, fireKey, shardSlot, notified, asserts>>
  /\ UNCHANGED <<indexOpen, entries, pendingKeys, txnVars, endKey, closeVars, stale>>

\* The client cancels its slot: MojSignalBase::cancel -> handleCancel.  Once
\* the watcher has fired or was cancelled, m_index is NULL and the call only
\* reports MojErrDbWatcherNotRegistered.
Cancel(w) ==
  /\ pc[w] \in {"open", "done"} /\ bound[w]
  /\ Invalidate(w)
  /\ UNCHANGED <<indexOpen, entries, pendingKeys, fireKey, limitKey, txnVars,
                 clientVars, closeVars, notified, stale>>

-----------------------------------------------------------------------------
(* Writer threads *)

Begin(t) ==
  /\ txn[t] = "idle" /\ ~SchemaExclusive /\ indexOpen
  /\ txn' = [txn EXCEPT ![t] = "active"]
  /\ UNCHANGED <<indexVars, watchVars, ins, del, triggers, clientVars, closeVars, obsVars>>

\* The entries a transaction sees: the committed ones under its own writes.
View(t) == (entries \ del[t]) \cup ins[t]

\* MojDbIndex::update for one object: its old keys leave, its new keys enter,
\* and the union of both is pending for the watchers.
Update(t, old, new) ==
  /\ txn[t] = "active"
  /\ old \cup new # {} /\ old \subseteq View(t) /\ new \cap (View(t) \ old) = {}
  /\ ins' = [ins EXCEPT ![t] = (@ \ old) \cup new]
  /\ del' = [del EXCEPT ![t] = (@ \cup old) \ new]
  /\ pendingKeys' = [pendingKeys EXCEPT ![t] = @ \cup old \cup new]
  /\ UNCHANGED <<indexOpen, entries, watcherVec, watcherMap, watchVars, txn, triggers,
                 clientVars, closeVars, obsVars>>

\* The transaction is dropped: ~MojDbStorageTxn -> MojDbIndex::destroy.
Forget(t) ==
  /\ txn' = [txn EXCEPT ![t] = "idle"]
  /\ ins' = [ins EXCEPT ![t] = {}]
  /\ del' = [del EXCEPT ![t] = {}]
  /\ pendingKeys' = [pendingKeys EXCEPT ![t] = {}]
  /\ UNCHANGED <<indexOpen, entries, watcherVec, watcherMap, watchVars, triggers,
                 clientVars, closeVars, obsVars>>

Abort(t) == txn[t] = "active" /\ Forget(t)

\* A client holds an answer once its cursor is open.
HasAnswer(w) == pc[w] \in {"found", "open", "done"}

\* The commit of E over D changes what the query of w returns, or touches an
\* object the client was given.
AnswerChanges(w, touched, before, after) ==
  \/ Answer(w, before) # Answer(w, after)
  \/ Answer(w, before) \cap touched # {}

\* MojDbStorageTxn::commit up to commitImpl(): the writes become visible.
CommitImpl(t) ==
  /\ txn[t] = "active"
  /\ txn' = [txn EXCEPT ![t] = "committed"]
  /\ entries' = View(t)
  /\ stale' = [w \in Watchers |->
        stale[w] \/ (HasAnswer(w) /\ AnswerChanges(w, pendingKeys[t], entries, View(t)))]
  /\ UNCHANGED <<indexOpen, watcherVec, watcherMap, pendingKeys, watchVars, ins, del,
                 triggers, clientVars, closeVars, notified, asserts>>

\* The first pending key of the first transaction with a key in range r.
FirstMatch(r) ==
  LET hit == {t \in Txns : pendingKeys[t] \cap r # {}}
  IN  Min(pendingKeys[Min(hit)] \cap r)

MatchedRanges(w) ==
  {i \in DOMAIN Query[w].ranges : \E t \in Txns : pendingKeys[t] \cap Query[w].ranges[i] # {}}

\* MojDbIndex::committed up to guard.unlock(): one trigger per watcher with a
\* pending key in one of its ranges.  A watcher that addWatch has not
\* initialised yet has no ranges.
Committed(t) ==
  /\ txn[t] = "committed" /\ pendingKeys[t] # {}
  /\ txn' = [txn EXCEPT ![t] = "firing"]
  /\ triggers' = [triggers EXCEPT ![t] =
        {<<w, FirstMatch(Query[w].ranges[Min(MatchedRanges(w))])>> :
            w \in {v \in watcherVec : pc[v] # "added" /\ MatchedRanges(v) # {}}}]
  /\ UNCHANGED <<indexVars, watchVars, ins, del, clientVars, closeVars, obsVars>>

\* The loop of committed() that fires the triggers without the index lock.
FireTrigger(t, w, key) ==
  /\ txn[t] = "firing" /\ <<w, key>> \in triggers[t]
  /\ Fire(w, key)
  /\ triggers' = [triggers EXCEPT ![t] = @ \ {<<w, key>>}]
  /\ UNCHANGED <<indexOpen, entries, pendingKeys, txn, ins, del, clientVars, closeVars, stale>>

\* MojDbReq::commit drops the transaction and the schema lock.
Finish(t) ==
  /\ \/ txn[t] = "committed" /\ pendingKeys[t] = {}
     \/ txn[t] = "firing" /\ triggers[t] = {}
  /\ Forget(t)

-----------------------------------------------------------------------------
(* Schema thread: the index is dropped or closed under the exclusive lock. *)

\* MojDbIndex::close, and abandonWatchers up to guard.unlock().
CloseIndex ==
  /\ closer = "idle" /\ ~SchemaShared
  /\ indexOpen' = FALSE
  /\ abandoning' = watcherVec
  /\ closer' = "closing"
  /\ UNCHANGED <<entries, watcherVec, watcherMap, pendingKeys, watchVars, txnVars,
                 clientVars, obsVars>>

\* Faulty variant: only active watchers are told that the index goes away.
AbandonActive(w) ==
  /\ closer = "closing" /\ w \in abandoning
  /\ abandoning' = abandoning \ {w}
  /\ \/ state[w] = "Active" /\ FireImpl(w) /\ UNCHANGED <<fireKey, limitKey>>
     \/ state[w] # "Active"
        /\ UNCHANGED <<watcherVec, watcherMap, watchVars, notified, asserts>>
  /\ UNCHANGED <<indexOpen, entries, pendingKeys, txnVars, clientVars, closer, stale>>

\* MojDbWatcher::abandon
Abandon(w) ==
  /\ closer = "closing" /\ w \in abandoning
  /\ abandoning' = abandoning \ {w}
  /\ \/ state[w] # "Invalid" /\ FireImpl(w) /\ UNCHANGED <<fireKey, limitKey>>
     \/ state[w] = "Invalid"
        /\ UNCHANGED <<watcherVec, watcherMap, watchVars, notified, asserts>>
  /\ UNCHANGED <<indexOpen, entries, pendingKeys, txnVars, clientVars, closer, stale>>

\* The end of abandonWatchers: the vector must be empty by now.
Closed ==
  /\ closer = "closing" /\ abandoning = {}
  /\ closer' = "closed"
  /\ asserts' = asserts \cup (IF watcherVec = {} THEN {} ELSE {"abandonLeavesNone"})
  /\ watcherVec' = {}
  /\ UNCHANGED <<indexOpen, entries, watcherMap, pendingKeys, watchVars, txnVars,
                 clientVars, abandoning, notified, stale>>

-----------------------------------------------------------------------------
(* Shard engine: the shardStatusChanged signal announces an active shard.  *)

\* MojSignal1::call picks the slot of w and drops the signal's mutex, and
\* shardStatusChanged() cancels the slot.
ShardSignal(w) ==
  /\ shardSlot[w] = "connected"
  /\ shardSlot' = [shardSlot EXCEPT ![w] = "invoked"]
  /\ UNCHANGED <<indexVars, state, bound, fireKey, limitKey, txnVars, clientVars,
                 closeVars, obsVars>>

\* The rest of shardStatusChanged(): fireImpl() whatever the state is.  With
\* no index, invalidate() fails its assertion and calls through NULL.
ShardStatusChanged(w) ==
  /\ shardSlot[w] = "invoked"
  /\ shardSlot' = [shardSlot EXCEPT ![w] = "off"]
  /\ \/ /\ bound[w]
        /\ bound' = [bound EXCEPT ![w] = FALSE]
        /\ state' = [state EXCEPT ![w] = "Invalid"]
        /\ CancelWatch(w)
        /\ notified' = [notified EXCEPT ![w] = @ + 1]
     \/ /\ ~bound[w]
        /\ asserts' = asserts \cup {"invalidateHasIndex"}
        /\ UNCHANGED <<bound, state, watcherVec, watcherMap, notified>>
  /\ UNCHANGED <<indexOpen, entries, pendingKeys, fireKey, limitKey, txnVars, clientVars,
                 closeVars, stale>>

-----------------------------------------------------------------------------
Init ==
  /\ indexOpen = TRUE /\ entries \in SUBSET Keys
  /\ watcherVec = {} /\ watcherMap = [d \in Domains |-> 0]
  /\ pendingKeys = [t \in Txns |-> {}]
  /\ state = [w \in Watchers |-> "Invalid"] /\ bound = [w \in Watchers |-> FALSE]
  /\ fireKey = [w \in Watchers |-> NoKey] /\ limitKey = [w \in Watchers |-> NoKey]
  /\ shardSlot = [w \in Watchers |-> "off"]
  /\ txn = [t \in Txns |-> "idle"]
  /\ ins = [t \in Txns |-> {}] /\ del = [t \in Txns |-> {}]
  /\ triggers = [t \in Txns |-> {}]
  /\ pc = [w \in Watchers |-> "idle"] /\ endKey = [w \in Watchers |-> NoKey]
  /\ abandoning = {} /\ closer = "idle"
  /\ notified = [w \in Watchers |-> 0] /\ stale = [w \in Watchers |-> FALSE]
  /\ asserts = {}

\* An object has at most one key in this index before and after an update.
KeySets == {{}} \cup {{k} : k \in Keys}

Writer(t) ==
  \/ Begin(t) \/ Abort(t) \/ CommitImpl(t) \/ Committed(t) \/ Finish(t)
  \/ \E old, new \in KeySets : Update(t, old, new)
  \/ \E w \in Watchers, key \in Keys : FireTrigger(t, w, key)

Client(w) ==
  \/ FindFails(w) \/ AddWatch(w) \/ InitWatcher(w) \/ OpenCursor(w)
  \/ FireFound(w) \/ Activate(w) \/ Cancel(w)

\* After a call through NULL the process is gone.
Next ==
  /\ "invalidateHasIndex" \notin asserts
  /\ \/ \E t \in Txns : Writer(t)
     \/ \E w \in Watchers : Client(w) \/ Abandon(w) \/ ShardSignal(w) \/ ShardStatusChanged(w)
     \/ CloseIndex \/ Closed

\* A thread that is inside a call finishes it: a commit notifies its
\* watchers, a find returns, the client closes its cursor, and a close
\* completes.  Nobody has to begin a transaction, a query or a close, nor to
\* commit or cancel.
Fairness ==
  /\ \A t \in Txns : WF_vars(Committed(t)) /\ WF_vars(Finish(t))
  /\ \A t \in Txns, w \in Watchers : WF_vars(\E key \in Keys : FireTrigger(t, w, key))
  /\ \A w \in Watchers :
        WF_vars(InitWatcher(w)) /\ WF_vars(OpenCursor(w)) /\ WF_vars(FireFound(w))
          /\ WF_vars(Activate(w)) /\ WF_vars(Abandon(w))
  /\ WF_vars(Closed)

Spec == Init /\ [][Next]_vars
FairSpec == Spec /\ Fairness

-----------------------------------------------------------------------------
(* Properties *)

AssertNames == {"cancelWatchIsOpen", "abandonLeavesNone", "invalidateHasIndex"}

\* Every variable has the type of the member it models.
TypeOK ==
  /\ indexOpen \in BOOLEAN /\ entries \in SUBSET Keys
  /\ watcherVec \in SUBSET Watchers /\ watcherMap \in [Domains -> Nat]
  /\ pendingKeys \in [Txns -> SUBSET Keys]
  /\ state \in [Watchers -> {"Invalid", "Pending", "Active"}]
  /\ bound \in [Watchers -> BOOLEAN]
  /\ fireKey \in [Watchers -> Nat \cup {NoKey}] /\ limitKey \in [Watchers -> Nat \cup {NoKey}]
  /\ shardSlot \in [Watchers -> {"off", "connected", "invoked"}]
  /\ txn \in [Txns -> {"idle", "active", "committed", "firing"}]
  /\ ins \in [Txns -> SUBSET Keys] /\ del \in [Txns -> SUBSET Keys]
  /\ triggers \in [Txns -> SUBSET (Watchers \X Keys)]
  /\ pc \in [Watchers -> {"idle", "failed", "added", "inited", "found", "open", "done"}]
  /\ endKey \in [Watchers -> Nat \cup {NoKey}]
  /\ abandoning \in SUBSET Watchers /\ closer \in {"idle", "closing", "closed"}
  /\ notified \in [Watchers -> Nat] /\ stale \in [Watchers -> BOOLEAN]
  /\ asserts \in SUBSET AssertNames

\* The index and its watchers agree: a watcher points at the index exactly
\* while it waits, and is in m_watcherVec exactly then or between the two
\* halves of addWatch (so cancelWatch never misses it).
Registered ==
  \A w \in Watchers :
    /\ bound[w] <=> state[w] # "Invalid"
    /\ w \in watcherVec <=> (bound[w] \/ pc[w] = "added")

\* m_watcherMap counts the registered watches of each domain through every
\* race of fire, cancel, activate and abandon.
DomainsCounted ==
  \A d \in Domains : watcherMap[d] = Cardinality({w \in watcherVec : Query[w].domain = d})

\* The registration of watchers is exact, whatever fire, cancel, abandon and close
\* do to them at the same time.
RegistrationExact == Registered /\ DomainsCounted

\* A client is called back at most once, and never while its watcher still
\* waits: fireImpl() invalidates before it signals.
NotifiedOnce ==
  \A w \in Watchers : notified[w] <= 1 /\ (notified[w] = 1 => ~bound[w])

\* A client that has not come back from addWatch was never called back.
Fresh ==
  \A w \in Watchers :
    pc[w] \in {"idle", "failed", "added"} => ~bound[w] /\ notified[w] = 0

\* While the index is being closed nobody can register with it, and the
\* watchers that are still registered have still to be abandoned.
CloseOrder ==
  /\ indexOpen <=> closer = "idle"
  /\ closer # "idle" => \A w \in Watchers : pc[w] # "added"
  /\ closer = "closing" => watcherVec \subseteq abandoning
  /\ closer = "closed" => watcherVec = {}
  /\ "abandonLeavesNone" \notin asserts

\* The inductive invariant behind registration, counting and delivery.
WatchInv == Registered /\ DomainsCounted /\ NotifiedOnce /\ Fresh /\ CloseOrder

\* The point of a watch: a client whose answer went out of date is not left
\* waiting.  If its watcher is active, the commit that changed the answer has
\* still to walk the watchers, or holds a trigger for this one.
NoLostNotification ==
  \A w \in Watchers :
    stale[w] /\ state[w] = "Active" =>
      \E t \in Txns : \/ txn[t] = "committed"
                      \/ txn[t] = "firing" /\ \E k \in Keys : <<w, k>> \in triggers[t]

\* A closed index leaves no client waiting ("otherwise this watch will hang
\* forever", MojDbWatcher::abandon), and its vector was empty when it was
\* cleared, whatever cancels and activations ran during the close.
CloseAbandonsAll ==
  /\ closer = "closed" => \A w \in Watchers : ~bound[w]
  /\ "abandonLeavesNone" \notin asserts

\* MojDb::watch on a query that has a match answers at once: when its cursor
\* is closed the watch has been consumed.
WatchFoundFires ==
  \A w \in Watchers :
    pc[w] = "done" /\ Query[w].call = "watch" /\ endKey[w] # NoKey => ~bound[w]

\* A client whose answer went out of date is eventually called back, unless
\* it cancels its watch: no interleaving of commit, find and close loses it.
EventuallyNotified ==
  \A w \in Watchers : stale[w] ~> ~bound[w]

\* MojAssert(m_index) of invalidate: a watcher is invalidated only while it
\* is registered with an index.
InvalidateRegistered == "invalidateHasIndex" \notin asserts
=============================================================================
