---------------------------- MODULE DbWatch_proofs ----------------------------
(***************************************************************************)
(* Proofs about DbWatch for any number of clients, writers, keys, domains  *)
(* and any queries: the type invariant, the agreement of the index with    *)
(* its watchers, the domain counts, at-most-once delivery, a watch that    *)
(* finds something, and that no notification is lost where the key that    *)
(* committed() picks is enough.                                            *)
(***************************************************************************)
EXTENDS DbWatch, NatSetTheorems

\* The typing of everything but the trigger lists, which needs no fact about
\* the queries; watcherMap is only an integer until the counts are known.
Types ==
  /\ indexOpen \in BOOLEAN
  /\ watcherVec \in SUBSET Watchers /\ watcherMap \in [Domains -> Int]
  /\ state \in [Watchers -> {"Invalid", "Pending", "Active"}]
  /\ bound \in [Watchers -> BOOLEAN]
  /\ shardSlot \in [Watchers -> {"off", "connected", "invoked"}]
  /\ pc \in [Watchers -> {"idle", "failed", "added", "inited", "found", "open", "done"}]
  /\ abandoning \in SUBSET Watchers /\ closer \in {"idle", "closing", "closed"}
  /\ notified \in [Watchers -> Nat]
  /\ asserts \in SUBSET AssertNames

IndInv == Types /\ WatchInv

-----------------------------------------------------------------------------
(* Registration and its undoing, as they act on the counted state. *)

\* The effect of invalidate() on a registered watcher.
Leaves(w) ==
  /\ bound' = [bound EXCEPT ![w] = FALSE]
  /\ state' = [state EXCEPT ![w] = "Invalid"]
  /\ watcherVec' = watcherVec \ {w}
  /\ watcherMap' = [watcherMap EXCEPT ![Query[w].domain] = @ - 1]

\* The shard slot keeps its type, and abandonWatchers' assertion holds.
SlotTyped == shardSlot' \in [Watchers -> {"off", "connected", "invoked"}]
NoAbandonFailure == asserts' \in SUBSET AssertNames /\ "abandonLeavesNone" \notin asserts'

\* Removing a registered watcher lowers the count of its domain by one and
\* leaves the other counts alone: cancelWatch keeps m_watcherMap exact.
LEMMA CountRemove ==
  ASSUME NEW w \in Watchers, w \in watcherVec, watcherVec \in SUBSET Watchers,
         watcherMap \in [Domains -> Int], DomainsCounted,
         watcherVec' = watcherVec \ {w},
         watcherMap' = [watcherMap EXCEPT ![Query[w].domain] = @ - 1]
  PROVE  DomainsCounted'
<1>1. SUFFICES ASSUME NEW d \in Domains
               PROVE  watcherMap'[d] = Cardinality({v \in watcherVec' : Query[v].domain = d})
  BY DEF DomainsCounted
<1> DEFINE S == {v \in watcherVec : Query[v].domain = d}
           T == {v \in watcherVec' : Query[v].domain = d}
<1>2. IsFiniteSet(S)
  BY WatchersAssumption, FS_Subset
<1>3. watcherMap[d] = Cardinality(S)
  BY DEF DomainsCounted
<1>4. CASE d = Query[w].domain
  <2>1. T = S \ {w} /\ w \in S
    BY <1>4
  <2>2. Cardinality(T) = Cardinality(S) - 1
    <3> HIDE DEF S, T
    <3>1. Cardinality(S \ {w}) = Cardinality(S) - 1
      BY <2>1, <1>2, FS_RemoveElement
    <3> QED BY <2>1, <3>1
  <2>3. watcherMap'[d] = watcherMap[d] - 1
    BY <1>4
  <2> QED BY <2>2, <2>3, <1>3
<1>5. CASE d # Query[w].domain
  <2>1. T = S
    BY <1>5
  <2>2. watcherMap'[d] = watcherMap[d]
    BY <1>5
  <2> QED BY <2>1, <2>2, <1>3
<1> QED BY <1>4, <1>5

\* Registering a watcher raises the count of its domain by one: addWatch
\* keeps m_watcherMap exact.
LEMMA CountAdd ==
  ASSUME NEW w \in Watchers, w \notin watcherVec, watcherVec \in SUBSET Watchers,
         watcherMap \in [Domains -> Int], DomainsCounted,
         watcherVec' = watcherVec \cup {w},
         watcherMap' = [watcherMap EXCEPT ![Query[w].domain] = @ + 1]
  PROVE  DomainsCounted'
<1>1. SUFFICES ASSUME NEW d \in Domains
               PROVE  watcherMap'[d] = Cardinality({v \in watcherVec' : Query[v].domain = d})
  BY DEF DomainsCounted
<1> DEFINE S == {v \in watcherVec : Query[v].domain = d}
           T == {v \in watcherVec' : Query[v].domain = d}
<1>2. IsFiniteSet(S)
  BY WatchersAssumption, FS_Subset
<1>3. watcherMap[d] = Cardinality(S)
  BY DEF DomainsCounted
<1>4. CASE d = Query[w].domain
  <2>1. T = S \cup {w} /\ w \notin S
    BY <1>4
  <2>2. Cardinality(T) = Cardinality(S) + 1
    BY <2>1, <1>2, FS_AddElement
  <2>3. watcherMap'[d] = watcherMap[d] + 1
    BY <1>4
  <2> QED BY <2>2, <2>3, <1>3
<1>5. CASE d # Query[w].domain
  <2>1. T = S
    BY <1>5
  <2>2. watcherMap'[d] = watcherMap[d]
    BY <1>5
  <2> QED BY <2>1, <2>2, <1>3
<1> QED BY <1>4, <1>5

\* A registered watcher that leaves, notifying its client or not, keeps the
\* invariant; this covers fire, activate, cancel, abandon and
\* shardStatusChanged.
LEMMA LeavesKeeps ==
  ASSUME IndInv, NEW w \in Watchers, bound[w], Leaves(w),
         notified' = notified \/ notified' = [notified EXCEPT ![w] = @ + 1],
         pc' = pc \/ (pc[w] = "found" /\ pc' = [pc EXCEPT ![w] = "open"])
                  \/ (pc[w] = "open" /\ pc' = [pc EXCEPT ![w] = "done"]),
         SlotTyped, NoAbandonFailure, UNCHANGED <<indexOpen, closer>>,
         abandoning' = abandoning \/ abandoning' = abandoning \ {w}
  PROVE  IndInv'
<1> USE DEF IndInv
<1>1. w \in watcherVec
  BY DEF WatchInv, Registered
<1>2. Types'
  <2>1. Query[w].domain \in Domains
    BY QueryAssumption DEF QueryPlan
  <2>2. watcherMap' \in [Domains -> Int]
    BY <2>1 DEF Types, Leaves
  <2>3. notified' \in [Watchers -> Nat]
    BY DEF Types
  <2>4. pc' \in [Watchers -> {"idle", "failed", "added", "inited", "found", "open", "done"}]
    BY DEF Types
  <2>5. state' \in [Watchers -> {"Invalid", "Pending", "Active"}] /\ bound' \in [Watchers -> BOOLEAN]
    BY DEF Types, Leaves
  <2> QED BY <2>2, <2>3, <2>4, <2>5 DEF Types, Leaves, SlotTyped, NoAbandonFailure
<1>3. Registered'
  <2>1. SUFFICES ASSUME NEW v \in Watchers
                 PROVE  /\ bound'[v] <=> state'[v] # "Invalid"
                        /\ v \in watcherVec' <=> (bound'[v] \/ pc'[v] = "added")
    BY DEF Registered
  <2>2. pc[w] # "added" /\ pc'[w] # "added"
    BY DEF WatchInv, Fresh, Types
  <2>3. CASE v = w
    BY <2>2, <2>3 DEF Types, Leaves
  <2>4. CASE v # w
    <3>1. bound'[v] = bound[v] /\ state'[v] = state[v] /\ pc'[v] = pc[v]
      BY <2>4 DEF Types, Leaves
    <3> QED BY <2>4, <3>1 DEF WatchInv, Registered, Leaves
  <2> QED BY <2>3, <2>4
<1>4. DomainsCounted'
  BY <1>1, CountRemove DEF WatchInv, Types, Leaves
<1>5. NotifiedOnce' /\ Fresh'
  <2>1. SUFFICES ASSUME NEW v \in Watchers
                 PROVE  /\ notified'[v] <= 1 /\ (notified'[v] = 1 => ~bound'[v])
                        /\ pc'[v] \in {"idle", "failed", "added"} => ~bound'[v] /\ notified'[v] = 0
    BY DEF NotifiedOnce, Fresh
  <2>2. notified[w] = 0 /\ pc[w] \notin {"idle", "failed", "added"}
    BY DEF WatchInv, NotifiedOnce, Fresh, Types
  <2>3. CASE v = w
    BY <2>2, <2>3 DEF Types, Leaves
  <2>4. CASE v # w
    <3>1. bound'[v] = bound[v] /\ notified'[v] = notified[v] /\ pc'[v] = pc[v]
      BY <2>4 DEF Types, Leaves
    <3> QED BY <3>1 DEF WatchInv, NotifiedOnce, Fresh
  <2> QED BY <2>3, <2>4
<1>6. CloseOrder'
  <2>1. \A v \in Watchers : pc'[v] = "added" => pc[v] = "added"
    BY DEF Types
  <2>2. watcherVec' \subseteq watcherVec \ {w} /\ "abandonLeavesNone" \notin asserts'
    BY DEF Leaves, NoAbandonFailure
  <2> QED BY <2>1, <2>2 DEF WatchInv, CloseOrder
<1> QED BY <1>2, <1>3, <1>4, <1>5, <1>6 DEF WatchInv

-----------------------------------------------------------------------------
(* What the other steps do to the invariant. *)

\* The clients that have not come back from addWatch.
Early == {"idle", "failed", "added"}

\* A step that leaves registration and delivery alone.
SameRegistration == UNCHANGED <<watcherVec, watcherMap, bound, notified, indexOpen, closer>>
SameStates ==
  /\ state' \in [Watchers -> {"Invalid", "Pending", "Active"}]
  /\ \A v \in Watchers : state'[v] = "Invalid" <=> state[v] = "Invalid"
ClientMoves ==
  /\ pc' \in [Watchers -> {"idle", "failed", "added", "inited", "found", "open", "done"}]
  /\ \A v \in Watchers : pc'[v] = "added" <=> pc[v] = "added"
  /\ \A v \in Watchers : pc'[v] \in Early => pc[v] \in Early
OnlyUnregisteredVisited ==
  abandoning' \in SUBSET abandoning /\ watcherVec \cap (abandoning \ abandoning') = {}

\* Such a step keeps the invariant.
LEMMA FrameKeeps ==
  ASSUME IndInv, SameRegistration, SameStates, ClientMoves, SlotTyped, NoAbandonFailure,
         OnlyUnregisteredVisited
  PROVE  IndInv'
<1> USE DEF IndInv, SameRegistration, SameStates, ClientMoves, SlotTyped, NoAbandonFailure,
            OnlyUnregisteredVisited
<1>1. Types'
  BY DEF Types
<1>2. Registered' /\ DomainsCounted'
  BY DEF WatchInv, Registered, DomainsCounted
<1>3. NotifiedOnce' /\ Fresh'
  BY DEF WatchInv, NotifiedOnce, Fresh, Early
<1>4. CloseOrder'
  BY DEF WatchInv, CloseOrder
<1> QED BY <1>1, <1>2, <1>3, <1>4 DEF WatchInv

\* What stays as it is satisfies its part of the frame.
LEMMA SameKeeps ==
  ASSUME IndInv
  PROVE  /\ state' = state => SameStates
         /\ pc' = pc => ClientMoves
         /\ shardSlot' = shardSlot => SlotTyped
         /\ asserts' = asserts => NoAbandonFailure
         /\ abandoning' = abandoning => OnlyUnregisteredVisited
<1> USE DEF IndInv, Types
<1>1. state' = state => SameStates
  BY DEF SameStates
<1>2. pc' = pc => ClientMoves
  BY DEF ClientMoves
<1>3. shardSlot' = shardSlot => SlotTyped
  BY DEF SlotTyped
<1>4. asserts' = asserts => NoAbandonFailure
  BY DEF NoAbandonFailure, WatchInv, CloseOrder
<1>5. abandoning' = abandoning => OnlyUnregisteredVisited
  BY DEF OnlyUnregisteredVisited
<1> QED BY <1>1, <1>2, <1>3, <1>4, <1>5

\* invalidate() of a registered watcher takes it out of the index.
LEMMA InvalidateLeaves ==
  ASSUME IndInv, NEW w \in Watchers, bound[w], Invalidate(w)
  PROVE  Leaves(w) /\ SlotTyped /\ NoAbandonFailure
<1>1. w \in watcherVec
  BY DEF IndInv, WatchInv, Registered
<1>2. Leaves(w)
  BY <1>1 DEF Invalidate, CancelWatch, Leaves
<1>3. SlotTyped
  BY DEF SlotTyped, Invalidate, IndInv, Types
<1>4. NoAbandonFailure
  BY DEF NoAbandonFailure, Invalidate, CancelWatch, IndInv, WatchInv, Types, CloseOrder, AssertNames
<1> QED BY <1>2, <1>3, <1>4

\* fire() keeps the invariant, whoever calls it.
LEMMA FireKeeps ==
  ASSUME IndInv, NEW w \in Watchers, NEW key, Fire(w, key),
         pc' = pc \/ (pc[w] = "found" /\ pc' = [pc EXCEPT ![w] = "open"]),
         UNCHANGED <<indexOpen, closer, abandoning>>
  PROVE  IndInv'
<1>1. CASE FireImpl(w) /\ state[w] = "Active"
  <2>1. bound[w]
    BY <1>1 DEF IndInv, WatchInv, Registered
  <2>2. Invalidate(w) /\ notified' = [notified EXCEPT ![w] = @ + 1]
    BY <1>1 DEF FireImpl
  <2> QED BY <2>1, <2>2, InvalidateLeaves, LeavesKeeps
<1>2. CASE UNCHANGED <<watcherVec, watcherMap, state, bound, shardSlot, notified, asserts>>
  <2>1. ClientMoves
    BY DEF ClientMoves, IndInv, Types, Early
  <2> QED BY <1>2, <2>1, SameKeeps, FrameKeeps DEF SameRegistration
<1> QED BY <1>1, <1>2 DEF Fire, watchVars

-----------------------------------------------------------------------------
\* The invariant holds at the start.
LEMMA InitKeeps == Init => IndInv
<1> SUFFICES ASSUME Init PROVE IndInv
  OBVIOUS
<1>1. Types
  BY DEF Init, Types
<1>2. Registered /\ NotifiedOnce /\ Fresh /\ CloseOrder
  BY DEF Init, Registered, NotifiedOnce, Fresh, CloseOrder
<1>3. DomainsCounted
  <2>1. \A d \in Domains : {w \in watcherVec : Query[w].domain = d} = {}
    BY DEF Init
  <2> QED BY <2>1, FS_EmptySet DEF Init, DomainsCounted
<1> QED BY <1>1, <1>2, <1>3 DEF IndInv, WatchInv

\* A writer's own steps touch no watcher; its triggers go through fire().
LEMMA WriterKeeps == ASSUME IndInv, NEW t \in Txns, Writer(t) PROVE IndInv'
<1>1. CASE \E w \in Watchers, key \in Keys : FireTrigger(t, w, key)
  BY <1>1, FireKeeps DEF FireTrigger, clientVars, closeVars
<1>2. CASE \/ Begin(t) \/ Abort(t) \/ CommitImpl(t) \/ Committed(t) \/ Finish(t)
           \/ \E old, new \in KeySets : Update(t, old, new)
  <2>1. UNCHANGED <<indexOpen, watcherVec, watcherMap, state, bound, shardSlot, pc,
                    abandoning, closer, notified, asserts>>
    BY <1>2 DEF Begin, Abort, Forget, CommitImpl, Committed, Finish, Update,
                indexVars, watchVars, clientVars, closeVars, obsVars
  <2> QED BY <2>1, SameKeeps, FrameKeeps DEF SameRegistration
<1> QED BY <1>1, <1>2 DEF Writer

\* addWatch registers a client that was not registered.
LEMMA AddWatchKeeps == ASSUME IndInv, NEW w \in Watchers, AddWatch(w) PROVE IndInv'
<1> USE DEF IndInv
<1>1. w \notin watcherVec /\ ~bound[w] /\ notified[w] = 0
  BY DEF AddWatch, WatchInv, Registered, Fresh
<1>2. Types'
  <2>1. Query[w].domain \in Domains
    BY QueryAssumption DEF QueryPlan
  <2>2. watcherMap' \in [Domains -> Int]
    BY <2>1 DEF Types, AddWatch
  <2>3. SlotTyped
    BY DEF SlotTyped, Types, AddWatch, ConnectShardSlot
  <2> QED BY <2>2, <2>3 DEF Types, SlotTyped, AddWatch, closeVars, obsVars
<1>3. Registered'
  BY <1>1 DEF AddWatch, WatchInv, Types, Registered
<1>4. DomainsCounted'
  BY <1>1, CountAdd DEF AddWatch, WatchInv, Types
<1>5. NotifiedOnce' /\ Fresh'
  BY <1>1 DEF AddWatch, WatchInv, Types, NotifiedOnce, Fresh, obsVars
<1>6. CloseOrder'
  BY DEF AddWatch, WatchInv, CloseOrder, closeVars, obsVars
<1> QED BY <1>2, <1>3, <1>4, <1>5, <1>6 DEF WatchInv

\* init() turns a registered client into a waiting one.
LEMMA InitWatcherKeeps == ASSUME IndInv, NEW w \in Watchers, InitWatcher(w) PROVE IndInv'
<1> USE DEF IndInv
<1>1. Types'
  BY DEF InitWatcher, Types, indexVars, closeVars, obsVars
<1>2. Registered'
  BY DEF InitWatcher, WatchInv, Types, Registered, indexVars
<1>3. DomainsCounted'
  BY DEF InitWatcher, WatchInv, DomainsCounted, indexVars
<1>4. NotifiedOnce' /\ Fresh'
  BY DEF InitWatcher, WatchInv, Types, NotifiedOnce, Fresh, obsVars
<1>5. CloseOrder'
  BY DEF InitWatcher, WatchInv, Types, CloseOrder, indexVars, closeVars, obsVars
<1> QED BY <1>1, <1>2, <1>3, <1>4, <1>5 DEF WatchInv

\* activate(): consumed by an early fire, or waiting from now on.
LEMMA ActivateKeeps == ASSUME IndInv, NEW w \in Watchers, Activate(w) PROVE IndInv'
<1>1. ClientMoves
  BY DEF Activate, ClientMoves, IndInv, Types, Early
<1>2. CASE state[w] # "Invalid" /\ FireImpl(w)
  <2>1. bound[w]
    BY <1>2 DEF IndInv, WatchInv, Registered
  <2>2. Invalidate(w) /\ notified' = [notified EXCEPT ![w] = @ + 1]
    BY <1>2 DEF FireImpl
  <2> QED BY <2>1, <2>2, InvalidateLeaves, LeavesKeeps DEF Activate, closeVars
<1>3. CASE /\ state[w] # "Invalid" /\ state' = [state EXCEPT ![w] = "Active"]
           /\ UNCHANGED <<watcherVec, watcherMap, bound, shardSlot, notified, asserts>>
  <2>1. SameStates
    BY <1>3 DEF SameStates, IndInv, Types
  <2>2. UNCHANGED <<indexOpen, closer, abandoning>>
    BY DEF Activate, closeVars
  <2> QED BY <1>1, <1>3, <2>1, <2>2, SameKeeps, FrameKeeps DEF SameRegistration
<1>4. CASE UNCHANGED <<watcherVec, watcherMap, watchVars, notified, asserts>>
  <2>1. UNCHANGED <<indexOpen, closer, abandoning, watcherVec, watcherMap, state, bound,
                    shardSlot, notified, asserts>>
    BY <1>4 DEF Activate, closeVars, watchVars
  <2> QED BY <1>1, <2>1, SameKeeps, FrameKeeps DEF SameRegistration
<1> QED BY <1>2, <1>3, <1>4 DEF Activate

\* Every step of a client keeps the invariant.
LEMMA ClientKeeps == ASSUME IndInv, NEW w \in Watchers, Client(w) PROVE IndInv'
<1>1. CASE FindFails(w)
  <2>1. SlotTyped
    BY <1>1 DEF SlotTyped, FindFails, ConnectShardSlot, IndInv, Types
  <2>2. ClientMoves
    BY <1>1 DEF FindFails, ClientMoves, IndInv, Types, Early
  <2>3. UNCHANGED <<indexOpen, closer, abandoning, watcherVec, watcherMap, state, bound,
                    notified, asserts>>
    BY <1>1 DEF FindFails, indexVars, closeVars, obsVars
  <2> QED BY <2>1, <2>2, <2>3, SameKeeps, FrameKeeps DEF SameRegistration
<1>2. CASE OpenCursor(w)
  <2>1. ClientMoves
    BY <1>2 DEF OpenCursor, ClientMoves, IndInv, Types, Early
  <2>2. UNCHANGED <<indexOpen, closer, abandoning, watcherVec, watcherMap, state, bound,
                    shardSlot, notified, asserts>>
    BY <1>2 DEF OpenCursor, indexVars, watchVars, closeVars, obsVars
  <2> QED BY <2>1, <2>2, SameKeeps, FrameKeeps DEF SameRegistration
<1>3. CASE FireFound(w)
  BY <1>3, FireKeeps DEF FireFound, closeVars
<1>4. CASE Cancel(w)
  BY <1>4, InvalidateLeaves, LeavesKeeps DEF Cancel, clientVars, closeVars
<1> QED BY <1>1, <1>2, <1>3, <1>4, AddWatchKeeps, InitWatcherKeeps, ActivateKeeps DEF Client

\* Closing the index, one watcher at a time.
LEMMA CloseKeeps ==
  ASSUME IndInv, CloseIndex \/ Closed \/ \E w \in Watchers : Abandon(w)
  PROVE  IndInv'
<1>1. CASE CloseIndex
  <2>1. \A w \in Watchers : pc[w] # "added"
    BY <1>1 DEF CloseIndex, SchemaShared
  <2>2. Types'
    BY <1>1 DEF CloseIndex, IndInv, Types, watchVars, clientVars, obsVars
  <2>3. Registered' /\ DomainsCounted'
    BY <1>1 DEF CloseIndex, IndInv, WatchInv, Registered, DomainsCounted, watchVars, clientVars
  <2>4. NotifiedOnce' /\ Fresh'
    BY <1>1 DEF CloseIndex, IndInv, WatchInv, NotifiedOnce, Fresh, watchVars, clientVars, obsVars
  <2>5. CloseOrder'
    BY <1>1, <2>1 DEF CloseIndex, IndInv, WatchInv, CloseOrder, clientVars, obsVars
  <2> QED BY <2>2, <2>3, <2>4, <2>5 DEF IndInv, WatchInv
<1>2. CASE Closed
  <2>1. watcherVec = {} /\ watcherVec' = {} /\ asserts' = asserts
    BY <1>2 DEF Closed, IndInv, WatchInv, CloseOrder
  <2>2. Types'
    BY <1>2, <2>1 DEF Closed, IndInv, Types, watchVars, clientVars
  <2>3. Registered' /\ DomainsCounted'
    BY <1>2, <2>1 DEF Closed, IndInv, WatchInv, Registered, DomainsCounted, watchVars, clientVars
  <2>4. NotifiedOnce' /\ Fresh'
    BY <1>2 DEF Closed, IndInv, WatchInv, NotifiedOnce, Fresh, watchVars, clientVars
  <2>5. CloseOrder'
    BY <1>2, <2>1 DEF Closed, IndInv, WatchInv, CloseOrder, clientVars
  <2> QED BY <2>2, <2>3, <2>4, <2>5 DEF IndInv, WatchInv
<1>3. ASSUME NEW w \in Watchers, Abandon(w) PROVE IndInv'
  <2>1. CASE state[w] # "Invalid" /\ FireImpl(w)
    <3>1. bound[w]
      BY <2>1 DEF IndInv, WatchInv, Registered
    <3>2. Invalidate(w) /\ notified' = [notified EXCEPT ![w] = @ + 1]
      BY <2>1 DEF FireImpl
    <3> QED BY <1>3, <3>1, <3>2, InvalidateLeaves, LeavesKeeps DEF Abandon, clientVars
  <2>2. CASE state[w] = "Invalid" /\ UNCHANGED <<watcherVec, watcherMap, watchVars, notified, asserts>>
    <3>1. w \notin watcherVec
      BY <1>3, <2>2 DEF Abandon, IndInv, WatchInv, Registered, CloseOrder
    <3>2. UNCHANGED <<indexOpen, closer, watcherVec, watcherMap, state, bound, shardSlot, pc,
                      notified, asserts>>
      BY <1>3, <2>2 DEF Abandon, clientVars, watchVars
    <3>3. OnlyUnregisteredVisited
      BY <1>3, <3>1 DEF OnlyUnregisteredVisited, Abandon, IndInv, Types
    <3> QED BY <3>2, <3>3, SameKeeps, FrameKeeps DEF SameRegistration
  <2> QED BY <1>3, <2>1, <2>2 DEF Abandon
<1> QED BY <1>1, <1>2, <1>3

\* A shard announcement invalidates a registered watcher, or kills the process.
LEMMA ShardKeeps ==
  ASSUME IndInv, NEW w \in Watchers, ShardSignal(w) \/ ShardStatusChanged(w)
  PROVE  IndInv'
<1>1. SlotTyped
  BY DEF SlotTyped, ShardSignal, ShardStatusChanged, IndInv, Types
<1>2. CASE ShardSignal(w)
  BY <1>1, <1>2, SameKeeps, FrameKeeps
  DEF ShardSignal, SameRegistration, indexVars, clientVars, closeVars, obsVars
<1>3. CASE ShardStatusChanged(w) /\ bound[w]
  <2>1. w \in watcherVec
    BY <1>3 DEF IndInv, WatchInv, Registered
  <2>2. Leaves(w) /\ notified' = [notified EXCEPT ![w] = @ + 1]
    BY <1>3, <2>1 DEF ShardStatusChanged, CancelWatch, Leaves
  <2>3. NoAbandonFailure
    BY <1>3 DEF NoAbandonFailure, ShardStatusChanged, CancelWatch, IndInv, WatchInv, Types, CloseOrder, AssertNames
  <2> QED BY <1>1, <1>3, <2>2, <2>3, LeavesKeeps DEF ShardStatusChanged, clientVars, closeVars
<1>4. CASE ShardStatusChanged(w) /\ ~bound[w]
  <2>1. NoAbandonFailure
    BY <1>4 DEF NoAbandonFailure, ShardStatusChanged, IndInv, WatchInv, Types, CloseOrder, AssertNames
  <2> QED BY <1>1, <1>4, <2>1, SameKeeps, FrameKeeps
          DEF ShardStatusChanged, SameRegistration, clientVars, closeVars
<1> QED BY <1>2, <1>3, <1>4

\* Every step keeps the invariant.
LEMMA NextKeeps == IndInv /\ [Next]_vars => IndInv'
<1> SUFFICES ASSUME IndInv, [Next]_vars PROVE IndInv'
  OBVIOUS
<1>1. CASE UNCHANGED vars
  BY <1>1, SameKeeps, FrameKeeps
  DEF vars, indexVars, watchVars, clientVars, closeVars, obsVars, SameRegistration
<1>2. CASE Next
  BY <1>2, WriterKeeps, ClientKeeps, CloseKeeps, ShardKeeps DEF Next
<1> QED BY <1>1, <1>2

\* In every behaviour the index and its watchers agree, the domain counts are
\* exact, and the close order holds: addWatch, cancelWatch, fire, activate,
\* abandon and shardStatusChanged never leave a watcher half registered.
THEOREM WatchInvariance == Spec => [](Types /\ WatchInv)
<1>1. Init => IndInv
  BY InitKeeps
<1>2. IndInv /\ [Next]_vars => IndInv'
  BY NextKeeps
<1> QED BY <1>1, <1>2, PTL DEF Spec, IndInv

-----------------------------------------------------------------------------
(* The rest of the type invariant: keys, transactions and triggers. *)

KeyOrNone == Nat \cup {NoKey}

KeyTypes ==
  /\ fireKey \in [Watchers -> KeyOrNone] /\ limitKey \in [Watchers -> KeyOrNone]
  /\ endKey \in [Watchers -> KeyOrNone]

TxnTypes ==
  /\ entries \in SUBSET Keys
  /\ pendingKeys \in [Txns -> SUBSET Keys]
  /\ txn \in [Txns -> {"idle", "active", "committed", "firing"}]
  /\ ins \in [Txns -> SUBSET Keys] /\ del \in [Txns -> SUBSET Keys]
  /\ triggers \in [Txns -> SUBSET (Watchers \X Keys)]
  /\ stale \in [Watchers -> BOOLEAN]

\* The end key of a storage query is a key, or none when no limit was hit.
LEMMA EndKeyType ==
  ASSUME NEW w \in Watchers, NEW E \in SUBSET Keys
  PROVE  EndKey(w, E) \in KeyOrNone
<1> DEFINE A == Answer(w, E)
<1>1. A \in SUBSET Nat /\ IsFiniteSet(A)
  <2>1. A \subseteq Keys
    BY DEF Answer
  <2> QED BY <2>1, KeysAssumption, FS_Subset
<1>2. CASE Cardinality(A) < Query[w].limit
  BY <1>2 DEF EndKey, KeyOrNone
<1>3. CASE ~(Cardinality(A) < Query[w].limit)
  <2>1. A # {}
    <3>1. Query[w].limit \in Nat /\ Query[w].limit > 0
      BY QueryAssumption DEF QueryPlan
    <3>2. Cardinality({}) = 0
      BY FS_EmptySet
    <3> QED BY <1>3, <3>1, <3>2
  <2> HIDE DEF A
  <2>2. Min(A) \in Nat /\ Max(A) \in Nat
    BY <1>1, <2>1, MinIn, MaxIn
  <2>3. EndKey(w, E) = IF Query[w].desc THEN Min(A) ELSE Max(A) + 1
    BY <1>3 DEF A, EndKey, Increment
  <2> QED BY <2>2, <2>3 DEF KeyOrNone
<1> QED BY <1>2, <1>3

\* committed() triggers a watcher with a key of one of its ranges.
LEMMA FirstMatchType ==
  ASSUME TxnTypes, NEW w \in Watchers, MatchedRanges(w) # {}
  PROVE  FirstMatch(Query[w].ranges[Min(MatchedRanges(w))]) \in Keys
<1>1. MatchedRanges(w) \in SUBSET Nat
  BY QueryAssumption DEF QueryPlan, MatchedRanges
<1>2. Min(MatchedRanges(w)) \in MatchedRanges(w)
  BY <1>1, MinIn
<1> DEFINE r == Query[w].ranges[Min(MatchedRanges(w))]
           hit == {t \in Txns : pendingKeys[t] \cap r # {}}
<1>3. hit # {} /\ hit \in SUBSET Nat
  BY <1>2, TxnsAssumption DEF MatchedRanges
<1>4. Min(hit) \in hit
  BY <1>3, MinIn
<1> DEFINE K == pendingKeys[Min(hit)] \cap r
<1>5. K # {} /\ K \in SUBSET Keys
  BY <1>4 DEF TxnTypes
<1>6. Min(K) \in K
  BY <1>5, KeysAssumption, MinIn
<1> QED BY <1>5, <1>6 DEF FirstMatch

\* Keys stay keys.
LEMMA KeyTypesKeeps ==
  ASSUME KeyTypes, entries \in SUBSET Keys, [Next]_vars PROVE KeyTypes'
<1> USE DEF KeyTypes
<1>1. ASSUME NEW w \in Watchers, NEW key \in KeyOrNone, Fire(w, key)
      PROVE  /\ fireKey' \in [Watchers -> KeyOrNone]
             /\ limitKey' \in [Watchers -> KeyOrNone]
  BY <1>1 DEF Fire, watchVars
<1>2. ASSUME NEW t \in Txns, Writer(t) PROVE KeyTypes'
  <2>1. CASE \E w \in Watchers, key \in Keys : FireTrigger(t, w, key)
    <3>1. PICK w \in Watchers, key \in Keys : FireTrigger(t, w, key)
      BY <2>1
    <3>2. key \in KeyOrNone
      BY KeysAssumption DEF KeyOrNone
    <3>3. Fire(w, key) /\ endKey' = endKey
      BY <3>1 DEF FireTrigger, clientVars
    <3> QED BY <1>1, <3>2, <3>3
  <2>2. CASE \/ Begin(t) \/ Abort(t) \/ CommitImpl(t) \/ Committed(t) \/ Finish(t)
             \/ \E old, new \in KeySets : Update(t, old, new)
    BY <2>2 DEF Begin, Abort, Forget, CommitImpl, Committed, Finish, Update, watchVars, clientVars
  <2> QED BY <1>2, <2>1, <2>2 DEF Writer
<1>3. ASSUME NEW w \in Watchers, Client(w) PROVE KeyTypes'
  <2>1. CASE OpenCursor(w)
    BY <2>1, EndKeyType DEF OpenCursor, watchVars
  <2>2. CASE FireFound(w)
    <3>1. Fire(w, endKey[w]) /\ endKey[w] \in KeyOrNone /\ endKey' = endKey
      BY <2>2 DEF FireFound
    <3> QED BY <1>1, <3>1
  <2>3. CASE Activate(w)
    BY <2>3 DEF Activate, watchVars
  <2>4. CASE FindFails(w) \/ AddWatch(w) \/ InitWatcher(w) \/ Cancel(w)
    BY <2>4 DEF FindFails, AddWatch, InitWatcher, Cancel, clientVars
  <2> QED BY <1>3, <2>1, <2>2, <2>3, <2>4 DEF Client
<1>4. ASSUME NEW w \in Watchers, Abandon(w) \/ ShardSignal(w) \/ ShardStatusChanged(w)
      PROVE  KeyTypes'
  BY <1>4 DEF Abandon, ShardSignal, ShardStatusChanged, watchVars, clientVars
<1>5. CASE CloseIndex \/ Closed \/ UNCHANGED vars
  BY <1>5 DEF CloseIndex, Closed, vars, watchVars, clientVars
<1> QED BY <1>2, <1>3, <1>4, <1>5 DEF Next

\* Transactions move keys of the index, and trigger watchers with keys.
LEMMA TxnTypesKeeps ==
  ASSUME TxnTypes, Types, [Next]_vars PROVE TxnTypes'
<1> USE DEF TxnTypes
<1>1. ASSUME NEW t \in Txns, Writer(t) PROVE TxnTypes'
  <2>1. CASE Begin(t) \/ Abort(t) \/ Finish(t)
    BY <2>1 DEF Begin, Abort, Finish, Forget, indexVars, obsVars
  <2>2. CASE \E old, new \in KeySets : Update(t, old, new)
    BY <2>2 DEF Update, KeySets, obsVars
  <2>3. CASE CommitImpl(t)
    <3>1. stale' \in [Watchers -> BOOLEAN]
      BY <2>3 DEF CommitImpl, HasAnswer, AnswerChanges
    <3>2. View(t) \in SUBSET Keys
      BY DEF View
    <3> QED BY <2>3, <3>1, <3>2 DEF CommitImpl
  <2>4. CASE Committed(t)
    <3> DEFINE W == {v \in watcherVec : pc[v] # "added" /\ MatchedRanges(v) # {}}
               T == {<<w, FirstMatch(Query[w].ranges[Min(MatchedRanges(w))])>> : w \in W}
    <3>1. \A w \in W : /\ w \in Watchers
                       /\ FirstMatch(Query[w].ranges[Min(MatchedRanges(w))]) \in Keys
      BY FirstMatchType DEF Types
    <3>2. T \in SUBSET (Watchers \X Keys)
      BY <3>1
    <3>3. triggers' = [triggers EXCEPT ![t] = T]
      BY <2>4 DEF Committed
    <3>4. triggers' \in [Txns -> SUBSET (Watchers \X Keys)]
      <4> HIDE DEF T
      <4> QED BY <3>2, <3>3
    <3> QED BY <2>4, <3>4 DEF Committed, indexVars, obsVars
  <2>5. CASE \E w \in Watchers, key \in Keys : FireTrigger(t, w, key)
    BY <2>5 DEF FireTrigger
  <2> QED BY <1>1, <2>1, <2>2, <2>3, <2>4, <2>5 DEF Writer
<1>2. CASE \/ \E w \in Watchers : Client(w) \/ Abandon(w) \/ ShardSignal(w) \/ ShardStatusChanged(w)
           \/ CloseIndex \/ Closed \/ UNCHANGED vars
  <2>1. UNCHANGED <<entries, pendingKeys, txn, ins, del, triggers, stale>>
    BY <1>2 DEF Client, FindFails, AddWatch, InitWatcher, OpenCursor, FireFound, Activate, Cancel,
       Abandon, ShardSignal, ShardStatusChanged, CloseIndex, Closed, vars, indexVars, txnVars, obsVars
  <2> QED BY <2>1
<1> QED BY <1>1, <1>2 DEF Next

\* Every variable has the type of the member it models; in particular no
\* domain count is ever negative and every trigger carries a key.
THEOREM TypeCorrect == Spec => []TypeOK
<1>1. Init => KeyTypes /\ TxnTypes
  BY DEF Init, KeyTypes, TxnTypes, KeyOrNone
<1>2. KeyTypes /\ TxnTypes /\ Types /\ [Next]_vars => (KeyTypes /\ TxnTypes)'
  BY KeyTypesKeeps, TxnTypesKeeps DEF TxnTypes
<1>3. KeyTypes /\ TxnTypes /\ Types /\ WatchInv => TypeOK
  <2>1. Types /\ WatchInv => watcherMap \in [Domains -> Nat]
    <3> SUFFICES ASSUME Types, WatchInv, NEW d \in Domains PROVE watcherMap[d] \in Nat
      BY DEF Types
    <3>1. IsFiniteSet({w \in watcherVec : Query[w].domain = d})
      BY WatchersAssumption, FS_Subset DEF Types
    <3> QED BY <3>1, FS_CardinalityType DEF WatchInv, DomainsCounted
  <2> QED BY <2>1 DEF TypeOK, Types, KeyTypes, TxnTypes, KeyOrNone
<1> QED BY <1>1, <1>2, <1>3, WatchInvariance, PTL DEF Spec

-----------------------------------------------------------------------------
\* A watcher is in m_watcherVec exactly while it waits (or is being added).
THEOREM RegisteredAlways == Spec => []Registered
BY WatchInvariance, PTL DEF WatchInv

\* m_watcherMap counts the registered watches of every domain.
THEOREM DomainsCountedAlways == Spec => []DomainsCounted
BY WatchInvariance, PTL DEF WatchInv

\* The registration of watchers stays exact: the two facts above together.
THEOREM RegistrationExactAlways == Spec => []RegistrationExact
BY RegisteredAlways, DomainsCountedAlways, PTL DEF RegistrationExact

\* No client is called back twice, whatever threads race to fire its watcher.
THEOREM NotifiedOnceAlways == Spec => []NotifiedOnce
BY WatchInvariance, PTL DEF WatchInv

\* A closed index leaves no client waiting.
THEOREM CloseAbandonsAllAlways == Spec => []CloseAbandonsAll
<1>1. WatchInv => CloseAbandonsAll
  BY DEF WatchInv, Registered, CloseOrder, CloseAbandonsAll
<1> QED BY <1>1, WatchInvariance, PTL
-----------------------------------------------------------------------------
(* What a client's cursor does to its watcher, one client at a time. *)

\* The limit key is set when the cursor is closed, to the end of the answer,
\* and a watcher is active only from then on; a match has an end.
CursorOrder(w) ==
  /\ pc[w] # "done" => limitKey[w] = NoKey /\ state[w] # "Active"
  /\ pc[w] = "done" => state[w] # "Pending" /\ (state[w] = "Active" => limitKey[w] = endKey[w])
  /\ pc[w] = "found" => endKey[w] # NoKey
  /\ ~HasAnswer(w) => endKey[w] = NoKey

\* A watch that found something is about to fire, has fired before its
\* activation, or is consumed.
FoundConsumed(w) ==
  Query[w].call = "watch" /\ endKey[w] # NoKey /\ state[w] # "Invalid" =>
    pc[w] = "found" \/ (pc[w] = "open" /\ FiredEarly(w))

Cursors == \A w \in Watchers : CursorOrder(w) /\ FoundConsumed(w)

SameKeys(w)   == UNCHANGED <<fireKey[w], limitKey[w], endKey[w]>>
SameClient(w) == SameKeys(w) /\ UNCHANGED <<state[w], pc[w]>>

\* The client waits in addWatch, or its watch becomes a waiting one.
Registers(w) ==
  /\ SameKeys(w)
  /\ \/ pc[w] = "idle" /\ pc'[w] \in {"failed", "added"} /\ state'[w] = state[w]
     \/ pc[w] = "added" /\ pc'[w] = "inited" /\ state'[w] = "Pending"

\* The cursor is opened and knows where its answer ends.
Opens(w) ==
  /\ pc[w] = "inited" /\ endKey'[w] = EndKey(w, entries)
  /\ UNCHANGED <<fireKey[w], limitKey[w], state[w]>>
  /\ pc'[w] = IF Query[w].call = "watch" /\ Answer(w, entries) # {} THEN "found" ELSE "open"

\* The watcher is invalidated, by whatever call.
Consumed(w) ==
  /\ SameKeys(w) /\ state'[w] = "Invalid"
  /\ \/ pc'[w] = pc[w]
     \/ pc[w] = "found" /\ pc'[w] = "open"
     \/ pc[w] = "open" /\ pc'[w] = "done"

\* A pending watcher remembers the first key it was fired with.
Remembers(w, key) ==
  /\ state[w] = "Pending" /\ UNCHANGED <<limitKey[w], endKey[w], state[w]>>
  /\ fireKey'[w] = IF fireKey[w] # NoKey => Precedes(w, key, fireKey[w]) THEN key ELSE fireKey[w]
  /\ \/ pc'[w] = pc[w] /\ key # NoKey
     \/ pc[w] = "found" /\ pc'[w] = "open" /\ key = endKey[w]

\* A watch that was consumed before fires again to no effect.
FoundInvalid(w) ==
  /\ SameKeys(w) /\ UNCHANGED state[w]
  /\ pc[w] = "found" /\ pc'[w] = "open"
  /\ ~WithinLimit(w, endKey[w], limitKey[w]) \/ state[w] = "Invalid"

\* The cursor is closed, and the watcher waits for keys up to its end.
Waits(w) ==
  /\ pc[w] = "open" /\ pc'[w] = "done" /\ ~FiredEarly(w) /\ state[w] # "Invalid"
  /\ state'[w] = "Active" /\ limitKey'[w] = endKey[w]
  /\ UNCHANGED <<fireKey[w], endKey[w]>>

ClientStep(w) ==
  \/ SameClient(w) \/ Registers(w) \/ Opens(w) \/ Consumed(w)
  \/ (\E key \in KeyOrNone : Remembers(w, key)) \/ FoundInvalid(w) \/ Waits(w)

\* fire() concerns its own watcher only.
LEMMA FireEffect ==
  ASSUME Types, KeyTypes, NEW w \in Watchers, NEW v \in Watchers, NEW key, Fire(w, key)
  PROVE  /\ v # w => UNCHANGED <<fireKey[v], limitKey[v], state[v]>>
         /\ \/ /\ UNCHANGED <<fireKey[w], limitKey[w], state[w]>>
               /\ ~WithinLimit(w, key, limitKey[w]) \/ state[w] = "Invalid"
            \/ /\ WithinLimit(w, key, limitKey[w]) /\ state[w] = "Active" /\ state'[w] = "Invalid"
               /\ UNCHANGED <<fireKey[w], limitKey[w]>>
            \/ /\ state[w] = "Pending" /\ UNCHANGED <<limitKey[w], state[w]>>
               /\ fireKey'[w] = IF fireKey[w] # NoKey => Precedes(w, key, fireKey[w])
                                THEN key ELSE fireKey[w]
<1> USE DEF Types, KeyTypes
<1>1. CASE UNCHANGED watchVars /\ (~WithinLimit(w, key, limitKey[w]) \/ state[w] = "Invalid")
  BY <1>1 DEF watchVars
<1>2. CASE /\ WithinLimit(w, key, limitKey[w]) /\ state[w] = "Active" /\ FireImpl(w)
           /\ UNCHANGED <<fireKey, limitKey>>
  BY <1>2 DEF FireImpl, Invalidate
<1>3. CASE /\ state[w] = "Pending" /\ UNCHANGED <<limitKey, state>>
           /\ fireKey' = [fireKey EXCEPT ![w] =
                            IF @ # NoKey => Precedes(w, key, @) THEN key ELSE @]
  BY <1>3
<1> QED BY <1>1, <1>2, <1>3 DEF Fire

\* Every step is one of the steps above for every client.
LEMMA EveryClientSteps ==
  ASSUME Types, KeyTypes, [Next]_vars, NEW v \in Watchers
  PROVE  ClientStep(v)
<1> USE DEF SameKeys, SameClient
<1>1. ASSUME NEW t \in Txns, Writer(t) PROVE ClientStep(v)
  <2>1. CASE \E w \in Watchers, key \in Keys : FireTrigger(t, w, key)
    <3>1. PICK w \in Watchers, key \in Keys : FireTrigger(t, w, key)
      BY <2>1
    <3>2. Fire(w, key) /\ endKey' = endKey /\ pc' = pc /\ key \in KeyOrNone /\ key # NoKey
      BY <3>1, KeysAssumption, NoKeyAssumption DEF FireTrigger, clientVars, KeyOrNone
    <3>3. SameClient(v) \/ Consumed(v) \/ Remembers(v, key)
      BY <3>2, FireEffect DEF Consumed, Remembers
    <3> QED BY <3>2, <3>3 DEF ClientStep
  <2>2. CASE \/ Begin(t) \/ Abort(t) \/ CommitImpl(t) \/ Committed(t) \/ Finish(t)
             \/ \E old, new \in KeySets : Update(t, old, new)
    <3>1. UNCHANGED <<fireKey, limitKey, endKey, state, pc>>
      BY <2>2 DEF Begin, Abort, Forget, CommitImpl, Committed, Finish, Update, watchVars, clientVars
    <3> QED BY <3>1 DEF ClientStep
  <2> QED BY <1>1, <2>1, <2>2 DEF Writer
<1>2. ASSUME NEW w \in Watchers, Client(w) PROVE ClientStep(v)
  <2> USE DEF Types
  <2>1. CASE FindFails(w) \/ AddWatch(w) \/ InitWatcher(w)
    <3>1. UNCHANGED <<fireKey, limitKey, endKey>>
      BY <2>1 DEF FindFails, AddWatch, InitWatcher
    <3>2. CASE v = w
      BY <2>1, <3>1, <3>2 DEF FindFails, AddWatch, InitWatcher, Registers, ClientStep
    <3>3. CASE v # w
      BY <2>1, <3>1, <3>3 DEF FindFails, AddWatch, InitWatcher, ClientStep
    <3> QED BY <3>2, <3>3
  <2>2. CASE OpenCursor(w)
    <3>1. CASE v = w
      <4>1. UNCHANGED <<fireKey, limitKey, state>>
        BY <2>2 DEF OpenCursor, watchVars
      <4>2. endKey'[w] = EndKey(w, entries)
        BY <2>2 DEF OpenCursor, KeyTypes
      <4> QED BY <2>2, <3>1, <4>1, <4>2 DEF OpenCursor, Opens, ClientStep
    <3>2. CASE v # w
      BY <2>2, <3>2 DEF OpenCursor, watchVars, ClientStep, KeyTypes
    <3> QED BY <3>1, <3>2
  <2>3. CASE FireFound(w)
    <3>1. /\ Fire(w, endKey[w]) /\ endKey' = endKey /\ endKey[w] \in KeyOrNone
          /\ pc[w] = "found" /\ pc' = [pc EXCEPT ![w] = "open"]
      BY <2>3 DEF FireFound, KeyTypes
    <3>2. v = w => FoundInvalid(v) \/ Consumed(v) \/ Remembers(v, endKey[w])
      BY <3>1, FireEffect DEF FoundInvalid, Consumed, Remembers
    <3>3. v # w => SameClient(v)
      BY <3>1, FireEffect
    <3> QED BY <3>1, <3>2, <3>3 DEF ClientStep
  <2>4. CASE Activate(w)
    <3>1. endKey' = endKey /\ fireKey' = fireKey /\ pc[w] = "open" /\ pc' = [pc EXCEPT ![w] = "done"]
      BY <2>4 DEF Activate, watchVars
    <3>2. CASE state' = [state EXCEPT ![w] = "Invalid"] /\ limitKey' = limitKey
      BY <3>1, <3>2 DEF Consumed, ClientStep
    <3>3. CASE state[w] = "Invalid" /\ state' = state /\ limitKey' = limitKey
      BY <3>1, <3>3 DEF Consumed, ClientStep
    <3>4. CASE /\ state[w] # "Invalid" /\ ~FiredEarly(w)
               /\ state' = [state EXCEPT ![w] = "Active"]
               /\ limitKey' = [limitKey EXCEPT ![w] = endKey[w]]
      <4>1. v = w => Waits(v)
        BY <3>1, <3>4 DEF Waits, KeyTypes
      <4>2. v # w => SameClient(v)
        BY <3>1, <3>4 DEF KeyTypes
      <4> QED BY <4>1, <4>2 DEF ClientStep
    <3> QED BY <2>4, <3>2, <3>3, <3>4 DEF Activate, FireImpl, Invalidate, watchVars
  <2>5. CASE Cancel(w)
    BY <2>5 DEF Cancel, Invalidate, clientVars, Consumed, ClientStep
  <2> QED BY <1>2, <2>1, <2>2, <2>3, <2>4, <2>5 DEF Client
<1>3. ASSUME NEW w \in Watchers, Abandon(w) \/ ShardSignal(w) \/ ShardStatusChanged(w)
      PROVE  ClientStep(v)
  <2>1. UNCHANGED <<fireKey, limitKey, endKey, pc>>
    BY <1>3 DEF Abandon, ShardSignal, ShardStatusChanged, watchVars, clientVars
  <2>2. state' = state \/ state' = [state EXCEPT ![w] = "Invalid"]
    BY <1>3 DEF Abandon, FireImpl, Invalidate, ShardSignal, ShardStatusChanged, watchVars
  <2> QED BY <2>1, <2>2 DEF Types, Consumed, ClientStep
<1>4. CASE CloseIndex \/ Closed \/ UNCHANGED vars
  <2>1. UNCHANGED <<fireKey, limitKey, endKey, state, pc>>
    BY <1>4 DEF CloseIndex, Closed, vars, watchVars, clientVars
  <2> QED BY <2>1 DEF ClientStep
<1> QED BY <1>1, <1>2, <1>3, <1>4 DEF Next

\* A key that precedes one within a limit is within it, and so is the limit.
LEMMA WithinEarlier ==
  ASSUME NEW w \in Watchers, NEW key \in KeyOrNone, NEW last \in KeyOrNone, NEW limit \in KeyOrNone
  PROVE  /\ WithinLimit(w, limit, limit)
         /\ /\ key # NoKey /\ last # NoKey /\ WithinLimit(w, last, limit)
            /\ Precedes(w, key, last)
            => WithinLimit(w, key, limit)
         /\ /\ key # NoKey /\ last # NoKey /\ WithinLimit(w, key, limit)
            /\ ~Precedes(w, key, last)
            => WithinLimit(w, last, limit)
BY NoKeyAssumption DEF KeyOrNone, WithinLimit, Precedes

\* What a pending watcher remembers is at most what it was fired with: once
\* it is to fire early it stays so, and a key within its end makes it so.
LEMMA RemembersFirst ==
  ASSUME KeyTypes, NEW w \in Watchers, NEW key \in KeyOrNone, Remembers(w, key), key # NoKey
  PROVE  FiredEarly(w) \/ WithinLimit(w, key, endKey[w]) => FiredEarly(w)'
<1>1. fireKey[w] \in KeyOrNone /\ endKey[w] \in KeyOrNone /\ endKey'[w] = endKey[w]
  BY DEF KeyTypes, Remembers
<1>2. CASE fireKey[w] # NoKey => Precedes(w, key, fireKey[w])
  BY <1>1, <1>2, WithinEarlier DEF FiredEarly, Remembers, WithinLimit
<1>3. CASE fireKey[w] # NoKey /\ ~Precedes(w, key, fireKey[w])
  BY <1>1, <1>3, WithinEarlier DEF FiredEarly, Remembers, WithinLimit
<1> QED BY <1>2, <1>3

\* MojDb::watch asks for one item: a match is found exactly when the limit
\* is hit, so an answer has an end key exactly when it is not empty.
LEMMA WatchEndKey ==
  ASSUME NEW w \in Watchers, Query[w].call = "watch", NEW E \in SUBSET Keys
  PROVE  EndKey(w, E) = NoKey <=> Answer(w, E) = {}
<1> DEFINE A == Answer(w, E)
<1>1. A \in SUBSET Nat /\ IsFiniteSet(A)
  <2>1. A \subseteq Keys
    BY DEF Answer
  <2> QED BY <2>1, KeysAssumption, FS_Subset
<1>2. Query[w].limit = 1
  BY QueryAssumption
<1>3. CASE A = {}
  <2>1. Cardinality(A) = 0
    BY <1>3, FS_EmptySet
  <2> QED BY <2>1, <1>2, <1>3 DEF EndKey
<1>4. CASE A # {}
  <2> HIDE DEF A
  <2>1. Cardinality(A) \in Nat /\ Cardinality(A) # 0
    BY <1>1, <1>4, FS_CardinalityType, FS_EmptySet
  <2>2. Min(A) \in Nat /\ Max(A) \in Nat
    BY <1>1, <1>4, MinIn, MaxIn
  <2>3. ~(Cardinality(A) < Query[w].limit)
    BY <2>1, <1>2
  <2>4. EndKey(w, E) = IF Query[w].desc THEN Min(A) ELSE Max(A) + 1
    BY <2>3 DEF A, EndKey, Increment
  <2> QED BY <1>4, <2>2, <2>4, NoKeyAssumption DEF A
<1> QED BY <1>3, <1>4

\* The cursor invariant is kept by every step of a client.
LEMMA CursorsKeeps ==
  ASSUME Types, KeyTypes, entries \in SUBSET Keys, Cursors, [Next]_vars
  PROVE  Cursors'
<1> SUFFICES ASSUME NEW w \in Watchers PROVE (CursorOrder(w) /\ FoundConsumed(w))'
  BY DEF Cursors
<1> USE DEF CursorOrder, FoundConsumed, HasAnswer
<1>0. CursorOrder(w) /\ FoundConsumed(w)
  BY DEF Cursors
<1>1. ClientStep(w)
  BY EveryClientSteps
<1>2. CASE SameClient(w)
  BY <1>0, <1>2 DEF SameClient, SameKeys, FiredEarly
<1>3. CASE Registers(w)
  BY <1>0, <1>3 DEF Registers, SameKeys
<1>4. CASE Opens(w)
  <2>1. Query[w].call = "watch" => (endKey'[w] # NoKey <=> pc'[w] = "found")
    BY <1>4, WatchEndKey DEF Opens
  <2>2. CursorOrder(w)'
    BY <1>0, <1>4, <2>1 DEF Opens
  <2> QED BY <2>1, <2>2
<1>5. CASE Consumed(w)
  BY <1>0, <1>5 DEF Consumed, SameKeys
<1>6. ASSUME NEW key \in KeyOrNone, Remembers(w, key) PROVE (CursorOrder(w) /\ FoundConsumed(w))'
  <2>1. CursorOrder(w)'
    BY <1>0, <1>6 DEF Remembers
  <2>2. ASSUME Query[w].call = "watch", endKey'[w] # NoKey
        PROVE  pc'[w] = "found" \/ (pc'[w] = "open" /\ FiredEarly(w)')
    <3>1. CASE pc[w] = "found" /\ pc'[w] = "open" /\ key = endKey[w]
      <4>1. key # NoKey /\ WithinLimit(w, key, endKey[w])
        BY <1>6, <2>2, <3>1, WithinEarlier DEF Remembers
      <4> QED BY <1>6, <3>1, <4>1, RemembersFirst
    <3>2. CASE pc'[w] = pc[w] /\ key # NoKey /\ pc[w] = "open" /\ FiredEarly(w)
      BY <1>6, <3>2, RemembersFirst
    <3> QED BY <1>0, <1>6, <2>2, <3>1, <3>2 DEF Remembers
  <2> QED BY <1>0, <1>6, <2>1, <2>2 DEF Remembers
<1>7. CASE FoundInvalid(w)
  <2>1. limitKey[w] = NoKey
    BY <1>0, <1>7 DEF FoundInvalid
  <2>2. state[w] = "Invalid"
    BY <1>7, <2>1 DEF FoundInvalid, WithinLimit
  <2> QED BY <1>0, <1>7, <2>1, <2>2 DEF FoundInvalid, SameKeys
<1>8. CASE Waits(w)
  BY <1>0, <1>8 DEF Waits
<1> QED BY <1>1, <1>2, <1>3, <1>4, <1>5, <1>6, <1>7, <1>8 DEF ClientStep

\* The typed keys, transactions and cursors of every reachable state.
THEOREM CursorsAlways == Spec => [](Cursors /\ KeyTypes /\ TxnTypes)
<1>1. Init => Cursors /\ KeyTypes /\ TxnTypes
  BY DEF Init, Cursors, CursorOrder, FoundConsumed, HasAnswer, KeyTypes, TxnTypes, KeyOrNone
<1>2. Cursors /\ KeyTypes /\ TxnTypes /\ Types /\ [Next]_vars => (Cursors /\ KeyTypes /\ TxnTypes)'
  BY CursorsKeeps, KeyTypesKeeps, TxnTypesKeeps DEF TxnTypes
<1> QED BY <1>1, <1>2, WatchInvariance, PTL DEF Spec

\* MojDb::watch on a query that has a match answers at once, whatever fires,
\* cancels or closes between the find, its own fire() and the activation.
THEOREM WatchFoundFiresAlways == Spec => []WatchFoundFires
<1>1. Cursors /\ WatchInv => WatchFoundFires
  BY DEF Cursors, FoundConsumed, WatchInv, Registered, WatchFoundFires
<1> QED BY <1>1, CursorsAlways, WatchInvariance, PTL
-----------------------------------------------------------------------------
(* Delivery.  The watch is told one pending key per range list, the first   *)
(* of the first transaction that has one: that key decides only when no     *)
(* limit can be hit, or when one writer works at a time and the query is    *)
(* ascending, so that the first key is the first in query order.            *)

Boundless(w) == Query[w].limit > Cardinality(Keys)

\* An ascending query whose ranges are in key order.
Ascending(w) ==
  /\ ~Query[w].desc
  /\ \A i, j \in DOMAIN Query[w].ranges :
        i < j => \A k \in Query[w].ranges[i], l \in Query[w].ranges[j] : k < l

SingleWriter == \A t, u \in Txns : t = u

\* The queries and writers for which the code's choice of key is enough.
Delivers == \A w \in Watchers : Boundless(w) \/ (SingleWriter /\ Ascending(w))

\* A commit that concerns the answer of w has still to walk the watchers, or
\* holds a trigger for w.
Coming(w) ==
  \E t \in Txns :
    \/ txn[t] = "committed"
       /\ \E k \in pendingKeys[t] \cap InQuery(w) : WithinLimit(w, k, endKey[w])
    \/ txn[t] = "firing"
       /\ \E k \in Keys : <<w, k>> \in triggers[t] /\ WithinLimit(w, k, endKey[w])

\* The end key is that of the answer as it was read until the answer goes out
\* of date; then a notification is coming or remembered, or was delivered.
AnswerKnown(w) ==
  /\ stale[w] => HasAnswer(w)
  /\ HasAnswer(w) /\ Boundless(w) => endKey[w] = NoKey
  /\ HasAnswer(w) /\ ~stale[w] => endKey[w] = EndKey(w, entries)
  /\ stale[w] /\ state[w] # "Invalid" =>
        Coming(w) \/ (state[w] = "Pending" /\ FiredEarly(w))

\* What a transaction changes is pending for the watchers.
WritesPending == \A t \in Txns : ins[t] \cup del[t] \subseteq pendingKeys[t]

Answers == WritesPending /\ \A w \in Watchers : AnswerKnown(w)

\* An answer of a query no limit can cut has no end key.
LEMMA BoundlessEnd ==
  ASSUME NEW w \in Watchers, Boundless(w), NEW E \in SUBSET Keys
  PROVE  EndKey(w, E) = NoKey
<1> DEFINE A == Answer(w, E)
<1>1. A \subseteq Keys
  BY DEF Answer
<1> HIDE DEF A
<1>2. /\ Cardinality(A) \in Nat /\ Cardinality(Keys) \in Nat
      /\ Cardinality(A) <= Cardinality(Keys)
  BY <1>1, KeysAssumption, FS_Subset, FS_CardinalityType
<1>3. Query[w].limit \in Nat
  BY QueryAssumption DEF QueryPlan
<1> QED BY <1>2, <1>3 DEF A, Boundless, EndKey

\* A commit that changes the answer of an ascending query touches a matching
\* key that is not beyond the end of the answer.
LEMMA AscendingTouch ==
  ASSUME NEW w \in Watchers, Ascending(w), NEW E \in SUBSET Keys, NEW F \in SUBSET Keys,
         NEW P \in SUBSET Keys, E \ F \subseteq P, F \ E \subseteq P,
         AnswerChanges(w, P, E, F)
  PROVE  \E k \in P \cap InQuery(w) : WithinLimit(w, k, EndKey(w, E))
<1> DEFINE A == Answer(w, E)
           M == Query[w].limit
           Q == InQuery(w)
<1>1. A \in SUBSET Nat /\ IsFiniteSet(A) /\ A \subseteq E /\ A \subseteq Q
  <2>1. A \subseteq E /\ A \subseteq Q
    BY DEF Answer
  <2> QED BY <2>1, KeysAssumption, FS_Subset
<1>2. M \in Nat /\ M > 0 /\ Query[w].desc = FALSE
  BY QueryAssumption DEF QueryPlan, Ascending
<1>3. SUFFICES ASSUME \A k \in P \cap Q : ~WithinLimit(w, k, EndKey(w, E)) PROVE FALSE
  OBVIOUS
<1>4. CASE Cardinality(A) < M
  <2>1. EndKey(w, E) = NoKey
    BY <1>4 DEF EndKey
  <2>2. P \cap Q = {}
    BY <1>3, <2>1 DEF WithinLimit
  <2>3. E \cap Q = F \cap Q
    BY <2>2
  <2>4. Answer(w, E) = Answer(w, F)
    BY <2>3 DEF Answer
  <2>5. Answer(w, E) \cap P = {}
    BY <2>2, <1>1
  <2> QED BY <2>4, <2>5 DEF AnswerChanges
<1>5. CASE ~(Cardinality(A) < M)
  <2>1. A # {}
    BY <1>2, <1>5, FS_EmptySet
  <2> DEFINE last == Max(A)
  <2>2. last \in A /\ last \in Nat /\ \A k \in A : k <= last
    <3> HIDE DEF A
    <3> QED BY <1>1, <2>1, MaxIn
  <2>3. EndKey(w, E) = last + 1
    BY <1>2, <1>5 DEF EndKey, Increment
  <2> HIDE DEF last
  <2>4. last + 1 # NoKey
    BY <2>2, NoKeyAssumption
  <2>5. \A k \in P \cap Q : k > last
    <3> SUFFICES ASSUME NEW k \in P \cap Q PROVE k > last
      OBVIOUS
    <3>1. k \in Nat
      BY KeysAssumption
    <3> QED BY <1>2, <1>3, <2>2, <2>3, <2>4, <3>1 DEF WithinLimit
  <2>6. \A k \in Nat : k <= last => (k \in E \cap Q <=> k \in F \cap Q)
    BY <2>2, <2>5
  <2> DEFINE Before(S, k) == {j \in S \cap Q : Precedes(w, j, k)}
  <2>7. \A k \in Nat : k <= last => Before(E, k) = Before(F, k)
    <3> SUFFICES ASSUME NEW k \in Nat, k <= last PROVE Before(E, k) = Before(F, k)
      OBVIOUS
    <3>1. \A j \in (E \cup F) \cap Q : Precedes(w, j, k) => j \in Nat /\ j <= last
      <4> SUFFICES ASSUME NEW j \in E \cup F, Precedes(w, j, k) PROVE j \in Nat /\ j <= last
        OBVIOUS
      <4>1. j \in Nat /\ j < k
        BY <1>2, KeysAssumption DEF Precedes
      <4> QED BY <2>2, <4>1
    <3> QED BY <2>6, <3>1
  <2>8. ASSUME NEW k \in F \cap Q, k > last PROVE ~(Cardinality(Before(F, k)) < M)
    <3>1. A \subseteq Before(F, k)
      <4> SUFFICES ASSUME NEW j \in A PROVE j \in Before(F, k)
        OBVIOUS
      <4>1. j \in Nat /\ k \in Nat /\ j <= last
        BY <1>1, <2>2, KeysAssumption
      <4>2. j \in F \cap Q
        BY <1>1, <2>6, <4>1
      <4> QED BY <1>2, <2>2, <2>8, <4>1, <4>2 DEF Precedes
    <3>2. IsFiniteSet(Before(F, k))
      BY KeysAssumption, FS_Subset
    <3> HIDE DEF A, Before
    <3>3. Cardinality(A) <= Cardinality(Before(F, k))
      BY <3>1, <3>2, FS_Subset
    <3>4. Cardinality(A) \in Nat /\ Cardinality(Before(F, k)) \in Nat
      BY <1>1, <3>2, FS_CardinalityType
    <3> QED BY <1>2, <1>5, <3>3, <3>4
  <2>9. Answer(w, F) = A
    <3>1. \A k : k \in Answer(w, F) <=> (k \in F \cap Q /\ Cardinality(Before(F, k)) < M)
      BY DEF Answer
    <3>2. \A k : k \in A <=> (k \in E \cap Q /\ Cardinality(Before(E, k)) < M)
      BY DEF Answer
    <3> HIDE DEF A, Before, Q
    <3>3. ASSUME NEW k \in Nat, k <= last PROVE k \in Answer(w, F) <=> k \in A
      BY <2>6, <2>7, <3>1, <3>2, <3>3
    <3>4. ASSUME NEW k \in Nat, ~(k <= last) PROVE k \notin Answer(w, F) /\ k \notin A
      BY <2>2, <2>8, <3>1, <3>4
    <3>5. \A k \in Answer(w, F) : k \in Nat
      BY <3>1, KeysAssumption
    <3> QED BY <1>1, <3>3, <3>4, <3>5
  <2>10. A \cap P = {}
    BY <1>1, <2>2, <2>5
  <2> QED BY <2>9, <2>10 DEF AnswerChanges
<1> QED BY <1>4, <1>5

\* The same without a limit, in any direction.
LEMMA BoundlessTouch ==
  ASSUME NEW w \in Watchers, Boundless(w), NEW E \in SUBSET Keys, NEW F \in SUBSET Keys,
         NEW P \in SUBSET Keys, E \ F \subseteq P, F \ E \subseteq P,
         AnswerChanges(w, P, E, F)
  PROVE  \E k \in P \cap InQuery(w) : WithinLimit(w, k, EndKey(w, E))
<1>1. EndKey(w, E) = NoKey
  BY BoundlessEnd
<1>2. SUFFICES ASSUME P \cap InQuery(w) = {} PROVE FALSE
  BY <1>1 DEF WithinLimit
<1>3. E \cap InQuery(w) = F \cap InQuery(w)
  BY <1>2
<1>4. Answer(w, E) = Answer(w, F) /\ Answer(w, E) \subseteq InQuery(w)
  BY <1>3 DEF Answer
<1> QED BY <1>2, <1>4 DEF AnswerChanges

\* The key committed() picks for a watcher is within the end of its answer
\* when any key it could have picked is.
LEMMA FirstMatchWithin ==
  ASSUME Delivers, TxnTypes, NEW w \in Watchers, NEW t \in Txns, NEW limit \in KeyOrNone,
         Boundless(w) => limit = NoKey,
         NEW k \in pendingKeys[t] \cap InQuery(w), WithinLimit(w, k, limit)
  PROVE  /\ MatchedRanges(w) # {}
         /\ WithinLimit(w, FirstMatch(Query[w].ranges[Min(MatchedRanges(w))]), limit)
<1>1. MatchedRanges(w) # {}
  BY DEF MatchedRanges, InQuery
<1>2. CASE Boundless(w)
  BY <1>1, <1>2 DEF WithinLimit
<1>3. CASE SingleWriter /\ Ascending(w)
  <2>1. MatchedRanges(w) \in SUBSET Nat
    BY QueryAssumption DEF QueryPlan, MatchedRanges
  <2> DEFINE m == Min(MatchedRanges(w))
             r == Query[w].ranges[m]
             hit == {u \in Txns : pendingKeys[u] \cap r # {}}
  <2>2. m \in MatchedRanges(w) /\ \A i \in MatchedRanges(w) : m <= i
    BY <1>1, <2>1, MinIn
  <2>3. hit = {t} /\ t \in Nat
    BY <1>3, <2>2, TxnsAssumption DEF MatchedRanges, SingleWriter
  <2>4. Min(hit) = t
    <3> HIDE DEF hit
    <3>1. Min(hit) \in hit
      BY <2>3, MinIn
    <3> QED BY <2>3, <3>1
  <2> DEFINE K == pendingKeys[t] \cap r
  <2>5. K # {} /\ K \in SUBSET Nat
    BY <2>3, KeysAssumption DEF TxnTypes
  <2>6. Min(K) \in K /\ \A j \in K : Min(K) <= j
    <3> HIDE DEF K
    <3> QED BY <2>5, MinIn
  <2>7. FirstMatch(r) = Min(K)
    BY <2>4 DEF FirstMatch
  <2>8. PICK i \in DOMAIN Query[w].ranges : k \in Query[w].ranges[i]
    BY DEF InQuery
  <2>9. i \in MatchedRanges(w) /\ i \in Nat /\ m \in Nat
    BY <2>1, <2>2, <2>8 DEF MatchedRanges
  <2>10. k \in Nat /\ Min(K) \in Nat /\ Min(K) <= k
    <3>1. k \in Nat /\ Min(K) \in Nat
      BY <2>5, <2>6, KeysAssumption DEF TxnTypes
    <3>2. CASE i = m
      BY <2>6, <2>8, <3>1, <3>2
    <3>3. CASE m < i
      <4>1. m \in DOMAIN Query[w].ranges /\ Min(K) \in Query[w].ranges[m]
        BY <2>2, <2>6 DEF MatchedRanges
      <4>2. Min(K) < k
        <5> HIDE DEF m, K
        <5> QED BY <1>3, <2>8, <3>3, <4>1 DEF Ascending
      <4> QED BY <3>1, <4>2
    <3> QED BY <2>2, <2>9, <3>1, <3>2, <3>3
  <2>11. WithinLimit(w, Min(K), limit)
    <3> HIDE DEF K
    <3> QED BY <1>3, <2>10, NoKeyAssumption DEF WithinLimit, Ascending, KeyOrNone
  <2> QED BY <1>1, <2>7, <2>11
<1> QED BY <1>2, <1>3 DEF Delivers

\* A step of another thread that leaves the transactions and the answer alone
\* keeps what is known of it.
LEMMA OwnStepKnown ==
  ASSUME Types, KeyTypes, TxnTypes, Delivers, Cursors, NEW w \in Watchers, AnswerKnown(w),
         ClientStep(w), UNCHANGED <<entries, pendingKeys, txn, triggers, stale>>
  PROVE  AnswerKnown(w)'
<1> USE DEF AnswerKnown, HasAnswer
<1>1. endKey'[w] = endKey[w] => (Coming(w)' <=> Coming(w))
  BY DEF Coming, InQuery
<1>2. CASE SameClient(w)
  BY <1>1, <1>2 DEF SameClient, SameKeys, FiredEarly
<1>3. CASE Registers(w)
  BY <1>3 DEF Registers, SameKeys
<1>4. CASE Opens(w)
  BY <1>4, BoundlessEnd DEF Opens, TxnTypes
<1>5. CASE Consumed(w)
  BY <1>5 DEF Consumed, SameKeys
<1>6. ASSUME NEW key \in KeyOrNone, Remembers(w, key) PROVE AnswerKnown(w)'
  <2>1. FiredEarly(w) => FiredEarly(w)'
    <3>1. key # NoKey
      BY <1>6 DEF Remembers, Cursors, CursorOrder
    <3> QED BY <1>6, <3>1, RemembersFirst
  <2> QED BY <1>1, <1>6, <2>1 DEF Remembers
<1>7. CASE FoundInvalid(w)
  BY <1>1, <1>7 DEF FoundInvalid, SameKeys, FiredEarly
<1>8. CASE Waits(w)
  BY <1>1, <1>8 DEF Waits
<1> QED BY <1>2, <1>3, <1>4, <1>5, <1>6, <1>7, <1>8 DEF ClientStep

\* Firing a trigger delivers it, or has a pending watcher remember it.
LEMMA FireTriggerKnown ==
  ASSUME Types, KeyTypes, TxnTypes, Cursors, NEW v \in Watchers, AnswerKnown(v),
         NEW t \in Txns, NEW w \in Watchers, NEW key \in Keys, FireTrigger(t, w, key)
  PROVE  AnswerKnown(v)'
<1> USE DEF AnswerKnown, HasAnswer
<1>1. /\ Fire(w, key) /\ key \in KeyOrNone /\ key # NoKey
      /\ UNCHANGED <<endKey, pc, txn, pendingKeys, entries, stale>>
      /\ triggers' = [triggers EXCEPT ![t] = @ \ {<<w, key>>}]
  BY KeysAssumption, NoKeyAssumption DEF FireTrigger, clientVars, KeyOrNone
<1>2. Coming(v) => Coming(v)' \/ (v = w /\ WithinLimit(w, key, endKey[w]))
  <2> SUFFICES ASSUME Coming(v), v # w \/ ~WithinLimit(w, key, endKey[w]) PROVE Coming(v)'
    OBVIOUS
  <2>1. PICK u \in Txns :
            \/ txn[u] = "committed"
               /\ \E k \in pendingKeys[u] \cap InQuery(v) : WithinLimit(v, k, endKey[v])
            \/ txn[u] = "firing"
               /\ \E k \in Keys : <<v, k>> \in triggers[u] /\ WithinLimit(v, k, endKey[v])
    BY DEF Coming
  <2>2. CASE txn[u] = "committed"
    BY <1>1, <2>1, <2>2 DEF Coming, InQuery
  <2>3. ASSUME txn[u] = "firing", NEW k \in Keys, <<v, k>> \in triggers[u], WithinLimit(v, k, endKey[v])
        PROVE  Coming(v)'
    <3>1. <<v, k>> # <<w, key>>
      BY <2>3
    <3>2. <<v, k>> \in triggers'[u]
      BY <1>1, <2>3, <3>1 DEF TxnTypes
    <3>3. txn'[u] = "firing" /\ WithinLimit(v, k, endKey'[v])
      BY <1>1, <2>3
    <3> QED BY <3>2, <3>3 DEF Coming, WithinLimit
  <2> QED BY <2>1, <2>2, <2>3
<1>3. CASE v # w
  <2>1. UNCHANGED <<fireKey[v], limitKey[v], state[v]>>
    BY <1>1, <1>3, FireEffect
  <2> QED BY <1>1, <1>2, <1>3, <2>1 DEF FiredEarly
<1>4. CASE v = w
  <2>1. CASE UNCHANGED <<fireKey[w], limitKey[w], state[w]>>
             /\ (~WithinLimit(w, key, limitKey[w]) \/ state[w] = "Invalid")
    <3>1. state[w] # "Invalid" => ~WithinLimit(w, key, endKey[w])
      BY <2>1 DEF Cursors, CursorOrder, WithinLimit, Types
    <3> QED BY <1>1, <1>2, <1>4, <2>1, <3>1 DEF FiredEarly
  <2>2. CASE state'[w] = "Invalid"
    BY <1>1, <1>4, <2>2
  <2>3. CASE /\ state[w] = "Pending" /\ UNCHANGED <<limitKey[w], state[w]>>
             /\ fireKey'[w] = IF fireKey[w] # NoKey => Precedes(w, key, fireKey[w])
                              THEN key ELSE fireKey[w]
    <3>1. Remembers(w, key)
      BY <1>1, <2>3 DEF Remembers
    <3>2. FiredEarly(w) \/ WithinLimit(w, key, endKey[w]) => FiredEarly(w)'
      BY <1>1, <3>1, RemembersFirst
    <3> QED BY <1>1, <1>2, <1>4, <2>3, <3>2
  <2> QED BY <1>1, <1>4, <2>1, <2>2, <2>3, FireEffect
<1> QED BY <1>3, <1>4

\* A commit outdates only answers it is about to notify.
LEMMA CommitImplKnown ==
  ASSUME Types, KeyTypes, TxnTypes, Delivers, WritesPending, NEW w \in Watchers, AnswerKnown(w),
         NEW t \in Txns, CommitImpl(t)
  PROVE  AnswerKnown(w)'
<1> USE DEF AnswerKnown, HasAnswer
<1>1. /\ UNCHANGED <<fireKey, limitKey, endKey, state, pc, pendingKeys, triggers>>
      /\ txn[t] = "active" /\ txn' = [txn EXCEPT ![t] = "committed"] /\ entries' = View(t)
      /\ stale'[w] = (stale[w] \/ (HasAnswer(w) /\ AnswerChanges(w, pendingKeys[t], entries, View(t))))
  BY DEF CommitImpl, watchVars, clientVars
<1>2. Coming(w) => Coming(w)'
  <2> SUFFICES ASSUME NEW u \in Txns, txn[u] \in {"committed", "firing"} PROVE txn'[u] = txn[u]
    BY <1>1 DEF Coming, InQuery, WithinLimit
  <2> QED BY <1>1 DEF TxnTypes
<1>3. CASE stale[w]
  BY <1>1, <1>2, <1>3 DEF FiredEarly
<1>4. CASE ~stale[w] /\ ~stale'[w]
  <2>1. HasAnswer(w) => Answer(w, entries) = Answer(w, entries')
    BY <1>1, <1>4 DEF AnswerChanges
  <2> QED BY <1>1, <1>4, <2>1 DEF EndKey
<1>5. CASE ~stale[w] /\ stale'[w]
  <2>1. HasAnswer(w) /\ AnswerChanges(w, pendingKeys[t], entries, View(t))
    BY <1>1, <1>5
  <2>2. endKey[w] = EndKey(w, entries)
    BY <1>5, <2>1
  <2>3. /\ View(t) \in SUBSET Keys /\ entries \in SUBSET Keys /\ pendingKeys[t] \in SUBSET Keys
        /\ entries \ View(t) \subseteq pendingKeys[t] /\ View(t) \ entries \subseteq pendingKeys[t]
    BY DEF View, TxnTypes, WritesPending
  <2>4. \E k \in pendingKeys[t] \cap InQuery(w) : WithinLimit(w, k, EndKey(w, entries))
    <3>1. CASE Boundless(w)
      BY <2>1, <2>3, <3>1, BoundlessTouch
    <3>2. CASE Ascending(w)
      BY <2>1, <2>3, <3>2, AscendingTouch
    <3> QED BY <3>1, <3>2 DEF Delivers
  <2>5. Coming(w)'
    BY <1>1, <2>2, <2>4 DEF Coming, InQuery, WithinLimit, TxnTypes
  <2> QED BY <1>1, <2>1, <2>5
<1> QED BY <1>3, <1>4, <1>5

\* committed() turns a commit that concerns a waiting watcher into a trigger
\* for it, with a key that is not beyond the end of its answer.
LEMMA CommittedKnown ==
  ASSUME Types, WatchInv, KeyTypes, TxnTypes, TxnTypes', Delivers, NEW w \in Watchers, AnswerKnown(w),
         NEW t \in Txns, Committed(t)
  PROVE  AnswerKnown(w)'
<1> USE DEF AnswerKnown, HasAnswer
<1>1. /\ UNCHANGED <<fireKey, limitKey, endKey, state, pc, pendingKeys, entries, stale>>
      /\ txn[t] = "committed" /\ txn' = [txn EXCEPT ![t] = "firing"]
  BY DEF Committed, watchVars, clientVars, indexVars, obsVars
<1> DEFINE V == {v \in watcherVec : pc[v] # "added" /\ MatchedRanges(v) # {}}
           T == {<<v, FirstMatch(Query[v].ranges[Min(MatchedRanges(v))])>> : v \in V}
<1>2. triggers' = [triggers EXCEPT ![t] = T]
  BY DEF Committed
<1>3. SUFFICES ASSUME Coming(w), state[w] # "Invalid", stale[w] PROVE Coming(w)'
  BY <1>1 DEF FiredEarly
<1>4. PICK u \in Txns :
          \/ txn[u] = "committed"
             /\ \E k \in pendingKeys[u] \cap InQuery(w) : WithinLimit(w, k, endKey[w])
          \/ txn[u] = "firing"
             /\ \E k \in Keys : <<w, k>> \in triggers[u] /\ WithinLimit(w, k, endKey[w])
  BY <1>3 DEF Coming
<1>5. CASE u # t
  <2>1. triggers'[u] = triggers[u] /\ txn'[u] = txn[u]
    <3> HIDE DEF T
    <3> QED BY <1>1, <1>2, <1>5 DEF TxnTypes
  <2> QED BY <1>1, <1>4, <2>1 DEF Coming, InQuery, WithinLimit
<1>6. CASE u = t
  <2>1. PICK k \in pendingKeys[t] \cap InQuery(w) : WithinLimit(w, k, endKey[w])
    BY <1>1, <1>4, <1>6
  <2> DEFINE first == FirstMatch(Query[w].ranges[Min(MatchedRanges(w))])
  <2>2. endKey[w] \in KeyOrNone /\ (Boundless(w) => endKey[w] = NoKey)
    BY <1>3 DEF KeyTypes
  <2>3. MatchedRanges(w) # {} /\ WithinLimit(w, first, endKey[w])
    BY <2>1, <2>2, FirstMatchWithin
  <2>4. w \in V
    BY <1>3, <2>3 DEF WatchInv, Registered
  <2>5. <<w, first>> \in T /\ first \in Keys
    BY <2>3, <2>4, FirstMatchType
  <2> HIDE DEF first, T
  <2>6. <<w, first>> \in triggers'[t] /\ txn'[t] = "firing"
    BY <1>1, <1>2, <2>5 DEF TxnTypes
  <2> QED BY <1>1, <2>3, <2>5, <2>6 DEF Coming, WithinLimit
<1> QED BY <1>5, <1>6

\* A writer that begins, writes or leaves takes no coming notification away.
LEMMA WritingKnown ==
  ASSUME Types, TxnTypes, NEW w \in Watchers, AnswerKnown(w), NEW t \in Txns,
         Begin(t) \/ Abort(t) \/ Finish(t) \/ \E old, new \in KeySets : Update(t, old, new)
  PROVE  AnswerKnown(w)'
<1>1. /\ UNCHANGED <<fireKey, limitKey, endKey, state, pc, entries, stale, triggers>>
      /\ \A u \in Txns : u # t => txn'[u] = txn[u] /\ pendingKeys'[u] = pendingKeys[u]
  BY DEF Begin, Abort, Finish, Forget, Update, indexVars, watchVars, clientVars, obsVars, TxnTypes
<1>2. /\ txn[t] # "committed" \/ pendingKeys[t] = {}
      /\ txn[t] # "firing" \/ triggers[t] = {}
  BY DEF Begin, Abort, Finish, Update
<1>3. Coming(w) => Coming(w)'
  <2> SUFFICES ASSUME Coming(w) PROVE Coming(w)'
    OBVIOUS
  <2>1. PICK u \in Txns :
            \/ txn[u] = "committed"
               /\ \E k \in pendingKeys[u] \cap InQuery(w) : WithinLimit(w, k, endKey[w])
            \/ txn[u] = "firing"
               /\ \E k \in Keys : <<w, k>> \in triggers[u] /\ WithinLimit(w, k, endKey[w])
    BY DEF Coming
  <2>2. u # t
    BY <1>2, <2>1
  <2> QED BY <1>1, <2>1, <2>2 DEF Coming, InQuery, WithinLimit
<1> QED BY <1>1, <1>3 DEF AnswerKnown, HasAnswer, FiredEarly

\* What a transaction changes stays pending until it is forgotten.
LEMMA WritesPendingKeeps ==
  ASSUME TxnTypes, WritesPending, [Next]_vars PROVE WritesPending'
<1> USE DEF WritesPending
<1>1. ASSUME NEW t \in Txns, Writer(t) PROVE WritesPending'
  <2>1. CASE Abort(t) \/ Finish(t)
    BY <2>1 DEF Abort, Finish, Forget, TxnTypes
  <2>2. CASE \E old, new \in KeySets : Update(t, old, new)
    BY <2>2 DEF Update, TxnTypes
  <2>3. CASE \/ Begin(t) \/ CommitImpl(t) \/ Committed(t)
             \/ \E w \in Watchers, key \in Keys : FireTrigger(t, w, key)
    BY <2>3 DEF Begin, CommitImpl, Committed, FireTrigger, indexVars
  <2> QED BY <1>1, <2>1, <2>2, <2>3 DEF Writer
<1>2. CASE \/ \E w \in Watchers : Client(w) \/ Abandon(w) \/ ShardSignal(w) \/ ShardStatusChanged(w)
           \/ CloseIndex \/ Closed \/ UNCHANGED vars
  <2>1. UNCHANGED <<pendingKeys, ins, del>>
    BY <1>2 DEF Client, FindFails, AddWatch, InitWatcher, OpenCursor, FireFound, Activate, Cancel,
       Abandon, ShardSignal, ShardStatusChanged, CloseIndex, Closed, vars, indexVars, txnVars
  <2> QED BY <2>1
<1> QED BY <1>1, <1>2 DEF Next

\* No step loses a notification.
LEMMA AnswersKeeps ==
  ASSUME Types, WatchInv, KeyTypes, TxnTypes, TxnTypes', Delivers, Cursors, Answers, [Next]_vars
  PROVE  Answers'
<1> SUFFICES ASSUME NEW w \in Watchers PROVE AnswerKnown(w)'
  BY WritesPendingKeeps DEF Answers
<1>0. AnswerKnown(w) /\ WritesPending
  BY DEF Answers
<1>1. ASSUME NEW t \in Txns, Writer(t) PROVE AnswerKnown(w)'
  BY <1>0, <1>1, FireTriggerKnown, CommitImplKnown, CommittedKnown, WritingKnown DEF Writer
<1>2. CASE \/ \E v \in Watchers : Client(v) \/ Abandon(v) \/ ShardSignal(v) \/ ShardStatusChanged(v)
           \/ CloseIndex \/ Closed \/ UNCHANGED vars
  <2>1. UNCHANGED <<entries, pendingKeys, txn, triggers, stale>>
    BY <1>2 DEF Client, FindFails, AddWatch, InitWatcher, OpenCursor, FireFound, Activate, Cancel,
       Abandon, ShardSignal, ShardStatusChanged, CloseIndex, Closed, vars, indexVars, txnVars, obsVars
  <2> QED BY <1>0, <2>1, EveryClientSteps, OwnStepKnown
<1> QED BY <1>1, <1>2 DEF Next

\* No client whose answer went out of date is left waiting without a
\* notification on its way, whatever find, commit, fire, activate, cancel and
\* close do in between: when no query's limit can be hit, for any number of
\* writers; when limits can, for ascending queries and one writer at a time.
THEOREM NoLostNotificationAlways ==
  ASSUME Delivers PROVE Spec => []NoLostNotification
<1>1. Init => Answers
  BY DEF Init, Answers, AnswerKnown, WritesPending, HasAnswer
<1>2. Types /\ WatchInv /\ KeyTypes /\ TxnTypes /\ TxnTypes' /\ Cursors /\ Answers /\ [Next]_vars
        => Answers'
  BY AnswersKeeps
<1>3. Answers => NoLostNotification
  BY DEF Answers, AnswerKnown, Coming, NoLostNotification
<1> QED BY <1>1, <1>2, <1>3, WatchInvariance, CursorsAlways, PTL DEF Spec
=============================================================================
