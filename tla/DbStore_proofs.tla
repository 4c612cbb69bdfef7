--------------------------- MODULE DbStore_proofs ---------------------------
(***************************************************************************)
(* Proofs about DbStore: when open transactions keep out of each other's   *)
(* objects, the index matches the objects and no write is lost, for any    *)
(* objects, keys, threads, operations and lengths of requests; and then    *)
(* DbStore implements DbStoreSpec.                                         *)
(***************************************************************************)
EXTENDS DbStore, SequenceTheorems, NatSetTheorems, TLAPS

(* Types *)

\* An absent object is a version.
LEMMA AbsentVersion == Absent \in Version
  BY KeysAssumption DEF Absent, NoKey, Version

\* What an operation writes is a version, of a revision that exists unless it
\* purges the object.
LEMMA NewVersionType ==
  ASSUME NEW op \in Op, NEW old \in Version, NEW rev \in Nat
  PROVE  NewVersion(op, old, rev) \in Version
  BY OpKindsAssumption, AbsentVersion DEF NewVersion, Version, Op, Operations

\* The keys of a version are entries of the index.
LEMMA KeysOfType ==
  ASSUME NEW id \in Ids, NEW v \in Version
  PROVE  KeysOf(id, v) \subseteq Entries
  BY DEF KeysOf, Entries, Version

\* What a transaction sees of an object is a version, and of the index its entries.
LEMMA ViewType ==
  ASSUME TypeOK, NEW t \in Threads, NEW id \in Ids
  PROVE  View(t, id) \in Version /\ IndexView(t) \subseteq Entries
  BY DEF TypeOK, View, IndexView

\* The operation a thread is about to do is one of its operations.
LEMMA CurrentOpType ==
  ASSUME TypeOK, NEW t \in Threads, pos[t] \in DOMAIN req[t]
  PROVE  /\ req[t][pos[t]] \in Op /\ req[t][pos[t]].id \in Ids
         /\ CurrentOp(t) = req[t][pos[t]]
  <1>1. req[t] \in Seq(Op)
    BY DEF TypeOK
  <1>2. pos[t] \in 1..Len(req[t])
    BY <1>1
  <1>3. req[t][pos[t]] \in Op
    BY <1>1, <1>2, ElementOfSeq
  <1> QED BY <1>3 DEF Op, CurrentOp

\* What an operation writes is a version.
LEMMA WrittenType ==
  ASSUME TypeOK, PrevCurrent, NEW t \in Threads, pc[t] = "read"
  PROVE  /\ CurrentOp(t) \in Op /\ CurrentOp(t).id \in Ids
         /\ Written(t) \in Version
         /\ Outgoing(t) \subseteq Entries /\ Incoming(t) \subseteq Entries
  <1>1. CurrentOp(t) \in Op /\ CurrentOp(t).id \in Ids
    BY CurrentOpType DEF PrevCurrent
  <1>2. prev[t] \in Version
    BY DEF TypeOK
  <1>3. Written(t) \in Version
    BY <1>1, <1>2, NewVersionType DEF Written, TypeOK
  <1> QED BY <1>1, <1>2, <1>3, KeysOfType DEF Outgoing, Incoming, KeysToDel, KeysToPut

\* An updated index is an index.
LEMMA UpdateIndexType ==
  ASSUME TypeOK, NEW t \in Threads, UpdateIndex(t),
         Outgoing(t) \subseteq Entries, Incoming(t) \subseteq Entries
  PROVE  ins' \in [Threads -> SUBSET Entries] /\ dels' \in [Threads -> SUBSET Entries]
  <1>1. ins[t] \subseteq Entries /\ dels[t] \subseteq Entries
    BY DEF TypeOK
  <1>2. /\ (ins[t] \ Outgoing(t)) \cup Incoming(t) \in SUBSET Entries
        /\ (dels[t] \cup Outgoing(t)) \ Incoming(t) \in SUBSET Entries
    BY <1>1
  <1> QED BY <1>2 DEF UpdateIndex, TypeOK

\* Answering and dropping the transaction keep the types.
LEMMA AnswerType ==
  ASSUME TypeOK, NEW t \in Threads, NEW e \in Errors \cup {"none", "ok"}, Answer(t, e)
  PROVE  /\ pc' \in [Threads -> {"idle", "open", "read", "failed", "backoff"}]
         /\ err' \in [Threads -> Errors \cup {"none", "ok"}]
         /\ req' \in [Threads -> Seq(Op)]
         /\ retries' \in [Threads -> Nat]
  BY DEF TypeOK, Answer

\* A thread that drops its transaction is left with one that did nothing.
LEMMA DropType ==
  ASSUME TypeOK, NEW t \in Threads, DropTxn(t)
  PROVE  /\ pos' \in [Threads -> Nat \ {0}]
         /\ prev' \in [Threads -> Version]
         /\ writes' \in [Threads -> [Ids -> Version \cup {Unwritten}]]
         /\ ins' \in [Threads -> SUBSET Entries] /\ dels' \in [Threads -> SUBSET Entries]
         /\ fixmode' \in [Threads -> BOOLEAN]
         /\ base' \in [Threads -> [Ids -> Version]]
  BY AbsentVersion DEF TypeOK, DropTxn

\* A commit leaves versions in the store and entries in the index.
LEMMA ApplyType ==
  ASSUME TypeOK, NEW t \in Threads, Apply(t)
  PROVE  objects' \in [Ids -> Version] /\ index' \subseteq Entries /\ applied' \in [Threads -> Nat]
  <1>1. \A id \in Ids : View(t, id) \in Version
    BY ViewType
  <1>2. IndexView(t) \subseteq Entries
    BY DEF TypeOK, IndexView
  <1> QED BY <1>1, <1>2 DEF TypeOK, Apply

\* The types at the start.
LEMMA InitType == Init => TypeOK
  BY AbsentVersion DEF Init, TypeOK, Errors, Entries

\* Every step keeps the types.
LEMMA StepType ==
  ASSUME TypeOK, PrevCurrent, NEW t \in Threads, Invoke(t) \/ Step(t)
  PROVE  TypeOK'
<1>1. CASE Invoke(t)
  BY <1>1 DEF Invoke, BeginTxn, store, overlay, TypeOK
<1>2. CASE Retry(t)
  BY <1>2 DEF Retry, BeginTxn, store, overlay, request, TypeOK
<1>3. CASE NextOp(t)
  <2>1. PICK op \in OpKinds, id \in Ids, key \in Keys, rev \in 0..nextRev - 1 :
          req' = [req EXCEPT ![t] = Append(@, [op |-> op, id |-> id, key |-> key, rev |-> rev])]
    BY <1>3 DEF NextOp
  <2>2. [op |-> op, id |-> id, key |-> key, rev |-> rev] \in Op
    BY DEF TypeOK, Op
  <2>3. Append(req[t], [op |-> op, id |-> id, key |-> key, rev |-> rev]) \in Seq(Op)
    BY <2>2, AppendProperties DEF TypeOK
  <2>4. req' \in [Threads -> Seq(Op)]
    BY <2>1, <2>3 DEF TypeOK
  <2> QED BY <1>3, <2>4 DEF NextOp, store, overlay, TypeOK
<1>4. CASE ReadPrev(t)
  <2> DEFINE op == req[t][pos[t]]
  <2>1. pos[t] \in DOMAIN req[t]
    BY <1>4 DEF ReadPrev, TypeOK
  <2>2. op.id \in Ids /\ View(t, op.id) \in Version
    BY <2>1, CurrentOpType, ViewType
  <2>3. prev' = [prev EXCEPT ![t] = View(t, op.id)] /\ prev' \in [Threads -> Version]
    BY <1>4, <2>2 DEF ReadPrev, TypeOK
  <2>4. base' \in [Threads -> [Ids -> Version]]
    BY <1>4, <2>2 DEF ReadPrev, TypeOK
  <2>5. pos' \in [Threads -> Nat \ {0}]
    BY <1>4 DEF ReadPrev, Done, TypeOK
  <2>6. pc' \in [Threads -> {"idle", "open", "read", "failed", "backoff"}]
    BY <1>4 DEF ReadPrev, Done, Fail, TypeOK
  <2>7. err' \in [Threads -> Errors \cup {"none", "ok"}]
    BY <1>4 DEF ReadPrev, Fail, Errors, TypeOK
  <2> QED BY <1>4, <2>3, <2>4, <2>5, <2>6, <2>7 DEF ReadPrev, store, request, TypeOK
<1>5. CASE Unchanged(t)
  BY <1>5 DEF Unchanged, Done, store, request, overlay, TypeOK
<1>6. CASE Save(t)
  <2>1. /\ pc[t] = "read" /\ UNCHANGED <<store, request, prev, base>>
        /\ fixmode' = [fixmode EXCEPT ![t] = Forced(t)]
    BY <1>6 DEF Save
  <2>2. /\ CurrentOp(t).id \in Ids /\ Written(t) \in Version
        /\ Outgoing(t) \subseteq Entries /\ Incoming(t) \subseteq Entries
    BY <2>1, WrittenType
  <2>3. writes' \in [Threads -> [Ids -> Version \cup {Unwritten}]]
    <3>1. writes' = [writes EXCEPT ![t][CurrentOp(t).id] = Written(t)] \/ writes' = writes
      BY <1>6 DEF Save
    <3>2. writes[t] \in [Ids -> Version \cup {Unwritten}]
      BY DEF TypeOK
    <3>3. [writes[t] EXCEPT ![CurrentOp(t).id] = Written(t)] \in [Ids -> Version \cup {Unwritten}]
      BY <2>2, <3>2
    <3> QED BY <3>1, <3>3 DEF TypeOK
  <2>4. ins' \in [Threads -> SUBSET Entries] /\ dels' \in [Threads -> SUBSET Entries]
    <3>1. UpdateIndex(t) \/ (ins' = ins /\ dels' = dels)
      BY <1>6 DEF Save
    <3> QED BY <2>2, <3>1, UpdateIndexType DEF TypeOK
  <2>5. nextRev' \in Nat \ {0}
    BY <1>6 DEF Save, RevTaken, TypeOK
  <2>6. fixmode' \in [Threads -> BOOLEAN]
    BY <2>1 DEF Forced, TypeOK
  <2>7. pos' \in [Threads -> Nat \ {0}]
    <3>1. pos' = pos \/ pos' = [pos EXCEPT ![t] = @ + 1]
      BY <1>6 DEF Save, Done
    <3> QED BY <3>1 DEF TypeOK
  <2>8. /\ pc' \in [Threads -> {"idle", "open", "read", "failed", "backoff"}]
        /\ err' \in [Threads -> Errors \cup {"none", "ok"}]
    <3>1. \/ Fail(t, "indexOnDel") \/ Fail(t, "corruptDatabase")
          \/ pc' = [pc EXCEPT ![t] = "open"] /\ err' = err
      BY <1>6 DEF Save, Done
    <3> QED BY <3>1 DEF Fail, Errors, TypeOK
  <2> QED BY <2>1, <2>3, <2>4, <2>5, <2>6, <2>7, <2>8 DEF store, request, TypeOK
<1>7. CASE SaveRejected(t)
  <2>1. /\ pc[t] = "read" /\ UNCHANGED <<store, request, pos, prev, writes, base>>
        /\ fixmode' = [fixmode EXCEPT ![t] = Forced(t)]
        /\ UpdateIndex(t) \/ (ins' = ins /\ dels' = dels)
        /\ Fail(t, "rejected")
        /\ nextRev' \in {nextRev, RevTaken}
    BY <1>7 DEF SaveRejected
  <2>2. Outgoing(t) \subseteq Entries /\ Incoming(t) \subseteq Entries
    BY <2>1, WrittenType
  <2>3. ins' \in [Threads -> SUBSET Entries] /\ dels' \in [Threads -> SUBSET Entries]
    BY <2>1, <2>2, UpdateIndexType DEF TypeOK
  <2>4. nextRev' \in Nat \ {0}
    BY <2>1 DEF RevTaken, TypeOK
  <2>5. fixmode' \in [Threads -> BOOLEAN]
    BY <2>1 DEF Forced, TypeOK
  <2>6. /\ pc' \in [Threads -> {"idle", "open", "read", "failed", "backoff"}]
        /\ err' \in [Threads -> Errors \cup {"none", "ok"}]
    BY <2>1 DEF Fail, Errors, TypeOK
  <2> QED BY <2>1, <2>3, <2>4, <2>5, <2>6 DEF store, request, TypeOK
<1>8. CASE Commit(t)
  <2>1. Answer(t, "ok") /\ DropTxn(t) /\ Apply(t) /\ nextRev' = nextRev
    BY <1>8 DEF Commit
  <2> QED BY <2>1, AnswerType, DropType, ApplyType DEF TypeOK
<1>9. CASE CommitFails(t)
  <2>1. Answer(t, "ioError") /\ DropTxn(t) /\ UNCHANGED <<store, nextRev, applied>>
    BY <1>9 DEF CommitFails
  <2> QED BY <2>1, AnswerType, DropType DEF TypeOK, store, Errors
<1>10. CASE Failed(t)
  <2>1. /\ DropTxn(t) /\ nextRev' = nextRev
        /\ objects' \in [Ids -> Version] /\ index' \subseteq Entries /\ applied' \in [Threads -> Nat]
    BY <1>10, ApplyType DEF Failed, TypeOK, store
  <2>2. /\ pc' \in [Threads -> {"idle", "open", "read", "failed", "backoff"}]
        /\ err' \in [Threads -> Errors \cup {"none", "ok"}]
        /\ req' \in [Threads -> Seq(Op)] /\ retries' \in [Threads -> Nat]
    <3>1. CASE \E e \in Errors \cup {"none", "ok"} : Answer(t, e)
      BY <3>1, AnswerType
    <3>2. CASE /\ pc' = [pc EXCEPT ![t] = "backoff"]
               /\ retries' = [retries EXCEPT ![t] = Attempts(t)]
               /\ UNCHANGED <<req, err>>
      BY <3>2 DEF TypeOK, Attempts
    <3>3. err[t] \in Errors \cup {"none", "ok"} /\ "inconsistentIndex" \in Errors
      BY DEF TypeOK, Errors
    <3> QED BY <1>10, <3>1, <3>2, <3>3 DEF Failed
  <2> QED BY <2>1, <2>2, DropType DEF TypeOK
<1> QED BY <1>1, <1>2, <1>3, <1>4, <1>5, <1>6, <1>7, <1>8, <1>9, <1>10 DEF Step

-----------------------------------------------------------------------------
(* Threads and the steps of others *)

\* The part of StoreInv that is about thread u.
ThreadInv(u) ==
  /\ \A i \in DOMAIN req[u] : u \in Writers[req[u][i].id]
  /\ \A id \in Ids :
       /\ writes[u][id] # Unwritten => Active(u) /\ u \in Writers[id] /\ base[u][id] = objects[id]
       /\ writes[u][id] = Unwritten /\ pc[u] # "failed" =>
            \A k \in Keys : <<k, id>> \notin ins[u] /\ <<k, id>> \notin dels[u]
       /\ pc[u] # "failed" =>
            \A k \in Keys : <<k, id>> \in IndexView(u) <=> IndexedBy(View(u, id), k)
  /\ pc[u] = "read" =>
       /\ pos[u] \in DOMAIN req[u] /\ prev[u] = View(u, req[u][pos[u]].id)
       /\ base[u][req[u][pos[u]].id] = objects[req[u][pos[u]].id]
  /\ err[u] \notin {"indexOnDel", "inconsistentIndex"}

\* The invariant, thread by thread.
LEMMA StoreInvByThread ==
  StoreInv <=> TypeOK /\ Exclusive /\ CommittedAgrees /\ \A u \in Threads : ThreadInv(u)
  BY DEF StoreInv, ThreadInv, RequestsOwned, OverlayOwned, ViewAgrees, PrevCurrent, BaseCurrent, NoMiss

\* The same of the next state.
LEMMA StoreInvByThreadNext ==
  StoreInv' <=> TypeOK' /\ Exclusive' /\ CommittedAgrees' /\ \A u \in Threads : ThreadInv(u)'
  BY DEF StoreInv, ThreadInv, RequestsOwned, OverlayOwned, ViewAgrees, PrevCurrent, BaseCurrent, NoMiss

\* A step leaves the thread's request and transaction alone.
Untouched(u) ==
  /\ pc'[u] = pc[u] /\ req'[u] = req[u] /\ pos'[u] = pos[u] /\ prev'[u] = prev[u]
  /\ writes'[u] = writes[u] /\ ins'[u] = ins[u] /\ dels'[u] = dels[u]
  /\ err'[u] = err[u] /\ base'[u] = base[u]

\* Every step is the step of one thread.
LEMMA OthersUntouched ==
  ASSUME TypeOK, NEW t \in Threads, Invoke(t) \/ Step(t), NEW u \in Threads, u # t
  PROVE  Untouched(u)
<1>1. CASE Invoke(t)
  BY <1>1 DEF Invoke, BeginTxn, overlay, Untouched, TypeOK
<1>2. CASE Retry(t)
  BY <1>2 DEF Retry, BeginTxn, overlay, request, Untouched, TypeOK
<1>3. CASE NextOp(t)
  BY <1>3 DEF NextOp, overlay, Untouched, TypeOK
<1>4. CASE ReadPrev(t)
  <2>1. /\ prev'[u] = prev[u] /\ base'[u] = base[u]
        /\ req' = req /\ writes' = writes /\ ins' = ins /\ dels' = dels
    BY <1>4 DEF ReadPrev, request, TypeOK
  <2>2. pc'[u] = pc[u] /\ err'[u] = err[u] /\ pos'[u] = pos[u]
    BY <1>4 DEF ReadPrev, Done, Fail, TypeOK
  <2> QED BY <2>1, <2>2 DEF Untouched
<1>5. CASE Unchanged(t)
  BY <1>5 DEF Unchanged, Done, overlay, request, Untouched, TypeOK
<1>6. CASE Save(t)
  <2>1. req' = req /\ prev' = prev /\ base' = base
    BY <1>6 DEF Save, request
  <2>2. ins'[u] = ins[u] /\ dels'[u] = dels[u]
    BY <1>6 DEF Save, UpdateIndex, TypeOK
  <2>3. writes'[u] = writes[u]
    BY <1>6 DEF Save, TypeOK
  <2>4. pc'[u] = pc[u] /\ err'[u] = err[u] /\ pos'[u] = pos[u]
    BY <1>6 DEF Save, Done, Fail, TypeOK
  <2> QED BY <2>1, <2>2, <2>3, <2>4 DEF Untouched
<1>7. CASE SaveRejected(t)
  BY <1>7 DEF SaveRejected, UpdateIndex, Fail, request, Untouched, TypeOK
<1>8. CASE Commit(t)
  BY <1>8 DEF Commit, DropTxn, Answer, Untouched, TypeOK
<1>9. CASE CommitFails(t)
  BY <1>9 DEF CommitFails, DropTxn, Answer, Untouched, TypeOK
<1>10. CASE Failed(t)
  BY <1>10 DEF Failed, DropTxn, Answer, Untouched, TypeOK
<1> QED BY <1>1, <1>2, <1>3, <1>4, <1>5, <1>6, <1>7, <1>8, <1>9, <1>10 DEF Step

\* What is untouched stays as it was while the committed data does.
LEMMA UntouchedKeeps ==
  ASSUME NEW u \in Threads, ThreadInv(u), Untouched(u), UNCHANGED store
  PROVE  ThreadInv(u)'
  BY DEF ThreadInv, Untouched, store, Active, IndexView, View

\* A commit changes nothing about objects its thread does not write.
LEMMA CommitKeeps ==
  ASSUME StoreInv, NEW t \in Threads, pc[t] = "open", Apply(t), NEW id \in Ids, t \notin Writers[id]
  PROVE  /\ objects'[id] = objects[id]
         /\ \A k \in Keys : <<k, id>> \in index' <=> <<k, id>> \in index
  <1>1. ThreadInv(t)
    BY StoreInvByThread
  <1>2. writes[t][id] = Unwritten
    BY <1>1 DEF ThreadInv
  <1>3. \A k \in Keys : <<k, id>> \notin ins[t] /\ <<k, id>> \notin dels[t]
    BY <1>1, <1>2 DEF ThreadInv
  <1> QED BY <1>2, <1>3 DEF Apply, View, IndexView

\* What is committed agrees again after a commit.
LEMMA CommitAgrees ==
  ASSUME StoreInv, NEW t \in Threads, pc[t] = "open", Apply(t)
  PROVE  CommittedAgrees'
  <1>1. ThreadInv(t)
    BY StoreInvByThread
  <1> QED BY <1>1 DEF ThreadInv, CommittedAgrees, Apply

\* Another open transaction keeps its view of the objects it has written or
\* is about to write, and follows the commit for the others.
LEMMA CommitOthers ==
  ASSUME StoreInv, NEW t \in Threads, pc[t] = "open", Apply(t),
         NEW u \in Threads, u # t, Untouched(u)
  PROVE  ThreadInv(u)'
<1>1. ThreadInv(u)
  BY StoreInvByThread
<1>2. CommittedAgrees'
  BY CommitAgrees
<1>3. ASSUME NEW id \in Ids, Active(u), u \in Writers[id]
      PROVE  /\ objects'[id] = objects[id]
             /\ \A k \in Keys : <<k, id>> \in index' <=> <<k, id>> \in index
  <2>1. t \notin Writers[id]
    BY <1>3 DEF StoreInv, Exclusive, Active
  <2> QED BY <2>1, CommitKeeps
<1>4. ASSUME NEW id \in Ids
      PROVE  /\ (writes[u][id] # Unwritten => Active(u) /\ u \in Writers[id] /\ base[u][id] = objects[id])'
             /\ (writes[u][id] = Unwritten /\ pc[u] # "failed" =>
                  \A k \in Keys : <<k, id>> \notin ins[u] /\ <<k, id>> \notin dels[u])'
  BY <1>1, <1>3 DEF ThreadInv, Untouched, Active
<1>5. ASSUME NEW id \in Ids, pc[u] # "failed", NEW k \in Keys
      PROVE  (<<k, id>> \in IndexView(u) <=> IndexedBy(View(u, id), k))'
  <2>1. CASE writes[u][id] = Unwritten
    <3>1. <<k, id>> \notin ins[u] /\ <<k, id>> \notin dels[u]
      BY <1>1, <1>5, <2>1 DEF ThreadInv
    <3>2. (<<k, id>> \in index <=> IndexedBy(objects[id], k))'
      BY <1>2 DEF CommittedAgrees
    <3> QED BY <2>1, <3>1, <3>2 DEF Untouched, IndexView, View
  <2>2. CASE writes[u][id] # Unwritten
    <3>1. Active(u) /\ u \in Writers[id]
      BY <1>1, <2>2 DEF ThreadInv
    <3>2. <<k, id>> \in IndexView(u) <=> IndexedBy(View(u, id), k)
      BY <1>1, <1>5 DEF ThreadInv
    <3>3. <<k, id>> \in index' <=> <<k, id>> \in index
      BY <1>3, <3>1
    <3> QED BY <2>2, <3>2, <3>3 DEF Untouched, IndexView, View
  <2> QED BY <2>1, <2>2
<1>6. ASSUME pc[u] = "read"
      PROVE  /\ (pos[u] \in DOMAIN req[u] /\ prev[u] = View(u, req[u][pos[u]].id))'
             /\ (base[u][req[u][pos[u]].id] = objects[req[u][pos[u]].id])'
  <2>1. /\ pos[u] \in DOMAIN req[u] /\ prev[u] = View(u, req[u][pos[u]].id)
        /\ base[u][req[u][pos[u]].id] = objects[req[u][pos[u]].id]
        /\ u \in Writers[req[u][pos[u]].id]
    BY <1>1, <1>6 DEF ThreadInv
  <2>2. req[u][pos[u]].id \in Ids
    BY <2>1, CurrentOpType DEF StoreInv
  <2>3. objects'[req[u][pos[u]].id] = objects[req[u][pos[u]].id]
    BY <1>3, <1>6, <2>1, <2>2 DEF Active
  <2> QED BY <2>1, <2>3 DEF Untouched, View
<1>7. /\ (\A i \in DOMAIN req[u] : u \in Writers[req[u][i].id])'
      /\ (err[u] \notin {"indexOnDel", "inconsistentIndex"})'
      /\ pc'[u] = pc[u]
  BY <1>1 DEF ThreadInv, Untouched
<1> QED BY <1>4, <1>5, <1>6, <1>7 DEF ThreadInv

\* Open transactions keep out of each other's objects, whoever begins one.
LEMMA ExclusiveKept ==
  ASSUME Isolated, TypeOK, Exclusive, NEW t \in Threads, Invoke(t) \/ Step(t),
         \A u \in Threads \ {t} : Untouched(u)
  PROVE  Exclusive'
<1>1. CASE ~Serial
  BY <1>1 DEF Isolated, Exclusive
<1>2. CASE Serial
  <2>1. Active(t)' => Active(t) \/ \A u \in Threads : ~Active(u)
    <3>1. CASE pc[t] \in {"idle", "backoff"}
      BY <1>2, <3>1 DEF Invoke, Step, Retry, BeginTxn, NextOp, ReadPrev, Unchanged, Save,
                        SaveRejected, Commit, CommitFails, Failed
    <3>2. CASE pc[t] \notin {"idle", "backoff"}
      BY <3>2 DEF Active, TypeOK
    <3> QED BY <3>1, <3>2
  <2>2. \A u \in Threads \ {t} : Active(u)' => Active(u)
    BY DEF Untouched, Active
  <2> QED BY <2>1, <2>2 DEF Exclusive
<1> QED BY <1>1, <1>2

-----------------------------------------------------------------------------
(* The thread that takes the step *)

\* Beginning a transaction: the overlay is the empty one the last left.
LEMMA OwnBegin ==
  ASSUME TypeOK, NEW t \in Threads, ThreadInv(t), Invoke(t) \/ Retry(t)
  PROVE  ThreadInv(t)' /\ UNCHANGED store
<1>1. /\ UNCHANGED store /\ req' = req /\ writes' = writes /\ ins' = ins /\ dels' = dels
      /\ base' = base /\ pc'[t] = "open" /\ pc[t] \in {"idle", "backoff"}
      /\ err'[t] \in {err[t], "none"}
  BY DEF Invoke, Retry, BeginTxn, overlay, request, TypeOK
<1> QED BY <1>1 DEF ThreadInv, store, Active, IndexView, View

\* What holds of a thread after its next operation.
LEMMA OwnNextOp ==
  ASSUME TypeOK, NEW t \in Threads, ThreadInv(t), NextOp(t)
  PROVE  ThreadInv(t)' /\ UNCHANGED store
<1>1. /\ UNCHANGED store /\ writes' = writes /\ ins' = ins /\ dels' = dels
      /\ base' = base /\ pc' = pc /\ pc[t] = "open" /\ err' = err
  BY DEF NextOp, overlay
<1>2. PICK op \in OpKinds, id \in {i \in Ids : t \in Writers[i]}, key \in Keys, rev \in 0..nextRev - 1 :
        req' = [req EXCEPT ![t] = Append(@, [op |-> op, id |-> id, key |-> key, rev |-> rev])]
  BY DEF NextOp
<1> DEFINE o == [op |-> op, id |-> id, key |-> key, rev |-> rev]
<1>3. req'[t] = Append(req[t], o) /\ req[t] \in Seq(Op) /\ o \in Op /\ o.id = id
  <2>1. o \in Op /\ o.id = id
    BY DEF TypeOK, Op
  <2> HIDE DEF o
  <2>2. req' = [req EXCEPT ![t] = Append(@, o)]
    BY <1>2 DEF o
  <2> QED BY <2>1, <2>2 DEF TypeOK
<1> HIDE DEF o
<1>4. \A i \in DOMAIN req'[t] : req'[t][i] = o \/ (i \in DOMAIN req[t] /\ req'[t][i] = req[t][i])
  BY <1>3, AppendProperties
<1>5. \A i \in DOMAIN req'[t] : t \in Writers[req'[t][i].id]
  BY <1>3, <1>4 DEF ThreadInv
<1> QED BY <1>1, <1>5 DEF ThreadInv, store, Active, IndexView, View

\* What holds of a thread after it has read.
LEMMA OwnReadPrev ==
  ASSUME TypeOK, NEW t \in Threads, ThreadInv(t), ReadPrev(t)
  PROVE  ThreadInv(t)' /\ UNCHANGED store
<1> DEFINE c == req[t][pos[t]].id
<1>1. /\ UNCHANGED store /\ req' = req /\ writes' = writes /\ ins' = ins /\ dels' = dels
      /\ pc[t] = "open" /\ pos[t] \in 1..Len(req[t])
  BY DEF ReadPrev, request
<1>2. pos[t] \in DOMAIN req[t] /\ c \in Ids
  <2>1. pos[t] \in DOMAIN req[t]
    BY <1>1 DEF TypeOK
  <2> QED BY <2>1, CurrentOpType
<1>3. base'[t] = IF writes[t][c] = Unwritten THEN [base[t] EXCEPT ![c] = objects[c]] ELSE base[t]
  BY DEF ReadPrev, TypeOK
<1>4. prev'[t] = View(t, c)
  BY DEF ReadPrev, TypeOK
<1>5. pc'[t] \in {"open", "read", "failed"} /\ (pc'[t] = "read" => pos' = pos)
  BY DEF ReadPrev, Done, Fail, TypeOK
<1>6. err'[t] \in {err[t], "revNotSpecified", "revisionMismatch"}
  <2>1. err' = err \/ Fail(t, "revNotSpecified") \/ Fail(t, "revisionMismatch")
    BY DEF ReadPrev
  <2> QED BY <2>1 DEF Fail, TypeOK
<1> HIDE DEF c
<1>7. \A id \in Ids : writes[t][id] # Unwritten => base'[t][id] = objects[id]
  BY <1>2, <1>3 DEF ThreadInv, TypeOK
<1>8. base'[t][c] = objects[c]
  BY <1>2, <1>3, <1>7 DEF TypeOK
<1>9. (pc[t] = "read" =>
        /\ pos[t] \in DOMAIN req[t] /\ prev[t] = View(t, req[t][pos[t]].id)
        /\ base[t][req[t][pos[t]].id] = objects[req[t][pos[t]].id])'
  BY <1>1, <1>2, <1>4, <1>5, <1>8 DEF View, store, c
<1> QED BY <1>1, <1>5, <1>6, <1>7, <1>9 DEF ThreadInv, store, Active, IndexView, View

\* What holds of a thread after a step that writes nothing.
LEMMA OwnUnchanged ==
  ASSUME TypeOK, NEW t \in Threads, ThreadInv(t), Unchanged(t)
  PROVE  ThreadInv(t)' /\ UNCHANGED store
<1>1. /\ UNCHANGED store /\ req' = req /\ writes' = writes /\ ins' = ins /\ dels' = dels
      /\ base' = base /\ err' = err /\ pc[t] = "read" /\ pc'[t] = "open"
  BY DEF Unchanged, Done, overlay, request, TypeOK
<1> QED BY <1>1 DEF ThreadInv, store, Active, IndexView, View

\* Dropping the transaction: the thread is back to what is committed.
LEMMA OwnDrop ==
  ASSUME TypeOK, NEW t \in Threads, ThreadInv(t), DropTxn(t), CommittedAgrees',
         pc'[t] \in {"idle", "backoff"}, req'[t] \in {req[t], <<>>},
         err'[t] \notin {"indexOnDel", "inconsistentIndex"}
  PROVE  ThreadInv(t)'
<1>1. /\ writes'[t] = [id \in Ids |-> Unwritten] /\ ins'[t] = {} /\ dels'[t] = {}
  BY DEF DropTxn, TypeOK
<1>2. \A i \in DOMAIN req'[t] : t \in Writers[req'[t][i].id]
  BY DEF ThreadInv
<1>3. \A id \in Ids : writes'[t][id] = Unwritten
  BY <1>1
<1>4. IndexView(t)' = index' /\ \A id \in Ids : View(t, id)' = objects'[id]
  BY <1>1, <1>3 DEF IndexView, View
<1> QED BY <1>1, <1>2, <1>3, <1>4 DEF ThreadInv, CommittedAgrees

\* Writing an object: the index entries that go were there, and
\* those that come are the new version's.
LEMMA OwnSaved ==
  ASSUME TypeOK, NEW t \in Threads, ThreadInv(t), pc[t] = "read",
         UpdateIndex(t), writes' = [writes EXCEPT ![t][CurrentOp(t).id] = Written(t)],
         CurrentOp(t).id \in Ids, Written(t) \in Version,
         UNCHANGED <<store, req, base, err>>, pc'[t] = "open"
  PROVE  ThreadInv(t)'
<1> DEFINE c == CurrentOp(t).id
<1> HIDE DEF c
<1>1. /\ c \in Ids /\ c = req[t][pos[t]].id /\ t \in Writers[c]
      /\ prev[t] = View(t, c) /\ base[t][c] = objects[c]
  BY DEF ThreadInv, CurrentOp, c
<1>2. /\ writes'[t][c] = Written(t) /\ Written(t) # Unwritten
      /\ \A id \in Ids : id # c => writes'[t][id] = writes[t][id]
  BY <1>1, UnwrittenAssumption DEF TypeOK, c
<1>3. /\ dels'[t] = (dels[t] \cup Outgoing(t)) \ Incoming(t)
      /\ ins'[t] = (ins[t] \ Outgoing(t)) \cup Incoming(t)
  BY DEF UpdateIndex, TypeOK
<1>4. /\ Outgoing(t) = KeysOf(c, prev[t]) \ KeysOf(c, Written(t))
      /\ Incoming(t) = KeysOf(c, Written(t)) \ KeysOf(c, prev[t])
  BY DEF Outgoing, Incoming, KeysToDel, KeysToPut, c
<1>5. ASSUME NEW v, NEW k \in Keys, NEW id \in Ids
      PROVE  <<k, id>> \in KeysOf(c, v) <=> id = c /\ IndexedBy(v, k)
  BY <1>1 DEF KeysOf, IndexedBy
<1>6. ASSUME NEW id \in Ids, id # c, NEW k \in Keys
      PROVE  /\ <<k, id>> \in ins'[t] <=> <<k, id>> \in ins[t]
             /\ <<k, id>> \in dels'[t] <=> <<k, id>> \in dels[t]
  <2>1. <<k, id>> \notin Outgoing(t) /\ <<k, id>> \notin Incoming(t)
    BY <1>4, <1>5, <1>6
  <2> QED BY <1>3, <2>1
<1>7. ASSUME NEW id \in Ids, NEW k \in Keys
      PROVE  (<<k, id>> \in IndexView(t) <=> IndexedBy(View(t, id), k))'
  <2>1. <<k, id>> \in IndexView(t) <=> IndexedBy(View(t, id), k)
    BY DEF ThreadInv
  <2>2. CASE id = c
    <3>1. /\ <<k, c>> \in Outgoing(t) <=> IndexedBy(prev[t], k) /\ ~IndexedBy(Written(t), k)
          /\ <<k, c>> \in Incoming(t) <=> IndexedBy(Written(t), k) /\ ~IndexedBy(prev[t], k)
      BY <1>1, <1>4, <1>5
    <3>2. <<k, c>> \in IndexView(t) <=> IndexedBy(prev[t], k)
      BY <1>1, <2>1, <2>2
    <3>3. <<k, c>> \in IndexView(t)' <=> IndexedBy(Written(t), k)
      BY <1>3, <3>1, <3>2 DEF IndexView, store
    <3>4. View(t, id)' = Written(t)
      BY <1>2, <2>2 DEF View
    <3> QED BY <2>2, <3>3, <3>4 DEF IndexedBy
  <2>3. CASE id # c
    BY <1>2, <1>6, <2>1, <2>3 DEF IndexView, View, store
  <2> QED BY <2>2, <2>3
<1>8. ASSUME NEW id \in Ids
      PROVE  /\ (writes[t][id] # Unwritten => Active(t) /\ t \in Writers[id] /\ base[t][id] = objects[id])'
             /\ (writes[t][id] = Unwritten =>
                  \A k \in Keys : <<k, id>> \notin ins[t] /\ <<k, id>> \notin dels[t])'
  <2>1. CASE id = c
    BY <1>1, <1>2, <2>1 DEF Active, store
  <2>2. CASE id # c
    BY <1>2, <1>6, <2>2 DEF Active, store, ThreadInv
  <2> QED BY <2>1, <2>2
<1>9. /\ (\A i \in DOMAIN req[t] : t \in Writers[req[t][i].id])'
      /\ (err[t] \notin {"indexOnDel", "inconsistentIndex"})'
  BY DEF ThreadInv
<1> QED BY <1>7, <1>8, <1>9 DEF ThreadInv

\* The entries an operation takes out are in the index: no miss.
LEMMA OutgoingFound ==
  ASSUME TypeOK, NEW t \in Threads, ThreadInv(t), pc[t] = "read", CurrentOp(t).id \in Ids
  PROVE  Found(t, Outgoing(t))
<1>1. prev[t] = View(t, CurrentOp(t).id) /\ prev[t] \in Version
  BY DEF ThreadInv, CurrentOp, TypeOK
<1>2. \A k \in Keys : IndexedBy(prev[t], k) => <<k, CurrentOp(t).id>> \in IndexView(t)
  BY <1>1 DEF ThreadInv
<1>3. KeysOf(CurrentOp(t).id, prev[t]) \subseteq IndexView(t)
  BY <1>1, <1>2 DEF KeysOf, IndexedBy, Version
<1> QED BY <1>3 DEF Found, Outgoing, KeysToDel

\* A failed operation leaves a transaction that is only to be dropped.
LEMMA OwnFails ==
  ASSUME TypeOK, NEW t \in Threads, ThreadInv(t), pc[t] = "read", pc'[t] = "failed",
         UNCHANGED <<store, req, writes, base>>,
         err'[t] \notin {"indexOnDel", "inconsistentIndex"}
  PROVE  ThreadInv(t)'
  BY DEF ThreadInv, Active, store

\* What holds of a thread after it has written.
LEMMA OwnSave ==
  ASSUME TypeOK, NEW t \in Threads, ThreadInv(t), Save(t) \/ SaveRejected(t),
         CurrentOp(t).id \in Ids, Written(t) \in Version
  PROVE  ThreadInv(t)' /\ UNCHANGED store
<1>1. UNCHANGED <<store, req, base>> /\ pc[t] = "read"
  BY DEF Save, SaveRejected, request
<1>2. Found(t, Outgoing(t))
  BY <1>1, OutgoingFound
<1>3. \/ writes' = writes /\ Fail(t, "corruptDatabase")
      \/ writes' = writes /\ Fail(t, "rejected")
      \/ /\ UpdateIndex(t) /\ writes' = [writes EXCEPT ![t][CurrentOp(t).id] = Written(t)]
         /\ pc' = [pc EXCEPT ![t] = "open"] /\ err' = err
  BY <1>2 DEF Save, SaveRejected, Done
<1>4. CASE writes' = writes /\ (Fail(t, "corruptDatabase") \/ Fail(t, "rejected"))
  <2>1. pc'[t] = "failed" /\ err'[t] \notin {"indexOnDel", "inconsistentIndex"}
    BY <1>4 DEF Fail, TypeOK
  <2> QED BY <1>1, <1>4, <2>1, OwnFails
<1>5. CASE /\ UpdateIndex(t) /\ writes' = [writes EXCEPT ![t][CurrentOp(t).id] = Written(t)]
           /\ pc' = [pc EXCEPT ![t] = "open"] /\ err' = err
  <2>1. pc'[t] = "open"
    BY <1>5 DEF TypeOK
  <2> QED BY <1>1, <1>5, <2>1, OwnSaved
<1> QED BY <1>3, <1>4, <1>5

-----------------------------------------------------------------------------
(* The theorems *)

\* The invariant holds at the start.
LEMMA StoreInvInit == Init => StoreInv
<1> SUFFICES ASSUME Init PROVE StoreInv
  OBVIOUS
<1>1. TypeOK
  BY InitType
<1>2. Exclusive
  BY DEF Init, Exclusive, Active
<1>3. \A id \in Ids : objects[id] = Absent /\ ~Live(objects[id])
  BY DEF Init, Live, Exists, Absent
<1>4. CommittedAgrees
  BY <1>3 DEF Init, CommittedAgrees, IndexedBy
<1>5. ASSUME NEW u \in Threads PROVE ThreadInv(u)
  <2>1. \A id \in Ids : View(u, id) = objects[id]
    BY DEF Init, View
  <2>2. IndexView(u) = {} /\ req[u] = <<>> /\ pc[u] = "idle" /\ err[u] = "none"
    BY DEF Init, IndexView
  <2>3. \A id \in Ids : writes[u][id] = Unwritten /\ ins[u] = {} /\ dels[u] = {}
    BY DEF Init
  <2> QED BY <1>3, <2>1, <2>2, <2>3 DEF ThreadInv, IndexedBy
<1> QED BY <1>1, <1>2, <1>4, <1>5, StoreInvByThread

\* One step: its thread keeps its part of the invariant, and the committed
\* data changes only by a commit.
LEMMA OwnStep ==
  ASSUME Isolated, StoreInv, NEW t \in Threads, Invoke(t) \/ Step(t)
  PROVE  /\ ThreadInv(t)' /\ CommittedAgrees'
         /\ UNCHANGED store \/ (pc[t] = "open" /\ Apply(t))
<1>1. TypeOK /\ PrevCurrent /\ ThreadInv(t) /\ CommittedAgrees
  BY StoreInvByThread DEF StoreInv
<1>2. ASSUME UNCHANGED store PROVE CommittedAgrees'
  BY <1>1, <1>2 DEF CommittedAgrees, store
<1>3. CASE Invoke(t) \/ Retry(t)
  BY <1>1, <1>2, <1>3, OwnBegin
<1>4. CASE NextOp(t)
  BY <1>1, <1>2, <1>4, OwnNextOp
<1>5. CASE ReadPrev(t)
  BY <1>1, <1>2, <1>5, OwnReadPrev
<1>6. CASE Unchanged(t)
  BY <1>1, <1>2, <1>6, OwnUnchanged
<1>7. CASE Save(t) \/ SaveRejected(t)
  <2>1. CurrentOp(t).id \in Ids /\ Written(t) \in Version
    BY <1>1, <1>7, WrittenType DEF Save, SaveRejected
  <2> QED BY <1>1, <1>2, <1>7, <2>1, OwnSave
<1>8. CASE Commit(t)
  <2>1. pc[t] = "open" /\ Apply(t) /\ DropTxn(t) /\ Answer(t, "ok")
    BY <1>8 DEF Commit
  <2>2. CommittedAgrees'
    BY <2>1, CommitAgrees
  <2>3. pc'[t] = "idle" /\ req'[t] = <<>> /\ err'[t] = "ok"
    BY <1>1, <2>1 DEF Answer, TypeOK
  <2> QED BY <1>1, <2>1, <2>2, <2>3, OwnDrop
<1>9. CASE CommitFails(t)
  <2>1. UNCHANGED store /\ DropTxn(t) /\ Answer(t, "ioError")
    BY <1>9 DEF CommitFails
  <2>2. pc'[t] = "idle" /\ req'[t] = <<>> /\ err'[t] = "ioError"
    BY <1>1, <2>1 DEF Answer, TypeOK
  <2> QED BY <1>1, <1>2, <2>1, <2>2, OwnDrop
<1>10. CASE Failed(t)
  <2>1. UNCHANGED store /\ DropTxn(t) /\ err[t] # "indexOnDel"
    BY <1>1, <1>10 DEF Failed, Isolated, ThreadInv
  <2>2. Answer(t, err[t])
    BY <1>10, <2>1 DEF Failed
  <2>3. pc'[t] = "idle" /\ req'[t] = <<>> /\ err'[t] = err[t]
    BY <1>1, <2>2 DEF Answer, TypeOK
  <2>4. err'[t] \notin {"indexOnDel", "inconsistentIndex"}
    BY <1>1, <2>3 DEF ThreadInv
  <2> QED BY <1>1, <1>2, <2>1, <2>3, <2>4, OwnDrop
<1> QED BY <1>3, <1>4, <1>5, <1>6, <1>7, <1>8, <1>9, <1>10 DEF Step

\* Every step keeps it.
LEMMA StoreInvStep ==
  ASSUME Isolated, StoreInv, [Next]_vars
  PROVE  StoreInv'
<1>1. CASE UNCHANGED vars
  <2>1. UNCHANGED store /\ \A u \in Threads : Untouched(u)
    BY <1>1 DEF vars, store, Untouched
  <2>2. TypeOK'
    BY <1>1 DEF vars, StoreInv, TypeOK
  <2>3. Exclusive' /\ CommittedAgrees'
    BY <1>1 DEF vars, StoreInv, Exclusive, CommittedAgrees, Active
  <2>4. \A u \in Threads : ThreadInv(u)'
    BY <2>1, StoreInvByThread, UntouchedKeeps
  <2> QED BY <2>2, <2>3, <2>4, StoreInvByThreadNext
<1>2. ASSUME NEW t \in Threads, Invoke(t) \/ Step(t) PROVE StoreInv'
  <2>1. TypeOK'
    BY <1>2, StepType DEF StoreInv
  <2>2. \A u \in Threads \ {t} : Untouched(u)
    BY <1>2, OthersUntouched DEF StoreInv
  <2>3. Exclusive'
    BY <1>2, <2>2, ExclusiveKept DEF StoreInv
  <2>4. /\ ThreadInv(t)' /\ CommittedAgrees'
        /\ UNCHANGED store \/ (pc[t] = "open" /\ Apply(t))
    BY <1>2, OwnStep
  <2>5. \A u \in Threads \ {t} : ThreadInv(u)'
    BY <2>2, <2>4, StoreInvByThread, UntouchedKeeps, CommitOthers
  <2>6. \A u \in Threads : ThreadInv(u)'
    BY <2>4, <2>5
  <2> QED BY <2>1, <2>3, <2>4, <2>6, StoreInvByThreadNext
<1> QED BY <1>1, <1>2 DEF Next

\* What the transactions of MojDbReq keep true while open ones stay out of
\* each other's objects.
THEOREM StoreInvAlways == ASSUME Isolated PROVE Spec => []StoreInv
<1>1. StoreInv /\ [Next]_vars => StoreInv'
  BY StoreInvStep
<1> QED BY <1>1, StoreInvInit, PTL DEF Spec

\* The state of requests, transactions and committed data has its types.
THEOREM StoreTypeCorrect == ASSUME Isolated PROVE Spec => []TypeOK
<1>1. StoreInv => TypeOK
  BY DEF StoreInv
<1> QED BY <1>1, StoreInvAlways, PTL

\* The index that MojDbIndex::update keeps holds exactly the entries of the
\* live objects that putObj() and delObj() have written.
THEOREM IndexMatchesAlways == ASSUME Isolated PROVE Spec => []IndexMatchesObjects
<1>1. StoreInv => IndexMatchesObjects
  <2> SUFFICES ASSUME StoreInv PROVE index = AllKeys(objects)
    BY DEF IndexMatchesObjects
  <2>1. TypeOK /\ CommittedAgrees
    BY DEF StoreInv
  <2>2. ASSUME NEW e \in index PROVE e \in AllKeys(objects)
    <3>1. PICK k \in Keys, id \in Ids : e = <<k, id>>
      BY <2>1, <2>2 DEF TypeOK, Entries
    <3>2. e \in KeysOf(id, objects[id])
      BY <2>1, <2>2, <3>1 DEF CommittedAgrees, IndexedBy, KeysOf
    <3> QED BY <3>2 DEF AllKeys
  <2>3. ASSUME NEW e \in AllKeys(objects) PROVE e \in index
    <3>1. PICK id \in Ids : e \in KeysOf(id, objects[id])
      BY <2>3 DEF AllKeys
    <3>2. Live(objects[id]) /\ e = <<objects[id].key, id>> /\ objects[id].key \in Keys
      BY <2>1, <3>1 DEF KeysOf, TypeOK, Version
    <3> QED BY <2>1, <3>2 DEF CommittedAgrees, IndexedBy
  <2> QED BY <2>2, <2>3
<1> QED BY <1>1, StoreInvAlways, PTL

\* No request is answered with MojErrDbInconsistentIndex, and none needs the
\* handler's retry.
THEOREM NeverInconsistentAlways == ASSUME Isolated PROVE Spec => []NeverInconsistent
<1>1. StoreInv => NeverInconsistent
  BY DEF StoreInv, NoMiss, NeverInconsistent
<1> QED BY <1>1, StoreInvAlways, PTL

\* A commit replaces only versions that its operations have read: no update
\* is lost between putImpl()'s read and the engine's commit.
THEOREM NoLostUpdateAlways == ASSUME Isolated PROVE Spec => NoLostUpdate
<1> DEFINE Kept ==
      \A id \in Ids :
        objects'[id] # objects[id] =>
          \E t \in Threads : Active(t) /\ pc'[t] # pc[t] /\ base[t][id] = objects[id]
<1>1. StoreInv /\ [Next]_vars => [Kept]_vars
  <2> SUFFICES ASSUME StoreInv, NEW t \in Threads, Invoke(t) \/ Step(t),
                      NEW id \in Ids, objects'[id] # objects[id]
               PROVE  Active(t) /\ pc'[t] # pc[t] /\ base[t][id] = objects[id]
    BY DEF Next
  <2>1. TypeOK /\ ThreadInv(t)
    BY StoreInvByThread DEF StoreInv
  <2>2. pc[t] = "open" /\ Apply(t) /\ Commit(t)
    <3>1. ~(UNCHANGED store)
      BY DEF store
    <3> QED BY <3>1 DEF Isolated, Step, Invoke, Retry, BeginTxn, NextOp, ReadPrev, Unchanged,
                        Save, SaveRejected, Commit, CommitFails, Failed
  <2>3. pc'[t] # pc[t]
    BY <2>1, <2>2 DEF Commit, Answer, TypeOK
  <2>4. writes[t][id] # Unwritten
    BY <2>2 DEF Apply, View
  <2> QED BY <2>1, <2>2, <2>3, <2>4 DEF ThreadInv, Active
<1> QED BY <1>1, StoreInvAlways, PTL DEF Spec, NoLostUpdate

-----------------------------------------------------------------------------
(***************************************************************************)
(* The refinement.  What a transaction sees is the end of a path of stores *)
(* that starts at the committed one and takes one operation of the request *)
(* at each step.  A commit of another thread moves the whole path; at its  *)
(* own commit the path leads into Outcomes().                              *)
(***************************************************************************)

Stores == [Ids -> Version]

\* One operation of a batch leads from store s to store r.
Leads(op, s, r) == \E o \in Abstract!After(op, s[op.id]) : r = [s EXCEPT ![op.id] = o]

\* The first n operations of ops lead from store s to store r, by way of path.
IsPath(path, s, ops, n, r) ==
  /\ path \in [0..n -> Stores] /\ path[0] = s /\ path[n] = r
  /\ \A i \in 1..n : Leads(ops[i], path[i - 1], path[i])

-----------------------------------------------------------------------------
(* Paths end in Outcomes() *)

\* The stores that one operation of a batch may lead to.
RunOne(stores, op) == UNION {{[st EXCEPT ![op.id] = o] : o \in Abstract!After(op, st[op.id])} : st \in stores}

\* The fold of Outcomes() for the subsets of the positions in a batch.
Runs(s, ops) ==
  CHOOSE runs : runs = [S \in SUBSET DOMAIN ops |->
    IF S = {} THEN {s}
    ELSE UNION {{[st EXCEPT ![ops[Abstract!Max(S)].id] = o] : o \in Abstract!After(ops[Abstract!Max(S)], st[ops[Abstract!Max(S)].id])}
                  : st \in runs[S \ {Abstract!Max(S)}]}]

\* The outcomes of a list of operations, as the recursive function that runs them.
LEMMA OutcomesRuns ==
  ASSUME NEW s, NEW ops
  PROVE  Abstract!Outcomes(s, ops) = Runs(s, ops)[DOMAIN ops]
  BY DEF Abstract!Outcomes, Abstract!FoldLeft, Abstract!MapThenFoldSet, Runs

\* The abstract operations keep the types.
LEMMA AfterType ==
  ASSUME NEW op \in Op, NEW v \in Version
  PROVE  Abstract!After(op, v) \subseteq Version
<1>1. op.op \in Operations /\ op.key \in Keys
  BY OpKindsAssumption DEF Op
<1>2. ASSUME ~(op.op = "purge") PROVE Abstract!Content(op, v) \in Version
  BY <1>1, <1>2 DEF Abstract!Content, Version, Operations
<1>3. ASSUME NEW c \in Version, NEW r \in 1..MaxRev PROVE [c EXCEPT !.rev = r] \in Version
  BY <1>3, BoundAssumption DEF Version
<1> QED BY <1>2, <1>3, AbsentVersion DEF Abstract!After

\* One operation leads from stores to stores.
LEMMA RunOneType ==
  ASSUME NEW op \in Op, NEW stores \in SUBSET Stores
  PROVE  RunOne(stores, op) \in SUBSET Stores
<1>1. op.id \in Ids
  BY DEF Op
<1>2. ASSUME NEW st \in stores, NEW o \in Abstract!After(op, st[op.id])
      PROVE  [st EXCEPT ![op.id] = o] \in Stores
  <2>1. st[op.id] \in Version
    BY <1>1 DEF Stores
  <2>2. o \in Version
    BY <2>1, AfterType
  <2> QED BY <1>1, <2>2 DEF Stores
<1> QED BY <1>2 DEF RunOne

\* Every store that the operation leads to from one of the stores is among them.
LEMMA RunOneHas ==
  ASSUME NEW op, NEW stores, NEW st \in stores, NEW r, Leads(op, st, r)
  PROVE  r \in RunOne(stores, op)
<1> DEFINE Of(s) == {[s EXCEPT ![op.id] = a] : a \in Abstract!After(op, s[op.id])}
<1>1. r \in Of(st)
  BY DEF Leads
<1>2. Of(st) \in {Of(s) : s \in stores}
  OBVIOUS
<1>3. RunOne(stores, op) = UNION {Of(s) : s \in stores}
  BY DEF RunOne
<1> HIDE DEF Of
<1> QED BY <1>1, <1>2, <1>3

\* The greatest element that the abstract specification finds is one.
LEMMA AbstractMax ==
  ASSUME NEW S \in SUBSET Nat, IsFiniteSet(S), S # {}
  PROVE  Abstract!Max(S) \in S /\ \A y \in S : y <= Abstract!Max(S)
<1>1. \E x \in S : \A y \in S : x >= y
  BY MaxExists DEF HasMax
<1> QED BY <1>1 DEF Abstract!Max

\* The fold satisfies its equation.
LEMMA RunsEquation ==
  ASSUME NEW s \in Stores, NEW ops \in Seq(Op)
  PROVE  \A S \in SUBSET DOMAIN ops :
           Runs(s, ops)[S] = IF S = {} THEN {s}
                             ELSE RunOne(Runs(s, ops)[S \ {Abstract!Max(S)}], ops[Abstract!Max(S)])
<1> DEFINE D == DOMAIN ops
           V == SUBSET Stores
           pick == [S \in SUBSET D |-> Abstract!Max(S)]
           F == [x \in D \X V |-> RunOne(x[2], ops[x[1]])]
           Eq(g) == g = [S \in SUBSET DOMAIN ops |->
             IF S = {} THEN {s}
             ELSE UNION {{[st EXCEPT ![ops[Abstract!Max(S)].id] = o] : o \in Abstract!After(ops[Abstract!Max(S)], st[ops[Abstract!Max(S)].id])}
                           : st \in g[S \ {Abstract!Max(S)}]}]
<1>1. D = 1..Len(ops) /\ Len(ops) \in Nat /\ IsFiniteSet(D)
  BY FS_Interval
<1>2. \A S \in SUBSET D : S # {} => Abstract!Max(S) \in S
  BY <1>1, AbstractMax, FS_Subset
<1>3. \A i \in D : ops[i] \in Op
  BY <1>1, ElementOfSeq
<1>4. F \in [D \X V -> V]
  BY <1>3, RunOneType
<1>5. PICK g \in [SUBSET D -> V] : IsFold(g, SUBSET D, pick, {s}, F)
  <2>1. \A S \in SUBSET D : S # {} => pick[S] \in S
    BY <1>2
  <2>2. {s} \in V
    OBVIOUS
  <2> HIDE DEF D, V, pick, F
  <2> QED BY <1>1, <1>4, <2>1, <2>2, FoldExists
<1>6. \A S \in SUBSET D : g[S] = IF S = {} THEN {s} ELSE RunOne(g[S \ {Abstract!Max(S)}], ops[Abstract!Max(S)])
  <2> SUFFICES ASSUME NEW S \in SUBSET D
               PROVE  g[S] = IF S = {} THEN {s} ELSE RunOne(g[S \ {Abstract!Max(S)}], ops[Abstract!Max(S)])
    OBVIOUS
  <2>1. g[S] = IF S = {} THEN {s} ELSE F[<<Abstract!Max(S), g[S \ {Abstract!Max(S)}]>>]
    BY <1>5 DEF IsFold
  <2>2. ASSUME S # {} PROVE <<Abstract!Max(S), g[S \ {Abstract!Max(S)}]>> \in D \X V
    BY <1>2, <1>5, <2>2
  <2> QED BY <2>1, <2>2
<1>7. Eq(g)
  BY <1>5, <1>6 DEF RunOne
<1>8. Eq(Runs(s, ops))
  <2> HIDE DEF D, V, pick, F
  <2> QED BY <1>7 DEF Runs
<1> QED BY <1>8 DEF RunOne

\* A path through a whole batch ends in one of its outcomes.
LEMMA PathOutcome ==
  ASSUME NEW s \in Stores, NEW ops \in Seq(Op), NEW path, NEW r,
         IsPath(path, s, ops, Len(ops), r)
  PROVE  r \in Abstract!Outcomes(s, ops)
<1> DEFINE R == Runs(s, ops)
           Bad == {k \in 0..Len(ops) : path[k] \notin R[1..k]}
<1>1. Len(ops) \in Nat /\ DOMAIN ops = 1..Len(ops)
  OBVIOUS
<1>2. \A k \in 0..Len(ops) : 1..k \in SUBSET DOMAIN ops /\ path[k] \in Stores
  BY <1>1 DEF IsPath
<1>3. R[{}] = {s}
  BY RunsEquation
<1>4. ASSUME NEW k \in 1..Len(ops) PROVE R[1..k] = RunOne(R[1..k - 1], ops[k])
  <2> k \in Nat /\ k \in 1..k /\ 1..k \in SUBSET Nat
    BY <1>1
  <2>1. IsFiniteSet(1..k) /\ 1..k # {}
    <3>1. 1 \in Int /\ k \in Int
      OBVIOUS
    <3>2. IsFiniteSet(1..k)
      BY <3>1, FS_Interval
    <3> QED BY <3>2
  <2>2. Abstract!Max(1..k) \in 1..k /\ k <= Abstract!Max(1..k)
    BY <2>1, AbstractMax
  <2>3. Abstract!Max(1..k) = k /\ (1..k) \ {k} = 1..k - 1
    BY <1>1, <2>2
  <2>4. 1..k \in SUBSET DOMAIN ops
    BY <1>1
  <2>5. R[1..k] = RunOne(R[(1..k) \ {Abstract!Max(1..k)}], ops[Abstract!Max(1..k)])
    BY <2>1, <2>4, RunsEquation
  <2> QED BY <2>3, <2>5
<1> HIDE DEF R
<1>5. Bad = {}
  <2> SUFFICES ASSUME Bad # {} PROVE FALSE
    OBVIOUS
  <2>1. PICK k \in Bad : \A m \in Bad : k <= m
    <3>1. Bad \in SUBSET Nat
      BY <1>1
    <3> HIDE DEF Bad
    <3> QED BY <3>1, MinIn
  <2>2. k # 0
    <3>1. 1..0 = {}
      OBVIOUS
    <3> QED BY <1>3, <2>1, <3>1 DEF IsPath
  <2>3. k \in 1..Len(ops) /\ k - 1 \in 0..Len(ops) /\ k - 1 \notin Bad
    BY <1>1, <2>1, <2>2
  <2>4. path[k - 1] \in R[1..k - 1] /\ Leads(ops[k], path[k - 1], path[k])
    BY <2>3 DEF IsPath
  <2>5. path[k] \in RunOne(R[1..k - 1], ops[k])
    BY <2>4, RunOneHas
  <2> QED BY <1>4, <2>1, <2>3, <2>5
<1>6. Len(ops) \in 0..Len(ops) /\ path[Len(ops)] = r
  BY <1>1 DEF IsPath
<1>7. r \in R[1..Len(ops)]
  BY <1>5, <1>6
<1> QED BY <1>1, <1>7, OutcomesRuns DEF R

-----------------------------------------------------------------------------
(* The invariant *)

\* A version that may be stored: its revision has been given out, and there is no
\* object without a revision.
Known(v) == v.rev < nextRev /\ (v.rev = 0 => v = Absent)

\* The store as thread t sees it.
Viewed(t) == [id \in Ids |-> View(t, id)]

\* putImpl() and delImpl() have let the operation pass.
Passed(op, old) == ~Skipped(op, old) /\ ~RevNotSpecified(op, old) /\ ~RevisionMismatch(op, old)

\* What a thread sees is where the operations it has done lead from the committed
\* store, and the operation it is at was let pass on that version.
BatchInv(t) ==
  /\ \A i \in DOMAIN req[t] : req[t][i].rev <= MaxRev
  /\ \A id \in Ids : writes[t][id] # Unwritten => Known(writes[t][id])
  /\ pc[t] = "idle" => req[t] = <<>>
  /\ pc[t] \in {"idle", "backoff"} => pos[t] = 1
  /\ pc[t] = "failed" => req[t] # <<>> /\ err[t] \notin {"none", "ok"}
  /\ pc[t] \in {"open", "read"} =>
       pos[t] - 1 <= Len(req[t]) /\ \E path : IsPath(path, objects, req[t], pos[t] - 1, Viewed(t))
  /\ pc[t] = "read" => Passed(CurrentOp(t), prev[t])

RefineInv ==
  /\ StoreInv /\ nextRev <= MaxRev + 1
  /\ \A id \in Ids : Known(objects[id])
  /\ \A t \in Threads : BatchInv(t)

-----------------------------------------------------------------------------
(* One operation, as putImpl() and delImpl() do it and as it is promised *)

\* The two specifications agree on which objects exist.
LEMMA AbstractExists ==
  ASSUME NEW v \in Version, Known(v)
  PROVE  Abstract!Exists(v) <=> Exists(v)
  BY DEF Abstract!Exists, Exists, Known, Absent

\* An operation that is skipped leaves the version, as the abstract one may.
LEMMA SkippedLeads ==
  ASSUME NEW op \in Op, NEW v \in Version, Known(v), Skipped(op, v)
  PROVE  v \in Abstract!After(op, v)
  BY AbstractExists DEF Skipped, Abstract!After, Abstract!Void

\* An operation that passes its checks is admitted by the abstract specification.
LEMMA PassedAdmitted ==
  ASSUME NEW op \in Op, NEW v \in Version, Known(v), Passed(op, v)
  PROVE  ~Abstract!Void(op, v) /\ Abstract!Admitted(op, v)
  BY AbstractExists DEF Passed, Skipped, RevNotSpecified, RevisionMismatch, Live,
                        Abstract!Void, Abstract!Admitted

\* An operation that finds nothing to change leaves the version, as the abstract one may.
LEMMA UnchangedLeads ==
  ASSUME NEW op \in Op, NEW v \in Version, Known(v), Passed(op, v), NothingChanged(op, v)
  PROVE  v \in Abstract!After(op, v)
<1>1. op.op \in Operations /\ op.key \in Keys
  BY OpKindsAssumption DEF Op
<1>2. Exists(v) /\ op.op # "purge" /\ Abstract!Content(op, v) = v
  BY <1>1 DEF NothingChanged, Passed, Skipped, Live, Abstract!Content, Version, Operations
<1> QED BY <1>2, AbstractExists, PassedAdmitted DEF Abstract!After

\* The version with another revision, and what a version is made of.
LEMMA VersionWithRev ==
  ASSUME NEW v \in Version, NEW n \in Nat
  PROVE  [v EXCEPT !.rev = n] = [rev |-> n, key |-> v.key, del |-> v.del]
<1> DEFINE w == [v EXCEPT !.rev = n]
<1>1. w \in Version /\ w.rev = n /\ w.key = v.key
  BY DEF Version
<1>2. w.del = v.del
  BY DEF Version
<1> HIDE DEF w
<1>3. w = [rev |-> n, key |-> v.key, del |-> v.del]
  BY <1>1, <1>2 DEF Version
<1> QED BY <1>3 DEF w

\* The version that is written is one the abstract operation may leave.
LEMMA WrittenLeads ==
  ASSUME NEW op \in Op, NEW v \in Version, Known(v), Passed(op, v),
         nextRev \in Nat, op.op # "purge" => nextRev <= MaxRev
  PROVE  NewVersion(op, v, nextRev) \in Abstract!After(op, v)
<1>1. op.op \in Operations /\ op.key \in Keys /\ MaxRev \in Nat
  BY OpKindsAssumption, BoundAssumption DEF Op
<1>2. CASE op.op = "purge"
  BY <1>2, PassedAdmitted DEF Abstract!After, NewVersion
<1>3. CASE op.op # "purge"
  <2>1. nextRev \in 1..MaxRev /\ nextRev > v.rev
    BY <1>1, <1>3 DEF Known, Version
  <2>2. NewVersion(op, v, nextRev) = [Abstract!Content(op, v) EXCEPT !.rev = nextRev]
    <3> DEFINE c == Abstract!Content(op, v)
    <3>1. CASE op.op \in {"put", "force"}
      <4>1. NewVersion(op, v, nextRev) = [rev |-> nextRev, key |-> op.key, del |-> FALSE]
        BY <3>1 DEF NewVersion
      <4>2. c = [v EXCEPT !.key = op.key, !.del = FALSE]
        BY <3>1 DEF Abstract!Content
      <4>3. c \in Version /\ c.key = op.key
        BY <1>1, <4>2 DEF Version
      <4>4. c.del = FALSE
        BY <1>1, <4>2 DEF Version
      <4> HIDE DEF c
      <4>5. [c EXCEPT !.rev = nextRev] = [rev |-> nextRev, key |-> c.key, del |-> c.del]
        BY <4>3, VersionWithRev
      <4> QED BY <4>1, <4>3, <4>4, <4>5, Zenon DEF c
    <3>2. CASE op.op \in {"merge", "mergeExisting"}
      BY <1>1, <3>2 DEF NewVersion, Abstract!Content, Version
    <3>3. CASE op.op = "del"
      <4>1. NewVersion(op, v, nextRev) = [rev |-> nextRev, key |-> v.key, del |-> TRUE]
        BY <3>3 DEF NewVersion
      <4>2. c = [v EXCEPT !.del = TRUE]
        BY <3>3 DEF Abstract!Content
      <4>3. c \in Version /\ c.key = v.key
        BY <1>1, <4>2 DEF Version
      <4>4. c.del = TRUE
        BY <1>1, <4>2 DEF Version
      <4> HIDE DEF c
      <4>5. [c EXCEPT !.rev = nextRev] = [rev |-> nextRev, key |-> c.key, del |-> c.del]
        BY <4>3, VersionWithRev
      <4> QED BY <4>1, <4>3, <4>4, <4>5, Zenon DEF c
    <3> QED BY <1>1, <1>3, <3>1, <3>2, <3>3 DEF Operations
  <2> QED BY <1>3, <2>1, <2>2, PassedAdmitted DEF Abstract!After
<1> QED BY <1>2, <1>3

\* A path goes on with the next operation.
LEMMA PathExtends ==
  ASSUME NEW path, NEW s, NEW ops, NEW n \in Nat, NEW r, NEW q \in Stores,
         IsPath(path, s, ops, n, r), Leads(ops[n + 1], r, q)
  PROVE  \E p : IsPath(p, s, ops, n + 1, q)
<1> DEFINE p == [i \in 0..n + 1 |-> IF i <= n THEN path[i] ELSE q]
<1>1. p \in [0..n + 1 -> Stores] /\ p[0] = s /\ p[n + 1] = q
  BY DEF IsPath
<1>2. ASSUME NEW i \in 1..n + 1 PROVE Leads(ops[i], p[i - 1], p[i])
  <2>1. CASE i <= n
    BY <2>1 DEF IsPath
  <2>2. CASE ~(i <= n)
    BY <2>2 DEF IsPath
  <2> QED BY <2>1, <2>2
<1> QED BY <1>1, <1>2 DEF IsPath

-----------------------------------------------------------------------------
(* Steps of other threads *)

\* A version whose revision was given out stays one.
LEMMA KnownLater ==
  ASSUME NEW v \in Version, Known(v), nextRev \in Nat, nextRev' \in Nat, nextRev <= nextRev'
  PROVE  Known(v)'
  BY DEF Known, Version

\* What others do without committing does not concern a batch.
LEMMA OthersBatch ==
  ASSUME TypeOK, TypeOK', NEW u \in Threads, BatchInv(u), Untouched(u),
         nextRev <= nextRev', UNCHANGED objects
  PROVE  BatchInv(u)'
<1>1. \A id \in Ids : View(u, id)' = View(u, id)
  BY DEF Untouched, View
<1>2. Viewed(u)' = Viewed(u)
  BY <1>1 DEF Viewed
<1>3. CurrentOp(u)' = CurrentOp(u)
  BY DEF Untouched, CurrentOp
<1>4. \A id \in Ids : (writes[u][id] # Unwritten => Known(writes[u][id]))'
  <2> SUFFICES ASSUME NEW id \in Ids, writes[u][id] # Unwritten PROVE Known(writes[u][id])'
    BY DEF Untouched
  <2>1. Known(writes[u][id]) /\ writes[u][id] \in Version /\ writes'[u][id] = writes[u][id]
    BY DEF BatchInv, TypeOK, Untouched
  <2> QED BY <2>1, SMTT(40) DEF Known, TypeOK, Version
<1> QED BY <1>2, <1>3, <1>4 DEF BatchInv, Untouched

\* A commit moves the paths of the others: it does not change the objects they write.
LEMMA OthersCommit ==
  ASSUME StoreInv, TypeOK', NEW t \in Threads, pc[t] = "open", Apply(t), nextRev' = nextRev,
         NEW u \in Threads, u # t, Untouched(u), BatchInv(u)
  PROVE  BatchInv(u)'
<1>1. TypeOK /\ ThreadInv(u)
  BY StoreInvByThread DEF StoreInv
<1>2. \A id \in Ids : (writes[u][id] # Unwritten => Known(writes[u][id]))'
  BY DEF BatchInv, Untouched, Known
<1>3. CurrentOp(u)' = CurrentOp(u)
  BY DEF Untouched, CurrentOp
<1>4. ASSUME pc[u] \in {"open", "read"}
      PROVE  \E path : IsPath(path, objects', req[u], pos[u] - 1, Viewed(u)')
  <2> DEFINE n == pos[u] - 1
  <2>1. PICK path : IsPath(path, objects, req[u], n, Viewed(u))
    BY <1>4 DEF BatchInv
  <2>2. n \in Nat /\ n <= Len(req[u]) /\ req[u] \in Seq(Op)
    BY <1>1, <1>4, SMTT(40) DEF BatchInv, TypeOK
  <2> HIDE DEF n
  <2> DEFINE p == [i \in 0..n |-> [id \in Ids |-> IF u \in Writers[id] THEN path[i][id] ELSE objects'[id]]]
  <2>3. \A i \in 0..n : path[i] \in Stores
    BY <2>1 DEF IsPath
  <2>4. objects' \in Stores
    BY DEF TypeOK, Stores
  <2>5. p \in [0..n -> Stores]
    BY <2>3, <2>4 DEF Stores
  <2>6. ASSUME NEW id \in Ids, u \in Writers[id] PROVE objects'[id] = objects[id]
    <3>1. t \notin Writers[id]
      BY <1>4, <2>6 DEF StoreInv, Exclusive, Active
    <3> QED BY <3>1, CommitKeeps
  <2>7. p[0] = objects'
    <3>1. \A id \in Ids : p[0][id] = objects'[id]
      BY <2>1, <2>2, <2>6 DEF IsPath
    <3> QED BY <2>2, <2>4, <2>5, <3>1 DEF Stores
  <2>8. p[n] = Viewed(u)'
    <3>1. ASSUME NEW id \in Ids PROVE p[n][id] = View(u, id)'
      <4>1. CASE u \in Writers[id]
        BY <2>1, <2>2, <2>6, <4>1 DEF IsPath, Viewed, View, Untouched
      <4>2. CASE u \notin Writers[id]
        BY <1>1, <2>2, <4>2 DEF ThreadInv, View, Untouched
      <4> QED BY <4>1, <4>2
    <3>2. p[n] \in Stores
      BY <2>2, <2>5
    <3> QED BY <3>1, <3>2 DEF Viewed, Stores
  <2>9. ASSUME NEW i \in 1..n PROVE Leads(req[u][i], p[i - 1], p[i])
    <3> DEFINE op == req[u][i]
    <3>1. i \in DOMAIN req[u] /\ i - 1 \in 0..n /\ i \in 0..n
      BY <2>2
    <3>2. op \in Op /\ op.id \in Ids /\ u \in Writers[op.id]
      <4>1. op \in Op
        BY <2>2, <3>1, ElementOfSeq
      <4> QED BY <1>1, <3>1, <4>1 DEF ThreadInv, Op
    <3>3. PICK o \in Abstract!After(op, path[i - 1][op.id]) : path[i] = [path[i - 1] EXCEPT ![op.id] = o]
      BY <2>1 DEF IsPath, Leads
    <3> HIDE DEF op
    <3>4. p[i - 1][op.id] = path[i - 1][op.id]
      BY <3>1, <3>2
    <3>5. p[i] = [p[i - 1] EXCEPT ![op.id] = o]
      BY <2>3, <3>1, <3>2, <3>3 DEF Stores
    <3>6. Leads(op, p[i - 1], p[i])
      BY <3>3, <3>4, <3>5 DEF Leads
    <3> QED BY <3>6 DEF op
  <2> HIDE DEF p
  <2>10. IsPath(p, objects', req[u], n, Viewed(u)')
    BY <2>5, <2>7, <2>8, <2>9 DEF IsPath
  <2> QED BY <2>10 DEF n
<1> QED BY <1>2, <1>3, <1>4 DEF BatchInv, Untouched

-----------------------------------------------------------------------------
(* Steps of the thread itself *)

\* A thread that begins a transaction sees what is committed.
LEMMA OwnBatchBegin ==
  ASSUME StoreInv, NEW t \in Threads, BatchInv(t), Invoke(t) \/ Retry(t)
  PROVE  BatchInv(t)' /\ UNCHANGED <<objects, nextRev>>
<1>1. TypeOK /\ ThreadInv(t) /\ pc[t] \in {"idle", "backoff"} /\ pos[t] = 1
  BY StoreInvByThread DEF StoreInv, Invoke, Retry, BatchInv
<1>2. /\ UNCHANGED <<objects, nextRev, pos, writes>> /\ req'[t] = req[t]
      /\ pc'[t] = "open"
  BY <1>1 DEF Invoke, Retry, BeginTxn, store, overlay, request, TypeOK
<1>3. \A id \in Ids : writes[t][id] = Unwritten
  BY <1>1 DEF ThreadInv, Active
<1>4. Viewed(t)' = objects
  BY <1>1, <1>2, <1>3 DEF Viewed, View, TypeOK
<1>5. IsPath([i \in 0..0 |-> objects], objects, req[t], 0, objects)
  BY <1>1 DEF IsPath, Stores, TypeOK
<1>6. pos'[t] - 1 = 0 /\ 0 <= Len(req[t])
  BY <1>1, <1>2 DEF TypeOK
<1>7. \E path : IsPath(path, objects', req'[t], pos'[t] - 1, Viewed(t)')
  BY <1>2, <1>4, <1>5, <1>6
<1> QED BY <1>2, <1>3, <1>6, <1>7 DEF BatchInv

\* The client's next operation names a revision that it can know.
LEMMA OwnBatchNextOp ==
  ASSUME StoreInv, NEW t \in Threads, BatchInv(t), nextRev <= MaxRev + 1, NextOp(t)
  PROVE  BatchInv(t)' /\ UNCHANGED <<objects, nextRev>>
<1>1. TypeOK /\ pc[t] = "open" /\ UNCHANGED <<objects, nextRev, pc, pos, writes>>
  BY DEF StoreInv, NextOp, store, overlay
<1>2. PICK op \in OpKinds, id \in Ids, key \in Keys, rev \in 0..nextRev - 1 :
        req' = [req EXCEPT ![t] = Append(@, [op |-> op, id |-> id, key |-> key, rev |-> rev])]
  BY DEF NextOp
<1> DEFINE new == [op |-> op, id |-> id, key |-> key, rev |-> rev]
           n == pos[t] - 1
<1>3. new \in Op /\ new.rev <= MaxRev
  BY <1>1, BoundAssumption DEF TypeOK, Op
<1>4. req[t] \in Seq(Op) /\ n = Len(req[t]) /\ req'[t] = Append(req[t], new) /\ n \in Nat
  BY <1>1, <1>2 DEF TypeOK, NextOp
<1> HIDE DEF new
<1>5. /\ Len(req'[t]) = Len(req[t]) + 1 /\ DOMAIN req'[t] = 1..Len(req[t]) + 1
      /\ req'[t][Len(req[t]) + 1] = new /\ \A i \in 1..Len(req[t]) : req'[t][i] = req[t][i]
  BY <1>3, <1>4, AppendProperties
<1>6. \A i \in DOMAIN req'[t] : req'[t][i].rev <= MaxRev
  <2>1. \A i \in 1..Len(req[t]) : req[t][i].rev <= MaxRev
    BY <1>4 DEF BatchInv
  <2> QED BY <1>3, <1>4, <1>5, <2>1
<1>7. Viewed(t)' = Viewed(t)
  BY <1>1 DEF Viewed, View
<1>8. PICK path : IsPath(path, objects, req[t], n, Viewed(t))
  BY <1>1 DEF BatchInv
<1>9. IsPath(path, objects', req'[t], n, Viewed(t)')
  BY <1>1, <1>4, <1>5, <1>7, <1>8 DEF IsPath
<1> QED BY <1>1, <1>4, <1>5, <1>6, <1>9 DEF BatchInv, Known

\* What a thread sees has types, and revisions that have been given out.
LEMMA ViewKnown ==
  ASSUME TypeOK, NEW t \in Threads, BatchInv(t), \A id \in Ids : Known(objects[id]), NEW id \in Ids
  PROVE  Known(View(t, id)) /\ View(t, id) \in Version /\ Viewed(t)[id] = View(t, id) /\ Viewed(t) \in Stores
<1>1. \A i \in Ids : View(t, i) \in Version
  BY ViewType
<1> QED BY <1>1 DEF BatchInv, View, Viewed, Stores

\* An operation that is done: the path of the thread goes on.
LEMMA OwnBatchDone ==
  ASSUME TypeOK, NEW t \in Threads, BatchInv(t), pc[t] \in {"open", "read"},
         pos[t] \in DOMAIN req[t], NEW o \in Abstract!After(CurrentOp(t), View(t, CurrentOp(t).id)),
         Viewed(t)' = [Viewed(t) EXCEPT ![CurrentOp(t).id] = o], TypeOK',
         UNCHANGED <<objects, req>>, pos'[t] = pos[t] + 1
  PROVE  /\ pos'[t] - 1 <= Len(req'[t])
         /\ \E path : IsPath(path, objects', req'[t], pos'[t] - 1, Viewed(t)')
<1> DEFINE n == pos[t] - 1
<1>1. n \in Nat /\ n + 1 = pos[t] /\ pos'[t] - 1 = n + 1 /\ pos[t] <= Len(req[t])
  BY DEF TypeOK
<1>2. CurrentOp(t) = req[t][n + 1] /\ CurrentOp(t).id \in Ids
  BY <1>1, CurrentOpType
<1>3. PICK path : IsPath(path, objects, req[t], n, Viewed(t))
  BY DEF BatchInv
<1>4. Viewed(t)[CurrentOp(t).id] = View(t, CurrentOp(t).id)
  BY <1>2 DEF Viewed
<1>5. Leads(req[t][n + 1], Viewed(t), Viewed(t)')
  BY <1>2, <1>4 DEF Leads
<1>6. Viewed(t)' \in Stores
  <2>1. \A id \in Ids : View(t, id)' \in Version
    BY DEF TypeOK, View
  <2> QED BY <2>1 DEF Viewed, Stores
<1> HIDE DEF n
<1>7. \E p : IsPath(p, objects, req[t], n + 1, Viewed(t)')
  BY <1>1, <1>3, <1>5, <1>6, PathExtends
<1> QED BY <1>1, <1>7

\* What a thread's batch has done so far, after it has read the next object.
LEMMA OwnBatchRead ==
  ASSUME StoreInv, TypeOK', NEW t \in Threads, BatchInv(t), \A id \in Ids : Known(objects[id]), ReadPrev(t)
  PROVE  BatchInv(t)' /\ UNCHANGED <<objects, nextRev>>
<1> DEFINE op == CurrentOp(t)
           old == View(t, op.id)
<1>1. /\ TypeOK /\ UNCHANGED <<objects, nextRev, req, writes>>
      /\ pc[t] = "open" /\ pos[t] \in 1..Len(req[t])
  BY DEF StoreInv, ReadPrev, store, request
<1>2. op = req[t][pos[t]] /\ op \in Op /\ op.id \in Ids /\ pos[t] \in DOMAIN req[t]
  <2>1. pos[t] \in DOMAIN req[t]
    BY <1>1 DEF TypeOK
  <2> QED BY <1>1, <2>1, CurrentOpType
<1>3. Known(old) /\ old \in Version /\ Viewed(t)[op.id] = old /\ Viewed(t) \in Stores
  BY <1>1, <1>2, ViewKnown
<1>4. Viewed(t)' = Viewed(t)
  BY <1>1 DEF Viewed, View
<1>5. prev'[t] = old
  BY <1>1 DEF ReadPrev, TypeOK, CurrentOp
<1>6. /\ \A i \in DOMAIN req'[t] : req'[t][i].rev <= MaxRev
      /\ \A id \in Ids : (writes[t][id] # Unwritten => Known(writes[t][id]))'
  BY <1>1 DEF BatchInv, Known
<1>7. \/ Skipped(op, old) /\ Done(t)
      \/ (Fail(t, "revNotSpecified") \/ Fail(t, "revisionMismatch")) /\ UNCHANGED pos
      \/ Passed(op, old) /\ pc' = [pc EXCEPT ![t] = "read"] /\ UNCHANGED pos
  BY DEF ReadPrev, Passed, CurrentOp
<1> HIDE DEF op, old
<1>8. CASE Skipped(op, old) /\ Done(t)
  <2>1. pc'[t] = "open" /\ pos'[t] = pos[t] + 1
    BY <1>1, <1>8 DEF Done, TypeOK
  <2>2. old \in Abstract!After(op, old)
    BY <1>2, <1>3, <1>8, SkippedLeads
  <2>3. Viewed(t)' = [Viewed(t) EXCEPT ![op.id] = old]
    BY <1>3, <1>4 DEF Stores
  <2>4. /\ pos'[t] - 1 <= Len(req'[t])
        /\ \E path : IsPath(path, objects', req'[t], pos'[t] - 1, Viewed(t)')
    BY <1>1, <1>2, <2>1, <2>2, <2>3, OwnBatchDone DEF op, old
  <2> QED BY <1>1, <1>6, <2>1, <2>4 DEF BatchInv
<1>9. CASE (Fail(t, "revNotSpecified") \/ Fail(t, "revisionMismatch")) /\ UNCHANGED pos
  <2>1. pc'[t] = "failed" /\ err'[t] \notin {"none", "ok"} /\ req'[t] # <<>>
    BY <1>1, <1>9 DEF Fail, TypeOK
  <2> QED BY <1>1, <1>6, <2>1 DEF BatchInv
<1>10. CASE Passed(op, old) /\ pc' = [pc EXCEPT ![t] = "read"] /\ UNCHANGED pos
  <2>1. pc'[t] = "read" /\ CurrentOp(t)' = op
    BY <1>1, <1>10 DEF TypeOK, CurrentOp, op
  <2>2. /\ pos'[t] - 1 <= Len(req'[t])
        /\ \E path : IsPath(path, objects', req'[t], pos'[t] - 1, Viewed(t)')
    BY <1>1, <1>4, <1>10 DEF BatchInv
  <2> QED BY <1>1, <1>5, <1>6, <1>10, <2>1, <2>2 DEF BatchInv
<1> QED BY <1>7, <1>8, <1>9, <1>10

\* What a thread's batch has done so far, after an operation that writes nothing.
LEMMA OwnBatchUnchanged ==
  ASSUME StoreInv, TypeOK', NEW t \in Threads, BatchInv(t), \A id \in Ids : Known(objects[id]), Unchanged(t)
  PROVE  BatchInv(t)' /\ UNCHANGED <<objects, nextRev>>
<1> DEFINE op == CurrentOp(t)
           old == View(t, op.id)
<1>1. /\ TypeOK /\ UNCHANGED <<objects, nextRev, req, writes>> /\ pc[t] = "read"
      /\ NothingChanged(op, prev[t]) /\ Done(t)
  BY DEF StoreInv, Unchanged, store, request, overlay, CurrentOp
<1>2. pos[t] \in DOMAIN req[t] /\ prev[t] = old /\ op \in Op /\ op.id \in Ids
  <2>1. pos[t] \in DOMAIN req[t] /\ prev[t] = View(t, req[t][pos[t]].id)
    BY <1>1 DEF StoreInv, PrevCurrent
  <2> QED BY <1>1, <2>1, CurrentOpType
<1>3. Known(old) /\ old \in Version /\ Viewed(t)[op.id] = old /\ Viewed(t) \in Stores
  BY <1>1, <1>2, ViewKnown
<1>4. Viewed(t)' = Viewed(t)
  BY <1>1 DEF Viewed, View
<1>5. pc'[t] = "open" /\ pos'[t] = pos[t] + 1
  BY <1>1 DEF Done, TypeOK
<1>6. Passed(op, old)
  BY <1>1, <1>2 DEF BatchInv
<1> HIDE DEF op, old
<1>7. old \in Abstract!After(op, old)
  BY <1>1, <1>2, <1>3, <1>6, UnchangedLeads
<1>8. Viewed(t)' = [Viewed(t) EXCEPT ![op.id] = old]
  BY <1>3, <1>4 DEF Stores
<1>9. /\ pos'[t] - 1 <= Len(req'[t])
      /\ \E path : IsPath(path, objects', req'[t], pos'[t] - 1, Viewed(t)')
  BY <1>1, <1>2, <1>5, <1>7, <1>8, OwnBatchDone DEF op, old
<1>10. \A id \in Ids : (writes[t][id] # Unwritten => Known(writes[t][id]))'
  BY <1>1 DEF BatchInv, Known
<1> QED BY <1>1, <1>5, <1>9, <1>10 DEF BatchInv

\* What a thread's batch has done so far, after an operation that writes.
LEMMA OwnBatchSave ==
  ASSUME StoreInv, TypeOK', NEW t \in Threads, BatchInv(t), \A id \in Ids : Known(objects[id]),
         nextRev <= MaxRev + 1, Save(t) \/ SaveRejected(t)
  PROVE  BatchInv(t)' /\ UNCHANGED objects /\ nextRev <= nextRev' /\ nextRev' <= MaxRev + 1
<1> DEFINE op == CurrentOp(t)
           old == View(t, op.id)
           new == Written(t)
<1>1. TypeOK /\ UNCHANGED <<objects, req>> /\ pc[t] = "read"
  BY DEF StoreInv, Save, SaveRejected, store, request
<1>2. nextRev' \in {nextRev, RevTaken}
  BY DEF Save, SaveRejected
<1>3. nextRev <= nextRev' /\ nextRev' <= MaxRev + 1
  BY <1>1, <1>2, BoundAssumption DEF RevTaken, TypeOK
<1>4. pos[t] \in DOMAIN req[t] /\ prev[t] = old /\ op \in Op /\ op.id \in Ids
  <2>1. pos[t] \in DOMAIN req[t] /\ prev[t] = View(t, req[t][pos[t]].id)
    BY <1>1 DEF StoreInv, PrevCurrent
  <2> QED BY <1>1, <2>1, CurrentOpType
<1>5. Known(old) /\ old \in Version /\ Viewed(t)[op.id] = old /\ Viewed(t) \in Stores
  BY <1>1, <1>4, ViewKnown
<1>6. Passed(op, old)
  BY <1>1, <1>4 DEF BatchInv
<1>7. \/ UNCHANGED writes /\ (\E e \in {"indexOnDel", "corruptDatabase", "rejected"} : Fail(t, e))
      \/ /\ Done(t) /\ writes' = [writes EXCEPT ![t][op.id] = new]
         /\ op.op # "purge" => nextRev <= MaxRev /\ nextRev' = RevTaken
         /\ op.op = "purge" => nextRev' = nextRev
  <2>1. CASE Save(t)
    BY <2>1 DEF Save
  <2>2. CASE SaveRejected(t)
    BY <2>2 DEF SaveRejected
  <2> QED BY <2>1, <2>2
<1>8. new = NewVersion(op, old, nextRev)
  BY <1>4 DEF Written
<1> HIDE DEF op, old, new
<1> DEFINE KnownThen(v) == v.rev < nextRev' /\ (v.rev = 0 => v = Absent)
<1>9. \A v \in Version : Known(v) => KnownThen(v)
  BY <1>1, <1>3 DEF Known, Version, TypeOK
<1>10. \A id \in Ids : writes[t][id] # Unwritten => KnownThen(writes[t][id])
  <2> SUFFICES ASSUME NEW id \in Ids, writes[t][id] # Unwritten
               PROVE  Known(writes[t][id]) /\ writes[t][id] \in Version
    BY <1>9
  <2> QED BY <1>1 DEF BatchInv, TypeOK
<1>11. CASE UNCHANGED writes /\ (\E e \in {"indexOnDel", "corruptDatabase", "rejected"} : Fail(t, e))
  <2>1. pc'[t] = "failed" /\ err'[t] \notin {"none", "ok"}
    BY <1>1, <1>11 DEF Fail, TypeOK
  <2>2. req[t] # <<>>
    BY <1>4
  <2>3. \A id \in Ids : (writes[t][id] # Unwritten => Known(writes[t][id]))'
    BY <1>10, <1>11 DEF Known
  <2> QED BY <1>1, <1>3, <1>11, <2>1, <2>2, <2>3 DEF BatchInv
<1>12. CASE /\ Done(t) /\ writes' = [writes EXCEPT ![t][op.id] = new]
            /\ op.op # "purge" => nextRev <= MaxRev /\ nextRev' = RevTaken
            /\ op.op = "purge" => nextRev' = nextRev
  <2>1. pc'[t] = "open" /\ pos'[t] = pos[t] + 1
    BY <1>1, <1>12 DEF Done, TypeOK
  <2>2. new \in Abstract!After(op, old)
    BY <1>1, <1>4, <1>5, <1>6, <1>8, <1>12, WrittenLeads DEF TypeOK
  <2>3. new \in Version /\ KnownThen(new)
    <3>1. new \in Version
      BY <1>1, <1>4, <1>5, <1>8, NewVersionType DEF TypeOK
    <3>2. CASE op.op = "purge"
      <4>1. new = Absent /\ Absent.rev = 0
        BY <1>8, <3>2 DEF NewVersion, Absent
      <4>2. 0 < nextRev /\ nextRev' = nextRev
        BY <1>1, <1>12, <3>2 DEF TypeOK
      <4> QED BY <3>1, <4>1, <4>2
    <3>3. CASE op.op # "purge"
      <4>1. new.rev = nextRev
        BY <1>4, <1>8, <3>3, OpKindsAssumption DEF NewVersion, Op, Operations
      <4> QED BY <1>1, <1>12, <3>1, <3>3, <4>1 DEF RevTaken, TypeOK
    <3> QED BY <3>1, <3>2, <3>3
  <2>4. \A id \in Ids : writes'[t][id] = IF id = op.id THEN new ELSE writes[t][id]
    BY <1>1, <1>4, <1>12 DEF TypeOK
  <2>5. \A id \in Ids : (writes[t][id] # Unwritten => Known(writes[t][id]))'
    <3>1. ASSUME NEW id \in Ids PROVE (writes[t][id] # Unwritten => Known(writes[t][id]))'
      <4>1. CASE id = op.id
        BY <2>3, <2>4, <4>1 DEF Known
      <4>2. CASE id # op.id
        BY <1>10, <2>4, <4>2 DEF Known
      <4> QED BY <4>1, <4>2
    <3> QED BY <3>1
  <2>6. Viewed(t)' = [Viewed(t) EXCEPT ![op.id] = new]
    <3>1. new # Unwritten
      BY <2>3, UnwrittenAssumption
    <3>2. \A id \in Ids : View(t, id)' = IF id = op.id THEN new ELSE View(t, id)
      BY <1>1, <2>4, <3>1 DEF View
    <3> QED BY <3>2 DEF Viewed
  <2>7. /\ pos'[t] - 1 <= Len(req'[t])
        /\ \E path : IsPath(path, objects', req'[t], pos'[t] - 1, Viewed(t)')
    BY <1>1, <1>4, <2>1, <2>2, <2>6, OwnBatchDone DEF op, old
  <2>8. \A i \in DOMAIN req'[t] : req'[t][i].rev <= MaxRev
    BY <1>1 DEF BatchInv
  <2> QED BY <1>1, <1>3, <2>1, <2>5, <2>7, <2>8 DEF BatchInv
<1> QED BY <1>7, <1>11, <1>12

\* The request has been answered.
LEMMA OwnBatchAnswered ==
  ASSUME TypeOK, NEW t \in Threads, DropTxn(t), NEW e, Answer(t, e)
  PROVE  BatchInv(t)'
<1>1. pc'[t] = "idle" /\ req'[t] = <<>> /\ pos'[t] = 1 /\ \A id \in Ids : writes'[t][id] = Unwritten
  BY DEF TypeOK, DropTxn, Answer
<1> QED BY <1>1 DEF BatchInv

-----------------------------------------------------------------------------
(* The invariant is kept *)

\* What the refinement needs holds at the start.
LEMMA RefineInvInit == Init => RefineInv
<1> SUFFICES ASSUME Init PROVE RefineInv
  OBVIOUS
<1>1. StoreInv
  BY StoreInvInit
<1>2. nextRev <= MaxRev + 1 /\ \A id \in Ids : Known(objects[id])
  BY BoundAssumption DEF Init, Known, Absent
<1>3. ASSUME NEW t \in Threads PROVE BatchInv(t)
  BY DEF Init, BatchInv
<1> QED BY <1>1, <1>2, <1>3 DEF RefineInv

\* A commit stores what the thread sees.
LEMMA CommitKnown ==
  ASSUME RefineInv, NEW t \in Threads, Apply(t), nextRev' = nextRev
  PROVE  \A id \in Ids : Known(objects[id])'
<1> SUFFICES ASSUME NEW id \in Ids PROVE Known(objects[id])'
  OBVIOUS
<1>1. Known(View(t, id))
  BY ViewKnown DEF RefineInv, StoreInv
<1>2. objects'[id] = View(t, id)
  BY DEF Apply
<1> QED BY <1>1, <1>2 DEF Known

\* One step: its thread keeps its batch, and the committed objects change only by a
\* commit.
LEMMA OwnBatchStep ==
  ASSUME Isolated, RefineInv, TypeOK', NEW t \in Threads, Invoke(t) \/ Step(t)
  PROVE  /\ BatchInv(t)' /\ nextRev <= nextRev' /\ nextRev' <= MaxRev + 1
         /\ UNCHANGED objects \/ (pc[t] = "open" /\ Apply(t) /\ nextRev' = nextRev)
<1>1. /\ StoreInv /\ TypeOK /\ BatchInv(t) /\ nextRev <= MaxRev + 1
      /\ \A id \in Ids : Known(objects[id])
      /\ nextRev \in Nat /\ nextRev <= nextRev
  BY SMTT(40) DEF RefineInv, StoreInv, TypeOK
<1>2. CASE Invoke(t) \/ Retry(t)
  BY <1>1, <1>2, OwnBatchBegin
<1>3. CASE NextOp(t)
  BY <1>1, <1>3, OwnBatchNextOp
<1>4. CASE ReadPrev(t)
  BY <1>1, <1>4, OwnBatchRead
<1>5. CASE Unchanged(t)
  BY <1>1, <1>5, OwnBatchUnchanged
<1>6. CASE Save(t) \/ SaveRejected(t)
  BY <1>1, <1>6, OwnBatchSave
<1>7. CASE Commit(t)
  <2>1. pc[t] = "open" /\ Apply(t) /\ DropTxn(t) /\ Answer(t, "ok") /\ nextRev' = nextRev
    BY <1>7 DEF Commit
  <2> QED BY <1>1, <2>1, OwnBatchAnswered
<1>8. CASE CommitFails(t)
  <2>1. UNCHANGED <<objects, nextRev>> /\ DropTxn(t) /\ Answer(t, "ioError")
    BY <1>8 DEF CommitFails, store
  <2> QED BY <1>1, <2>1, OwnBatchAnswered
<1>9. CASE Failed(t)
  <2>1. UNCHANGED <<objects, nextRev>> /\ DropTxn(t) /\ Answer(t, err[t])
    BY <1>1, <1>9 DEF Failed, Isolated, StoreInv, NoMiss, store
  <2> QED BY <1>1, <2>1, OwnBatchAnswered
<1> QED BY <1>2, <1>3, <1>4, <1>5, <1>6, <1>7, <1>8, <1>9 DEF Step

\* Every step keeps it.
LEMMA RefineInvStep ==
  ASSUME Isolated, RefineInv, [Next]_vars
  PROVE  RefineInv'
<1>1. StoreInv' /\ TypeOK' /\ TypeOK /\ StoreInv
  BY StoreInvStep DEF RefineInv, StoreInv
<1>2. CASE UNCHANGED vars
  <2>1. /\ UNCHANGED <<objects, nextRev>> /\ nextRev <= nextRev'
        /\ \A u \in Threads : Untouched(u)
    BY <1>1, <1>2 DEF vars, Untouched, TypeOK
  <2>2. \A u \in Threads : BatchInv(u)'
    BY <1>1, <2>1, OthersBatch DEF RefineInv
  <2> QED BY <1>1, <2>1, <2>2 DEF RefineInv, Known
<1>3. ASSUME NEW t \in Threads, Invoke(t) \/ Step(t) PROVE RefineInv'
  <2>1. /\ BatchInv(t)' /\ nextRev <= nextRev' /\ nextRev' <= MaxRev + 1
        /\ UNCHANGED objects \/ (pc[t] = "open" /\ Apply(t) /\ nextRev' = nextRev)
    BY <1>1, <1>3, OwnBatchStep
  <2>2. \A u \in Threads \ {t} : Untouched(u)
    BY <1>1, <1>3, OthersUntouched
  <2>3. \A u \in Threads \ {t} : BatchInv(u)'
    BY <1>1, <2>1, <2>2, OthersBatch, OthersCommit DEF RefineInv
  <2>4. \A id \in Ids : Known(objects[id])'
    <3>1. CASE UNCHANGED objects
      BY <1>1, <2>1, <3>1, SMTT(40) DEF RefineInv, Known, TypeOK, Version
    <3>2. CASE Apply(t) /\ nextRev' = nextRev
      BY <3>2, CommitKnown
    <3> QED BY <2>1, <3>1, <3>2
  <2>5. \A u \in Threads : BatchInv(u)'
    BY <2>1, <2>3
  <2> QED BY <1>1, <2>1, <2>4, <2>5 DEF RefineInv
<1> QED BY <1>2, <1>3 DEF Next

-----------------------------------------------------------------------------
(* The refinement *)

\* What each client has been told.
Reply == [t \in Threads |-> IF pc[t] = "idle" THEN err[t] ELSE "none"]

\* An initial state is one of the abstract specification.
LEMMA AbstractInit == Init => Abstract!Init
<1> SUFFICES ASSUME Init PROVE Abstract!Init
  OBVIOUS
<1>1. [t \in Threads |-> IF pc[t] = "idle" THEN err[t] ELSE "none"] = [t \in Threads |-> "none"]
  BY DEF Init
<1> QED BY <1>1 DEF Init, Abstract!Init

\* A step that neither answers nor takes in an operation is invisible.
LEMMA Invisible ==
  ASSUME TypeOK, NEW t \in Threads, Invoke(t) \/ Step(t), UNCHANGED <<objects, req>>,
         pc[t] # "idle" /\ pc'[t] # "idle"
  PROVE  UNCHANGED Abstract!vars
<1>1. \A u \in Threads \ {t} : pc'[u] = pc[u] /\ err'[u] = err[u]
  BY OthersUntouched DEF Untouched
<1>2. Reply' = Reply
  BY <1>1 DEF Reply
<1> QED BY <1>2 DEF Abstract!vars, Reply

\* A step that answers, or that begins: the replies of the others stay.
LEMMA Replied ==
  ASSUME TypeOK, NEW t \in Threads, Invoke(t) \/ Step(t)
  PROVE  Reply' = [Reply EXCEPT ![t] = IF pc'[t] = "idle" THEN err'[t] ELSE "none"]
<1>1. \A u \in Threads \ {t} : pc'[u] = pc[u] /\ err'[u] = err[u]
  BY OthersUntouched DEF Untouched
<1> QED BY <1>1 DEF Reply

\* Every step is an abstract step, or none: a commit executes the whole request.
LEMMA AbstractStep ==
  ASSUME Isolated, RefineInv, [Next]_vars
  PROVE  [Abstract!Next]_(Abstract!vars)
<1>1. CASE UNCHANGED vars
  <2>1. UNCHANGED <<objects, req, pc, err>>
    BY <1>1 DEF vars
  <2> QED BY <2>1 DEF Abstract!vars
<1>2. ASSUME NEW t \in Threads, Invoke(t) \/ Step(t) PROVE [Abstract!Next]_(Abstract!vars)
  <2>1. TypeOK /\ StoreInv /\ BatchInv(t)
    BY DEF RefineInv, StoreInv
  <2>2. Reply' = [Reply EXCEPT ![t] = IF pc'[t] = "idle" THEN err'[t] ELSE "none"]
    BY <1>2, <2>1, Replied
  <2>3. CASE Invoke(t)
    <3>1. UNCHANGED <<objects, req>> /\ req[t] = <<>> /\ pc'[t] = "open"
      BY <2>1, <2>3 DEF Invoke, BeginTxn, store, TypeOK, BatchInv
    <3>2. Reply' = [Reply EXCEPT ![t] = "none"]
      BY <2>2, <3>1
    <3>3. Abstract!Begin(t)
      BY <3>1, <3>2 DEF Abstract!Begin, Reply
    <3> QED BY <3>3 DEF Abstract!Next
  <2>4. CASE NextOp(t)
    <3>1. PICK op \in OpKinds, id \in Ids, key \in Keys, rev \in 0..nextRev - 1 :
            req' = [req EXCEPT ![t] = Append(@, [op |-> op, id |-> id, key |-> key, rev |-> rev])]
      BY <2>4 DEF NextOp
    <3>2. rev \in 0..MaxRev
      BY <2>1, BoundAssumption DEF RefineInv, TypeOK
    <3>3. [op |-> op, id |-> id, key |-> key, rev |-> rev] \in [op : OpKinds, id : Ids, key : Keys, rev : 0..MaxRev]
      BY <3>2
    <3>4. UNCHANGED <<objects, pc, err>> /\ pc[t] = "open"
      BY <2>4 DEF NextOp, store
    <3>5. Reply[t] = "none" /\ Reply' = Reply
      BY <3>4 DEF Reply
    <3>6. Abstract!Ask(t)
      BY <3>1, <3>3, <3>4, <3>5 DEF Abstract!Ask, Reply
    <3> QED BY <3>6 DEF Abstract!Next
  <2>5. CASE Retry(t) \/ ReadPrev(t) \/ Unchanged(t) \/ Save(t) \/ SaveRejected(t)
    <3>1. UNCHANGED <<objects, req>>
      BY <2>5 DEF Retry, BeginTxn, ReadPrev, Unchanged, Save, SaveRejected, store, request
    <3>2. pc[t] # "idle" /\ pc'[t] # "idle"
      BY <2>1, <2>5 DEF Retry, BeginTxn, ReadPrev, Unchanged, Save, SaveRejected, Done, Fail, TypeOK
    <3>3. UNCHANGED Abstract!vars
      BY <1>2, <2>1, <3>1, <3>2, Invisible
    <3> QED BY <3>3
  <2>6. CASE Commit(t)
    <3>1. /\ pc[t] = "open" /\ pos[t] = Len(req[t]) + 1 /\ req[t] # <<>>
          /\ Apply(t) /\ Answer(t, "ok")
      BY <2>6 DEF Commit
    <3>2. req[t] \in Seq(Op) /\ pos[t] - 1 = Len(req[t]) /\ objects \in Stores
      BY <2>1, <3>1 DEF TypeOK, Stores
    <3>3. PICK path : IsPath(path, objects, req[t], Len(req[t]), Viewed(t))
      BY <2>1, <3>1, <3>2 DEF BatchInv
    <3>4. Viewed(t) \in Abstract!Outcomes(objects, req[t])
      BY <3>2, <3>3, PathOutcome
    <3>5. objects' = Viewed(t)
      BY <3>1 DEF Apply, Viewed
    <3>6. pc'[t] = "idle" /\ err'[t] = "ok" /\ req' = [req EXCEPT ![t] = <<>>]
      BY <2>1, <3>1 DEF Answer, TypeOK
    <3>7. Reply' = [Reply EXCEPT ![t] = "ok"]
      BY <2>2, <3>6
    <3>8. Abstract!Execute(t)
      BY <3>1, <3>4, <3>5, <3>6, <3>7 DEF Abstract!Execute, Reply
    <3> QED BY <3>8 DEF Abstract!Next
  <2>7. ASSUME NEW e \in Errors, UNCHANGED objects, Answer(t, e), req[t] # <<>>
        PROVE  [Abstract!Next]_(Abstract!vars)
    <3>1. pc'[t] = "idle" /\ err'[t] = e /\ req' = [req EXCEPT ![t] = <<>>]
      BY <2>1, <2>7 DEF Answer, TypeOK
    <3>2. Reply' = [Reply EXCEPT ![t] = e] /\ Reply'[t] = e
      BY <2>2, <3>1 DEF Reply
    <3>3. e \notin {"none", "ok"}
      BY <2>7 DEF Errors
    <3>4. Abstract!Refuse(t)
      BY <2>7, <3>1, <3>2, <3>3 DEF Abstract!Refuse, Reply
    <3> QED BY <3>4 DEF Abstract!Next
  <2>8. CASE CommitFails(t)
    <3>1. UNCHANGED objects /\ Answer(t, "ioError") /\ req[t] # <<>> /\ "ioError" \in Errors
      BY <2>8 DEF CommitFails, store, Errors
    <3> QED BY <2>7, <3>1
  <2>9. CASE Failed(t)
    <3>1. UNCHANGED objects /\ Answer(t, err[t]) /\ pc[t] = "failed"
      BY <2>1, <2>9 DEF Failed, Isolated, StoreInv, NoMiss, store
    <3>2. req[t] # <<>> /\ err[t] \in Errors
      BY <2>1, <3>1 DEF BatchInv, TypeOK
    <3> QED BY <2>7, <3>1, <3>2
  <2> QED BY <1>2, <2>3, <2>4, <2>5, <2>6, <2>8, <2>9 DEF Step
<1> QED BY <1>1, <1>2 DEF Next

\* Requests are serializable and atomic: the transactions, overlays, index errors and
\* retries of MojDbReq, MojDb::putImpl and the handler's invoke() amount to batches
\* that take effect at once or not at all.
THEOREM SerializableAlways == ASSUME Isolated PROVE Spec => Serializable
<1>1. Init => Abstract!Init
  BY AbstractInit
<1>2. RefineInv /\ [Next]_vars => RefineInv'
  BY RefineInvStep
<1>3. RefineInv /\ [Next]_vars => [Abstract!Next]_(Abstract!vars)
  BY AbstractStep
<1> QED BY <1>1, <1>2, <1>3, RefineInvInit, PTL DEF Spec, Serializable, Abstract!Spec
=============================================================================
