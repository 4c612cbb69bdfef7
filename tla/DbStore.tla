------------------------------- MODULE DbStore -------------------------------
(***************************************************************************)
(* Objects and one index of their kind, written by the service's           *)
(* dispatcher threads: MojDb::put, merge, del and purge by id, each request *)
(* a batch of such operations in one transaction (MojDbReq), with the      *)
(* handler's retries.                                                      *)
(*                                                                         *)
(* A transaction of the leveldb and sandwich engines is an overlay: reads  *)
(* go through it to the committed data, nothing is locked, and commit      *)
(* writes the overlay whatever happened meanwhile.  LMDB (Serial) admits   *)
(* one write transaction at a time.                                        *)
(***************************************************************************)
EXTENDS Integers, Sequences

CONSTANTS
  Threads,     \* dispatcher threads
  Ids,         \* object ids
  Keys,        \* values of the indexed property
  OpKinds,     \* the operations clients ask for
  Writers,     \* which threads' clients write an object
  Serial,      \* one write transaction at a time (LMDB)
  Profiled,    \* the caller is being profiled
  MaxOps,      \* bound on the operations of a request
  MaxRev,      \* bound on revisions
  MaxRetries,  \* MaxIndexlockRetries
  Unwritten    \* the transaction has not written the object

\* put(), put() with MojDbFlagForce, merge(), merge() with MojDbFlagIgnoreMissing,
\* del() and del() with MojDbFlagPurge.
Operations == {"put", "force", "merge", "mergeExisting", "del", "purge"}

\* An object as stored; revision 0 stands for no object.
Version == [rev : Nat, key : Keys, del : BOOLEAN]
Entries == Keys \X Ids

ASSUME OpKindsAssumption   == OpKinds \subseteq Operations
ASSUME WritersAssumption   == Writers \in [Ids -> SUBSET Threads]
ASSUME BoundAssumption     == MaxOps \in Nat /\ MaxRev \in Nat /\ MaxRetries \in Nat
ASSUME FlagAssumption      == Serial \in BOOLEAN /\ Profiled \in BOOLEAN
ASSUME UnwrittenAssumption == Unwritten \notin Version
ASSUME KeysAssumption      == Keys # {}

NoKey  == CHOOSE k \in Keys : TRUE
Absent == [rev |-> 0, key |-> NoKey, del |-> FALSE]

Op == [op : OpKinds, id : Ids, key : Keys, rev : Nat]

VARIABLES
  objects,   \* the committed objects
  index,     \* the committed index entries
  nextRev,   \* the id sequence that revisions come from
  pc,        \* where each thread is
  req,       \* the operations of its request, as far as they are known
  pos,       \* the operation it is at
  prev,      \* the object as it was read for that operation
  writes,    \* the objects its transaction has written
  ins,       \* the index entries its transaction has put
  dels,      \* the index entries its transaction has deleted
  fixmode,   \* MojDbReq::m_fixmode: a missing index entry is not an error
  retries,   \* the handler's count
  err,       \* the error being returned, or the reply of the last request
  base,      \* history: the committed object each write was decided on
  applied    \* history: how often the request has written to the database

store   == <<objects, index>>
overlay == <<writes, ins, dels, fixmode, base>>
request == <<req, retries, applied>>
vars    == <<objects, index, nextRev, pc, req, pos, prev, writes, ins, dels,
             fixmode, retries, err, base, applied>>

-----------------------------------------------------------------------------
(* What a transaction sees *)

Exists(v) == v.rev # 0
Live(v)   == Exists(v) /\ ~v.del

View(t, id)  == IF writes[t][id] = Unwritten THEN objects[id] ELSE writes[t][id]
IndexView(t) == (index \ dels[t]) \cup ins[t]

\* Faulty variant: the id comes before the indexed property.
KeysOfIdFirst(id, v) == IF v.rev # 0 /\ ~v.del THEN {<<id, v.key>>} ELSE {}

\* getKeys() of the versions the index includes.
KeysOf(id, v) == IF Live(v) THEN {<<v.key, id>>} ELSE {}

Active(t) == pc[t] \in {"open", "read", "failed"}

-----------------------------------------------------------------------------
(* Requests *)

Init ==
  /\ objects = [id \in Ids |-> Absent] /\ index = {} /\ nextRev = 1
  /\ pc = [t \in Threads |-> "idle"]
  /\ req = [t \in Threads |-> <<>>] /\ pos = [t \in Threads |-> 1]
  /\ prev = [t \in Threads |-> Absent]
  /\ writes = [t \in Threads |-> [id \in Ids |-> Unwritten]]
  /\ ins = [t \in Threads |-> {}] /\ dels = [t \in Threads |-> {}]
  /\ fixmode = [t \in Threads |-> FALSE]
  /\ retries = [t \in Threads |-> 0] /\ err = [t \in Threads |-> "none"]
  /\ base = [t \in Threads |-> [id \in Ids |-> Absent]]
  /\ applied = [t \in Threads |-> 0]

\* MojDbReq::begin opens a transaction, which has nothing in its overlay yet.
BeginTxn(t) ==
  /\ Serial => \A u \in Threads : ~Active(u)
  /\ pc' = [pc EXCEPT ![t] = "open"]
  /\ UNCHANGED <<store, nextRev, pos, prev, overlay>>

\* The request is destroyed, and with it what its transaction has not written.
DropTxn(t) ==
  /\ pos' = [pos EXCEPT ![t] = 1]
  /\ prev' = [prev EXCEPT ![t] = Absent]
  /\ writes' = [writes EXCEPT ![t] = [id \in Ids |-> Unwritten]]
  /\ ins' = [ins EXCEPT ![t] = {}] /\ dels' = [dels EXCEPT ![t] = {}]
  /\ fixmode' = [fixmode EXCEPT ![t] = FALSE]
  /\ base' = [base EXCEPT ![t] = [id \in Ids |-> Absent]]

\* The handler answers.
Answer(t, e) ==
  /\ pc' = [pc EXCEPT ![t] = "idle"]
  /\ err' = [err EXCEPT ![t] = e]
  /\ req' = [req EXCEPT ![t] = <<>>]
  /\ retries' = [retries EXCEPT ![t] = 0]

\* invoke() receives a message: the first attempt.
Invoke(t) ==
  /\ pc[t] = "idle"
  /\ BeginTxn(t)
  /\ err' = [err EXCEPT ![t] = "none"]
  /\ applied' = [applied EXCEPT ![t] = 0]
  /\ UNCHANGED <<req, retries>>

\* Another attempt at the same message, after a pause.
Retry(t) ==
  /\ pc[t] = "backoff"
  /\ BeginTxn(t)
  /\ UNCHANGED <<request, err>>

\* The next operation of the message, with a revision the client knows, or 0
\* for none.
NextOp(t) ==
  /\ pc[t] = "open" /\ pos[t] = Len(req[t]) + 1 /\ Len(req[t]) < MaxOps
  /\ \E op \in OpKinds, id \in {i \in Ids : t \in Writers[i]}, key \in Keys,
        rev \in 0..nextRev - 1 :
       /\ op \in {"del", "purge"} => key = NoKey /\ rev = 0
       /\ req' = [req EXCEPT ![t] = Append(@, [op |-> op, id |-> id, key |-> key, rev |-> rev])]
  /\ UNCHANGED <<store, nextRev, pc, pos, prev, overlay, retries, err, applied>>

-----------------------------------------------------------------------------
(* One operation *)

Fail(t, e) ==
  /\ pc' = [pc EXCEPT ![t] = "failed"]
  /\ err' = [err EXCEPT ![t] = e]

\* The operation is done and its request goes on.
Done(t) ==
  /\ pc' = [pc EXCEPT ![t] = "open"]
  /\ pos' = [pos EXCEPT ![t] = @ + 1]

\* putImpl() and delImpl() stop before they write.
Skipped(op, old) == op.op \in {"del", "purge", "mergeExisting"} /\ ~Exists(old)

RevNotSpecified(op, old) == op.op = "put" /\ op.rev = 0 /\ Live(old)

RevisionMismatch(op, old) ==
  /\ op.op \in {"put", "merge", "mergeExisting"}
  /\ Exists(old) /\ op.rev # 0 /\ op.rev # old.rev

\* putImpl() and delImpl() read the previous version and check the revision.
ReadPrev(t) ==
  /\ pc[t] = "open" /\ pos[t] \in 1..Len(req[t])
  /\ LET op  == req[t][pos[t]]
         old == View(t, op.id)
     IN /\ prev' = [prev EXCEPT ![t] = old]
        /\ base' = IF writes[t][op.id] = Unwritten
                   THEN [base EXCEPT ![t][op.id] = objects[op.id]] ELSE base
        /\ \/ Skipped(op, old) /\ Done(t) /\ UNCHANGED err
           \/ RevNotSpecified(op, old) /\ Fail(t, "revNotSpecified") /\ UNCHANGED pos
           \/ RevisionMismatch(op, old) /\ Fail(t, "revisionMismatch") /\ UNCHANGED pos
           \/ /\ ~(Skipped(op, old) \/ RevNotSpecified(op, old) \/ RevisionMismatch(op, old))
              /\ pc' = [pc EXCEPT ![t] = "read"]
              /\ UNCHANGED <<pos, err>>
  /\ UNCHANGED <<store, nextRev, request, writes, ins, dels, fixmode>>

\* Faulty variant: a put that brings a deleted object back as it was is
\* taken for no change.
NothingChangedDeleted(op, old) ==
  CASE op.op \in {"put", "force"}           -> op.rev = old.rev /\ Exists(old) /\ op.key = old.key
    [] op.op \in {"merge", "mergeExisting"} -> Exists(old) /\ op.rev \in {0, old.rev} /\ op.key = old.key
    [] op.op = "del"                        -> old.del
    [] op.op = "purge"                      -> FALSE

\* putObj() compares the whole object, its revision included.
NothingChanged(op, old) ==
  CASE op.op \in {"put", "force"}           -> op.rev = old.rev /\ Live(old) /\ op.key = old.key
    [] op.op \in {"merge", "mergeExisting"} -> Exists(old) /\ op.rev \in {0, old.rev} /\ op.key = old.key
    [] op.op = "del"                        -> old.del
    [] op.op = "purge"                      -> FALSE

\* mergeInto() keeps what the caller does not name; delObj() marks the object.
NewVersion(op, old, rev) ==
  CASE op.op \in {"put", "force"}           -> [rev |-> rev, key |-> op.key, del |-> FALSE]
    [] op.op \in {"merge", "mergeExisting"} -> [rev |-> rev, key |-> op.key, del |-> old.del]
    [] op.op = "del"                        -> [rev |-> rev, key |-> old.key, del |-> TRUE]
    [] op.op = "purge"                      -> Absent

Unchanged(t) ==
  /\ pc[t] = "read"
  /\ NothingChanged(req[t][pos[t]], prev[t])
  /\ Done(t)
  /\ UNCHANGED <<store, nextRev, request, prev, overlay, err>>

\* Faulty variant: an index that keeps the entry of a deleted object.
KeysToDelKept(id, old, new) == IF new.del THEN {} ELSE KeysOf(id, old) \ KeysOf(id, new)

\* MojDbIndex::update: the entries of the old version that the new one does
\* not have go, the others come.
KeysToDel(id, old, new) == KeysOf(id, old) \ KeysOf(id, new)
KeysToPut(id, old, new) == KeysOf(id, new) \ KeysOf(id, old)

\* Faulty variant: the lookup does not see what the transaction has put.
FoundCommitted(t, entries) == entries \subseteq index

\* The engine's del() finds the entries.
Found(t, entries) == entries \subseteq IndexView(t)

\* A revision taken from the sequence; past the bound, one that is not used.
RevTaken == IF nextRev <= MaxRev THEN nextRev + 1 ELSE nextRev

CurrentOp(t) == req[t][pos[t]]

\* What an operation writes, and what that does to the index.
Written(t)   == NewVersion(CurrentOp(t), prev[t], nextRev)
Outgoing(t)  == KeysToDel(CurrentOp(t).id, prev[t], Written(t))
Incoming(t)  == KeysToPut(CurrentOp(t).id, prev[t], Written(t))

\* A purge sets the request's fixmode before it updates the indexes.
Forced(t)    == fixmode[t] \/ CurrentOp(t).op = "purge"

UpdateIndex(t) ==
  /\ dels' = [dels EXCEPT ![t] = (@ \cup Outgoing(t)) \ Incoming(t)]
  /\ ins' = [ins EXCEPT ![t] = (@ \ Outgoing(t)) \cup Incoming(t)]

\* putObj() and the purging delObj(): a revision, the index, the object.
Save(t) ==
  /\ pc[t] = "read"
  /\ ~NothingChanged(CurrentOp(t), prev[t])
  /\ fixmode' = [fixmode EXCEPT ![t] = Forced(t)]
  /\ nextRev' = IF CurrentOp(t).op = "purge" THEN nextRev ELSE RevTaken
  /\ \/ /\ ~Forced(t) /\ ~Found(t, Outgoing(t))
        /\ Fail(t, "indexOnDel")
        /\ UNCHANGED <<pos, writes, ins, dels>>
     \/ /\ CurrentOp(t).op = "purge" /\ ~Exists(View(t, CurrentOp(t).id))
        /\ UpdateIndex(t)
        /\ Fail(t, "corruptDatabase")
        /\ UNCHANGED <<pos, writes>>
     \/ /\ Forced(t) \/ Found(t, Outgoing(t))
        /\ IF CurrentOp(t).op = "purge" THEN Exists(View(t, CurrentOp(t).id)) ELSE nextRev <= MaxRev
        /\ UpdateIndex(t)
        /\ writes' = [writes EXCEPT ![t][CurrentOp(t).id] = Written(t)]
        /\ Done(t) /\ UNCHANGED err
  /\ UNCHANGED <<store, request, prev, base>>

\* MojDbKindEngine::update refuses the object (schema, permission), or the
\* quota or the engine does when the index has been updated already; the
\* revision may have been taken.
SaveRejected(t) ==
  /\ pc[t] = "read"
  /\ ~NothingChanged(CurrentOp(t), prev[t])
  /\ nextRev' \in {nextRev, RevTaken}
  /\ fixmode' = [fixmode EXCEPT ![t] = Forced(t)]
  /\ \/ UNCHANGED <<ins, dels>>
     \/ (Forced(t) \/ Found(t, Outgoing(t))) /\ UpdateIndex(t)
  /\ Fail(t, "rejected")
  /\ UNCHANGED <<store, request, pos, prev, writes, base>>

-----------------------------------------------------------------------------
(* The end of a request *)

\* Faulty variant: the overlay takes the place of the committed data.
ApplyReplaces(t) ==
  /\ objects' = [id \in Ids |-> IF writes[t][id] = Unwritten THEN Absent ELSE writes[t][id]]
  /\ index' = ins[t]
  /\ applied' = [applied EXCEPT ![t] = IF writes[t] = [id \in Ids |-> Unwritten] THEN @ ELSE @ + 1]

\* The overlay becomes the committed data.
Apply(t) ==
  /\ objects' = [id \in Ids |-> View(t, id)]
  /\ index' = IndexView(t)
  /\ applied' = [applied EXCEPT ![t] = IF writes[t] = [id \in Ids |-> Unwritten] THEN @ ELSE @ + 1]

\* endBatch() commits and the reply is sent.
Commit(t) ==
  /\ pc[t] = "open" /\ pos[t] = Len(req[t]) + 1 /\ req[t] # <<>>
  /\ Apply(t) /\ DropTxn(t) /\ Answer(t, "ok")
  /\ UNCHANGED nextRev

\* The engine cannot write the batch.
CommitFails(t) ==
  /\ pc[t] = "open" /\ pos[t] = Len(req[t]) + 1 /\ req[t] # <<>>
  /\ DropTxn(t) /\ Answer(t, "ioError")
  /\ UNCHANGED <<store, nextRev, applied>>

\* Faulty variant: the attempt is not counted.
AttemptsForgotten(t) == retries[t]

\* invoke() counts the attempt that failed.
Attempts(t) == retries[t] + 1

\* An operation failed: the transaction is dropped, except that the profiled
\* call ends its batch all the same.  invoke() retries a missing index entry.
Failed(t) ==
  /\ pc[t] = "failed"
  /\ IF Profiled THEN Apply(t) ELSE UNCHANGED <<store, applied>>
  /\ DropTxn(t)
  /\ \/ /\ err[t] = "indexOnDel" /\ Attempts(t) < MaxRetries
        /\ pc' = [pc EXCEPT ![t] = "backoff"]
        /\ retries' = [retries EXCEPT ![t] = Attempts(t)]
        /\ UNCHANGED <<req, err>>
     \/ /\ err[t] = "indexOnDel" /\ Attempts(t) >= MaxRetries
        /\ Answer(t, "inconsistentIndex")
     \/ err[t] # "indexOnDel" /\ Answer(t, err[t])
  /\ UNCHANGED nextRev

Step(t) ==
  \/ Retry(t) \/ NextOp(t) \/ ReadPrev(t) \/ Unchanged(t) \/ Save(t) \/ SaveRejected(t)
  \/ Commit(t) \/ CommitFails(t) \/ Failed(t)

Next == \E t \in Threads : Invoke(t) \/ Step(t)

Spec == Init /\ [][Next]_vars

\* A thread that is handling a message keeps running.
FairSpec == Spec /\ \A t \in Threads : WF_vars(Step(t))

-----------------------------------------------------------------------------
(* Properties *)

Errors == {"revNotSpecified", "revisionMismatch", "indexOnDel", "corruptDatabase",
           "inconsistentIndex", "rejected", "ioError"}

\* The state has its types.
TypeOK ==
  /\ objects \in [Ids -> Version] /\ index \subseteq Entries /\ nextRev \in Nat \ {0}
  /\ pc \in [Threads -> {"idle", "open", "read", "failed", "backoff"}]
  /\ req \in [Threads -> Seq(Op)] /\ pos \in [Threads -> Nat \ {0}]
  /\ prev \in [Threads -> Version]
  /\ writes \in [Threads -> [Ids -> Version \cup {Unwritten}]]
  /\ ins \in [Threads -> SUBSET Entries] /\ dels \in [Threads -> SUBSET Entries]
  /\ fixmode \in [Threads -> BOOLEAN] /\ retries \in [Threads -> Nat]
  /\ err \in [Threads -> Errors \cup {"none", "ok"}]
  /\ base \in [Threads -> [Ids -> Version]] /\ applied \in [Threads -> Nat]

AllKeys(objs) == UNION {KeysOf(id, objs[id]) : id \in Ids}

\* The index holds exactly the entries of the live objects: what queries find
\* is what is stored (MojDbIndex::update against MojDb::putObj).
IndexMatchesObjects == index = AllKeys(objects)

\* No write is lost: a commit replaces the very version on which putImpl()
\* decided that the caller's revision was the current one.
NoLostUpdate ==
  [][\A id \in Ids :
       objects'[id] # objects[id] =>
         \E t \in Threads : Active(t) /\ pc'[t] # pc[t] /\ base[t][id] = objects[id]]_vars

\* Operation i is the first of request r on object id.
FirstOn(r, id, i) == r[i].id = id /\ \A j \in 1..i - 1 : r[j].id # id

\* A put or merge that names a revision takes effect only on that revision:
\* "if the new object has a rev and it doesn't match the old rev, don't do
\* the update", at the moment the update is done.
CompareAndSwap ==
  [][\A t \in Threads :
       pc[t] = "open" /\ pc'[t] = "idle" /\ err'[t] = "ok" =>
         \A i \in DOMAIN req[t] :
           LET op == req[t][i]
           IN FirstOn(req[t], op.id, i) /\ op.op \in {"put", "merge", "mergeExisting"}
                /\ op.rev # 0 /\ Exists(objects[op.id]) => op.rev = objects[op.id].rev]_vars

\* The revision of an object never goes back: what a syncing client has seen
\* is never replaced by something it takes for older.
RevisionsGrow ==
  [][\A id \in Ids :
       objects'[id] # objects[id] /\ Exists(objects[id]) /\ Exists(objects'[id]) =>
         objects'[id].rev > objects[id].rev]_vars

\* A request whose reply is an error has written nothing, and one that
\* succeeds has written once, through every failure and retry of its
\* operations (MojDbServiceHandlerBase::invoke).
AppliedAsAnswered ==
  \A t \in Threads : pc[t] = "idle" => applied[t] <= (IF err[t] = "ok" THEN 1 ELSE 0)

\* No request is refused because the index has lost an entry.
NeverInconsistent == \A t \in Threads : err[t] # "inconsistentIndex"

\* Every request is answered, whatever state the index is in.
Answered == \A t \in Threads : pc[t] # "idle" ~> pc[t] = "idle"

-----------------------------------------------------------------------------
(* The inductive invariant behind IndexMatchesObjects *)

\* No two open transactions may write the same object: the engine admits one
\* at a time, or every object has one writing thread; and no request is
\* profiled, which commits what a failed operation has left behind.
Isolated ==
  /\ Serial \/ \A id \in Ids : \A t, u \in Writers[id] : t = u
  /\ ~Profiled

\* The index includes version v under key k.
IndexedBy(v, k) == Live(v) /\ v.key = k

\* The operations of a request are on objects its thread writes.
RequestsOwned == \A t \in Threads : \A i \in DOMAIN req[t] : t \in Writers[req[t][i].id]

\* Open transactions keep out of each other's objects.
Exclusive ==
  \A t, u \in Threads :
    t # u /\ Active(t) /\ Active(u) => \A id \in Ids : ~(t \in Writers[id] /\ u \in Writers[id])

\* An overlay only holds what its transaction has written, unless the write
\* failed half way, and a thread without a transaction has none.
OverlayOwned ==
  \A t \in Threads : \A id \in Ids :
    /\ writes[t][id] # Unwritten => Active(t) /\ t \in Writers[id]
    /\ writes[t][id] = Unwritten /\ pc[t] # "failed" =>
         \A k \in Keys : <<k, id>> \notin ins[t] /\ <<k, id>> \notin dels[t]

\* For every object, the index agrees with the object, as committed and as
\* each transaction that has not failed sees them.
CommittedAgrees == \A id \in Ids : \A k \in Keys : <<k, id>> \in index <=> IndexedBy(objects[id], k)

ViewAgrees ==
  \A t \in Threads : \A id \in Ids : \A k \in Keys :
    pc[t] # "failed" => (<<k, id>> \in IndexView(t) <=> IndexedBy(View(t, id), k))

\* Between reading an object and writing it, a transaction's view of it stays.
PrevCurrent ==
  \A t \in Threads :
    pc[t] = "read" => pos[t] \in DOMAIN req[t] /\ prev[t] = View(t, req[t][pos[t]].id)

\* What a transaction has written, or is about to write, it decided on the
\* version that is still committed.
BaseCurrent ==
  \A t \in Threads :
    /\ \A id \in Ids : writes[t][id] # Unwritten => base[t][id] = objects[id]
    /\ pc[t] = "read" => base[t][req[t][pos[t]].id] = objects[req[t][pos[t]].id]

\* No operation misses an index entry.
NoMiss == \A t \in Threads : err[t] \notin {"indexOnDel", "inconsistentIndex"}

StoreInv == /\ TypeOK /\ RequestsOwned /\ Exclusive /\ OverlayOwned
            /\ CommittedAgrees /\ ViewAgrees /\ PrevCurrent /\ BaseCurrent /\ NoMiss

-----------------------------------------------------------------------------
(* What clients are promised *)

\* A client sees the objects when they are committed and the reply when it
\* is sent.
Abstract ==
  INSTANCE DbStoreSpec WITH
    Clients <- Threads,
    Ops     <- [op : OpKinds, id : Ids, key : Keys, rev : 0..MaxRev],
    Revs    <- 1..MaxRev,
    request <- req,
    reply   <- [t \in Threads |-> IF pc[t] = "idle" THEN err[t] ELSE "none"]

\* Requests are serializable and atomic: the transactions, overlays, index
\* errors and retries of DbStore amount to batches that take effect at once
\* or not at all (MojDbReq, MojDb::putImpl, MojDbServiceHandlerBase::invoke).
Serializable == Abstract!Spec
=============================================================================
