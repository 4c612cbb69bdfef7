------------------------------ MODULE DbBatch -------------------------------
(***************************************************************************)
(* Writes by query: del, purge, delKind and merge of all objects a query   *)
(* finds.  del() works in batches of AutoBatchSize, each committed before  *)
(* the next, until a batch changes nothing; between two batches the locks  *)
(* are free and other requests run.  merge() walks the index it changes.   *)
(*                                                                         *)
(* An object is its value of the indexed property, negative when it is     *)
(* deleted, 0 when it is not there.  A transaction sees the store as it    *)
(* was when it began and its own writes.                                   *)
(***************************************************************************)
EXTENDS Integers, FiniteSetsExt, SequencesExt

CONSTANTS
  Ids,            \* object ids, positive numbers
  Values,         \* values of the indexed property, positive numbers
  AutoBatchSize,
  Ops,            \* requests: op, limit, value, batched, includeDeleted
  Starts,         \* the stores a behaviour starts from
  MaxPuts         \* bound: puts of other requests

VARIABLES
  store,          \* committed objects
  kind,           \* the kind is there
  req,            \* the request
  view,           \* the objects as the request's transaction sees them
  puts,           \* puts so far
  touched         \* history: objects put since the request began

batchVars == <<store, kind, req, view, puts, touched>>

LimitDefault == 1000
None == [i \in Ids |-> 0]

Live(s) == {i \in Ids : s[i] > 0}
Deleted(s) == {i \in Ids : s[i] < 0}

\* The order of the index, by value and id; deleted objects come last.
Earlier(s, i, j) ==
  \/ s[i] > 0 /\ s[j] < 0
  \/ s[i] * s[j] > 0 /\ (s[i] < s[j] \/ (s[i] = s[j] /\ i < j))
Found(s, deleted) == SetToSortSeq(Live(s) \cup (IF deleted THEN Deleted(s) ELSE {}), LAMBDA i, j : Earlier(s, i, j))

Is(phase) == req.phase = phase
Goes(phase) == req' = [req EXCEPT !.phase = phase]

-----------------------------------------------------------------------------
(* The request's transaction and locks *)

\* beginReq(): the schema is locked for a kind to be deleted.
Start(o) ==
  /\ Is("idle")
  /\ kind
  /\ req' = [phase |-> IF o.op = "merge" THEN "merging" ELSE "finding", op |-> o, batch |-> o.batched,
             schemaLocked |-> o.op = "delKind", limit |-> IF o.limit = LimitDefault THEN AutoBatchSize ELSE o.limit,
             left |-> o.limit, count |-> 0, changed |-> 0, dirty |-> {}, mine |-> {}, seen |-> {}, at |-> <<0, 0>>,
             start |-> store, commits |-> 0, lost |-> FALSE]
  /\ view' = store /\ touched' = {}
  /\ UNCHANGED <<store, kind, puts>>

\* The transaction writes what it changed.
Committed == [i \in Ids |-> IF i \in req.dirty THEN view[i] ELSE store[i]]

\* commitBatch(): end(), endBatch(); the request is in a batch from now on.
CommitBatch ==
  /\ Is("commit")
  /\ store' = Committed
  /\ req' = [req EXCEPT !.phase = "relock", !.batch = TRUE, !.commits = @ + 1, !.dirty = {}, !.mine = @ \cup req.dirty]
  /\ view' = None
  /\ UNCHANGED <<kind, puts, touched>>

\* commitBatch(): beginReq() with the lock the request had.
Relock ==
  /\ Is("relock")
  /\ Goes("decide")
  /\ view' = store
  /\ UNCHANGED <<store, kind, puts, touched>>

-----------------------------------------------------------------------------
(* delImpl() *)

Wiped(i) == IF req.op.op \in {"purge", "delKind"} THEN 0 ELSE IF view[i] > 0 THEN -view[i] ELSE view[i]

\* Faulty variant: objects that were deleted before are counted.
DelBatchFound ==
  LET all   == Found(view, req.op.includeDeleted)
      batch == ToSet(SubSeq(all, 1, Min({Len(all), req.limit})))
      new   == {i \in batch : Wiped(i) # view[i]}
  IN  /\ Is("finding")
      /\ view' = [i \in Ids |-> IF i \in new THEN Wiped(i) ELSE view[i]]
      /\ req' = [req EXCEPT !.phase = IF Cardinality(new) >= AutoBatchSize THEN "commit" ELSE "decide",
                            !.count = @ + Cardinality(batch), !.changed = Cardinality(new), !.dirty = @ \cup new]
      /\ UNCHANGED <<store, kind, puts, touched>>

\* One pass: the objects found, up to the limit, are deleted; those the delete
\* does not change are not counted.
DelBatch ==
  LET all   == Found(view, req.op.includeDeleted)
      batch == ToSet(SubSeq(all, 1, Min({Len(all), req.limit})))
      new   == {i \in batch : Wiped(i) # view[i]}
  IN  /\ Is("finding")
      /\ view' = [i \in Ids |-> IF i \in new THEN Wiped(i) ELSE view[i]]
      /\ req' = [req EXCEPT !.phase = IF Cardinality(new) >= AutoBatchSize THEN "commit" ELSE "decide",
                            !.count = @ + Cardinality(new), !.changed = Cardinality(new), !.dirty = @ \cup new]
      /\ UNCHANGED <<store, kind, puts, touched>>

\* The next pass, unless nothing was changed or the limit is used up.
Decide ==
  LET left == req.left - req.limit
  IN  /\ Is("decide")
      /\ req' = IF req.changed = 0 \/ left <= 0 THEN [req EXCEPT !.phase = "ending"]
                ELSE [req EXCEPT !.phase = "finding", !.left = left, !.limit = Min({left, AutoBatchSize})]
      /\ UNCHANGED <<store, kind, view, puts, touched>>

-----------------------------------------------------------------------------
(* merge() *)

After(i) == view[i] > req.at[1] \/ (view[i] = req.at[1] /\ i > req.at[2])

\* The cursor's next entry; it passes objects that it returned before.
NextEntry ==
  LET ahead == {i \in Live(view) : After(i)}
  IN  IF ahead = {} THEN 0 ELSE CHOOSE i \in ahead : \A j \in ahead \ {i} : Earlier(view, i, j)

MergeNext ==
  /\ Is("merging")
  /\ NextEntry # 0
  /\ LET new == NextEntry \notin req.seen
     IN  /\ view' = IF new THEN [view EXCEPT ![NextEntry] = req.op.value] ELSE view
         /\ req' = [req EXCEPT !.at = <<view[NextEntry], NextEntry>>, !.seen = @ \cup {NextEntry},
                               !.count = IF new THEN @ + 1 ELSE @, !.dirty = IF new THEN @ \cup {NextEntry} ELSE @]
  /\ UNCHANGED <<store, kind, puts, touched>>

MergeEnds ==
  /\ Is("merging")
  /\ NextEntry = 0
  /\ Goes("ending")
  /\ UNCHANGED <<store, kind, view, puts, touched>>

-----------------------------------------------------------------------------

\* end(), and the caller's endBatch() if it opened a batch: a request that is
\* in a batch only since commitBatch() is not committed.
End ==
  /\ Is("ending")
  /\ LET lost == req.batch /\ ~req.op.batched
     IN  /\ store' = IF lost THEN store ELSE Committed
         /\ kind' = (kind /\ (lost \/ req.op.op # "delKind"))
         /\ req' = [req EXCEPT !.phase = "done", !.lost = lost /\ req.dirty # {}, !.dirty = {},
                               !.mine = IF lost THEN @ ELSE @ \cup req.dirty]
  /\ view' = None
  /\ UNCHANGED <<puts, touched>>

\* The process dies: what is not committed is gone.
Crash ==
  /\ ~Is("idle") /\ ~Is("done") /\ ~Is("crashed")
  /\ req' = [req EXCEPT !.phase = "crashed", !.dirty = {}]
  /\ view' = None
  /\ UNCHANGED <<store, kind, puts, touched>>

\* Another request puts an object; not while the schema is locked.
Put(i, v) ==
  /\ kind /\ puts < MaxPuts /\ ~Is("crashed")
  /\ req.schemaLocked => Is("relock") \/ Is("done")
  /\ store' = [store EXCEPT ![i] = v]
  /\ touched' = touched \cup {i}
  /\ puts' = puts + 1
  /\ UNCHANGED <<kind, req, view>>

Idle == [phase |-> "idle", op |-> CHOOSE o \in Ops : TRUE, batch |-> FALSE, schemaLocked |-> FALSE, limit |-> 0,
         left |-> 0, count |-> 0, changed |-> 0, dirty |-> {}, mine |-> {}, seen |-> {}, at |-> <<0, 0>>,
         start |-> None, commits |-> 0, lost |-> FALSE]

Init ==
  /\ store \in Starts
  /\ kind = TRUE /\ req = Idle /\ view = None
  /\ puts = 0 /\ touched = {}

Next ==
  \/ \E o \in Ops : Start(o)
  \/ DelBatch \/ CommitBatch \/ Relock \/ Decide \/ MergeNext \/ MergeEnds \/ End \/ Crash
  \/ \E i \in Ids, v \in Values : Put(i, v)

-----------------------------------------------------------------------------
(* Properties *)

\* A delete by query without a limit leaves no object but those that another
\* request wrote meanwhile, however many batches it takes.
\* Excepted are a request that a batch commit left in a batch nobody ends, and
\* a delete that also finds deleted objects: it meets those of its first batch
\* again, changes nothing and stops.
DelComplete ==
  Is("done") /\ req.op.op # "merge" /\ req.op.limit = LimitDefault /\ ~req.lost
    /\ (req.op.includeDeleted => req.op.op # "del") =>
    \A i \in Ids \ touched : IF req.op.includeDeleted THEN store[i] = 0 ELSE store[i] <= 0

\* The count that is answered is the number of objects the request changed;
\* with the exception of the lost batch.
CountExact ==
  Is("done") /\ ~req.lost /\ touched = {} =>
    /\ req.op.op # "merge" => req.count = Cardinality(req.mine)
    /\ req.op.limit # LimitDefault => req.count <= req.op.limit

\* A kind that is deleted has no objects left, whatever was put while the
\* request gave up its locks and wherever it crashed.
KindEmpty == ~kind => store = None

\* A merge by query that changes the property it walks by merges each object
\* it finds once.
MergeOnce ==
  Is("done") /\ req.op.op = "merge" =>
    /\ req.count = Cardinality(Live(req.start))
    /\ \A i \in Live(req.start) \ touched : store[i] = req.op.value
=============================================================================
