------------------------------- MODULE DbLevel -------------------------------
(***************************************************************************)
(* The LevelDB engine: a transaction keeps its writes in memory, one set   *)
(* per table (MojDbLevelTxn), and a cursor merges them with a snapshot of  *)
(* the table (MojDbLevelTxnIterator).  The transaction goes on writing     *)
(* while the cursor walks: the iterator is told of every put and delete.   *)
(*                                                                         *)
(* Keys are numbers, as the bytes of a key are only compared.  0 and the   *)
(* number after the last key stand for the positions before the first and  *)
(* after the last entry.                                                   *)
(***************************************************************************)
EXTENDS Integers, FiniteSets, FiniteSetsExt

CONSTANTS
  LastKey,      \* keys are 1..LastKey
  Prefixes,     \* the sets of keys that share a prefix, each an interval
  MaxOps        \* bound on the operations of a transaction

VARIABLES
  tables,   \* the entries of each table
  levelTxn, \* m_tableTxns: the puts and deletions of each table it has used
  cursor,   \* the cursor on the table "idx"
  walk,     \* what the cursor has returned since it was positioned
  answer,   \* how the last commit ended
  ops       \* operations so far

levelVars == <<tables, levelTxn, cursor, walk, answer, ops>>

Keys == 1..LastKey
AtBegin == 0
AtEnd == LastKey + 1
Tables == {"obj", "idx"}

\* Keys that share a prefix follow one another.
LevelAssumption ==
  /\ LastKey \in Nat
  /\ \A p \in Prefixes : p \in SUBSET Keys /\ p # {} /\ \A x, y \in p : x .. y \subseteq p

ASSUME LevelAssumption

\* The fields of an iterator: the snapshot it reads, m_it, m_insertsItertor,
\* m_fwd and m_invalid.
ClosedCursor == [open |-> FALSE, snap |-> {}, it |-> AtEnd, ins |-> AtEnd, fwd |-> TRUE, invalid |-> FALSE]
NoWalk == [mode |-> "none", must |-> {}, seen |-> {}, again |-> FALSE, elsewhere |-> FALSE,
           prefix |-> {}, others |-> {}]

-----------------------------------------------------------------------------
(* The two iterators: MojDbLevelIterator and MojDbLevelContainerIterator *)

\* operator++ and operator--, from the position before the first entry, on an
\* entry, or after the last one.
Succ(S, p) == Min({k \in S : k > p} \cup {AtEnd})
Pred(S, p) == Max({k \in S : k < p} \cup {AtBegin})

\* operator++ and operator-- of the container iterator, over the pending puts.
SuccPut(puts, p) == Succ(puts, p)
PredPut(puts, p) == Pred(puts, p)

\* toFirst() and toLast() of both iterators.
ToFirst(S) == Succ(S, AtBegin)
ToLast(S) == Pred(S, AtEnd)

-----------------------------------------------------------------------------
(* The merged iterator: m_it in the snapshot, m_insertsItertor in the puts *)

\* skipDeleted()
Skip(i, dels, p) ==
  IF p \notin dels THEN p
  ELSE IF i.fwd THEN Succ(i.snap \ dels, p) ELSE Pred(i.snap \ dels, p)

ItNext(i, dels) == [i EXCEPT !.it = Skip(i, dels, Succ(i.snap, i.it))]
ItPrev(i, dels) == [i EXCEPT !.it = Skip(i, dels, Pred(i.snap, i.it))]

\* inTransaction(): the entry comes from the puts.
InTransaction(i) == i.it = i.ins \/ (i.it > i.ins) = i.fwd

\* getKey()
KeyOf(i) == IF InTransaction(i) THEN i.ins ELSE i.it

IsBegin(i) == i.it = AtBegin /\ i.ins = AtBegin
IsEnd(i) == i.it = AtEnd /\ i.ins = AtEnd
IsValid(i) == ~i.invalid /\ (i.it \in Keys \/ i.ins \in Keys)

\* first(), last(), seek()
First(i, t) ==
  LET j == [i EXCEPT !.fwd = TRUE, !.invalid = FALSE]
  IN  [j EXCEPT !.it = Skip(j, t.dels, ToFirst(i.snap)), !.ins = ToFirst(t.puts)]
Last(i, t) ==
  LET j == [i EXCEPT !.fwd = FALSE, !.invalid = FALSE]
  IN  [j EXCEPT !.it = Skip(j, t.dels, ToLast(i.snap)), !.ins = ToLast(t.puts)]
Seek(i, t, k) ==
  LET j == [i EXCEPT !.fwd = TRUE, !.invalid = FALSE]
  IN  [j EXCEPT !.it = Skip(j, t.dels, Succ(i.snap, k - 1)), !.ins = Succ(t.puts, k - 1)]

\* One step forward or backward of an iterator that already runs that way: of
\* both where they stand on the same key.  An iterator at its end lies beyond all.
StepFwd(i, t) ==
  LET j == IF i.it <= i.ins THEN ItNext(i, t.dels) ELSE i
  IN  IF i.ins <= i.it THEN [j EXCEPT !.ins = SuccPut(t.puts, @)] ELSE j
StepBwd(i, t) ==
  LET j == IF i.it >= i.ins THEN ItPrev(i, t.dels) ELSE i
  IN  IF i.ins >= i.it THEN [j EXCEPT !.ins = PredPut(t.puts, @)] ELSE j

\* next(): an iterator that ran backward is turned first; one whose entry was
\* deleted already stands on the next.
NextEntry(i, t) ==
  LET j == [i EXCEPT !.fwd = TRUE, !.invalid = FALSE]
      turned == IF j.it = AtBegin THEN ItNext(j, t.dels)
                ELSE IF j.ins = AtBegin THEN [j EXCEPT !.ins = SuccPut(t.puts, @)]
                ELSE IF KeyOf(j) < KeyOf(i) THEN StepFwd(j, t)
                ELSE j
  IN  IF IsBegin(i) THEN First(i, t)
      ELSE IF ~i.fwd THEN StepFwd(turned, t)
      ELSE IF i.invalid THEN j
      ELSE StepFwd(j, t)

\* prev()
PrevEntry(i, t) ==
  LET j == [i EXCEPT !.fwd = FALSE, !.invalid = FALSE]
      turned == IF j.it = AtEnd THEN ItPrev(j, t.dels)
                ELSE IF j.ins = AtEnd THEN [j EXCEPT !.ins = PredPut(t.puts, @)]
                ELSE IF KeyOf(i) < KeyOf(j) THEN StepBwd(j, t)
                ELSE j
  IN  IF IsEnd(i) THEN Last(i, t)
      ELSE IF i.fwd THEN StepBwd(turned, t)
      ELSE IF i.invalid THEN j
      ELSE StepBwd(j, t)

\* Faulty variant: the iterator does not look at a new entry.
NotifyPutIgnored(i, t, k) == i

\* notifyPut(): the new entry k lies between the two positions.  t holds it.
NotifyPut(i, t, k) ==
  IF i.fwd
  THEN IF k < i.it \/ ~(k < i.ins) THEN i ELSE [i EXCEPT !.ins = PredPut(t.puts, @)]
  ELSE IF k <= i.ins \/ k > i.it THEN i ELSE [i EXCEPT !.ins = SuccPut(t.puts, @)]

\* notifyDelete(): the pending entry the iterator stands on goes away; a
\* deleted entry of the table is passed by the next step.
NotifyDelete(i, t, k) ==
  CASE i.ins # k -> i
    [] i.ins = k /\ i.fwd ->
         LET j == IF i.it = i.ins THEN ItNext(i, t.dels) ELSE i
         IN  [j EXCEPT !.ins = SuccPut(t.puts, @), !.invalid = TRUE]
    [] OTHER ->
         LET j == IF i.it = i.ins THEN ItPrev(i, t.dels) ELSE i
         IN  [j EXCEPT !.ins = PredPut(t.puts, @), !.invalid = TRUE]

-----------------------------------------------------------------------------
(* The transaction *)

Fresh == [puts |-> {}, dels |-> {}]

\* tableTxn(): the part of a table, or an empty one.
PartOf(table) == IF table \in DOMAIN levelTxn THEN levelTxn[table] ELSE Fresh

WithPart(table, part) ==
  [used \in DOMAIN levelTxn \cup {table} |-> IF used = table THEN part ELSE levelTxn[used]]

\* What the transaction sees of a table through an iterator.
Visible(i, t) == (i.snap \cup t.puts) \ t.dels

\* The transaction's own step, and what it means for a walk.
Act == ops < MaxOps /\ ops' = ops + 1

Put(table, k) ==
  LET part == [PartOf(table) EXCEPT !.puts = @ \cup {k}, !.dels = @ \ {k}]
  IN  /\ Act /\ walk.mode \notin {"delPrefix", "done"}
      /\ levelTxn' = WithPart(table, part)
      /\ cursor' = IF table = "idx" /\ cursor.open THEN NotifyPut(cursor, part, k) ELSE cursor
      /\ UNCHANGED <<tables, walk, answer>>

Delete(table, k) ==
  LET part == PartOf(table)
  IN  /\ Act /\ walk.mode \notin {"delPrefix", "done"}
      /\ levelTxn' = WithPart(table, [part EXCEPT !.puts = @ \ {k}, !.dels = @ \cup {k}])
      /\ cursor' = IF table = "idx" /\ cursor.open THEN NotifyDelete(cursor, part, k) ELSE cursor
      /\ walk' = IF table = "idx" /\ walk.mode # "none"
                 THEN [walk EXCEPT !.must = @ \ {k}, !.elsewhere = @ \/ k # KeyOf(cursor)] ELSE walk
      /\ UNCHANGED <<tables, answer>>

\* One batch per table; the tables whose batch failed stay as they were, and
\* the first error is the answer.
Commits(failed) ==
  /\ tables' = [table \in Tables |->
                IF table \in failed THEN tables[table] ELSE (tables[table] \ PartOf(table).dels) \cup PartOf(table).puts]
  /\ answer' = IF failed = {} THEN "ok" ELSE "error"

\* commitImpl(): one batch per table, one after the other.  The callers close
\* their cursors first.
LevelCommit ==
  /\ DOMAIN levelTxn # {}
  /\ \E failed \in SUBSET DOMAIN levelTxn : Commits(failed)
  /\ levelTxn' = <<>>
  /\ cursor' = ClosedCursor /\ walk' = NoWalk
  /\ UNCHANGED ops

\* abort(): the writes and the cursors are forgotten.
LevelAbort ==
  /\ DOMAIN levelTxn # {}
  /\ levelTxn' = <<>> /\ cursor' = ClosedCursor /\ walk' = NoWalk
  /\ UNCHANGED <<tables, answer, ops>>

-----------------------------------------------------------------------------
(* The cursor *)

\* open(): a snapshot of the table, positioned on the first entry.
OpenCursor ==
  /\ Act /\ ~cursor.open /\ walk.mode = "none"
  /\ levelTxn' = WithPart("idx", PartOf("idx"))
  /\ cursor' = First([ClosedCursor EXCEPT !.open = TRUE, !.snap = tables["idx"]], PartOf("idx"))
  /\ UNCHANGED <<tables, walk, answer>>

\* What a step returns is added to the walk.
Returned(i, w) ==
  IF ~IsValid(i) THEN w
  ELSE [w EXCEPT !.seen = @ \cup {KeyOf(i)},
                 !.again = @ \/ (KeyOf(i) \in w.seen /\ ~w.elsewhere)]

\* get() with e_First or e_Set starts a walk forward, e_Last, or e_Set followed
\* by e_Prev as a descending query does it, a walk backward.
StartFwd(k) ==
  /\ Act /\ cursor.open /\ walk.mode = "none"
  /\ cursor' = IF k = 1 THEN First(cursor, PartOf("idx")) ELSE Seek(cursor, PartOf("idx"), k)
  /\ walk' = Returned(cursor', [NoWalk EXCEPT !.mode = "fwd",
                 !.must = {x \in Visible(cursor, PartOf("idx")) : x >= k}])
  /\ UNCHANGED <<tables, levelTxn, answer>>

StartBwd(k) ==
  /\ Act /\ cursor.open /\ walk.mode = "none"
  /\ cursor' = IF k = AtEnd THEN Last(cursor, PartOf("idx"))
               ELSE PrevEntry(Seek(cursor, PartOf("idx"), k), PartOf("idx"))
  /\ walk' = Returned(cursor', [NoWalk EXCEPT !.mode = "bwd",
                 !.must = {x \in Visible(cursor, PartOf("idx")) : x < k}])
  /\ UNCHANGED <<tables, levelTxn, answer>>

\* get() with e_Next or e_Prev: not past an end.
Forward ==
  /\ walk.mode = "fwd" /\ ~IsEnd(cursor)
  /\ cursor' = NextEntry(cursor, PartOf("idx"))
  /\ walk' = Returned(cursor', walk)
  /\ UNCHANGED <<tables, levelTxn, answer, ops>>
Backward ==
  /\ walk.mode = "bwd" /\ ~IsBegin(cursor)
  /\ cursor' = PrevEntry(cursor, PartOf("idx"))
  /\ walk' = Returned(cursor', walk)
  /\ UNCHANGED <<tables, levelTxn, answer, ops>>

\* The walk is over; the cursor may be positioned again.
EndWalk ==
  /\ walk.mode \in {"fwd", "bwd", "done"}
  /\ walk' = NoWalk
  /\ UNCHANGED <<tables, levelTxn, cursor, answer, ops>>

\* close(), or the release of the iterator when its query ends.
CloseCursor ==
  /\ cursor.open /\ walk.mode = "none"
  /\ cursor' = ClosedCursor
  /\ UNCHANGED <<tables, levelTxn, walk, answer, ops>>

\* delPrefix(): seek, then delete and step while the key has the prefix.
StartDelPrefix(p) ==
  /\ Act /\ cursor.open /\ walk.mode = "none"
  /\ cursor' = Seek(cursor, PartOf("idx"), Min(p))
  /\ walk' = [NoWalk EXCEPT !.mode = "delPrefix", !.prefix = p, !.others = Visible(cursor, PartOf("idx")) \ p]
  /\ UNCHANGED <<tables, levelTxn, answer>>

\* del() removes the entry the cursor stands on and tells the iterator before
\* it is gone; next() then stays or steps.
DelPrefixStep ==
  LET part == PartOf("idx")
      gone == [part EXCEPT !.puts = @ \ {KeyOf(cursor)}, !.dels = @ \cup {KeyOf(cursor)}]
  IN  /\ walk.mode = "delPrefix"
      /\ IF IsValid(cursor) /\ KeyOf(cursor) \in walk.prefix
         THEN /\ levelTxn' = WithPart("idx", gone)
              /\ cursor' = NextEntry(NotifyDelete(cursor, part, KeyOf(cursor)), gone)
              /\ UNCHANGED walk
         ELSE walk' = [walk EXCEPT !.mode = "done"] /\ UNCHANGED <<levelTxn, cursor>>
      /\ UNCHANGED <<tables, answer, ops>>

-----------------------------------------------------------------------------

LevelInit ==
  /\ tables \in [Tables -> SUBSET Keys] /\ tables["obj"] = {}
  /\ levelTxn = <<>> /\ cursor = ClosedCursor /\ walk = NoWalk /\ answer = "none" /\ ops = 0

LevelNext ==
  \/ \E table \in Tables, k \in Keys : Put(table, k) \/ Delete(table, k)
  \/ \E k \in Keys : StartFwd(k) \/ StartBwd(k + 1)
  \/ \E p \in Prefixes : StartDelPrefix(p)
  \/ OpenCursor \/ Forward \/ Backward \/ EndWalk \/ CloseCursor \/ DelPrefixStep
  \/ LevelCommit \/ LevelAbort

LevelSpec == LevelInit /\ [][LevelNext]_levelVars

-----------------------------------------------------------------------------
(* Properties *)

\* A walk that reached its end has returned every entry that the transaction
\* saw when it started and did not delete meanwhile, whatever was put or
\* deleted around the cursor.
WalkComplete ==
  \/ walk.mode = "fwd" /\ IsEnd(cursor)
  \/ walk.mode = "bwd" /\ IsBegin(cursor)
  => walk.must \subseteq walk.seen

\* A walk returns no entry twice as long as the transaction deletes no other
\* entry than the one the cursor stands on.
WalkOnce == ~walk.again

\* The entry under a valid cursor is one the transaction sees, and its value is
\* the pending one if there is one, except for the keys that the transaction has
\* deleted: an entry that is deleted while m_it stands on it, under the cursor or
\* ahead of it, is still returned.
ReadsOwnWrites ==
  cursor.open /\ IsValid(cursor) /\ KeyOf(cursor) \notin PartOf("idx").dels
  => /\ KeyOf(cursor) \in Visible(cursor, PartOf("idx"))
     /\ InTransaction(cursor) = (KeyOf(cursor) \in PartOf("idx").puts)

\* Dropping an index removes every entry with its prefix, pending or stored,
\* and no other entry.
DelPrefixExact ==
  walk.mode = "done" => Visible(cursor, PartOf("idx")) = walk.others

\* A walk over a transaction that goes on writing returns every entry that stays,
\* none twice, each with the transaction's own value; and dropping an index through
\* such a walk removes its prefix and nothing else.
WalkExact == WalkComplete /\ WalkOnce /\ ReadsOwnWrites /\ DelPrefixExact

=============================================================================
