-------------------------------- MODULE DbSeq --------------------------------
(***************************************************************************)
(* The persistent sequence that hands out revisions and index ids:         *)
(* MojDbSandwichSeq, its twin MojDbLevelSeq, and MojDbLmdbSeq.             *)
(*                                                                         *)
(* Threads run transactions that take values from one sequence and write   *)
(* them into the main shard.  The sequence keeps m_next and m_allocated in *)
(* memory and stores on disk the end of the page it allocated.  The        *)
(* process may be killed, and a power failure loses the writes that were   *)
(* not synced: the log of the main shard is cut after any of them.         *)
(***************************************************************************)
EXTENDS Integers, FiniteSets

CONSTANTS
  Threads,      \* client threads
  Page,         \* SequenceAllocationPage
  StoreInTxn,   \* the page end is stored in the caller's transaction (LMDB)
  MaxNext,      \* bound on m_next
  NoValue       \* nothing stored in this transaction

ASSUME PageAssumption    == Page \in Nat \ {0}
ASSUME BoundAssumption   == MaxNext \in Nat
ASSUME NoValueAssumption == NoValue \notin Nat
ASSUME EngineAssumption  == StoreInTxn \in BOOLEAN

VARIABLES
  next,       \* m_next
  allocated,  \* m_allocated
  isOpen,     \* the sequence is open (m_db # NULL)
  clean,      \* the last incarnation was closed, not killed
  pc,         \* where each thread is
  val,        \* the value a thread has fetched and not yet been given
  held,       \* the values given to a thread's open transaction
  pending,    \* the page end written in a thread's open transaction
  disk,       \* what the main shard holds: [stored, used]
  unsynced    \* the contents a power failure may leave behind

vars == <<next, allocated, isOpen, clean, pc, val, held, pending, disk, unsynced>>

threadVars == <<pc, val, held, pending>>

\* A write reaches the log of the main shard.
Write(d) == disk' = d /\ unsynced' = unsynced \cup {d}

-----------------------------------------------------------------------------
(* The life of the sequence *)

Init ==
  /\ next = 0 /\ allocated = 0 /\ isOpen = FALSE /\ clean = TRUE
  /\ pc = [t \in Threads |-> "idle"] /\ val = [t \in Threads |-> 0]
  /\ held = [t \in Threads |-> {}] /\ pending = [t \in Threads |-> NoValue]
  /\ disk = [stored |-> 0, used |-> {}]
  /\ unsynced = {disk}

\* open(): an absent value reads as 0.
Open ==
  /\ ~isOpen
  /\ isOpen' = TRUE
  /\ next' = disk.stored /\ allocated' = disk.stored
  /\ UNCHANGED <<clean, threadVars, disk, unsynced>>

\* close(): store(m_next) gives the unused part of the page back.
Close ==
  /\ isOpen /\ \A t \in Threads : pc[t] = "idle"
  /\ isOpen' = FALSE /\ clean' = TRUE
  /\ allocated' = next
  /\ Write([disk EXCEPT !.stored = next])
  /\ UNCHANGED <<next, threadVars>>

\* The process dies, with the transactions that were open.
Die ==
  /\ isOpen
  /\ isOpen' = FALSE /\ clean' = FALSE
  /\ pc' = [t \in Threads |-> "idle"]
  /\ held' = [t \in Threads |-> {}] /\ pending' = [t \in Threads |-> NoValue]
  /\ UNCHANGED <<next, allocated, val>>

Kill == Die /\ UNCHANGED <<disk, unsynced>>

PowerFailure ==
  /\ Die
  /\ disk' \in unsynced
  /\ unsynced' = {disk'}

\* The lazy updater (or a write with sync on) makes the log durable.
Sync ==
  /\ unsynced # {disk}
  /\ unsynced' = {disk}
  /\ UNCHANGED <<next, allocated, isOpen, clean, threadVars, disk>>

-----------------------------------------------------------------------------
(* Transactions *)

\* LMDB has one write transaction at a time.
Begin(t) ==
  /\ isOpen /\ pc[t] = "idle"
  /\ StoreInTxn => \A u \in Threads : pc[u] = "idle"
  /\ pc' = [pc EXCEPT ![t] = "txn"]
  /\ UNCHANGED <<next, allocated, isOpen, clean, val, held, pending, disk, unsynced>>

\* get(): m_next.fetch_add(1).
Fetch(t) ==
  /\ isOpen /\ pc[t] = "txn" /\ next < MaxNext
  /\ val' = [val EXCEPT ![t] = next]
  /\ next' = next + 1
  /\ pc' = [pc EXCEPT ![t] = "fetched"]
  /\ UNCHANGED <<allocated, isOpen, clean, held, pending, disk, unsynced>>

\* The caller is given its value.
Give(t) ==
  /\ pc' = [pc EXCEPT ![t] = "txn"]
  /\ held' = [held EXCEPT ![t] = @ \cup {val[t]}]

\* The relaxed load of m_allocated may see an earlier value; a value outside
\* the page queues on the allocation mutex.
Check(t) ==
  /\ pc[t] = "fetched"
  /\ \E seen \in 0..allocated :
       \/ val[t] < seen /\ Give(t)
       \/ val[t] >= seen /\ pc' = [pc EXCEPT ![t] = "queued"] /\ UNCHANGED held
  /\ UNCHANGED <<next, allocated, isOpen, clean, val, pending, disk, unsynced>>

\* store(): at once, or in the caller's transaction.
Store(t, end) ==
  IF StoreInTxn
  THEN pending' = [pending EXCEPT ![t] = end] /\ UNCHANGED <<disk, unsynced>>
  ELSE Write([disk EXCEPT !.stored = end]) /\ UNCHANGED pending

\* Faulty variant: the thread trusts the page it saw before it got the mutex,
\* and moves the page back.
AllocateUnchecked(t) ==
  /\ pc[t] = "queued"
  /\ Give(t)
  /\ allocated' = val[t] + Page
  /\ Write([disk EXCEPT !.stored = val[t] + Page])
  /\ UNCHANGED <<next, isOpen, clean, val, pending>>

\* Under the mutex: unless another thread allocated this value meanwhile,
\* store(val + Page).  Others can only fetch and queue until it is done.
Allocate(t) ==
  /\ pc[t] = "queued"
  /\ Give(t)
  /\ \/ /\ val[t] < allocated
        /\ UNCHANGED <<allocated, pending, disk, unsynced>>
     \/ /\ val[t] >= allocated
        /\ allocated' = val[t] + Page
        /\ Store(t, val[t] + Page)
  /\ UNCHANGED <<next, isOpen, clean, val>>

\* store() returns an error: the fetched value is lost, the caller is told.
StoreFails(t) ==
  /\ pc[t] = "queued" /\ val[t] >= allocated
  /\ pc' = [pc EXCEPT ![t] = "txn"]
  /\ UNCHANGED <<next, allocated, isOpen, clean, val, held, pending, disk, unsynced>>

\* The transaction ends.
Leave(t) ==
  /\ pc' = [pc EXCEPT ![t] = "idle"]
  /\ held' = [held EXCEPT ![t] = {}]
  /\ pending' = [pending EXCEPT ![t] = NoValue]
  /\ UNCHANGED <<next, allocated, isOpen, clean, val>>

\* The transaction commits the records that carry its values.
Commit(t) ==
  /\ pc[t] = "txn"
  /\ Leave(t)
  /\ Write([stored |-> IF pending[t] = NoValue THEN disk.stored ELSE pending[t],
            used   |-> disk.used \cup held[t]])

Abort(t) ==
  /\ pc[t] = "txn"
  /\ Leave(t)
  /\ UNCHANGED <<disk, unsynced>>

Next ==
  \/ Open \/ Close \/ Kill \/ PowerFailure \/ Sync
  \/ \E t \in Threads : \/ Begin(t) \/ Fetch(t) \/ Check(t) \/ Allocate(t) \/ StoreFails(t)
                        \/ Commit(t) \/ Abort(t)

Spec == Init /\ [][Next]_vars

-----------------------------------------------------------------------------
(* Properties *)

Values == 0..(MaxNext + Page)
Contents == [stored : Values, used : SUBSET Values]

\* The counters, the transactions and the disk have their types.
TypeOK ==
  /\ next \in Values /\ allocated \in Values
  /\ isOpen \in BOOLEAN /\ clean \in BOOLEAN
  /\ pc \in [Threads -> {"idle", "txn", "fetched", "queued"}]
  /\ val \in [Threads -> 0..MaxNext] /\ held \in [Threads -> SUBSET Values]
  /\ pending \in [Threads -> Values \cup {NoValue}]
  /\ disk \in Contents /\ unsynced \in SUBSET Contents

\* The values a thread has fetched, given to its transaction or not.
Taken(t) == held[t] \cup (IF pc[t] \in {"fetched", "queued"} THEN {val[t]} ELSE {})

\* No value is given out twice: a value that a thread has taken is not taken
\* by another, and no committed record carries it, whatever kills and power
\* failures came before.
UniqueValues ==
  /\ \A t, u \in Threads : t # u => Taken(t) \cap Taken(u) = {}
  /\ \A t \in Threads : Taken(t) \cap disk.used = {}

\* store()'s own consistency check: "ensure that our state is consistent with
\* db", m_allocated is what the database holds for the transaction.
CachedIsStored ==
  \A t \in Threads :
    pc[t] = "queued" =>
      allocated = (IF pending[t] = NoValue THEN disk.stored ELSE pending[t])

\* After a clean close the sequence will resume exactly where it stopped: what is
\* stored is the next value, so no value of the page is skipped.
CleanCloseResumes == ~isOpen /\ clean => disk.stored = next

\* A sequence gives out each value once, across kills and power failures, never
\* finds its cached page end to differ from the stored one, and loses no value
\* in a clean restart.
SequenceExact == UniqueValues /\ CachedIsStored /\ CleanCloseResumes

\* What the disk may hold covers every value that its records carry.
Covered(d) == \A v \in d.used : v < d.stored

\* Before a power failure and after it, the disk covers its records.
DiskCovered == disk \in unsynced /\ \A d \in unsynced : Covered(d)

\* While the sequence is open, the page on disk is the one in memory, and the
\* values in circulation lie below m_next, the given ones inside the page.
PageCovers ==
  /\ isOpen => allocated = disk.stored /\ \A v \in disk.used : v < next
  /\ \A t \in Threads :
       /\ \A v \in Taken(t) : v < next
       /\ \A v \in held[t] : v < allocated

\* Nothing is in circulation outside a transaction.
IdleHoldsNothing ==
  \A t \in Threads :
    /\ pc[t] = "idle" => held[t] = {}
    /\ ~isOpen => pc[t] = "idle"
    /\ pending[t] = NoValue

\* The inductive invariant behind UniqueValues, when the page end is stored
\* outside the caller's transaction.
SeqInv == UniqueValues /\ DiskCovered /\ PageCovers /\ IdleHoldsNothing
=============================================================================
