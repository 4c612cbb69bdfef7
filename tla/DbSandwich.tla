----------------------------- MODULE DbSandwich -----------------------------
(***************************************************************************)
(* The Sandwich engine: a transaction over the main shard and the mounted  *)
(* media shards, each a LevelDB of its own, committed one after the other  *)
(* (MojDbSandwichEnvTxn), and the thread that syncs the main shard when    *)
(* writes are not synced one by one (MojDbSandwichLazyUpdater).            *)
(*                                                                         *)
(* A shard's log is the sequence of the transactions it has a part of.  A  *)
(* power failure cuts a log anywhere behind its synced part.               *)
(***************************************************************************)
EXTENDS Integers, FiniteSets, Sequences

CONSTANTS
  Main,       \* the main shard
  Media,      \* shards on removable devices
  Clients,    \* threads with a transaction each
  MaxTxns     \* bound on the transactions

MaxTxnsAssumption == MaxTxns \in Nat

ASSUME MaxTxnsAssumption

VARIABLES
  mode,       \* the "sync" option: every write is synced, or the updater does it
  opened,     \* the engine is open
  mounted,    \* m_sandwiches, without the main shard
  log,        \* the parts written to each shard
  synced,     \* how much of each log survives a power failure
  txn,        \* the transaction of each client
  outcome,    \* what became of each transaction
  event,      \* the main database's entry in m_dbs: absent, clear, set
  updater,    \* the thread: running, told to stop, about to sync
  count       \* transactions so far

sandwichVars == <<mode, opened, mounted, log, synced, txn, outcome, event, updater, count>>

Shards == Media \cup {Main}
Txns == 1..MaxTxns

NoTxn == [pc |-> "idle", id |-> 0, held |-> {}, parts |-> {}, todo |-> {}, failed |-> {}]
NoThread == [running |-> FALSE, stop |-> FALSE, todo |-> FALSE]

\* What survives of a log if the power fails now.
Durable(s) == SubSeq(log[s], 1, synced[s])
In(l, n) == \E i \in DOMAIN l : l[i] = n

\* configure(): lazySync() and WriteOptions.sync.
LazySync == mode = "lazy"

-----------------------------------------------------------------------------
(* Transactions *)

\* beginTxn(): the transaction copies the table of shards and keeps them alive.
BeginTxn(c) ==
  /\ opened /\ txn[c].pc = "idle" /\ count < MaxTxns
  /\ count' = count + 1
  /\ txn' = [txn EXCEPT ![c] = [NoTxn EXCEPT !.pc = "active", !.id = count + 1, !.held = mounted \cup {Main}]]
  /\ UNCHANGED <<mode, opened, mounted, log, synced, outcome, event, updater>>

\* useShard(): an error for a shard that the transaction does not hold, upon
\* which the request is aborted.
Use(c, s) ==
  /\ txn[c].pc = "active" /\ s \notin txn[c].parts
  /\ txn' = [txn EXCEPT ![c] = IF s \in txn[c].held THEN [txn[c] EXCEPT !.parts = @ \cup {s}] ELSE NoTxn]
  /\ UNCHANGED <<mode, opened, mounted, log, synced, outcome, event, updater, count>>

AbortTxn(c) ==
  /\ txn[c].pc = "active"
  /\ txn' = [txn EXCEPT ![c] = NoTxn]
  /\ UNCHANGED <<mode, opened, mounted, log, synced, outcome, event, updater, count>>

\* A batch reaches the log of a shard; with WriteOptions.sync it is durable.
WriteBatch(s, n) ==
  /\ log' = [log EXCEPT ![s] = Append(@, n)]
  /\ synced' = IF LazySync THEN synced ELSE [synced EXCEPT ![s] = Len(log[s]) + 1]

StartCommit(c) ==
  /\ txn[c].pc = "active" /\ txn[c].parts # {}
  /\ txn' = [txn EXCEPT ![c].pc = "commit", ![c].todo = txn[c].parts]
  /\ UNCHANGED <<mode, opened, mounted, log, synced, outcome, event, updater, count>>

\* A shard's commit fails, as it does when its device is gone; the others go on.
CommitFails(c, s) ==
  /\ txn' = [txn EXCEPT ![c].todo = @ \ {s}, ![c].failed = @ \cup {s}]
  /\ UNCHANGED <<log, synced>>

CommitPart(c, s) ==
  /\ WriteBatch(s, txn[c].id)
  /\ txn' = [txn EXCEPT ![c].todo = @ \ {s}]

\* commitImpl(): the media shards first, in the order of the hash table.
CommitShard(c) ==
  /\ txn[c].pc = "commit"
  /\ \E s \in txn[c].todo :
       /\ s = Main => txn[c].todo = {Main}
       /\ CommitPart(c, s) \/ CommitFails(c, s)
  /\ UNCHANGED <<mode, opened, mounted, outcome, event, updater, count>>

\* sendEvent()
SendEvent == event' = "set"

\* commitImpl() ends: any error is returned, the event is sent without one.
FinishCommit(c) ==
  /\ txn[c].pc = "commit" /\ txn[c].todo = {}
  /\ outcome' = [outcome EXCEPT ![txn[c].id] =
                   [result |-> IF txn[c].failed = {} THEN "ok" ELSE "error", parts |-> txn[c].parts, failed |-> txn[c].failed]]
  /\ IF LazySync /\ txn[c].failed = {} THEN SendEvent ELSE UNCHANGED event
  /\ txn' = [txn EXCEPT ![c] = NoTxn]
  /\ UNCHANGED <<mode, opened, mounted, log, synced, updater, count>>

-----------------------------------------------------------------------------
(* Shards *)

\* mountShard(): LevelDB lets a database be opened once, and a transaction may
\* still hold the shard from before it was unmounted.
MountShard(s) ==
  /\ opened /\ s \notin mounted
  /\ \A c \in Clients : s \notin txn[c].held
  /\ mounted' = mounted \cup {s}
  /\ UNCHANGED <<mode, opened, log, synced, txn, outcome, event, updater, count>>

UnMountShard(s) ==
  /\ opened /\ s \in mounted
  /\ mounted' = mounted \ {s}
  /\ UNCHANGED <<mode, opened, log, synced, txn, outcome, event, updater, count>>

-----------------------------------------------------------------------------
(* The updater *)

\* onesync(): a synced write makes all of the log durable.
OneSync == synced' = [synced EXCEPT ![Main] = Len(log[Main])]

\* Faulty variant: the event is taken, the database is not.
SyncCopyDrops ==
  /\ updater.running /\ ~updater.stop /\ ~updater.todo
  /\ event = "set"
  /\ event' = "clear"
  /\ UNCHANGED <<mode, opened, mounted, log, synced, txn, outcome, updater, count>>

\* sync(), first half: under the lock the events are taken.
SyncCopy ==
  /\ updater.running /\ ~updater.stop /\ ~updater.todo
  /\ event = "set"
  /\ event' = "clear"
  /\ updater' = [updater EXCEPT !.todo = TRUE]
  /\ UNCHANGED <<mode, opened, mounted, log, synced, txn, outcome, count>>

\* Faulty variant: a database is skipped whose event has come again.
SyncOneSkips ==
  /\ updater.todo /\ event # "set"
  /\ OneSync
  /\ updater' = [updater EXCEPT !.todo = FALSE]
  /\ UNCHANGED <<mode, opened, mounted, log, txn, outcome, event, count>>

\* sync(), second half: the databases are synced outside the lock.
SyncOne ==
  /\ updater.todo
  /\ OneSync
  /\ updater' = [updater EXCEPT !.todo = FALSE]
  /\ UNCHANGED <<mode, opened, mounted, log, txn, outcome, event, count>>

\* threadMain() ends at the next turn after stop().
ThreadEnds ==
  /\ updater.running /\ updater.stop /\ ~updater.todo
  /\ updater' = [updater EXCEPT !.running = FALSE]
  /\ UNCHANGED <<mode, opened, mounted, log, synced, txn, outcome, event, count>>

\* open(): the databases register with the updater, whose thread is started;
\* a thread that was told to stop is joined first.
OpenEngine ==
  /\ ~opened
  /\ LazySync => ~updater.running
  /\ opened' = TRUE /\ event' = "clear"
  /\ updater' = IF LazySync THEN [NoThread EXCEPT !.running = TRUE] ELSE updater
  /\ UNCHANGED <<mode, mounted, log, synced, txn, outcome, count>>

\* close() of the first database syncs the main shard and drops its entry, the
\* engine then stops the thread.  The service has answered its requests.
CloseEngine ==
  /\ opened /\ \A c \in Clients : txn[c].pc = "idle"
  /\ opened' = FALSE /\ mounted' = {} /\ event' = "absent"
  /\ OneSync
  /\ updater' = IF LazySync THEN [updater EXCEPT !.stop = TRUE] ELSE updater
  /\ UNCHANGED <<mode, log, txn, outcome, count>>

\* The power fails: of each log what was synced survives, and maybe more.
Crash ==
  /\ opened
  /\ \E n \in [Shards -> 0..MaxTxns] :
       /\ \A s \in Shards : n[s] \in synced[s]..Len(log[s])
       /\ log' = [s \in Shards |-> SubSeq(log[s], 1, n[s])] /\ synced' = n
  /\ opened' = FALSE /\ mounted' = {} /\ event' = "absent"
  /\ txn' = [c \in Clients |-> NoTxn] /\ updater' = NoThread
  /\ UNCHANGED <<mode, outcome, count>>

SandwichInit ==
  /\ mode \in {"sync", "lazy"} /\ opened = FALSE /\ mounted = {}
  /\ log = [s \in Shards |-> <<>>] /\ synced = [s \in Shards |-> 0]
  /\ txn = [c \in Clients |-> NoTxn]
  /\ outcome = [n \in Txns |-> [result |-> "none", parts |-> {}, failed |-> {}]]
  /\ event = "absent" /\ updater = NoThread /\ count = 0

SandwichNext ==
  \/ \E c \in Clients : BeginTxn(c) \/ AbortTxn(c) \/ StartCommit(c) \/ CommitShard(c) \/ FinishCommit(c)
  \/ \E c \in Clients, s \in Shards : Use(c, s)
  \/ \E s \in Media : MountShard(s) \/ UnMountShard(s)
  \/ SyncCopy \/ SyncOne \/ ThreadEnds \/ OpenEngine \/ CloseEngine \/ Crash

SandwichSpec == SandwichInit /\ [][SandwichNext]_sandwichVars

\* The updater's thread runs until it is stopped.
Fairness == WF_sandwichVars(SyncCopy) /\ WF_sandwichVars(SyncOne)

-----------------------------------------------------------------------------
(* Properties *)

\* The main shard's part is written last: after a power failure at any moment,
\* an object of a transaction in the main shard never lacks the transaction's
\* parts in the media shards, unless their commit failed and was reported.
MainIsLast ==
  mode = "sync" =>
    /\ \A n \in Txns : outcome[n].result # "none" /\ In(Durable(Main), n)
         => \A s \in outcome[n].parts \ outcome[n].failed : In(Durable(s), n)
    /\ \A c \in Clients : txn[c].pc = "commit" /\ In(Durable(Main), txn[c].id)
         => \A s \in txn[c].parts \ txn[c].failed : In(Durable(s), txn[c].id)

\* Without lazy syncing, a transaction that was answered with success is
\* durable in every shard it wrote to.
OkIsDurable ==
  mode = "sync" => \A n \in Txns : outcome[n].result = "ok" => \A s \in outcome[n].parts : In(Durable(s), n)

\* With lazy syncing, a transaction that was answered with success and is not
\* yet durable in the main shard has an event that is waiting or being served:
\* a commit between the two halves of sync() is not forgotten.
NoLostEvent ==
  opened /\ LazySync =>
    \A n \in Txns : outcome[n].result = "ok" /\ In(log[Main], n) /\ ~In(Durable(Main), n)
      => event = "set" \/ updater.todo

\* A closed engine has nothing left to sync in the main shard.
ClosedIsSynced == ~opened => synced[Main] = Len(log[Main])

\* After a power failure the main shard is never ahead of a transaction's parts in
\* the media shards; with synced writes what was answered with success is durable;
\* with lazy ones no commit slips past the updater, and a closed engine is synced.
CommitsKept == MainIsLast /\ OkIsDurable /\ NoLostEvent /\ ClosedIsSynced

\* With lazy syncing, what was committed to the main shard becomes durable
\* unless the power fails or the engine goes first.
EventuallySynced ==
  \A n \in Txns :
    (LazySync /\ opened /\ outcome[n].result = "ok" /\ In(log[Main], n))
      ~> (In(Durable(Main), n) \/ ~opened)
=============================================================================
