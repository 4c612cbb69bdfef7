----------------------------- MODULE DbBerkeley -----------------------------
(***************************************************************************)
(* What the Berkeley DB engine does beside reading and writing: a commit   *)
(* counts the bytes it wrote and takes a checkpoint when enough have come  *)
(* together (MojDbBerkeleyEnv), and compact() works through a database in  *)
(* steps of some records while clients insert and delete.                  *)
(***************************************************************************)
EXTENDS Integers, FiniteSets, FiniteSetsExt

CONSTANTS
  Committers,   \* threads that commit
  Sizes,        \* how much a transaction writes
  MinKb,        \* m_checkpointMinKb
  StepSize,     \* compactStepSize()
  NKeys,        \* keys are 1..NKeys
  MaxCommits,   \* bound on the commits
  MaxWrites     \* bound on the inserts and deletes beside a compaction

\* A checkpointMinKb and a compactStepSize are configured; with a step of 0 records
\* the database is not compacted in windows.
CommittersAssumption == IsFiniteSet(Committers) /\ "none" \notin Committers
AmountsAssumption    == Sizes \subseteq Nat /\ MinKb \in Nat \ {0} /\ StepSize \in Nat \ {0}
LimitsAssumption     == NKeys \in Nat /\ MaxCommits \in Nat /\ MaxWrites \in Nat

ASSUME CommittersAssumption
ASSUME AmountsAssumption
ASSUME LimitsAssumption

VARIABLES
  updateSize,   \* m_updateSize
  mutex,        \* who holds m_checkpointMutex
  committer,    \* the thread's step and the size of its transaction
  debt,         \* bytes written since the last checkpoint
  lost,         \* bytes that were counted while a checkpoint was finishing
  commits,      \* commits so far
  keys,         \* the records of the database
  stayed,       \* those that have been there since the compaction began
  compaction,   \* the step of compact() and its key1, key2
  compacted,    \* the keys of the ranges handed to db->compact()
  writes        \* inserts and deletes so far

checkpointVars == <<updateSize, mutex, committer, debt, lost, commits>>
compactVars == <<keys, stayed, compaction, compacted, writes>>

None == "none"
Null == 0
Resting == [pc |-> "idle", size |-> 0]
NoCompaction == [pc |-> "idle", key1 |-> Null, key2 |-> Null]

-----------------------------------------------------------------------------
(* Checkpoints *)

\* commitImpl(): the transaction is durable; postCommit() follows if it wrote.
CommitTxn(t, n) ==
  /\ committer[t].pc = "idle" /\ commits < MaxCommits
  /\ commits' = commits + 1 /\ debt' = debt + n
  /\ committer' = [committer EXCEPT ![t] = IF n = 0 THEN Resting ELSE [pc |-> "count", size |-> n]]
  /\ UNCHANGED <<updateSize, mutex, lost, compactVars>>

\* Faulty variant: the size of the last transaction replaces the sum.
PostCommitLast(t) ==
  /\ committer[t].pc = "count"
  /\ updateSize' = committer[t].size
  /\ committer' = [committer EXCEPT ![t] = IF updateSize' >= MinKb THEN [pc |-> "try", size |-> 0] ELSE Resting]
  /\ lost' = IF mutex # None /\ committer[mutex].pc = "reset" THEN lost + committer[t].size ELSE lost
  /\ UNCHANGED <<mutex, debt, commits, compactVars>>

\* postCommit()
PostCommit(t) ==
  /\ committer[t].pc = "count"
  /\ updateSize' = updateSize + committer[t].size
  /\ committer' = [committer EXCEPT ![t] = IF updateSize' >= MinKb THEN [pc |-> "try", size |-> 0] ELSE Resting]
  /\ lost' = IF mutex # None /\ committer[mutex].pc = "reset" THEN lost + committer[t].size ELSE lost
  /\ UNCHANGED <<mutex, debt, commits, compactVars>>

\* tryCheckpoint(): not while another thread is at it.
TryCheckpoint(t) ==
  /\ committer[t].pc = "try"
  /\ IF mutex = None
     THEN mutex' = t /\ committer' = [committer EXCEPT ![t].pc = "checkpoint"]
     ELSE mutex' = mutex /\ committer' = [committer EXCEPT ![t] = Resting]
  /\ UNCHANGED <<updateSize, debt, lost, commits, compactVars>>

\* checkpointImpl(): all that is committed by now is written back.
Checkpoint(t) ==
  /\ committer[t].pc = "checkpoint"
  /\ debt' = 0 /\ lost' = 0
  /\ committer' = [committer EXCEPT ![t].pc = "reset"]
  /\ UNCHANGED <<updateSize, mutex, commits, compactVars>>

\* checkpointImpl() clears the sum, purgeLogs() removes the logs, the mutex is
\* given back.
ResetSize(t) ==
  /\ committer[t].pc = "reset"
  /\ updateSize' = 0 /\ mutex' = None
  /\ committer' = [committer EXCEPT ![t] = Resting]
  /\ UNCHANGED <<debt, lost, commits, compactVars>>

-----------------------------------------------------------------------------
(* compact() *)

From(k) == {x \in keys : x >= k}
Nth(S, n) == CHOOSE x \in S : Cardinality({y \in S : y <= x}) = n

\* The keys between key1 and key2, the ends of the database for a null key.
Window(k1, k2) == {x \in 1..NKeys : x >= k1 /\ (k2 # Null => x <= k2)}

BeginCompact ==
  /\ compaction.pc = "idle"
  /\ compaction' = [NoCompaction EXCEPT !.pc = "window"]
  /\ compacted' = {} /\ stayed' = keys
  /\ UNCHANGED <<checkpointVars, keys, writes>>

\* A cursor is set on key1, or on the next record there is, and steps forward;
\* it is closed before the window is compacted.  At the end of the records key2
\* is null; if there is none behind key1 both are.
FindWindow ==
  LET behind == From(compaction.key1)
      start  == IF compaction.key1 = Null THEN Null ELSE Min(behind)
      rest   == IF behind = {} THEN {} ELSE behind \ {Min(behind)}
  IN  /\ compaction.pc = "window"
      /\ compaction' =
           IF behind = {} THEN [compaction EXCEPT !.pc = "compact", !.key1 = Null, !.key2 = Null]
           ELSE [pc |-> "compact", key1 |-> start,
                 key2 |-> IF Cardinality(rest) < StepSize THEN Null ELSE Nth(rest, StepSize)]
      /\ UNCHANGED <<checkpointVars, keys, stayed, compacted, writes>>

\* db->compact() of the window; the next one starts where it ended.
CompactWindow ==
  /\ compaction.pc = "compact"
  /\ compacted' = compacted \cup Window(compaction.key1, compaction.key2)
  /\ compaction' = IF compaction.key2 = Null THEN [compaction EXCEPT !.pc = "end"]
                   ELSE [pc |-> "window", key1 |-> compaction.key2, key2 |-> Null]
  /\ UNCHANGED <<checkpointVars, keys, stayed, writes>>

\* The cursor or db->compact() fails: a deadlock ends the call, after another
\* error the whole database is compacted at once.
CompactFails ==
  /\ compaction.pc \in {"window", "compact"}
  /\ \/ compaction' = NoCompaction /\ UNCHANGED compacted
     \/ compaction' = [compaction EXCEPT !.pc = "end"] /\ compacted' = 1..NKeys
  /\ UNCHANGED <<checkpointVars, keys, stayed, writes>>

\* With a step of one record the database is then compacted as a whole.
EndCompact ==
  /\ compaction.pc = "end"
  /\ compaction' = NoCompaction
  /\ compacted' = IF StepSize <= 1 THEN 1..NKeys ELSE compacted
  /\ UNCHANGED <<checkpointVars, keys, stayed, writes>>

\* Clients write between the steps.
Insert(k) ==
  /\ writes < MaxWrites /\ k \notin keys
  /\ keys' = keys \cup {k} /\ writes' = writes + 1
  /\ UNCHANGED <<checkpointVars, stayed, compaction, compacted>>
Remove(k) ==
  /\ writes < MaxWrites /\ k \in keys
  /\ keys' = keys \ {k} /\ stayed' = stayed \ {k} /\ writes' = writes + 1
  /\ UNCHANGED <<checkpointVars, compaction, compacted>>

BerkeleyInit ==
  /\ updateSize = 0 /\ mutex = None /\ committer = [t \in Committers |-> Resting]
  /\ debt = 0 /\ lost = 0 /\ commits = 0
  /\ keys \in SUBSET (1..NKeys) /\ stayed = {} /\ compaction = NoCompaction /\ compacted = {} /\ writes = 0

CheckpointNext ==
  \E t \in Committers :
    \/ \E n \in Sizes : CommitTxn(t, n)
    \/ PostCommit(t) \/ TryCheckpoint(t) \/ Checkpoint(t) \/ ResetSize(t)

CompactNext ==
  \/ BeginCompact \/ FindWindow \/ CompactWindow \/ CompactFails \/ EndCompact
  \/ \E k \in 1..NKeys : Insert(k) \/ Remove(k)

BerkeleySpec == BerkeleyInit /\ [][CheckpointNext \/ CompactNext]_<<checkpointVars, compactVars>>

-----------------------------------------------------------------------------
(* Properties *)

\* The log that a restart has to replay stays bounded: when no commit is under
\* way, less than the configured amount has been written since the last
\* checkpoint, beside what was counted while that checkpoint finished.
DebtBounded == (\A t \in Committers : committer[t].pc = "idle") => debt < MinKb + lost

\* A compaction that got through its windows has covered every record that was
\* there all the time, however records came and went between the steps.
CompactCovers == compaction.pc = "end" => stayed \subseteq compacted

\* What is written since the last checkpoint stays bounded, and a compaction reaches
\* every key that was there throughout.
UpkeepDone == DebtBounded /\ CompactCovers
=============================================================================
