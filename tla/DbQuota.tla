------------------------------ MODULE DbQuota -------------------------------
(***************************************************************************)
(* The quota engine: how much of its quota an owner uses.  A transaction   *)
(* keeps an offset per kind it writes, checked against the quota in memory *)
(* with every write; commit() adds the offsets to the usage records of the *)
(* kinds, commits, and then adds them to the quota in memory.  One quota   *)
(* covers the kinds of the model.                                          *)
(***************************************************************************)
EXTENDS Integers, FiniteSets, FiniteSetsExt

CONSTANTS Txns,            \* transactions that may be open at a time
          QuotaKinds,      \* the kinds of the owner
          QuotaKindOwned,  \* the quota covers the kind of the quota objects too
          MaxSize,         \* bound: sizes of the quota and of what is written
          NoUsage          \* no usage record

\* A usage is a number of bytes.
QuotaAssumption ==
    /\ IsFiniteSet(Txns) /\ IsFiniteSet(QuotaKinds)
    /\ MaxSize \in Nat /\ NoUsage \notin Int

ASSUME QuotaAssumption

VARIABLES locking,    \* the engine serialises get(forUpdate) until the commit
          size,       \* Quota::m_size
          used,       \* Quota::m_usage
          usage,      \* the stored usage record of each kind
          real,       \* what is stored of each kind
          txn,        \* per transaction: where commit() is, and its offsets
          drifted     \* used was read from usage records that are wrong

quotaVars == <<locking, size, used, usage, real, txn, drifted>>

Idle == [pc |-> "idle", offset |-> [k \in QuotaKinds |-> 0], new |-> [k \in QuotaKinds |-> 0], touched |-> {}]

SumOf(f, S) == MapThenSumSet(LAMBDA k : f[k], S)

Available == IF size < used THEN 0 ELSE size - used

\* refreshImpl(): the quota's usage is the sum of its kinds' records.
Refresh(u) == SumOf([k \in QuotaKinds |-> IF u[k] = NoUsage THEN 0 ELSE u[k]], QuotaKinds)

\* initUsage(): a kind without a record gets one from its stats.
InitUsage(u) == [k \in QuotaKinds |-> IF u[k] = NoUsage THEN real[k] ELSE u[k]]

Begin(t) ==
    /\ txn[t].pc = "idle"
    /\ \A k \in QuotaKinds : usage[k] \in {NoUsage, real[k]}   \* bound: one lost update is enough
    /\ txn' = [txn EXCEPT ![t] = [Idle EXCEPT !.pc = "open"]]
    /\ UNCHANGED <<locking, size, used, usage, real, drifted>>

\* What is left of kind k once every open transaction has removed what it removes.
Removable(k) == real[k] + SumOf([t \in Txns |-> IF txn[t].offset[k] < 0 THEN txn[t].offset[k] ELSE 0], Txns)

\* curKind() and offsetQuota() of one write; a write beyond the quota fails and
\* the request is aborted.
Write(t, k, n) ==
    /\ txn[t].pc = "open"
    /\ n < 0 => Removable(k) + n >= 0
    /\ real[k] + txn[t].offset[k] + n <= MaxSize /\ k \notin txn[t].touched
    /\ LET new == txn[t].offset[k] + n
       IN  txn' = [txn EXCEPT ![t] =
               IF new > Available THEN Idle
               ELSE [txn[t] EXCEPT !.offset[k] = new, !.touched = @ \cup {k}]]
    /\ UNCHANGED <<locking, size, used, usage, real, drifted>>

\* Faulty variant: a new record starts at nothing.
NewUsageFresh(u, off) == IF u = NoUsage THEN 0 ELSE u + off

\* applyOffset(): the record plus the offset, or a new record.
NewUsage(u, off) == IF u = NoUsage THEN off ELSE u + off

\* applyUsage(): reads every record for update, writes it in the transaction.
\* An engine with locks keeps the others away until the transaction ends.
ApplyUsage(t) ==
    /\ txn[t].pc = "open"
    /\ locking => \A o \in Txns \ {t} : txn[o].pc = "usage" => txn[o].touched \cap txn[t].touched = {}
    /\ txn' = [txn EXCEPT ![t].pc = "usage",
                          ![t].new = [k \in QuotaKinds |->
                              IF k \in txn[t].touched THEN NewUsage(usage[k], txn[t].offset[k]) ELSE 0]]
    /\ UNCHANGED <<locking, size, used, usage, real, drifted>>

\* commitImpl(): the objects and the records become durable; or it fails.
CommitImpl(t) ==
    /\ txn[t].pc = "usage"
    /\ usage' = [k \in QuotaKinds |-> IF k \in txn[t].touched THEN txn[t].new[k] ELSE usage[k]]
    /\ real' = [k \in QuotaKinds |-> real[k] + txn[t].offset[k]]
    /\ txn' = [txn EXCEPT ![t].pc = "committed"]
    /\ UNCHANGED <<locking, size, used, drifted>>

AbortOffsets(t) ==
    /\ txn[t].pc \in {"open", "usage"}
    /\ txn' = [txn EXCEPT ![t] = Idle]
    /\ UNCHANGED <<locking, size, used, usage, real, drifted>>

\* applyQuota(): every offset of the transaction goes to its quota.
ApplyOffsets(u, t) == u + SumOf(txn[t].offset, QuotaKinds)

ApplyQuota(t) ==
    /\ txn[t].pc = "committed"
    /\ used' = ApplyOffsets(used, t)
    /\ txn' = [txn EXCEPT ![t] = Idle]
    /\ UNCHANGED <<locking, size, usage, real, drifted>>

\* put() of the quota: under the schema lock, so no transaction is open.  After
\* the commit, commitQuota() sets the size and refreshes; applyQuota() then adds
\* the offset of the quota object itself, if the quota covers its kind.
PutQuota(n) ==
    /\ \A t \in Txns : txn[t].pc = "idle"
    /\ size' = n
    /\ used' = Refresh(usage) + (IF QuotaKindOwned THEN 1 ELSE 0)
    /\ drifted' = (Refresh(usage) # SumOf(real, QuotaKinds))
    /\ UNCHANGED <<locking, usage, real, txn>>

\* A crash or a close, and open(): records of every kind, then the usage.
ReadQuotas ==
    /\ usage' = InitUsage(usage)
    /\ used' = Refresh(InitUsage(usage))
    /\ drifted' = (Refresh(InitUsage(usage)) # SumOf(real, QuotaKinds))
    /\ txn' = [t \in Txns |-> Idle]
    /\ UNCHANGED <<locking, size, real>>

QuotaInit ==
    /\ locking \in BOOLEAN
    /\ size \in 1 .. MaxSize
    /\ used = 0
    /\ usage = [k \in QuotaKinds |-> NoUsage]
    /\ real = [k \in QuotaKinds |-> 0]
    /\ txn = [t \in Txns |-> Idle]
    /\ drifted = FALSE

QuotaNext ==
    \/ \E t \in Txns : Begin(t) \/ ApplyUsage(t) \/ CommitImpl(t) \/ AbortOffsets(t) \/ ApplyQuota(t)
    \/ \E t \in Txns, k \in QuotaKinds, n \in {1, -1} : Write(t, k, n)
    \/ \E n \in 1 .. MaxSize : PutQuota(n)
    \/ ReadQuotas

QuotaSpec == QuotaInit /\ [][QuotaNext]_quotaVars

-----------------------------------------------------------------------------
\* Between transactions the quota in memory is what its kinds really use, and
\* with an engine that locks the records are too; without locks two commits can
\* lose one another's offset, which a refresh then brings to memory.
UsageKept ==
    (\A t \in Txns : txn[t].pc = "idle") =>
        /\ ~drifted => used = SumOf(real, QuotaKinds)
        /\ locking => ~drifted /\ \A k \in QuotaKinds : usage[k] \in {NoUsage, real[k]}

\* applyOffset() asserts that no usage becomes negative: true where it locks.
UsageNotNegative ==
    locking => \A t \in Txns, k \in QuotaKinds :
        txn[t].pc = "usage" /\ k \in txn[t].touched => txn[t].new[k] >= 0

\* Between transactions the usage in memory is the size of what is stored, and
\* with an engine that locks the usage records are too and never fall below zero;
\* without locks two commits may lose one another's offset.
UsageExact == UsageKept /\ UsageNotNegative
=============================================================================
