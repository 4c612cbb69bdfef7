---------------------------- MODULE DbKind_proofs ----------------------------
(***************************************************************************)
(* Proofs about what is kept for a kind beside its objects.                *)
(*                                                                         *)
(* DbQuota, for any transactions, kinds and sizes: the usage in memory is  *)
(* what is stored, less what committed transactions have still to add; and *)
(* with an engine that locks, a record that is about to be written was     *)
(* read from one that nobody else writes.                                  *)
(*                                                                         *)
(* DbKindState, for any writers, properties and size of the table: the     *)
(* table of tokens only grows, so that a token taken from an older copy    *)
(* of it still stands for the same property.                               *)
(***************************************************************************)
EXTENDS DbQuota, DbKindState, NatSetTheorems, SequenceTheorems, TLAPS

-----------------------------------------------------------------------------
(* Sums *)

\* Functions that agree have the same sum.
LEMMA SumSame ==
  ASSUME NEW D, IsFiniteSet(D), NEW f, NEW g, \A x \in D : f[x] \in Int /\ g[x] = f[x]
  PROVE  SumOver(g, D) = SumOver(f, D)
<1> DEFINE z == [x \in D |-> 0]
<1>1. \A x \in D : f[x] \in Int /\ z[x] \in Int /\ g[x] = f[x] + z[x]
  OBVIOUS
<1>2. \A x \in D : z[x] = 0
  OBVIOUS
<1> HIDE DEF z
<1>3. SumOver(g, D) = SumOver(f, D) + SumOver(z, D)
  BY <1>1, SumAdd
<1>4. SumOver(z, D) = 0
  BY <1>2, SumZero
<1>5. SumOver(f, D) \in Int
  BY SumRemove
<1> QED BY <1>3, <1>4, <1>5

\* A function that is nowhere greater has no greater sum.
LEMMA SumLess ==
  ASSUME NEW D, IsFiniteSet(D), NEW f, NEW g, \A x \in D : f[x] \in Int /\ g[x] \in Int /\ f[x] <= g[x]
  PROVE  SumOver(f, D) <= SumOver(g, D)
<1> DEFINE h == [x \in D |-> g[x] - f[x]]
<1>1. \A x \in D : f[x] \in Int /\ h[x] \in Int /\ g[x] = f[x] + h[x]
  OBVIOUS
<1>2. \A x \in D : h[x] \in Nat
  OBVIOUS
<1> HIDE DEF h
<1>3. SumOver(g, D) = SumOver(f, D) + SumOver(h, D)
  BY <1>1, SumAdd
<1>4. SumOver(h, D) \in Nat
  BY <1>2, SumNat
<1>5. SumOver(f, D) \in Int
  BY SumRemove
<1> QED BY <1>3, <1>4, <1>5

-----------------------------------------------------------------------------
(* Quotas (DbQuota) *)

Offsets == [QuotaKinds -> Int]

TxnRec == [pc : {"idle", "open", "usage", "committed"}, offset : Offsets, new : Offsets, touched : SUBSET QuotaKinds]

\* What a transaction has still to add to the quota, and what it is about to take
\* from a kind.
DueOf(r) == IF r.pc = "committed" THEN SumOver(r.offset, QuotaKinds) ELSE 0
Due(x) == [t \in Txns |-> DueOf(x[t])]

Taking(r, k) == IF r.pc \in {"open", "usage"} /\ r.offset[k] < 0 THEN r.offset[k] ELSE 0
Takers(x, k) == [t \in Txns |-> Taking(x[t], k)]

QuotaTypes ==
  /\ locking \in BOOLEAN /\ used \in Int /\ drifted \in BOOLEAN
  /\ usage \in [QuotaKinds -> Int \cup {NoUsage}] /\ real \in [QuotaKinds -> Int]
  /\ txn \in [Txns -> TxnRec]

\* A transaction has offsets for what it touched, and a kind without a record has
\* nothing stored.
RecordsInv ==
  /\ \A t \in Txns : \A k \in QuotaKinds \ txn[t].touched : txn[t].offset[k] = 0
  /\ \A k \in QuotaKinds : usage[k] = NoUsage => real[k] = 0

UsedInv == ~drifted => used = SumOver(real, QuotaKinds) - SumOver(Due(txn), Txns)

\* Under locks a transaction writes the record it has read plus its offset.
LockedTxn(t) ==
  txn[t].pc = "usage" =>
    /\ \A k \in txn[t].touched : txn[t].new[k] = NewUsage(usage[k], txn[t].offset[k])
    /\ \A o \in Txns \ {t} : txn[o].pc = "usage" => txn[o].touched \cap txn[t].touched = {}

LockedInv ==
  locking => /\ ~drifted
             /\ \A k \in QuotaKinds : usage[k] \in {NoUsage, real[k]}
             /\ \A t \in Txns : LockedTxn(t)

\* What the open transactions take is there.
RoomInv == \A k \in QuotaKinds : real[k] + SumOver(Takers(txn, k), Txns) >= 0

QuotaInv == QuotaTypes /\ RecordsInv /\ UsedInv /\ LockedInv /\ RoomInv

\* The sums are over finite sets of numbers.
LEMMA SumsInt ==
  ASSUME NEW x \in [Txns -> TxnRec]
  PROVE  /\ \A t \in Txns : DueOf(x[t]) \in Int /\ Due(x)[t] = DueOf(x[t])
         /\ \A t \in Txns, k \in QuotaKinds :
              Taking(x[t], k) \in Int /\ Taking(x[t], k) <= 0 /\ Takers(x, k)[t] = Taking(x[t], k)
         /\ SumOver(Due(x), Txns) \in Int
         /\ \A k \in QuotaKinds : SumOver(Takers(x, k), Txns) \in Int
<1>1. IsFiniteSet(Txns) /\ IsFiniteSet(QuotaKinds)
  BY QuotaAssumption DEF QuotaAssumption
<1>2. \A t \in Txns : x[t] \in TxnRec /\ x[t].offset \in [QuotaKinds -> Int]
  BY DEF TxnRec, Offsets
<1>3. \A t \in Txns : SumOver(x[t].offset, QuotaKinds) \in Int
  BY <1>1, <1>2, SumRemove
<1>4. \A t \in Txns : DueOf(x[t]) \in Int /\ Due(x)[t] = DueOf(x[t])
  BY <1>3 DEF DueOf, Due
<1>5. \A t \in Txns, k \in QuotaKinds :
        Taking(x[t], k) \in Int /\ Taking(x[t], k) <= 0 /\ Takers(x, k)[t] = Taking(x[t], k)
  BY <1>2 DEF Taking, Takers
<1>6. SumOver(Due(x), Txns) \in Int
  BY <1>1, <1>4, SumRemove
<1>7. ASSUME NEW k \in QuotaKinds PROVE SumOver(Takers(x, k), Txns) \in Int
  <2>1. \A t \in Txns : Takers(x, k)[t] \in Int
    BY <1>5
  <2> QED BY <1>1, <2>1, SumRemove
<1> QED BY <1>4, <1>5, <1>6, <1>7

\* A step of one transaction and its effect on the sums.
LEMMA TxnStep ==
  ASSUME QuotaTypes, NEW t \in Txns, NEW r \in TxnRec, txn' = [txn EXCEPT ![t] = r]
  PROVE  /\ txn' \in [Txns -> TxnRec] /\ txn'[t] = r /\ \A o \in Txns \ {t} : txn'[o] = txn[o]
         /\ SumOver(Due(txn'), Txns) = SumOver(Due(txn), Txns) - DueOf(txn[t]) + DueOf(r)
         /\ \A k \in QuotaKinds :
              SumOver(Takers(txn', k), Txns) = SumOver(Takers(txn, k), Txns) - Taking(txn[t], k) + Taking(r, k)
<1> DEFINE x == txn'
           y == txn
<1>1. /\ x \in [Txns -> TxnRec] /\ x[t] = r /\ y \in [Txns -> TxnRec]
      /\ \A o \in Txns \ {t} : x[o] = y[o]
  BY DEF QuotaTypes
<1> HIDE DEF x, y
<1>2. IsFiniteSet(Txns)
  BY QuotaAssumption DEF QuotaAssumption
<1>3. SumOver(Due(x), Txns) = SumOver(Due(y), Txns) - DueOf(y[t]) + DueOf(r)
  <2> DEFINE f == Due(y)
             g == Due(x)
  <2>1. (\A o \in Txns : f[o] \in Int /\ f[o] = DueOf(y[o])) /\ (\A o \in Txns : g[o] \in Int /\ g[o] = DueOf(x[o]))
    BY <1>1, SumsInt
  <2> HIDE DEF f, g
  <2>2. \A o \in Txns \ {t} : g[o] = f[o]
    BY <1>1, <2>1
  <2>3. SumOver(g, Txns) = SumOver(f, Txns) - f[t] + g[t]
    BY <1>2, <2>1, <2>2, SumUpdate
  <2> QED BY <1>1, <2>1, <2>3 DEF f, g
<1>4. ASSUME NEW k \in QuotaKinds
      PROVE  SumOver(Takers(x, k), Txns) = SumOver(Takers(y, k), Txns) - Taking(y[t], k) + Taking(r, k)
  <2> DEFINE f == Takers(y, k)
             g == Takers(x, k)
  <2>1. (\A o \in Txns : f[o] \in Int /\ f[o] = Taking(y[o], k)) /\ (\A o \in Txns : g[o] \in Int /\ g[o] = Taking(x[o], k))
    BY <1>1, SumsInt
  <2> HIDE DEF f, g
  <2>2. \A o \in Txns \ {t} : g[o] = f[o]
    BY <1>1, <2>1
  <2>3. SumOver(g, Txns) = SumOver(f, Txns) - f[t] + g[t]
    BY <1>2, <2>1, <2>2, SumUpdate
  <2> QED BY <1>1, <2>1, <2>3 DEF f, g
<1> QED BY <1>1, <1>3, <1>4 DEF x, y

\* All that the open transactions take of a kind is no less than what one takes.
LEMMA TakersLeast ==
  ASSUME NEW x \in [Txns -> TxnRec], NEW k \in QuotaKinds
  PROVE  /\ SumOver(Takers(x, k), Txns) <= 0
         /\ \A t \in Txns : SumOver(Takers(x, k), Txns) <= Taking(x[t], k)
<1> DEFINE f == Takers(x, k)
           z == [o \in Txns |-> 0]
<1>1. IsFiniteSet(Txns)
  BY QuotaAssumption DEF QuotaAssumption
<1>2. \A o \in Txns : f[o] \in Int /\ f[o] <= 0 /\ f[o] = Taking(x[o], k)
  BY SumsInt
<1>3. \A o \in Txns : z[o] \in Int /\ z[o] = 0
  OBVIOUS
<1> HIDE DEF f, z
<1>4. SumOver(z, Txns) = 0
  BY <1>1, <1>3, SumZero
<1>5. SumOver(f, Txns) <= 0
  <2>1. \A o \in Txns : f[o] \in Int /\ z[o] \in Int /\ f[o] <= z[o]
    BY <1>2, <1>3
  <2> QED BY <1>1, <1>4, <2>1, SumLess
<1>6. ASSUME NEW t \in Txns PROVE SumOver(f, Txns) <= f[t]
  <2> DEFINE g == [o \in Txns |-> IF o = t THEN f[t] ELSE 0]
  <2>1. \A o \in Txns : f[o] \in Int /\ g[o] \in Int /\ f[o] <= g[o]
    BY <1>2
  <2>2. (\A o \in Txns : z[o] \in Int /\ g[o] \in Int) /\ (\A o \in Txns \ {t} : g[o] = z[o]) /\ g[t] = f[t]
    BY <1>2, <1>3
  <2> HIDE DEF g
  <2>3. SumOver(f, Txns) <= SumOver(g, Txns)
    BY <1>1, <2>1, SumLess
  <2>4. SumOver(g, Txns) = SumOver(z, Txns) - z[t] + g[t]
    BY <1>1, <2>2, SumUpdate
  <2>5. SumOver(g, Txns) = f[t]
    BY <1>2, <1>3, <1>4, <2>2, <2>4
  <2> QED BY <2>3, <2>5
<1> QED BY <1>2, <1>5, <1>6 DEF f

\* A record that a transaction has read under locks.
ReadLocked(t, r) ==
  r.pc = "usage" =>
    /\ \A k \in r.touched : r.new[k] = NewUsage(usage[k], r.offset[k])
    /\ \A o \in Txns \ {t} : txn[o].pc = "usage" => txn[o].touched \cap r.touched = {}

\* A step of one transaction, before or after it commits, keeps the invariant if it
\* adds to the quota what it no longer owes and takes only what there is.
LEMMA StepKeeps ==
  ASSUME QuotaInv, NEW t \in Txns, NEW r \in TxnRec, txn' = [txn EXCEPT ![t] = r],
         UNCHANGED <<locking, usage, real, drifted>>,
         used' = used + DueOf(txn[t]) - DueOf(r),
         \A k \in QuotaKinds \ r.touched : r.offset[k] = 0,
         locking => ReadLocked(t, r),
         \A k \in QuotaKinds :
           Taking(txn[t], k) <= Taking(r, k) \/ real[k] + SumOver(Takers(txn, k), Txns) + Taking(r, k) >= 0
  PROVE  QuotaInv'
<1> USE DEF QuotaInv
<1>1. /\ txn' \in [Txns -> TxnRec] /\ txn'[t] = r /\ \A o \in Txns \ {t} : txn'[o] = txn[o]
      /\ SumOver(Due(txn'), Txns) = SumOver(Due(txn), Txns) - DueOf(txn[t]) + DueOf(r)
      /\ \A k \in QuotaKinds :
           SumOver(Takers(txn', k), Txns) = SumOver(Takers(txn, k), Txns) - Taking(txn[t], k) + Taking(r, k)
  BY TxnStep
<1>2. txn \in [Txns -> TxnRec] /\ used \in Int /\ \A k \in QuotaKinds : real[k] \in Int
  BY DEF QuotaTypes
<1>3. /\ DueOf(txn[t]) \in Int /\ DueOf(r) \in Int /\ SumOver(Due(txn), Txns) \in Int
      /\ \A k \in QuotaKinds : /\ Taking(txn[t], k) \in Int /\ Taking(r, k) \in Int /\ Taking(txn[t], k) <= 0
                               /\ SumOver(Takers(txn, k), Txns) \in Int
  <2>1. DueOf(txn'[t]) \in Int /\ \A k \in QuotaKinds : Taking(txn'[t], k) \in Int
    BY <1>1, SumsInt
  <2> QED BY <1>1, <1>2, <2>1, SumsInt
<1>4. QuotaTypes'
  BY <1>1, <1>2, <1>3 DEF QuotaTypes
<1>5. RecordsInv'
  <2>1. ASSUME NEW o \in Txns PROVE \A k \in QuotaKinds \ txn'[o].touched : txn'[o].offset[k] = 0
    <3>1. CASE o = t
      BY <1>1, <3>1
    <3>2. CASE o # t
      BY <1>1, <3>2 DEF RecordsInv
    <3> QED BY <3>1, <3>2
  <2> QED BY <2>1 DEF RecordsInv
<1>6. UsedInv'
  <2>1. SumOver(real, QuotaKinds) \in Int
    BY <1>2, QuotaAssumption, SumRemove DEF QuotaAssumption
  <2>2. SumOver(real', QuotaKinds) = SumOver(real, QuotaKinds)
    OBVIOUS
  <2>3. ~drifted' => used' = SumOver(real, QuotaKinds) - SumOver(Due(txn'), Txns)
    BY <1>1, <1>2, <1>3, <2>1 DEF UsedInv
  <2> QED BY <2>2, <2>3 DEF UsedInv
<1>7. LockedInv'
  <2> SUFFICES ASSUME locking PROVE \A o \in Txns : LockedTxn(o)'
    BY DEF LockedInv
  <2>1. ReadLocked(t, r) /\ \A o \in Txns : LockedTxn(o)
    BY DEF LockedInv
  <2>2. LockedTxn(t)'
    BY <1>1, <2>1 DEF LockedTxn, ReadLocked, NewUsage
  <2>3. ASSUME NEW o \in Txns \ {t} PROVE LockedTxn(o)'
    BY <1>1, <2>1 DEF LockedTxn, ReadLocked, NewUsage
  <2> QED BY <2>2, <2>3
<1>8. RoomInv'
  <2>1. ASSUME NEW k \in QuotaKinds PROVE real[k] + SumOver(Takers(txn', k), Txns) >= 0
    <3> DEFINE S == SumOver(Takers(txn, k), Txns)
               S2 == SumOver(Takers(txn', k), Txns)
               a == Taking(txn[t], k)
               b == Taking(r, k)
    <3>1. S2 = S - a + b /\ S \in Int /\ a \in Int /\ b \in Int /\ a <= 0 /\ real[k] \in Int
      BY <1>1, <1>2, <1>3
    <3>2. real[k] + S >= 0
      BY DEF RoomInv
    <3>3. a <= b \/ real[k] + S + b >= 0
      OBVIOUS
    <3> HIDE DEF S, S2, a, b
    <3>4. real[k] + S2 >= 0
      BY <3>1, <3>2, <3>3
    <3> QED BY <3>4 DEF S2
  <2> QED BY <2>1 DEF RoomInv
<1> QED BY <1>4, <1>5, <1>6, <1>7, <1>8

\* A transaction that is not yet at its commit owes nothing.
LEMMA Unbegun == Idle \in TxnRec /\ DueOf(Idle) = 0 /\ \A k \in QuotaKinds : Taking(Idle, k) = 0
  BY DEF Idle, TxnRec, Offsets, DueOf, Taking

\* What has been opened owes nothing and takes nothing.
LEMMA BeginKeeps == ASSUME QuotaInv, NEW t \in Txns, Begin(t) PROVE QuotaInv'
<1> DEFINE r == [Idle EXCEPT !.pc = "open"]
<1>1. r \in TxnRec /\ DueOf(r) = 0 /\ (\A k \in QuotaKinds : r.offset[k] = 0 /\ Taking(r, k) = 0) /\ r.pc # "usage"
  BY DEF Idle, TxnRec, Offsets, DueOf, Taking
<1>2. txn' = [txn EXCEPT ![t] = r] /\ txn[t].pc = "idle" /\ UNCHANGED <<locking, size, used, usage, real, drifted>>
  BY DEF Begin
<1> HIDE DEF r
<1>3. used \in Int /\ DueOf(txn[t]) = 0 /\ \A k \in QuotaKinds : Taking(txn[t], k) = 0
  BY <1>2 DEF QuotaInv, QuotaTypes, DueOf, Taking
<1>4. used' = used + DueOf(txn[t]) - DueOf(r)
  BY <1>1, <1>2, <1>3
<1>5. ReadLocked(t, r)
  BY <1>1 DEF ReadLocked
<1>6. \A k \in QuotaKinds : Taking(txn[t], k) <= Taking(r, k)
  BY <1>1, <1>3
<1> QED BY <1>1, <1>2, <1>4, <1>5, <1>6, StepKeeps

\* A write that fails or a request that is aborted leaves nothing behind.
LEMMA IdleKeeps ==
  ASSUME QuotaInv, NEW t \in Txns, txn' = [txn EXCEPT ![t] = Idle],
         UNCHANGED <<locking, usage, real, drifted>>, used' = used + DueOf(txn[t])
  PROVE  QuotaInv'
<1>1. Idle.touched = {} /\ (\A k \in QuotaKinds : Idle.offset[k] = 0) /\ Idle.pc # "usage"
  BY DEF Idle
<1>2. txn \in [Txns -> TxnRec] /\ used \in Int
  BY DEF QuotaInv, QuotaTypes
<1>3. DueOf(txn[t]) \in Int /\ \A k \in QuotaKinds : Taking(txn[t], k) <= 0
  BY <1>2, SumsInt
<1>4. Idle \in TxnRec /\ DueOf(Idle) = 0 /\ \A k \in QuotaKinds : Taking(Idle, k) = 0
  BY Unbegun
<1>5. used' = used + DueOf(txn[t]) - DueOf(Idle)
  BY <1>2, <1>3, <1>4
<1>6. ReadLocked(t, Idle)
  BY <1>1 DEF ReadLocked
<1> QED BY <1>1, <1>3, <1>4, <1>5, <1>6, StepKeeps

\* What a write finds removable is no more than what the open transactions leave.
LEMMA RemovableRoom ==
  ASSUME QuotaInv, NEW k \in QuotaKinds
  PROVE  Removable(k) \in Int /\ Removable(k) <= real[k] + SumOver(Takers(txn, k), Txns)
<1> DEFINE f == [t \in Txns |-> IF txn[t].offset[k] < 0 THEN txn[t].offset[k] ELSE 0]
           g == Takers(txn, k)
<1>1. IsFiniteSet(Txns)
  BY QuotaAssumption DEF QuotaAssumption
<1>2. txn \in [Txns -> TxnRec] /\ real[k] \in Int
  BY DEF QuotaInv, QuotaTypes
<1>3. ASSUME NEW t \in Txns PROVE f[t] \in Int /\ g[t] \in Int /\ f[t] <= g[t]
  <2>1. txn[t].offset[k] \in Int
    BY <1>2 DEF TxnRec, Offsets
  <2>2. g[t] = Taking(txn[t], k)
    BY <1>2, SumsInt
  <2> QED BY <2>1, <2>2 DEF Taking
<1>4. Removable(k) = real[k] + SumOver(f, Txns)
  BY DEF Removable, SumOf, SumOver
<1> HIDE DEF f, g
<1>5. SumOver(f, Txns) <= SumOver(g, Txns) /\ SumOver(f, Txns) \in Int /\ SumOver(g, Txns) \in Int
  BY <1>1, <1>3, SumLess, SumRemove
<1> QED BY <1>2, <1>4, <1>5 DEF g

\* Write keeps the invariant.
LEMMA WriteKeeps == ASSUME QuotaInv, NEW t \in Txns, NEW k \in QuotaKinds, NEW n \in {1, -1}, Write(t, k, n) PROVE QuotaInv'
<1> DEFINE old == txn[t]
           new == old.offset[k] + n
           w == [old EXCEPT !.offset[k] = new, !.touched = @ \cup {k}]
           r == IF new > Available THEN Idle ELSE w
<1>1. /\ txn' = [txn EXCEPT ![t] = r] /\ UNCHANGED <<locking, size, used, usage, real, drifted>>
      /\ old.pc = "open" /\ k \notin old.touched /\ (n < 0 => Removable(k) + n >= 0)
  <2>1. txn' = [txn EXCEPT ![t] = r]
    BY Zenon DEF Write
  <2>2. UNCHANGED <<locking, size, used, usage, real, drifted>> /\ old.pc = "open" /\ k \notin old.touched
    BY DEF Write
  <2>3. n < 0 => Removable(k) + n >= 0
    BY DEF Write
  <2> QED BY <2>1, <2>2, <2>3
<1>2. old \in TxnRec /\ used \in Int /\ real[k] \in Int /\ txn \in [Txns -> TxnRec]
  BY DEF QuotaInv, QuotaTypes
<1>3. DueOf(old) = 0
  BY <1>1 DEF DueOf
<1>4. CASE new > Available
  <2>1. txn' = [txn EXCEPT ![t] = Idle]
    BY <1>1, <1>4
  <2>2. used' = used + DueOf(txn[t])
    BY <1>1, <1>2, <1>3
  <2> QED BY <1>1, <2>1, <2>2, IdleKeeps
<1>5. CASE ~(new > Available)
  <2>1. old.offset[k] = 0 /\ \A j \in QuotaKinds \ old.touched : old.offset[j] = 0
    BY <1>1 DEF QuotaInv, RecordsInv
  <2>2. new = n
    BY <2>1
  <2>3. /\ w \in TxnRec /\ w.pc = "open" /\ w.touched = old.touched \cup {k} /\ w.offset[k] = n
        /\ \A j \in QuotaKinds \ {k} : w.offset[j] = old.offset[j]
    <3> DEFINE off == [old.offset EXCEPT ![k] = new]
               ts == old.touched \cup {k}
    <3>1. w = [old EXCEPT !.offset = off, !.touched = ts]
      OBVIOUS
    <3>2. old.offset \in [QuotaKinds -> Int] /\ old.touched \in SUBSET QuotaKinds
      BY <1>2 DEF TxnRec, Offsets
    <3>3. off \in [QuotaKinds -> Int] /\ off[k] = n /\ (\A j \in QuotaKinds \ {k} : off[j] = old.offset[j]) /\ ts \in SUBSET QuotaKinds
      BY <2>2, <3>2
    <3> HIDE DEF off, ts, w
    <3>4. w \in TxnRec /\ w.pc = "open" /\ w.touched = ts /\ w.offset = off
      BY <1>1, <1>2, <3>1, <3>3 DEF TxnRec, Offsets
    <3> QED BY <3>3, <3>4 DEF ts
  <2>4. txn' = [txn EXCEPT ![t] = w]
    BY <1>1, <1>5
  <2> HIDE DEF w
  <2>5. DueOf(w) = 0
    BY <2>3 DEF DueOf
  <2>6. used' = used + DueOf(txn[t]) - DueOf(w)
    BY <1>1, <1>2, <1>3, <2>5
  <2>7. \A j \in QuotaKinds \ w.touched : w.offset[j] = 0
    BY <2>1, <2>3
  <2>8. ReadLocked(t, w)
    BY <2>3 DEF ReadLocked
  <2>9. \A j \in QuotaKinds \ {k} : Taking(w, j) = Taking(old, j) /\ Taking(old, j) \in Int
    <3>1. \A j \in QuotaKinds : Taking(old, j) \in Int
      BY <1>2, SumsInt
    <3> QED BY <1>1, <2>3, <3>1 DEF Taking
  <2>10. Taking(old, k) <= Taking(w, k) \/ real[k] + SumOver(Takers(txn, k), Txns) + Taking(w, k) >= 0
    <3>1. CASE n = 1
      BY <1>1, <2>1, <2>3, <3>1 DEF Taking
    <3>2. CASE n = -1
      <4>1. Taking(w, k) = -1
        BY <2>3, <3>2 DEF Taking
      <4>2. Removable(k) \in Int /\ Removable(k) <= real[k] + SumOver(Takers(txn, k), Txns)
        BY RemovableRoom
      <4>3. SumOver(Takers(txn, k), Txns) \in Int
        BY <1>2, SumsInt
      <4>4. Removable(k) - 1 >= 0
        BY <1>1, <3>2, <4>2
      <4> QED BY <1>2, <4>1, <4>2, <4>3, <4>4
    <3> QED BY <3>1, <3>2
  <2>11. \A j \in QuotaKinds :
           Taking(txn[t], j) <= Taking(w, j) \/ real[j] + SumOver(Takers(txn, j), Txns) + Taking(w, j) >= 0
    BY <2>9, <2>10
  <2> QED BY <1>1, <2>3, <2>4, <2>6, <2>7, <2>8, <2>11, StepKeeps
<1> QED BY <1>4, <1>5

\* ApplyUsage keeps the invariant.
LEMMA ApplyUsageKeeps == ASSUME QuotaInv, NEW t \in Txns, ApplyUsage(t) PROVE QuotaInv'
<1> DEFINE old == txn[t]
           new == [k \in QuotaKinds |-> IF k \in old.touched THEN NewUsage(usage[k], old.offset[k]) ELSE 0]
           r == [old EXCEPT !.pc = "usage", !.new = new]
<1>1. /\ txn' = [txn EXCEPT ![t] = r] /\ UNCHANGED <<locking, size, used, usage, real, drifted>>
      /\ old.pc = "open"
      /\ locking => \A o \in Txns \ {t} : txn[o].pc = "usage" => txn[o].touched \cap old.touched = {}
  BY DEF ApplyUsage, QuotaInv, QuotaTypes
<1>2. old \in TxnRec /\ used \in Int /\ txn \in [Txns -> TxnRec] /\ \A k \in QuotaKinds : usage[k] \in Int \cup {NoUsage}
  BY DEF QuotaInv, QuotaTypes
<1>3. new \in Offsets
  <2>1. \A k \in QuotaKinds : old.offset[k] \in Int
    BY <1>2 DEF TxnRec, Offsets
  <2>2. \A k \in QuotaKinds : NewUsage(usage[k], old.offset[k]) \in Int
    BY <1>2, <2>1 DEF NewUsage
  <2> QED BY <2>2 DEF Offsets
<1>4. \A k \in old.touched : k \in QuotaKinds /\ new[k] = NewUsage(usage[k], old.offset[k])
  BY <1>2 DEF TxnRec
<1> HIDE DEF new
<1>5. r \in TxnRec /\ r.pc = "usage" /\ r.touched = old.touched /\ r.offset = old.offset /\ r.new = new
  BY <1>2, <1>3 DEF TxnRec
<1> HIDE DEF r
<1>6. DueOf(old) = 0 /\ DueOf(r) = 0
  BY <1>1, <1>5 DEF DueOf
<1>7. used' = used + DueOf(txn[t]) - DueOf(r)
  BY <1>1, <1>2, <1>6
<1>8. \A k \in QuotaKinds \ r.touched : r.offset[k] = 0
  BY <1>5 DEF QuotaInv, RecordsInv
<1>9. locking => ReadLocked(t, r)
  BY <1>1, <1>4, <1>5 DEF ReadLocked
<1>10. \A k \in QuotaKinds : Taking(txn[t], k) <= Taking(r, k)
  <2>1. \A k \in QuotaKinds : Taking(old, k) \in Int
    BY <1>2, SumsInt
  <2> QED BY <1>1, <1>5, <2>1 DEF Taking
<1> QED BY <1>1, <1>5, <1>7, <1>8, <1>9, <1>10, StepKeeps

\* Abort keeps the invariant.
LEMMA AbortKeeps == ASSUME QuotaInv, NEW t \in Txns, AbortOffsets(t) PROVE QuotaInv'
<1>1. DueOf(txn[t]) = 0 /\ used \in Int
  BY DEF AbortOffsets, DueOf, QuotaInv, QuotaTypes
<1>2. used' = used + DueOf(txn[t])
  BY <1>1 DEF AbortOffsets
<1> QED BY <1>2, IdleKeeps DEF AbortOffsets

\* ApplyQuota keeps the invariant.
LEMMA ApplyQuotaKeeps == ASSUME QuotaInv, NEW t \in Txns, ApplyQuota(t) PROVE QuotaInv'
<1>1. DueOf(txn[t]) = SumOver(txn[t].offset, QuotaKinds)
  BY DEF ApplyQuota, DueOf
<1>2. used' = used + DueOf(txn[t])
  BY <1>1 DEF ApplyQuota, ApplyOffsets, SumOf, SumOver
<1> QED BY <1>2, IdleKeeps DEF ApplyQuota

\* A commit moves what the transaction offsets from the quota it has still to be
\* added to, into what is stored; under locks its records are then right.
LEMMA CommitKeeps == ASSUME QuotaInv, NEW t \in Txns, CommitImpl(t) PROVE QuotaInv'
<1> DEFINE old == txn[t]
           r == [old EXCEPT !.pc = "committed"]
<1>1. /\ txn' = [txn EXCEPT ![t] = r] /\ UNCHANGED <<locking, used, drifted>> /\ old.pc = "usage"
      /\ usage' = [k \in QuotaKinds |-> IF k \in old.touched THEN old.new[k] ELSE usage[k]]
      /\ real' = [k \in QuotaKinds |-> real[k] + old.offset[k]]
  BY DEF CommitImpl
<1>2. /\ old \in TxnRec /\ used \in Int /\ txn \in [Txns -> TxnRec]
      /\ \A k \in QuotaKinds : usage[k] \in Int \cup {NoUsage} /\ real[k] \in Int
  BY DEF QuotaInv, QuotaTypes
<1>3. /\ old.touched \in SUBSET QuotaKinds
      /\ \A k \in QuotaKinds : old.offset[k] \in Int /\ old.new[k] \in Int
  BY <1>2 DEF TxnRec, Offsets
<1>4. r \in TxnRec /\ r.pc = "committed" /\ r.touched = old.touched /\ r.offset = old.offset
  BY <1>2 DEF TxnRec
<1> HIDE DEF r
<1>5. IsFiniteSet(QuotaKinds) /\ IsFiniteSet(Txns) /\ NoUsage \notin Int
  BY QuotaAssumption DEF QuotaAssumption
<1>6. QuotaTypes
  BY DEF QuotaInv
<1>7. /\ txn' \in [Txns -> TxnRec] /\ txn'[t] = r /\ \A o \in Txns \ {t} : txn'[o] = txn[o]
      /\ SumOver(Due(txn'), Txns) = SumOver(Due(txn), Txns) - DueOf(old) + DueOf(r)
      /\ \A k \in QuotaKinds :
           SumOver(Takers(txn', k), Txns) = SumOver(Takers(txn, k), Txns) - Taking(old, k) + Taking(r, k)
  BY <1>1, <1>4, <1>6, TxnStep
<1>8. \A k \in QuotaKinds : k \notin old.touched => old.offset[k] = 0
  BY DEF QuotaInv, RecordsInv
<1>9. \A k \in QuotaKinds : real'[k] = real[k] + old.offset[k] /\ real'[k] \in Int
  BY <1>1, <1>2, <1>3
<1>10. \A k \in QuotaKinds : usage'[k] = IF k \in old.touched THEN old.new[k] ELSE usage[k]
  BY <1>1
<1>11. QuotaTypes'
  <2>1. used' \in Int /\ locking' \in BOOLEAN /\ drifted' \in BOOLEAN
    BY <1>1, <1>6 DEF QuotaTypes
  <2>2. usage' \in [QuotaKinds -> Int \cup {NoUsage}]
    BY <1>1, <1>2, <1>3
  <2>3. real' \in [QuotaKinds -> Int]
    BY <1>1, <1>2, <1>3
  <2> QED BY <1>7, <2>1, <2>2, <2>3 DEF QuotaTypes
<1>12. RecordsInv'
  <2>1. ASSUME NEW o \in Txns PROVE \A k \in QuotaKinds \ txn'[o].touched : txn'[o].offset[k] = 0
    <3>1. CASE o = t
      BY <1>4, <1>7, <1>8, <3>1
    <3>2. CASE o # t
      BY <1>7, <3>2 DEF QuotaInv, RecordsInv
    <3> QED BY <3>1, <3>2
  <2>2. ASSUME NEW k \in QuotaKinds, usage'[k] = NoUsage PROVE real'[k] = 0
    <3>1. k \notin old.touched /\ usage[k] = NoUsage
      BY <1>3, <1>5, <1>10, <2>2
    <3>2. real[k] = 0 /\ old.offset[k] = 0
      BY <1>8, <3>1 DEF QuotaInv, RecordsInv
    <3> QED BY <1>9, <3>2
  <2> QED BY <2>1, <2>2 DEF RecordsInv
<1>13. UsedInv'
  <2> SUFFICES ASSUME ~drifted' PROVE used' = SumOver(real', QuotaKinds) - SumOver(Due(txn'), Txns)
    BY DEF UsedInv
  <2> DEFINE f == real
             g == old.offset
             h == real'
             a == SumOver(Due(txn), Txns)
             b == SumOver(Due(txn'), Txns)
  <2>1. used = SumOver(f, QuotaKinds) - a
    BY <1>1 DEF QuotaInv, UsedInv
  <2>2. \A k \in QuotaKinds : f[k] \in Int /\ g[k] \in Int /\ h[k] = f[k] + g[k]
    BY <1>2, <1>3, <1>9
  <2>3. b = a + SumOver(g, QuotaKinds) /\ a \in Int
    <3>1. DueOf(old) = 0 /\ DueOf(r) = SumOver(g, QuotaKinds)
      BY <1>1, <1>4 DEF DueOf
    <3>2. a \in Int /\ DueOf(r) \in Int
      BY <1>2, <1>7, SumsInt
    <3> QED BY <1>7, <3>1, <3>2
  <2> HIDE DEF f, g, h, a, b
  <2>4. SumOver(h, QuotaKinds) = SumOver(f, QuotaKinds) + SumOver(g, QuotaKinds)
    BY <1>5, <2>2, SumAdd
  <2>5. SumOver(f, QuotaKinds) \in Int /\ SumOver(g, QuotaKinds) \in Int
    BY <1>5, <2>2, SumRemove
  <2>6. used = SumOver(h, QuotaKinds) - b
    BY <2>1, <2>3, <2>4, <2>5
  <2> QED BY <1>1, <2>6 DEF h, b
<1>14. LockedInv'
  <2> SUFFICES ASSUME locking'
               PROVE  /\ ~drifted' /\ \A k \in QuotaKinds : usage'[k] \in {NoUsage, real'[k]}
                      /\ \A o \in Txns : LockedTxn(o)'
    BY DEF LockedInv
  <2>1. /\ ~drifted /\ \A k \in QuotaKinds : usage[k] \in {NoUsage, real[k]}
        /\ \A o \in Txns : LockedTxn(o)
    BY <1>1 DEF QuotaInv, LockedInv
  <2>2. ASSUME NEW k \in QuotaKinds PROVE usage'[k] \in {NoUsage, real'[k]}
    <3>1. CASE k \in old.touched
      <4>1. usage'[k] = NewUsage(usage[k], old.offset[k])
        BY <1>1, <1>10, <2>1, <3>1 DEF LockedTxn
      <4>2. CASE usage[k] = NoUsage
        BY <1>3, <1>9, <4>1, <4>2 DEF NewUsage, QuotaInv, RecordsInv
      <4>3. CASE usage[k] # NoUsage
        BY <1>9, <2>1, <4>1, <4>3 DEF NewUsage
      <4> QED BY <4>2, <4>3
    <3>2. CASE k \notin old.touched
      BY <1>2, <1>8, <1>9, <1>10, <2>1, <3>2
    <3> QED BY <3>1, <3>2
  <2>3. LockedTxn(t)'
    BY <1>4, <1>7 DEF LockedTxn
  <2>4. ASSUME NEW o \in Txns \ {t} PROVE LockedTxn(o)'
    <3> SUFFICES ASSUME txn'[o].pc = "usage"
                 PROVE  /\ \A k \in txn'[o].touched : txn'[o].new[k] = NewUsage(usage'[k], txn'[o].offset[k])
                        /\ \A p \in Txns \ {o} : txn'[p].pc = "usage" => txn'[p].touched \cap txn'[o].touched = {}
      BY DEF LockedTxn, NewUsage
    <3>1. txn'[o] = txn[o] /\ txn[o].pc = "usage" /\ txn[o].touched \in SUBSET QuotaKinds
      BY <1>2, <1>7 DEF TxnRec
    <3>2. /\ \A k \in txn[o].touched : txn[o].new[k] = NewUsage(usage[k], txn[o].offset[k])
          /\ \A p \in Txns \ {o} : txn[p].pc = "usage" => txn[p].touched \cap txn[o].touched = {}
      BY <2>1, <3>1 DEF LockedTxn
    <3>3. \A k \in txn[o].touched : usage'[k] = usage[k]
      BY <1>1, <1>10, <3>1, <3>2
    <3>4. \A p \in Txns \ {o} : txn'[p].pc = "usage" => txn[p].pc = "usage" /\ txn'[p].touched = txn[p].touched
      BY <1>4, <1>7
    <3> QED BY <3>1, <3>2, <3>3, <3>4
  <2> QED BY <1>1, <2>1, <2>2, <2>3, <2>4
<1>15. RoomInv'
  <2>1. ASSUME NEW k \in QuotaKinds PROVE real'[k] + SumOver(Takers(txn', k), Txns) >= 0
    <3> DEFINE S == SumOver(Takers(txn, k), Txns)
               S2 == SumOver(Takers(txn', k), Txns)
               a == Taking(old, k)
    <3>1. S2 = S - a /\ S \in Int /\ a \in Int
      <4>1. Taking(r, k) = 0
        BY <1>4 DEF Taking
      <4>2. S \in Int /\ a \in Int
        BY <1>2, SumsInt
      <4> QED BY <1>7, <4>1, <4>2
    <3>2. a <= old.offset[k]
      BY <1>1, <1>3 DEF Taking
    <3>3. real[k] + S >= 0
      BY DEF QuotaInv, RoomInv
    <3> HIDE DEF S, S2, a
    <3>4. real'[k] + S2 >= 0
      BY <1>2, <1>3, <1>9, <3>1, <3>2, <3>3
    <3> QED BY <3>4 DEF S2
  <2> QED BY <2>1 DEF RoomInv
<1> QED BY <1>11, <1>12, <1>13, <1>14, <1>15 DEF QuotaInv

\* What is read anew is what is stored unless it drifted, and nothing is owed when
\* no transaction is open.
LEMMA NothingDue ==
  ASSUME NEW x \in [Txns -> TxnRec], \A t \in Txns : x[t].pc = "idle"
  PROVE  SumOver(Due(x), Txns) = 0 /\ \A k \in QuotaKinds : SumOver(Takers(x, k), Txns) = 0
<1>1. IsFiniteSet(Txns)
  BY QuotaAssumption DEF QuotaAssumption
<1>2. \A t \in Txns : Due(x)[t] = 0
  BY DEF Due, DueOf
<1>3. \A k \in QuotaKinds : \A t \in Txns : Takers(x, k)[t] = 0
  BY DEF Takers, Taking
<1>4. SumOver(Due(x), Txns) = 0
  BY <1>1, <1>2, SumZero
<1>5. ASSUME NEW k \in QuotaKinds PROVE SumOver(Takers(x, k), Txns) = 0
  <2>1. \A t \in Txns : Takers(x, k)[t] = 0
    BY <1>3
  <2> QED BY <1>1, <2>1, SumZero
<1> QED BY <1>4, <1>5

\* Records that are right, or of kinds with nothing stored, add up to what is stored.
LEMMA RefreshRight ==
  ASSUME NEW u, NEW f, \A k \in QuotaKinds : f[k] \in Int /\ u[k] \in {NoUsage, f[k]} /\ (u[k] = NoUsage => f[k] = 0)
  PROVE  Refresh(u) = SumOver(f, QuotaKinds)
<1> DEFINE g == [k \in QuotaKinds |-> IF u[k] = NoUsage THEN 0 ELSE u[k]]
<1>1. \A k \in QuotaKinds : f[k] \in Int /\ g[k] = f[k]
  OBVIOUS
<1>2. Refresh(u) = SumOver(g, QuotaKinds)
  BY DEF Refresh, SumOf, SumOver
<1> HIDE DEF g
<1> QED BY <1>1, <1>2, SumSame, QuotaAssumption DEF QuotaAssumption

\* A refresh of records is a number.
LEMMA RefreshInt == ASSUME NEW u, \A k \in QuotaKinds : u[k] \in Int \cup {NoUsage} PROVE Refresh(u) \in Int
<1> DEFINE g == [k \in QuotaKinds |-> IF u[k] = NoUsage THEN 0 ELSE u[k]]
<1>1. \A k \in QuotaKinds : g[k] \in Int
  OBVIOUS
<1>2. Refresh(u) = SumOver(g, QuotaKinds)
  BY DEF Refresh, SumOf, SumOver
<1> HIDE DEF g
<1> QED BY <1>1, <1>2, SumRemove, QuotaAssumption DEF QuotaAssumption

\* PutQuota keeps the invariant.
LEMMA PutQuotaKeeps == ASSUME QuotaInv, QuotaKindOwned = FALSE, NEW n \in 1 .. MaxSize, PutQuota(n) PROVE QuotaInv'
<1>1. /\ UNCHANGED <<locking, usage, real, txn>> /\ \A t \in Txns : txn[t].pc = "idle"
      /\ used' = Refresh(usage) + 0 /\ drifted' = (Refresh(usage) # SumOver(real, QuotaKinds))
  BY DEF PutQuota, SumOf, SumOver
<1>2. /\ txn \in [Txns -> TxnRec]
      /\ \A k \in QuotaKinds : usage[k] \in Int \cup {NoUsage} /\ real[k] \in Int
  BY DEF QuotaInv, QuotaTypes
<1>3. Refresh(usage) \in Int
  BY <1>2, RefreshInt
<1>4. QuotaTypes'
  <2>1. used' \in Int
    BY <1>1, <1>3
  <2>2. drifted' \in BOOLEAN
    BY <1>1, Zenon
  <2> QED BY <1>1, <2>1, <2>2 DEF QuotaInv, QuotaTypes
<1>5. RecordsInv'
  BY <1>1 DEF QuotaInv, RecordsInv
<1>6. UsedInv'
  <2>1. SumOver(Due(txn), Txns) = 0
    BY <1>1, <1>2, NothingDue
  <2>2. ~drifted' => used' = SumOver(real, QuotaKinds)
    <3>1. used' = Refresh(usage)
      BY <1>1, <1>3
    <3> QED BY <1>1, <3>1, Zenon
  <2>3. SumOver(real, QuotaKinds) \in Int
    BY <1>2, SumRemove, QuotaAssumption DEF QuotaAssumption
  <2>4. ~drifted' => used' = SumOver(real, QuotaKinds) - SumOver(Due(txn), Txns)
    BY <2>1, <2>2, <2>3
  <2> QED BY <1>1, <2>4 DEF UsedInv
<1>7. LockedInv'
  <2>1. ASSUME locking PROVE ~drifted'
    <3>1. \A k \in QuotaKinds : real[k] \in Int /\ usage[k] \in {NoUsage, real[k]} /\ (usage[k] = NoUsage => real[k] = 0)
      BY <1>2, <2>1 DEF QuotaInv, LockedInv, RecordsInv
    <3> QED BY <1>1, <3>1, RefreshRight
  <2> QED BY <1>1, <2>1 DEF QuotaInv, LockedInv, LockedTxn, NewUsage
<1>8. RoomInv'
  BY <1>1 DEF QuotaInv, RoomInv
<1> QED BY <1>4, <1>5, <1>6, <1>7, <1>8 DEF QuotaInv

\* ReadQuotas keeps the invariant.
LEMMA ReadQuotasKeeps == ASSUME QuotaInv, ReadQuotas PROVE QuotaInv'
<1> DEFINE u == InitUsage(usage)
           x == txn'
<1>1. /\ UNCHANGED <<locking, size, real>> /\ usage' = u /\ x = [t \in Txns |-> Idle]
      /\ used' = Refresh(u) /\ drifted' = (Refresh(u) # SumOver(real, QuotaKinds))
  BY DEF ReadQuotas, SumOf, SumOver
<1>2. /\ txn \in [Txns -> TxnRec]
      /\ \A k \in QuotaKinds : usage[k] \in Int \cup {NoUsage} /\ real[k] \in Int
  BY DEF QuotaInv, QuotaTypes
<1>3. NoUsage \notin Int
  BY QuotaAssumption DEF QuotaAssumption
<1>4. u \in [QuotaKinds -> Int] /\ \A k \in QuotaKinds : u[k] = IF usage[k] = NoUsage THEN real[k] ELSE usage[k]
  BY <1>2 DEF InitUsage
<1> HIDE DEF u
<1>5. x \in [Txns -> TxnRec] /\ \A t \in Txns : x[t] = Idle /\ x[t].pc = "idle"
  <2>1. Idle.pc = "idle"
    BY DEF Idle
  <2> QED BY <1>1, <2>1, Unbegun
<1> HIDE DEF x
<1>6. Refresh(u) \in Int
  <2>1. \A k \in QuotaKinds : u[k] \in Int \cup {NoUsage}
    BY <1>4
  <2> QED BY <2>1, RefreshInt
<1>7. SumOver(Due(x), Txns) = 0 /\ \A k \in QuotaKinds : SumOver(Takers(x, k), Txns) = 0
  BY <1>5, NothingDue
<1>8. QuotaTypes'
  <2>1. used' \in Int
    BY <1>1, <1>6
  <2>2. drifted' \in BOOLEAN
    BY <1>1, Zenon
  <2>3. usage' \in [QuotaKinds -> Int \cup {NoUsage}]
    BY <1>1, <1>4
  <2>4. real' \in [QuotaKinds -> Int] /\ locking' \in BOOLEAN
    BY <1>1 DEF QuotaInv, QuotaTypes
  <2>5. txn' \in [Txns -> TxnRec]
    BY <1>5 DEF x
  <2> QED BY <2>1, <2>2, <2>3, <2>4, <2>5 DEF QuotaTypes
<1>9. RecordsInv'
  <2>1. \A t \in Txns : \A k \in QuotaKinds \ x[t].touched : x[t].offset[k] = 0
    BY <1>5 DEF Idle
  <2>2. \A k \in QuotaKinds : usage'[k] = NoUsage => real'[k] = 0
    BY <1>1, <1>3, <1>4
  <2> QED BY <2>1, <2>2 DEF RecordsInv, x
<1>10. UsedInv'
  <2>1. ~drifted' => used' = SumOver(real, QuotaKinds)
    BY <1>1, Zenon
  <2>2. SumOver(real, QuotaKinds) \in Int
    BY <1>2, SumRemove, QuotaAssumption DEF QuotaAssumption
  <2>3. ~drifted' => used' = SumOver(real, QuotaKinds) - SumOver(Due(x), Txns)
    BY <1>7, <2>1, <2>2
  <2> QED BY <1>1, <2>3 DEF UsedInv, x
<1>11. LockedInv'
  <2> SUFFICES ASSUME locking
               PROVE  /\ ~drifted' /\ \A k \in QuotaKinds : usage'[k] \in {NoUsage, real'[k]}
                      /\ \A t \in Txns : LockedTxn(t)'
    BY <1>1 DEF LockedInv
  <2>1. \A k \in QuotaKinds : u[k] = real[k] /\ real[k] \in Int
    BY <1>2, <1>4 DEF QuotaInv, LockedInv
  <2>2. Refresh(u) = SumOver(real, QuotaKinds)
    <3>1. \A k \in QuotaKinds : real[k] \in Int /\ u[k] \in {NoUsage, real[k]} /\ (u[k] = NoUsage => real[k] = 0)
      BY <1>3, <2>1
    <3> QED BY <3>1, RefreshRight
  <2>3. \A t \in Txns : LockedTxn(t)'
    BY <1>5 DEF LockedTxn, x
  <2> QED BY <1>1, <2>1, <2>2, <2>3
<1>12. RoomInv'
  <2>1. ASSUME NEW k \in QuotaKinds PROVE real'[k] + SumOver(Takers(x, k), Txns) >= 0
    <3> DEFINE S == SumOver(Takers(txn, k), Txns)
    <3>1. S <= 0 /\ S \in Int
      BY <1>2, TakersLeast, SumsInt
    <3>2. real[k] + S >= 0
      BY DEF QuotaInv, RoomInv
    <3> HIDE DEF S
    <3>3. real[k] >= 0
      BY <1>2, <3>1, <3>2
    <3> QED BY <1>1, <1>2, <1>7, <3>3
  <2> QED BY <2>1 DEF RoomInv, x
<1> QED BY <1>8, <1>9, <1>10, <1>11, <1>12 DEF QuotaInv

\* At the start nothing is stored and nothing is charged.
LEMMA QuotaInvInit == ASSUME QuotaInit PROVE QuotaInv
<1> DEFINE f == real
<1>1. /\ txn = [t \in Txns |-> Idle] /\ used = 0 /\ drifted = FALSE /\ locking \in BOOLEAN
      /\ usage = [k \in QuotaKinds |-> NoUsage] /\ f = [k \in QuotaKinds |-> 0]
  BY DEF QuotaInit
<1>2. /\ txn \in [Txns -> TxnRec]
      /\ \A t \in Txns : txn[t] = Idle /\ txn[t].pc = "idle" /\ \A k \in QuotaKinds : txn[t].offset[k] = 0
  <2>1. Idle.pc = "idle" /\ \A k \in QuotaKinds : Idle.offset[k] = 0
    BY DEF Idle
  <2> QED BY <1>1, <2>1, Unbegun
<1>3. SumOver(Due(txn), Txns) = 0 /\ \A k \in QuotaKinds : SumOver(Takers(txn, k), Txns) = 0
  BY <1>2, NothingDue
<1>4. \A k \in QuotaKinds : f[k] = 0
  BY <1>1
<1>5. QuotaTypes
  <2>1. usage \in [QuotaKinds -> Int \cup {NoUsage}] /\ real \in [QuotaKinds -> Int] /\ used \in Int
    BY <1>1
  <2>2. drifted \in BOOLEAN
    BY <1>1, Zenon
  <2> QED BY <1>1, <1>2, <2>1, <2>2 DEF QuotaTypes
<1> HIDE DEF f
<1>6. SumOver(f, QuotaKinds) = 0
  BY <1>4, SumZero, QuotaAssumption DEF QuotaAssumption
<1>7. RecordsInv
  BY <1>2, <1>4 DEF RecordsInv, f
<1>8. UsedInv
  BY <1>1, <1>3, <1>6 DEF UsedInv, f
<1>9. LockedInv
  BY <1>1, <1>2 DEF LockedInv, LockedTxn
<1>10. RoomInv
  BY <1>3, <1>4 DEF RoomInv, f
<1> QED BY <1>5, <1>7, <1>8, <1>9, <1>10 DEF QuotaInv

\* The invariant says what is promised.
LEMMA UsageFromInv == ASSUME QuotaInv PROVE UsageExact
<1>1. /\ txn \in [Txns -> TxnRec] /\ used \in Int
      /\ \A k \in QuotaKinds : usage[k] \in Int \cup {NoUsage} /\ real[k] \in Int
  BY DEF QuotaInv, QuotaTypes
<1>2. ASSUME \A t \in Txns : txn[t].pc = "idle"
      PROVE  /\ ~drifted => used = SumOf(real, QuotaKinds)
             /\ locking => ~drifted /\ \A k \in QuotaKinds : usage[k] \in {NoUsage, real[k]}
  <2>1. SumOver(Due(txn), Txns) = 0
    BY <1>1, <1>2, NothingDue
  <2>2. SumOver(real, QuotaKinds) \in Int
    BY <1>1, SumRemove, QuotaAssumption DEF QuotaAssumption
  <2>3. ~drifted => used = SumOver(real, QuotaKinds)
    BY <2>1, <2>2 DEF QuotaInv, UsedInv
  <2> QED BY <2>3 DEF QuotaInv, LockedInv, SumOf, SumOver
<1>3. UsageNotNegative
  <2> SUFFICES ASSUME locking, NEW t \in Txns, NEW k \in QuotaKinds, txn[t].pc = "usage", k \in txn[t].touched
               PROVE  txn[t].new[k] >= 0
    BY DEF UsageNotNegative
  <2>1. txn[t].new[k] = NewUsage(usage[k], txn[t].offset[k]) /\ usage[k] \in {NoUsage, real[k]}
    BY DEF QuotaInv, LockedInv, LockedTxn
  <2>2. usage[k] = NoUsage => real[k] = 0
    BY DEF QuotaInv, RecordsInv
  <2>3. txn[t].offset[k] \in Int
    BY <1>1 DEF TxnRec, Offsets
  <2>4. txn[t].new[k] = real[k] + txn[t].offset[k]
    BY <1>1, <2>1, <2>2, <2>3 DEF NewUsage
  <2> DEFINE S == SumOver(Takers(txn, k), Txns)
  <2>5. S <= Taking(txn[t], k) /\ S <= 0 /\ S \in Int /\ Taking(txn[t], k) \in Int
    BY <1>1, TakersLeast, SumsInt
  <2>6. real[k] + S >= 0
    BY DEF QuotaInv, RoomInv
  <2> HIDE DEF S
  <2>7. txn[t].offset[k] < 0 => Taking(txn[t], k) = txn[t].offset[k]
    BY DEF Taking
  <2> QED BY <1>1, <2>3, <2>4, <2>5, <2>6, <2>7
<1> QED BY <1>2, <1>3 DEF UsageExact, UsageKept

\* Every step keeps the invariant.
LEMMA QuotaStep == ASSUME QuotaInv, QuotaKindOwned = FALSE, QuotaNext PROVE QuotaInv'
<1>1. ASSUME NEW t \in Txns, Begin(t) PROVE QuotaInv'
  BY <1>1, BeginKeeps
<1>2. ASSUME NEW t \in Txns, ApplyUsage(t) PROVE QuotaInv'
  BY <1>2, ApplyUsageKeeps
<1>3. ASSUME NEW t \in Txns, CommitImpl(t) PROVE QuotaInv'
  BY <1>3, CommitKeeps
<1>4. ASSUME NEW t \in Txns, AbortOffsets(t) PROVE QuotaInv'
  BY <1>4, AbortKeeps
<1>5. ASSUME NEW t \in Txns, ApplyQuota(t) PROVE QuotaInv'
  BY <1>5, ApplyQuotaKeeps
<1>6. ASSUME NEW t \in Txns, NEW k \in QuotaKinds, NEW n \in {1, -1}, Write(t, k, n) PROVE QuotaInv'
  BY <1>6, WriteKeeps
<1>7. ASSUME NEW n \in 1 .. MaxSize, PutQuota(n) PROVE QuotaInv'
  BY <1>7, PutQuotaKeeps
<1>8. ASSUME ReadQuotas PROVE QuotaInv'
  BY <1>8, ReadQuotasKeeps
<1> QED BY <1>1, <1>2, <1>3, <1>4, <1>5, <1>6, <1>7, <1>8 DEF QuotaNext

\* Whatever the transactions, kinds and sizes, and with records lost between
\* transactions that do not lock: the usage in memory is what is stored, and under
\* locks the records are too and never fall below zero.
THEOREM UsageExactAlways == ASSUME QuotaKindOwned = FALSE PROVE QuotaSpec => []UsageExact
<1>1. QuotaInit => QuotaInv
  BY QuotaInvInit
<1>2. QuotaInv /\ [QuotaNext]_quotaVars => QuotaInv'
  <2>1. ASSUME QuotaInv, UNCHANGED quotaVars PROVE QuotaInv'
    BY <2>1 DEF quotaVars, QuotaInv, QuotaTypes, RecordsInv, UsedInv, LockedInv, LockedTxn, RoomInv, Due, DueOf,
                Takers, Taking, NewUsage
  <2> QED BY <2>1, QuotaStep
<1>3. QuotaInv => UsageExact
  BY UsageFromInv
<1> QED BY <1>1, <1>2, <1>3, PTL DEF QuotaSpec

-----------------------------------------------------------------------------
(* Tokens (DbKindState) *)

\* A token and the property it was written for.
Codes == Nat \X Props

WriterRec == [pc : {"idle", "encode"}, left : SUBSET Props, copy : Seq(Props), code : SUBSET Codes, pending : Seq(Props)]

\* A table begins with an older one.
Extends(t, u) == Len(t) <= Len(u) /\ \A i \in 1 .. Len(t) : u[i] = t[i]

Distinct(t) == \A i, j \in 1 .. Len(t) : t[i] = t[j] => i = j

\* A name written as it is, or a token that stands for it.
Stands(t, c) == c[1] # 0 => c[1] \in 1 .. Len(t) /\ t[c[1]] = c[2]

TokenTypes ==
  /\ table \in Seq(Props) /\ stored \in Seq(Props)
  /\ writer \in [Writers -> WriterRec] /\ objects \in SUBSET Codes

TableInv == Distinct(table) /\ Len(table) <= TableSize /\ stored = table

\* What has been encoded stands in the shared table, which begins with every copy.
CodesInv ==
  /\ \A c \in objects : Stands(table, c)
  /\ \A w \in Writers : Extends(writer[w].copy, table) /\ \A c \in writer[w].code : Stands(table, c)

TokensInv == TokenTypes /\ TableInv /\ CodesInv

\* Two older tables of a table, and what stands in it, stay so when it grows.
LEMMA ExtendsKeeps ==
  ASSUME NEW t \in Seq(Props), NEW u \in Seq(Props), Extends(t, u)
  PROVE  /\ \A c \in Codes : Stands(t, c) => Stands(u, c)
         /\ \A s \in Seq(Props) : Extends(s, t) => Extends(s, u)
<1>1. Len(t) \in Nat /\ Len(u) \in Nat
  OBVIOUS
<1>2. ASSUME NEW c \in Codes, Stands(t, c) PROVE Stands(u, c)
  BY <1>1, <1>2 DEF Extends, Stands, Codes
<1>3. ASSUME NEW s \in Seq(Props), Extends(s, t) PROVE Extends(s, u)
  <2>1. Len(s) \in Nat
    OBVIOUS
  <2> QED BY <1>1, <1>3, <2>1 DEF Extends
<1> QED BY <1>2, <1>3

\* The token of a name is one that stands for it, or none.
LEMMA TokenOfIs ==
  ASSUME NEW t \in Seq(Props), NEW p \in Props
  PROVE  /\ TokenOf(t, p) \in Nat /\ Stands(t, <<TokenOf(t, p), p>>)
         /\ TokenOf(t, p) = 0 => \A i \in 1 .. Len(t) : t[i] # p
<1>1. DOMAIN t = 1 .. Len(t) /\ Len(t) \in Nat
  OBVIOUS
<1>2. CASE \E i \in DOMAIN t : t[i] = p
  <2> DEFINE n == CHOOSE i \in DOMAIN t : t[i] = p
  <2>1. n \in DOMAIN t /\ t[n] = p
    BY <1>2
  <2>2. TokenOf(t, p) = n
    BY <1>2 DEF TokenOf
  <2> HIDE DEF n
  <2> QED BY <1>1, <2>1, <2>2 DEF Stands
<1>3. CASE ~\E i \in DOMAIN t : t[i] = p
  BY <1>1, <1>3 DEF TokenOf, Stands
<1> QED BY <1>2, <1>3

\* A new token makes the table longer by a name it lacks.
LEMMA NewTableExtends ==
  ASSUME NEW t \in Seq(Props), Distinct(t), Len(t) <= TableSize, NEW p \in Props, TokenOf(t, p) = 0
  PROVE  LET u == NewTable(t, p) IN u \in Seq(Props) /\ Extends(t, u) /\ Distinct(u) /\ Len(u) <= TableSize
<1>1. CASE ~(Len(t) < TableSize)
  BY <1>1 DEF NewTable, Extends
<1>2. CASE Len(t) < TableSize
  <2> DEFINE u == Append(t, p)
  <2>1. /\ u \in Seq(Props) /\ Len(u) = Len(t) + 1 /\ u[Len(t) + 1] = p
        /\ \A i \in 1 .. Len(t) : u[i] = t[i]
    BY AppendProperties
  <2>2. NewTable(t, p) = u
    BY <1>2 DEF NewTable
  <2>3. \A i \in 1 .. Len(t) : t[i] # p
    BY TokenOfIs
  <2>4. Len(t) \in Nat /\ TableSize \in Nat
    BY TokensAssumption DEF TokensAssumption
  <2> HIDE DEF u
  <2>5. ASSUME NEW i \in 1 .. Len(u), NEW j \in 1 .. Len(u), u[i] = u[j] PROVE i = j
    <3>1. CASE i = Len(t) + 1
      BY <2>1, <2>3, <2>4, <2>5, <3>1
    <3>2. CASE j = Len(t) + 1
      BY <2>1, <2>3, <2>4, <2>5, <3>2
    <3>3. CASE i \in 1 .. Len(t) /\ j \in 1 .. Len(t)
      BY <2>1, <2>5, <3>3 DEF Distinct
    <3> QED BY <2>1, <2>4, <3>1, <3>2, <3>3
  <2>6. Extends(t, u) /\ Len(u) <= TableSize
    BY <1>2, <2>1, <2>4 DEF Extends
  <2> QED BY <2>1, <2>2, <2>5, <2>6 DEF Distinct
<1> QED BY <1>1, <1>2

\* A finite set can be written down as a sequence without repetitions.
LEMMA SetToSeqIs ==
  ASSUME NEW S \in SUBSET Props, IsFiniteSet(S)
  PROVE  SetToSeq(S) \in Seq(S) /\ Distinct(SetToSeq(S))
<1> DEFINE n == Cardinality(S)
           q == SetToSeq(S)
<1>1. n \in Nat /\ ExistsBijection(1 .. n, S)
  BY FS_CardinalityType
<1> HIDE DEF n
<1>2. \E f \in [1 .. n -> S] : IsInjective(f)
  BY <1>1 DEF ExistsBijection, Bijection, Injection
<1>3. q \in [1 .. n -> S] /\ IsInjective(q)
  BY <1>2 DEF SetToSeq, n
<1> HIDE DEF q
<1>4. q \in Seq(S) /\ Len(q) = n
  BY <1>1, <1>3
<1>5. Distinct(q)
  BY <1>3, <1>4 DEF IsInjective, Distinct
<1> QED BY <1>4, <1>5 DEF q

\* The table a kind begins with has the stored tokens and new ones after them.
LEMMA InitTokensExtends ==
  ASSUME NEW s \in Seq(Props), Distinct(s), Len(s) <= TableSize, NEW strings \in SUBSET Props
  PROVE  LET u == InitTokens(s, strings)
         IN  u \in Seq(Props) /\ Extends(s, u) /\ Distinct(u) /\ Len(u) <= TableSize
<1> DEFINE M == {p \in strings : TokenOf(s, p) = 0}
           new == SetToSeq(M)
           m == IF Len(s) + Len(new) <= TableSize THEN Len(new) ELSE TableSize - Len(s)
           v == SubSeq(new, 1, m)
           u == s \o v
<1>1. M \in SUBSET Props /\ IsFiniteSet(M)
  BY TokensAssumption, FS_Subset DEF TokensAssumption
<1>2. \A p \in M : \A i \in 1 .. Len(s) : s[i] # p
  BY TokenOfIs
<1>3. InitTokens(s, strings) = u
  BY DEF InitTokens
<1> HIDE DEF M
<1>4. new \in Seq(M) /\ Distinct(new)
  BY <1>1, SetToSeqIs
<1>5. TableSize \in Nat /\ Len(s) \in Nat
  BY TokensAssumption DEF TokensAssumption
<1> HIDE DEF new
<1>6. Len(new) \in Nat /\ \A i \in 1 .. Len(new) : new[i] \in M
  BY <1>4
<1>7. m \in Nat /\ m <= Len(new) /\ Len(s) + m <= TableSize
  BY <1>5, <1>6
<1> HIDE DEF m
<1>8. v \in Seq(M) /\ Len(v) = m /\ \A i \in 1 .. m : v[i] = new[i]
  <2>1. \A i \in 1 .. m : new[i] \in M
    BY <1>6, <1>7
  <2>2. /\ SubSeq(new, 1, m) \in Seq(M)
        /\ Len(SubSeq(new, 1, m)) = IF 1 <= m THEN m - 1 + 1 ELSE 0
        /\ \A i \in 1 .. m - 1 + 1 : SubSeq(new, 1, m)[i] = new[1 + i - 1]
    BY <1>7, <2>1, SubSeqProperties
  <2> QED BY <1>7, <2>2
<1> HIDE DEF v
<1>9. v \in Seq(Props) /\ \A i \in 1 .. m : v[i] \in M
  BY <1>1, <1>8
<1>10. /\ u \in Seq(Props) /\ Len(u) = Len(s) + m
       /\ \A i \in 1 .. Len(u) : u[i] = IF i <= Len(s) THEN s[i] ELSE v[i - Len(s)]
  <2>1. /\ s \o v \in Seq(Props) /\ Len(s \o v) = Len(s) + Len(v)
        /\ \A i \in 1 .. Len(s) + Len(v) : (s \o v)[i] = IF i <= Len(s) THEN s[i] ELSE v[i - Len(s)]
    BY <1>9, ConcatProperties
  <2> QED BY <1>8, <2>1
<1> HIDE DEF u
<1>11. ASSUME NEW i \in 1 .. Len(u), NEW j \in 1 .. Len(u), u[i] = u[j] PROVE i = j
  <2>1. CASE i <= Len(s) /\ j <= Len(s)
    BY <1>5, <1>10, <1>11, <2>1 DEF Distinct
  <2>2. CASE i <= Len(s) /\ ~(j <= Len(s))
    <3>1. j - Len(s) \in 1 .. m /\ u[j] = v[j - Len(s)] /\ u[i] = s[i] /\ i \in 1 .. Len(s)
      BY <1>5, <1>7, <1>10, <2>2
    <3> QED BY <1>2, <1>9, <1>11, <3>1
  <2>3. CASE ~(i <= Len(s)) /\ j <= Len(s)
    <3>1. i - Len(s) \in 1 .. m /\ u[i] = v[i - Len(s)] /\ u[j] = s[j] /\ j \in 1 .. Len(s)
      BY <1>5, <1>7, <1>10, <2>3
    <3> QED BY <1>2, <1>9, <1>11, <3>1
  <2>4. CASE ~(i <= Len(s)) /\ ~(j <= Len(s))
    <3>1. /\ i - Len(s) \in 1 .. m /\ j - Len(s) \in 1 .. m
          /\ u[i] = v[i - Len(s)] /\ u[j] = v[j - Len(s)]
      BY <1>5, <1>7, <1>10, <2>4
    <3>2. new[i - Len(s)] = new[j - Len(s)]
      BY <1>8, <1>11, <3>1
    <3>3. i - Len(s) = j - Len(s)
      BY <1>4, <1>6, <1>7, <3>1, <3>2 DEF Distinct
    <3> QED BY <1>5, <3>3
  <2> QED BY <2>1, <2>2, <2>3, <2>4
<1>12. Extends(s, u) /\ Len(u) <= TableSize
  BY <1>5, <1>7, <1>10 DEF Extends
<1> QED BY <1>3, <1>10, <1>11, <1>12 DEF Distinct

\* A step that makes the table longer keeps what it leaves alone.
LEMMA GrowKeeps ==
  ASSUME TokensInv, NEW u \in Seq(Props), Extends(table, u)
  PROVE  /\ \A c \in objects : Stands(u, c)
         /\ \A w \in Writers : Extends(writer[w].copy, u) /\ \A c \in writer[w].code : Stands(u, c)
<1>1. /\ table \in Seq(Props) /\ objects \in SUBSET Codes
      /\ \A w \in Writers : writer[w].copy \in Seq(Props) /\ writer[w].code \in SUBSET Codes
  BY DEF TokensInv, TokenTypes, WriterRec
<1>2. /\ \A c \in Codes : Stands(table, c) => Stands(u, c)
      /\ \A s \in Seq(Props) : Extends(s, table) => Extends(s, u)
  BY <1>1, ExtendsKeeps
<1> QED BY <1>1, <1>2 DEF TokensInv, CodesInv

\* Who rests has nothing to apply.
LEMMA RestingIs == Resting \in WriterRec /\ Resting.copy = <<>> /\ Resting.code = {}
  BY DEF Resting, WriterRec

\* Every table extends the empty one.
LEMMA EmptyExtends == ASSUME NEW t \in Seq(Props) PROVE Extends(<<>>, t)
  BY DEF Extends

\* A step of one writer that may make the table longer.
LEMMA WriterStep ==
  ASSUME TokensInv, NEW w \in Writers, NEW r \in WriterRec, writer' = [writer EXCEPT ![w] = r],
         table' \in Seq(Props), Extends(table, table'), Distinct(table'), Len(table') <= TableSize,
         stored' = table', objects' = objects \/ objects' = objects \cup writer[w].code,
         Extends(r.copy, table'), \A c \in r.code : Stands(table', c)
  PROVE  TokensInv'
<1>1. writer \in [Writers -> WriterRec] /\ objects \in SUBSET Codes
  BY DEF TokensInv, TokenTypes
<1>2. writer' \in [Writers -> WriterRec] /\ writer'[w] = r /\ \A v \in Writers \ {w} : writer'[v] = writer[v]
  BY <1>1
<1>3. writer[w].code \in SUBSET Codes
  BY <1>1 DEF WriterRec
<1> DEFINE u == table'
<1>4. u \in Seq(Props) /\ Extends(table, u)
  OBVIOUS
<1> HIDE DEF u
<1>5. /\ \A c \in objects : Stands(u, c)
      /\ \A v \in Writers : Extends(writer[v].copy, u) /\ \A c \in writer[v].code : Stands(u, c)
  BY <1>4, GrowKeeps
<1>6. TokenTypes'
  BY <1>1, <1>2, <1>3 DEF TokenTypes
<1>7. TableInv'
  BY DEF TableInv, Distinct
<1>8. CodesInv'
  <2>1. \A c \in objects' : Stands(u, c)
    BY <1>5
  <2>2. ASSUME NEW v \in Writers PROVE Extends(writer'[v].copy, u) /\ \A c \in writer'[v].code : Stands(u, c)
    <3>1. CASE v = w
      BY <1>2, <3>1 DEF u
    <3>2. CASE v # w
      BY <1>2, <1>5, <3>2
    <3> QED BY <3>1, <3>2
  <2> QED BY <2>1, <2>2 DEF CodesInv, Extends, Stands, u
<1> QED BY <1>6, <1>7, <1>8 DEF TokensInv

\* Nothing grows, and what there is stands.
LEMMA SameTable ==
  ASSUME TokensInv, UNCHANGED <<table, stored>>
  PROVE  /\ table' \in Seq(Props) /\ Extends(table, table') /\ Distinct(table') /\ Len(table') <= TableSize
         /\ stored' = table'
  BY DEF TokensInv, TokenTypes, TableInv, Extends, Distinct

\* StartPut keeps the invariant.
LEMMA StartPutKeeps == ASSUME TokensInv, NEW w \in Writers, NEW ps \in SUBSET Props, StartPut(w, ps) PROVE TokensInv'
<1> DEFINE r == [Resting EXCEPT !.pc = "encode", !.left = ps, !.copy = table, !.pending = stored]
<1>1. writer' = [writer EXCEPT ![w] = r] /\ UNCHANGED <<table, stored, oldItem, objects>>
  BY DEF StartPut
<1>2. r \in WriterRec /\ r.copy = table /\ r.code = {}
  BY DEF Resting, WriterRec, TokensInv, TokenTypes
<1> HIDE DEF r
<1>3. Extends(r.copy, table')
  BY <1>1, <1>2 DEF Extends, TokensInv, TokenTypes
<1> QED BY <1>1, <1>2, <1>3, SameTable, WriterStep

\* CommitPut keeps the invariant.
LEMMA CommitPutKeeps == ASSUME TokensInv, TokensInTxn = FALSE, NEW w \in Writers, CommitPut(w) PROVE TokensInv'
<1>1. writer' = [writer EXCEPT ![w] = Resting] /\ UNCHANGED <<table, stored>> /\ objects' = objects \cup writer[w].code
  BY DEF CommitPut
<1>2. table' \in Seq(Props) /\ Extends(Resting.copy, table')
  BY <1>1, SameTable, RestingIs, EmptyExtends
<1> QED BY <1>1, <1>2, SameTable, RestingIs, WriterStep

\* AbortPut keeps the invariant.
LEMMA AbortPutKeeps == ASSUME TokensInv, NEW w \in Writers, AbortPut(w) PROVE TokensInv'
<1>1. writer' = [writer EXCEPT ![w] = Resting] /\ UNCHANGED <<table, stored, objects>>
  BY DEF AbortPut
<1>2. table' \in Seq(Props) /\ Extends(Resting.copy, table')
  BY <1>1, SameTable, RestingIs, EmptyExtends
<1> QED BY <1>1, <1>2, SameTable, RestingIs, WriterStep

\* A writer takes a token from its copy, or from the shared table, which may grow.
LEMMA WritePropKeeps ==
  ASSUME TokensInv, TokensInTxn = FALSE, NEW w \in Writers, NEW p \in Props, WriteProp(w, p)
  PROVE  TokensInv'
<1> DEFINE old == writer[w]
<1>1. /\ old \in WriterRec /\ table \in Seq(Props) /\ stored = table /\ Distinct(table) /\ Len(table) <= TableSize
      /\ Extends(old.copy, table) /\ \A c \in old.code : Stands(table, c)
  BY DEF TokensInv, TokenTypes, TableInv, CodesInv
<1>2. /\ old.left \in SUBSET Props /\ old.copy \in Seq(Props) /\ old.code \in SUBSET Codes
      /\ old.pending \in Seq(Props) /\ old.pc = "encode" /\ objects' = objects
  BY <1>1 DEF WriteProp, WriterRec
<1>3. CASE TokenOf(old.copy, p) # 0
  <2> DEFINE c0 == <<TokenOf(old.copy, p), p>>
             r == [old EXCEPT !.left = @ \ {p}, !.code = @ \cup {c0}]
  <2>1. writer' = [writer EXCEPT ![w] = r] /\ UNCHANGED <<table, stored>>
    BY <1>3 DEF WriteProp, TokensInv, TokenTypes
  <2>2. TokenOf(old.copy, p) \in Nat /\ Stands(old.copy, c0)
    BY <1>2, TokenOfIs
  <2>3. c0 \in Codes /\ Stands(table, c0)
    <3>1. c0 \in Codes
      BY <2>2 DEF Codes
    <3> HIDE DEF c0
    <3> QED BY <1>1, <1>2, <2>2, <3>1, ExtendsKeeps
  <2> HIDE DEF c0
  <2>4. r \in WriterRec /\ r.copy = old.copy /\ r.code = old.code \cup {c0}
    BY <1>1, <1>2, <2>3 DEF WriterRec
  <2> HIDE DEF r
  <2>5. Extends(r.copy, table') /\ \A c \in r.code : Stands(table', c)
    BY <1>1, <2>1, <2>3, <2>4
  <2> QED BY <1>2, <2>1, <2>4, <2>5, SameTable, WriterStep
<1>4. CASE TokenOf(old.copy, p) = 0
  <2> DEFINE known == TokenOf(table, p) # 0
             new == IF known THEN table ELSE NewTable(table, p)
             added == ~known /\ new # table
             c0 == <<TokenOf(new, p), p>>
             copy == IF added THEN new ELSE <<>>
             pending == IF added THEN new ELSE old.pending
             r == [old EXCEPT !.left = @ \ {p}, !.copy = copy, !.pending = pending, !.code = @ \cup {c0}]
  <2>1. /\ writer' = [writer EXCEPT ![w] = r] /\ table' = new
        /\ stored' = IF added /\ ~TokensInTxn THEN new ELSE stored
    BY <1>4 DEF WriteProp, StoreTable, TokensInv, TokenTypes
  <2>2. new \in Seq(Props) /\ Extends(table, new) /\ Distinct(new) /\ Len(new) <= TableSize
    <3>1. CASE known
      BY <1>1, <3>1 DEF Extends
    <3>2. CASE ~known
      BY <1>1, <3>2, NewTableExtends
    <3> QED BY <3>1, <3>2
  <2>3. stored' = table'
    BY <1>1, <2>1
  <2> HIDE DEF new
  <2>4. c0 \in Codes /\ Stands(new, c0)
    BY <2>2, TokenOfIs DEF Codes
  <2> HIDE DEF c0
  <2>5. copy \in Seq(Props) /\ Extends(copy, new)
    <3>1. CASE added
      BY <2>2, <3>1 DEF Extends
    <3>2. CASE ~added
      BY <2>2, <3>2, EmptyExtends
    <3> QED BY <3>1, <3>2
  <2>6. pending \in Seq(Props)
    BY <1>2, <2>2
  <2> HIDE DEF copy, pending, added
  <2>7. r \in WriterRec /\ r.copy = copy /\ r.code = old.code \cup {c0}
    BY <1>1, <1>2, <2>4, <2>5, <2>6 DEF WriterRec
  <2> HIDE DEF r
  <2>8. \A c \in old.code : Stands(new, c)
    BY <1>1, <1>2, <2>2, ExtendsKeeps
  <2>9. Extends(r.copy, table') /\ \A c \in r.code : Stands(table', c)
    BY <2>1, <2>4, <2>5, <2>7, <2>8
  <2> QED BY <1>2, <2>1, <2>2, <2>3, <2>7, <2>9, WriterStep
<1> QED BY <1>3, <1>4

\* NewState keeps the invariant.
LEMMA NewStateKeeps == ASSUME TokensInv, NEW strings \in SUBSET Props, NewState(strings) PROVE TokensInv'
<1> DEFINE u == InitTokens(stored, strings)
<1>1. table' = u /\ stored' = u /\ UNCHANGED <<writer, objects>>
  BY DEF NewState
<1>2. table \in Seq(Props) /\ stored = table /\ Distinct(table) /\ Len(table) <= TableSize
  BY DEF TokensInv, TokenTypes, TableInv
<1>3. u \in Seq(Props) /\ Extends(table, u) /\ Distinct(u) /\ Len(u) <= TableSize
  BY <1>2, InitTokensExtends
<1> HIDE DEF u
<1>4. TokenTypes' /\ TableInv'
  BY <1>1, <1>3 DEF TokensInv, TokenTypes, TableInv, Distinct
<1>5. CodesInv'
  BY <1>1, <1>3, GrowKeeps DEF CodesInv, Extends, Stands
<1> QED BY <1>4, <1>5 DEF TokensInv

\* ReadTokens keeps the invariant.
LEMMA ReadTokensKeeps == ASSUME TokensInv, ReadTokens PROVE TokensInv'
<1>1. table' = table /\ stored' = stored /\ objects' = objects /\ writer' = [w \in Writers |-> Resting]
  BY DEF ReadTokens, TokensInv, TableInv
<1>2. writer' \in [Writers -> WriterRec] /\ \A w \in Writers : writer'[w].copy = <<>> /\ writer'[w].code = {}
  BY <1>1, RestingIs
<1>3. TokenTypes' /\ TableInv'
  BY <1>1, <1>2 DEF TokensInv, TokenTypes, TableInv, Distinct
<1>4. \A w \in Writers : Extends(writer'[w].copy, table) /\ \A c \in writer'[w].code : Stands(table, c)
  BY <1>2, EmptyExtends DEF TokensInv, TokenTypes
<1>5. CodesInv'
  BY <1>1, <1>4 DEF TokensInv, CodesInv, Extends, Stands
<1> QED BY <1>3, <1>5 DEF TokensInv

\* At the start nothing is stored.
LEMMA TokensInvInit == ASSUME TokensInit PROVE TokensInv
<1>1. table = <<>> /\ stored = <<>> /\ objects = {} /\ writer = [w \in Writers |-> Resting]
  BY DEF TokensInit
<1>2. writer \in [Writers -> WriterRec] /\ \A w \in Writers : writer[w].copy = <<>> /\ writer[w].code = {}
  BY <1>1, RestingIs
<1>3. TokenTypes
  BY <1>1, <1>2 DEF TokenTypes
<1>4. TableInv
  BY <1>1, TokensAssumption DEF TableInv, Distinct, TokensAssumption
<1>5. CodesInv
  BY <1>1, <1>2, <1>3, EmptyExtends DEF CodesInv, TokenTypes
<1> QED BY <1>3, <1>4, <1>5 DEF TokensInv

\* The invariant says what is promised.
LEMMA TokensFromInv == ASSUME TokensInv PROVE TokensExact
<1>1. table \in Seq(Props) /\ DOMAIN table = 1 .. Len(table) /\ stored = table
  BY DEF TokensInv, TokenTypes, TableInv
<1>2. IsInjective(table)
  BY <1>1 DEF TokensInv, TableInv, Distinct, IsInjective
<1>3. ObjectsReadable
  BY <1>1 DEF TokensInv, CodesInv, Stands, ObjectsReadable
<1> QED BY <1>1, <1>2, <1>3 DEF TokensExact, TableConsistent

\* Every step keeps the invariant.
LEMMA TokensStep == ASSUME TokensInv, TokensInTxn = FALSE, TokensNext PROVE TokensInv'
<1>1. ASSUME NEW w \in Writers, CommitPut(w) PROVE TokensInv'
  BY <1>1, CommitPutKeeps
<1>2. ASSUME NEW w \in Writers, AbortPut(w) PROVE TokensInv'
  BY <1>2, AbortPutKeeps
<1>3. ASSUME NEW w \in Writers, NEW p \in Props, WriteProp(w, p) PROVE TokensInv'
  BY <1>3, WritePropKeeps
<1>4. ASSUME NEW w \in Writers, NEW ps \in SUBSET Props, StartPut(w, ps) PROVE TokensInv'
  BY <1>4, StartPutKeeps
<1>5. ASSUME NEW strings \in SUBSET Props, NewState(strings) PROVE TokensInv'
  BY <1>5, NewStateKeeps
<1>6. ASSUME ReadTokens PROVE TokensInv'
  BY <1>6, ReadTokensKeeps
<1> QED BY <1>1, <1>2, <1>3, <1>4, <1>5, <1>6 DEF TokensNext

\* Whatever the writers, properties and size of the table, and across aborts,
\* crashes and new states, as long as the table is written in a transaction of its
\* own: every token of a stored object stands, in the stored table, for the property
\* it was written for, and the table names none twice.
THEOREM TokensExactAlways == ASSUME TokensInTxn = FALSE PROVE TokensSpec => []TokensExact
<1>1. TokensInit => TokensInv
  BY TokensInvInit
<1>2. TokensInv /\ [TokensNext]_tokenVars => TokensInv'
  <2>1. ASSUME TokensInv, UNCHANGED tokenVars PROVE TokensInv'
    BY <2>1 DEF tokenVars, TokensInv, TokenTypes, TableInv, CodesInv, Distinct, Extends, Stands
  <2> QED BY <2>1, TokensStep
<1>3. TokensInv => TokensExact
  BY TokensFromInv
<1> QED BY <1>1, <1>2, <1>3, PTL DEF TokensSpec
=============================================================================
