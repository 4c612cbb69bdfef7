------------------------------ MODULE Sorting -------------------------------
(***************************************************************************)
(* MojQuickSort, which MojVector::sort() and with it every search use.  It *)
(* is not stable: the order of equal elements depends on how many elements *)
(* there are and on their order before.  Elements are records, sorted by   *)
(* their field val; positions count from 0, as in the code.                *)
(***************************************************************************)
EXTENDS Integers, Sequences

\* rand_r() of the GNU C library, called once with each seed.
Rand(seed) == <<1012484, 476707713, 952403967, 1430195325, 1905891579, 234104184>>[seed + 1]

\* MojSwap().
Swapped(a, i, j) == [a EXCEPT ![i + 1] = a[j + 1], ![j + 1] = a[i + 1]]

\* The loop of MojQuickSortPartition(): elements less than the pivot, at last,
\* go to the left of mid.
RECURSIVE PartitionLoop(_, _, _, _)
PartitionLoop(a, i, mid, last) ==
  IF i = last THEN [a |-> Swapped(a, mid, last), mid |-> mid]
  ELSE IF a[i + 1].val < a[last + 1].val THEN PartitionLoop(Swapped(a, i, mid), i + 1, mid + 1, last)
  ELSE PartitionLoop(a, i + 1, mid, last)

QuickSortPartition(a, left, right) ==
  PartitionLoop(Swapped(a, left + (Rand(left) % (right - left)), right - 1), left, left, right - 1)

\* MojQuickSortImpl().
RECURSIVE QuickSortImpl(_, _, _)
QuickSortImpl(a, left, right) ==
  IF left + 1 >= right THEN a
  ELSE LET p == QuickSortPartition(a, left, right)
       IN  QuickSortImpl(QuickSortImpl(p.a, left, p.mid), p.mid + 1, right)

QuickSort(a) == QuickSortImpl(a, 0, Len(a))
=============================================================================
