------------------------------ MODULE MCDbWatch ------------------------------
(* Instances of DbWatch for TLC: the queries of two clients. *)
EXTENDS DbWatch, TLC

CONSTANTS w1, w2

All(w, desc, limit, call) ==
  [ranges |-> <<Keys>>, desc |-> desc, limit |-> limit, call |-> call, domain |-> "a"]

\* No limit is ever reached.
Unlimited == Cardinality(Keys) + 1

\* A descending query over two ranges.
QueryRanges ==
  (w1 :> [ranges |-> <<{k \in Keys : k >= 4}, {k \in Keys : k < 4}>>, desc |-> TRUE,
          limit |-> Unlimited, call |-> "find", domain |-> "a"])

\* MojDb::watch beside a MojDb::find with a limit, in one domain.
QueriesWatchFind ==
  (w1 :> All(w1, FALSE, 1, "watch")) @@ (w2 :> All(w2, FALSE, 1, "find"))

QueryDesc == (w1 :> All(w1, TRUE, 1, "find"))
=============================================================================
