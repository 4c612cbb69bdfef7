------------------------------ MODULE MCDbQuery ------------------------------
(***************************************************************************)
(* Queries on small instances.  part picks the machine a behaviour is      *)
(* about: the pages of a find over one indexed property, or searches with  *)
(* the cache of two clients beside a writer.                               *)
(***************************************************************************)
EXTENDS DbQuery, TLC

CONSTANTS c1, c2

VARIABLES part, stored, writer, rev, cache, client, writes, finds

\* The strings "a" and "ab" and the integer 255, as MojObjectWriter encodes them.
a   == <<4, 97, 0>>
ab  == <<4, 97, 98, 0>>
int == <<11, 255>>

MCValues == {NullValue, a, ab, int}

\* An object is not there, or has one value, or an array of two.
MCTags == {s \in SUBSET MCValues : Cardinality(s) <= 1} \cup {{a, int}}

\* Each operator, at a value in the middle and at the edge, with arrays whose
\* values are prefixes of each other.
Chosen(c) ==
  /\ c.lowerOp = "="  => c.lower = {a, int}
  /\ c.lowerOp = "%"  => c.lower \in {{a}, {a, ab}}
  /\ c.lowerOp = "!=" => c.lower = {a}
  /\ c.lowerOp = ">" /\ c.upperOp = "none" => c.lower = {int}
  /\ c.lowerOp = ">=" /\ c.upperOp = "none" => c.lower = {a}
  /\ c.lowerOp \in {">", ">="} /\ c.upperOp # "none" =>
       c.lower = {NullValue} /\ c.upper = int /\ (c.lowerOp = ">" <=> c.upperOp = "<=")
  /\ c.lowerOp = "none" /\ c.upperOp = "<" => c.upper = int
  /\ c.lowerOp = "none" /\ c.upperOp = "<=" => c.upper = a

\* Pages of two objects where there is more than one range, or no clause.
MCQueries ==
  {q \in [clause : {c \in Clauses : Chosen(c)}, desc : BOOLEAN, limit : {1, 2}] :
     q.limit = 2 => q.clause.lower = {a, int} \/ q.clause.lowerOp \in {"any", "!="}}

\* Searches of the super kind: descending, distinct, with immediate return.
SearchQuery(desc, distinct, immediate) ==
  [from |-> "super", desc |-> desc, distinct |-> distinct, immediate |-> immediate, limit |-> 1]

Search == INSTANCE DbSearch WITH objects <- stored, Ids <- {1, 2, 3}, Starts <- {<<2, 1, 1>>}, Values <- {1, 9}, Hidden <- 9,
            Clients <- {c1, c2}, MaxWrites <- 1, MaxFinds <- 2,
            Queries <- {SearchQuery(TRUE, FALSE, FALSE), SearchQuery(FALSE, TRUE, FALSE), SearchQuery(FALSE, FALSE, TRUE)}

searchVars == <<stored, writer, rev, cache, client, writes, finds>>

Symmetry == Permutations({c1, c2})

MCInit ==
  /\ part \in {"pages", "search"}
  /\ Init /\ (part # "pages" => objects \in [Ids -> {{}}] /\ query = CHOOSE q \in Queries : TRUE)
  /\ Search!Init

PageStep == part = "pages" /\ Next /\ UNCHANGED <<searchVars, part>>

Under(c) == client[c].phase # "idle"

\* A search with immediate return never uses the cache: it is the only search
\* of its behaviour.  Two distinct searches are not run side by side.  The
\* first object moves or goes, the second is hidden or goes, and the third,
\* which is like the second, stays.
Alone ==
  /\ (\E c \in {c1, c2} : Under(c) /\ client[c].query.immediate) => finds = 1
  /\ ~\A c \in {c1, c2} : Under(c) /\ client[c].query.distinct
  /\ writer.id # 3 /\ (writer.val = 9 => writer.id = 2)

SearchStep == part = "search" /\ Search!Next /\ Alone' /\ UNCHANGED <<vars, part>>

MCNext == PageStep \/ SearchStep

MCSpec == MCInit /\ [][MCNext]_<<vars, searchVars, part>>

\* Searches (DbSearch): the pages of a search hold every matching object that
\* nobody touched, none of them twice, and a distinct search each value once, but
\* for pages whose start has gone and equal values that the sort moves about; and
\* what the search cache has under a kind's present revision is what a search
\* would find now.
SearchExact == Search!CacheFresh /\ Search!SearchComplete /\ Search!NoRepeat /\ Search!DistinctValues
=============================================================================
