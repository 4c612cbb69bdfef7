------------------------------- MODULE RbTree -------------------------------
(***************************************************************************)
(* The red-black tree under every MojMap and MojSet (MojRbTreeBase): put   *)
(* and del rebalance on one way down, nodes know their parents, and copies *)
(* of a tree share one Impl until one of them writes.                      *)
(*                                                                         *)
(* A tree is its nodes by name; a node is named after its key, except that *)
(* a node being put is named -key until put returns, so that it is told    *)
(* from the node it may replace.                                           *)
(***************************************************************************)
EXTENDS Integers, Sequences, FiniteSets

CONSTANTS
  Pairs,      \* the keys, positive numbers, and the values put under each
  Handles,    \* trees, as their users see them
  MaxBoth     \* bound: nodes of a tree while another one is not empty

VARIABLES
  impl,       \* m_impl of each handle, 0 for none
  impls,      \* the Impls: tree and m_refcount
  content     \* history: what each handle was told

Null == 0
Dummy == -100
DirLeft == 0
DirRight == 1
Keys == {x[1] : x \in Pairs}

Node(k, v) == [red |-> TRUE, parent |-> Null, child |-> [d \in 0..1 |-> Null], key |-> k, val |-> v]
NoTree == [root |-> Null, size |-> 0, node |-> << >>]
Free == [refs |-> 0, tree |-> NoTree]

\* The nodes h with node n added, or without it.
With(h, n, x) == [m \in DOMAIN h \cup {n} |-> IF m = n THEN x ELSE h[m]]
Without(h, n) == [m \in DOMAIN h \ {n} |-> h[m]]

-----------------------------------------------------------------------------
(* Nodes *)

IsRed(h, n) == n # Null /\ h[n].red
Child(h, n, dir) == h[n].child[dir]
Colored(h, n, red) == [h EXCEPT ![n].red = red]

SetChild(h, n, dir, x) ==
  LET linked == [h EXCEPT ![n].child[dir] = x]
  IN  IF x = Null THEN linked ELSE [linked EXCEPT ![x].parent = n]

RECURSIVE Outermost(_, _, _)
Outermost(h, n, dir) == IF Child(h, n, dir) = Null THEN n ELSE Outermost(h, Child(h, n, dir), dir)

RECURSIVE ClimbFrom(_, _, _)
ClimbFrom(h, last, dir) ==
  LET n == h[last].parent
  IN  IF n # Null /\ last = Child(h, n, dir) THEN ClimbFrom(h, n, dir) ELSE n

\* next(): the neighbour of n in direction dir.
NextNode(h, n, dir) ==
  IF Child(h, n, dir) # Null THEN Outermost(h, Child(h, n, dir), 1 - dir) ELSE ClimbFrom(h, n, dir)

\* The heaps after the rotations, and the node that comes to stand at n's place.
RotateUp(h, n, dir) == Child(h, n, 1 - dir)
Rotate(h, n, dir) ==
  LET save == RotateUp(h, n, dir)
      turned == SetChild(SetChild(h, n, 1 - dir, Child(h, save, dir)), save, dir, n)
  IN  Colored(Colored(turned, n, TRUE), save, FALSE)

RotateDoubleUp(h, n, dir) == RotateUp(h, Child(h, n, 1 - dir), 1 - dir)
RotateDouble(h, n, dir) ==
  Rotate(SetChild(Rotate(h, Child(h, n, 1 - dir), 1 - dir), n, 1 - dir, RotateDoubleUp(h, n, dir)), n, dir)

\* replace(): x takes n's children, colour and place.
Replace(h, n, x) ==
  LET Kept(d) == IF Child(h, n, d) = x THEN Null ELSE Child(h, n, d)
      taken == Colored(SetChild(SetChild(h, x, DirLeft, Kept(DirLeft)), x, DirRight, Kept(DirRight)), x, h[n].red)
      parent == taken[n].parent
  IN  IF parent = Null THEN taken
      ELSE SetChild(taken, parent, IF Child(taken, parent, DirLeft) = n THEN DirLeft ELSE DirRight, x)

-----------------------------------------------------------------------------
(* Put and del *)

\* One turn of put()'s loop: q is the node reached, p, g and t the nodes above.
RECURSIVE PutLoop(_, _)
PutLoop(s, new) ==
  LET inserts == s.q = Null
      q == IF inserts THEN new ELSE s.q
      flips == ~inserts /\ IsRed(s.h, Child(s.h, q, DirLeft)) /\ IsRed(s.h, Child(s.h, q, DirRight))
      placed == IF inserts THEN SetChild(s.h, s.p, s.dir, new)
                ELSE IF flips THEN Colored(Colored(Colored(s.h, q, TRUE), Child(s.h, q, DirLeft), FALSE),
                                           Child(s.h, q, DirRight), FALSE)
                ELSE s.h
      dir2 == IF Child(placed, s.t, DirRight) = s.g THEN DirRight ELSE DirLeft
      fixed == IF ~(IsRed(placed, q) /\ IsRed(placed, s.p)) THEN placed
               ELSE IF q = Child(placed, s.p, s.last)
               THEN SetChild(Rotate(placed, s.g, 1 - s.last), s.t, dir2, RotateUp(placed, s.g, 1 - s.last))
               ELSE SetChild(RotateDouble(placed, s.g, 1 - s.last), s.t, dir2, RotateDoubleUp(placed, s.g, 1 - s.last))
      down == IF fixed[q].key < fixed[new].key THEN DirRight ELSE DirLeft
  IN  CASE inserts -> [h |-> fixed, added |-> 1]
        [] ~inserts /\ fixed[q].key = fixed[new].key -> [h |-> Without(Replace(fixed, q, new), q), added |-> 0]
        [] OTHER -> PutLoop([h |-> fixed, t |-> IF s.g = Null THEN s.t ELSE s.g, g |-> s.p, p |-> q,
                             q |-> Child(fixed, q, down), last |-> s.dir, dir |-> down], new)

\* The node being put gets its own name.
Settled(tree, new) ==
  LET k == tree.node[new].key
      Name(n) == IF n = new THEN k ELSE n
  IN  [tree EXCEPT !.root = Name(@),
                   !.node = [n \in {Name(m) : m \in DOMAIN tree.node} |->
                               LET x == tree.node[IF n = k THEN new ELSE n]
                               IN  [x EXCEPT !.parent = Name(@), !.child = [d \in 0..1 |-> Name(x.child[d])]]]]

\* The root below the dummy head becomes the tree's, and black.
Rooted(h) ==
  LET root == Child(h, Dummy, DirRight)
      bare == Without(h, Dummy)
  IN  [root |-> root, node |-> IF root = Null THEN bare ELSE [bare EXCEPT ![root].red = FALSE, ![root].parent = Null]]

UnderHead(tree) == SetChild(With(tree.node, Dummy, Node(0, 0)), Dummy, DirRight, tree.root)

PutNode(tree, k, v) ==
  LET h == With(UnderHead(tree), -k, Node(k, v))
      done == PutLoop([h |-> h, t |-> Dummy, g |-> Null, p |-> Null, q |-> tree.root, last |-> DirLeft, dir |-> DirLeft], -k)
      rooted == Rooted(done.h)
  IN  IF tree.size = 0 THEN [root |-> k, size |-> 1, node |-> [n \in {k} |-> [Node(k, v) EXCEPT !.red = FALSE]]]
      ELSE Settled([root |-> rooted.root, size |-> tree.size + done.added, node |-> rooted.node], -k)

\* q and its sibling s are black and q has no red child: red comes from p, by a
\* colour flip, or by a rotation when s has a red child.
PushDown(h, g, p, q, last) ==
  LET s == Child(h, p, 1 - last)
      dir2 == IF Child(h, g, DirRight) = p THEN DirRight ELSE DirLeft
      twice == IsRed(h, Child(h, s, last))
      top == IF twice THEN RotateDoubleUp(h, p, last) ELSE RotateUp(h, p, last)
      turned == SetChild(IF twice THEN RotateDouble(h, p, last) ELSE Rotate(h, p, last), g, dir2, top)
  IN  IF ~IsRed(h, Child(h, s, 1 - last)) /\ ~twice
      THEN Colored(Colored(Colored(h, p, FALSE), s, TRUE), q, TRUE)
      ELSE Colored(Colored(Colored(Colored(turned, top, TRUE), q, TRUE),
                           Child(turned, top, DirLeft), FALSE), Child(turned, top, DirRight), FALSE)

\* One turn of del()'s loop, which takes a red node down with it; f is the node
\* with the key.
RECURSIVE DelLoop(_, _)
DelLoop(s, k) ==
  LET g == s.p
      p == s.q
      q == Child(s.h, p, s.dir)
      last == s.dir
      dir == IF s.h[q].key < k THEN DirRight ELSE DirLeft
      black == ~IsRed(s.h, q) /\ ~IsRed(s.h, Child(s.h, q, dir))
      turns == black /\ IsRed(s.h, Child(s.h, q, 1 - dir))
      h == CASE turns -> SetChild(Rotate(s.h, q, dir), p, last, RotateUp(s.h, q, dir))
             [] black /\ ~turns /\ Child(s.h, p, 1 - last) # Null -> PushDown(s.h, g, p, q, last)
             [] OTHER -> s.h
  IN  IF q = Null THEN s
      ELSE DelLoop([h |-> h, f |-> IF s.h[q].key = k THEN q ELSE s.f, g |-> g,
                    p |-> IF turns THEN RotateUp(s.h, q, dir) ELSE p, q |-> q, dir |-> dir], k)

DelNode(tree, k) ==
  LET s == DelLoop([h |-> UnderHead(tree), f |-> Null, g |-> Null, p |-> Null, q |-> Dummy, dir |-> DirRight], k)
      c == Child(s.h, s.q, IF Child(s.h, s.q, DirLeft) = Null THEN DirRight ELSE DirLeft)
      moved == Replace(s.h, s.f, s.q)
      cut == SetChild(moved, s.p, IF Child(moved, s.p, DirRight) = s.q THEN DirRight ELSE DirLeft, c)
      rooted == Rooted(IF s.f = Null THEN s.h ELSE Without(cut, s.f))
  IN  IF tree.size = 0 THEN tree
      ELSE [root |-> rooted.root, size |-> IF s.f = Null THEN tree.size ELSE tree.size - 1, node |-> rooted.node]

-----------------------------------------------------------------------------
(* Looking up *)

RECURSIVE SearchFrom(_, _, _)
SearchFrom(h, n, k) ==
  LET down == Child(h, n, IF h[n].key < k THEN DirRight ELSE DirLeft)
  IN  IF h[n].key = k \/ down = Null THEN n ELSE SearchFrom(h, down, k)

\* search(): the node with the key, or the last one on the way to it.
SearchNode(tree, k) == IF tree.root = Null THEN Null ELSE SearchFrom(tree.node, tree.root, k)

FindNode(tree, k) ==
  LET n == SearchNode(tree, k) IN IF n # Null /\ tree.node[n].key = k THEN n ELSE Null

LowerBound(tree, k) ==
  LET n == SearchNode(tree, k) IN IF n = Null \/ tree.node[n].key >= k THEN n ELSE NextNode(tree.node, n, DirRight)

UpperBound(tree, k) ==
  LET n == SearchNode(tree, k) IN IF n = Null \/ tree.node[n].key > k THEN n ELSE NextNode(tree.node, n, DirRight)

BeginNode(tree) == IF tree.root = Null THEN Null ELSE Outermost(tree.node, tree.root, DirLeft)

\* The pairs from node n on, by successor().
RECURSIVE WalkFrom(_, _)
WalkFrom(tree, n) ==
  IF n = Null THEN <<>>
  ELSE <<<<tree.node[n].key, tree.node[n].val>>>> \o WalkFrom(tree, NextNode(tree.node, n, DirRight))
Walk(tree) == WalkFrom(tree, BeginNode(tree))

\* compareFull(): by key, then by value.
CompareFull(x, y) ==
  IF x = y THEN 0 ELSE IF x[1] < y[1] \/ (x[1] = y[1] /\ x[2] < y[2]) THEN -1 ELSE 1

RECURSIVE CompareWalks(_, _)
CompareWalks(a, b) ==
  CASE a = <<>> -> IF b = <<>> THEN 0 ELSE -1
    [] a # <<>> /\ b = <<>> -> 1
    [] a # <<>> /\ b # <<>> ->
         LET c == CompareFull(Head(a), Head(b)) IN IF c # 0 THEN c ELSE CompareWalks(Tail(a), Tail(b))

Compare(a, b) == CompareWalks(Walk(a), Walk(b))

\* diff(): the pairs of a that are not in b.
RECURSIVE DiffWalks(_, _)
DiffWalks(a, b) ==
  IF a = <<>> THEN <<>>
  ELSE LET c == IF b = <<>> THEN -1 ELSE CompareFull(Head(a), Head(b))
       IN  (IF c < 0 THEN <<Head(a)>> ELSE <<>>)
           \o DiffWalks(IF c <= 0 THEN Tail(a) ELSE a, IF c >= 0 THEN Tail(b) ELSE b)

-----------------------------------------------------------------------------
(* Copies *)

TreeOf(x) == IF impl[x] = 0 THEN NoTree ELSE impls[impl[x]].tree

\* release() of handle x in the Impls m.
Released(m, i) ==
  IF i = 0 THEN m ELSE [m EXCEPT ![i] = IF m[i].refs = 1 THEN Free ELSE [@ EXCEPT !.refs = m[i].refs - 1]]

\* Faulty variant: an Impl that others use is written in place.
EnsureWritableShared(x) == [at |-> impl[x], impls |-> impls]

\* ensureWritable(): an Impl that others use is cloned; at is where x goes on.
EnsureWritable(x) ==
  LET i == impl[x]
      j == CHOOSE n \in DOMAIN impls : impls[n] = Free
  IN  IF i = 0 \/ impls[i].refs <= 1 THEN [at |-> i, impls |-> impls]
      ELSE [at |-> j, impls |-> [Released(impls, i) EXCEPT ![j] = [refs |-> 1, tree |-> impls[i].tree]]]

\* Handle x, made writable, gets the tree; an empty tree has no Impl.
Written(x, tree) ==
  LET w == EnsureWritable(x)
      i == IF w.at # 0 THEN w.at ELSE CHOOSE n \in DOMAIN impls : impls[n] = Free
  IN  /\ impl' = [impl EXCEPT ![x] = IF tree.size = 0 THEN 0 ELSE i]
      /\ impls' = [w.impls EXCEPT ![i] = IF tree.size = 0 THEN Free ELSE [refs |-> IF w.at = 0 THEN 1 ELSE @.refs, tree |-> tree]]

\* The bound on the trees.
Small(x) == \A y \in Handles \ {x} : impl[y] # 0 => TreeOf(x).size <= MaxBoth /\ TreeOf(y).size <= MaxBoth

Put(x, k, v) ==
  /\ Written(x, PutNode(TreeOf(x), k, v))
  /\ content' = [content EXCEPT ![x] = [n \in DOMAIN @ \cup {k} |-> IF n = k THEN v ELSE @[n]]]
  /\ Small(x)'

Del(x, k) ==
  /\ Written(x, DelNode(TreeOf(x), k))
  /\ content' = [content EXCEPT ![x] = [n \in DOMAIN @ \ {k} |-> @[n]]]

\* put(tree) and del(tree): pair by pair.
RECURSIVE PutWalk(_, _)
PutWalk(tree, w) == IF w = <<>> THEN tree ELSE PutWalk(PutNode(tree, Head(w)[1], Head(w)[2]), Tail(w))

RECURSIVE DelWalk(_, _)
DelWalk(tree, w) == IF w = <<>> THEN tree ELSE DelWalk(DelNode(tree, Head(w)[1]), Tail(w))

PutAll(x, y) ==
  /\ x # y /\ impl[y] # 0
  /\ Written(x, PutWalk(TreeOf(x), Walk(TreeOf(y))))
  /\ content' = [content EXCEPT ![x] = [n \in DOMAIN @ \cup DOMAIN content[y] |->
                                          IF n \in DOMAIN content[y] THEN content[y][n] ELSE @[n]]]
  /\ Small(x)'

DelAll(x, y) ==
  /\ x # y /\ impl[y] # 0
  /\ Written(x, DelWalk(TreeOf(x), Walk(TreeOf(y))))
  /\ content' = [content EXCEPT ![x] = [n \in DOMAIN @ \ DOMAIN content[y] |-> @[n]]]

Clear(x) ==
  /\ impl[x] # 0
  /\ impls' = Released(impls, impl[x])
  /\ impl' = [impl EXCEPT ![x] = 0]
  /\ content' = [content EXCEPT ![x] = << >>]

\* assign(): x lets its Impl go and shares y's.
Assign(x, y) ==
  /\ x # y
  /\ LET left == Released(impls, impl[x])
     IN  impls' = IF impl[y] = 0 THEN left
                  ELSE IF impl[y] = impl[x] THEN impls
                  ELSE [left EXCEPT ![impl[y]].refs = @ + 1]
  /\ impl' = [impl EXCEPT ![x] = impl[y]]
  /\ content' = [content EXCEPT ![x] = content[y]]
  /\ Small(x)'

Swap(x, y) ==
  /\ x # y
  /\ impl' = [impl EXCEPT ![x] = impl[y], ![y] = impl[x]]
  /\ content' = [content EXCEPT ![x] = content[y], ![y] = content[x]]
  /\ UNCHANGED impls

Init ==
  /\ impl = [x \in Handles |-> 0]
  /\ impls = [i \in 1..Cardinality(Handles) |-> Free]
  /\ content = [x \in Handles |-> << >>]

Next ==
  \E x \in Handles :
    \/ \E e \in Pairs : Put(x, e[1], e[2])
    \/ \E k \in Keys : Del(x, k)
    \/ Clear(x)
    \/ \E y \in Handles : PutAll(x, y) \/ DelAll(x, y) \/ Assign(x, y) \/ Swap(x, y)

-----------------------------------------------------------------------------
(* Properties *)

\* validate(): black nodes above the leaves on the way through n, -1 when two
\* ways differ.
RECURSIVE BlackHeight(_, _)
BlackHeight(h, n) ==
  IF n = Null THEN 1
  ELSE LET left == BlackHeight(h, Child(h, n, DirLeft))
           right == BlackHeight(h, Child(h, n, DirRight))
       IN  IF left = -1 \/ left # right THEN -1 ELSE IF h[n].red THEN left ELSE left + 1

\* Every tree is a red-black tree whenever an operation ends: all ways down
\* have as many black nodes, no red node has a red child, and each child knows
\* its parent, as the iterators need.
Balanced ==
  \A i \in DOMAIN impls : LET h == impls[i].tree.node
                              root == impls[i].tree.root IN
    /\ BlackHeight(h, root) # -1
    /\ root # Null => h[root].parent = Null /\ ~h[root].red
    /\ \A n \in DOMAIN h : \A d \in 0..1 :
         h[n].child[d] # Null => h[h[n].child[d]].parent = n /\ ~(h[n].red /\ h[h[n].child[d]].red)

\* A tree holds what its own user put, whatever was done with its copies: the
\* walk from begin() meets exactly those pairs, by key, and size() counts them.
CopiesApart ==
  \A x \in Handles :
    LET w == Walk(TreeOf(x))
    IN  /\ {w[n] : n \in DOMAIN w} = {<<k, content[x][k]>> : k \in DOMAIN content[x]}
        /\ \A n \in 2..Len(w) : w[n - 1][1] < w[n][1]
        /\ TreeOf(x).size = Len(w) /\ DOMAIN TreeOf(x).node = DOMAIN content[x]

\* find(), lowerBound() and upperBound() give the node that the keys in the
\* tree tell, for keys that are in it and for others.
BoundsExact ==
  \A x \in Handles : \A k \in Keys :
    LET t == TreeOf(x)
        in == DOMAIN content[x]
        Least(s) == IF s = {} THEN Null ELSE CHOOSE m \in s : \A n \in s : m <= n
    IN  /\ FindNode(t, k) = (IF k \in in THEN k ELSE Null)
        /\ LowerBound(t, k) = Least({n \in in : n >= k})
        /\ UpperBound(t, k) = Least({n \in in : n > k})

\* diff() of two trees has the pairs of the first that are not in the second,
\* and compare() is 0 only for trees with the same pairs.
DiffExact ==
  \A x, y \in Handles :
    LET PairsOf(z) == {<<k, content[z][k]>> : k \in DOMAIN content[z]}
        d == DiffWalks(Walk(TreeOf(x)), Walk(TreeOf(y)))
    IN  /\ {d[n] : n \in DOMAIN d} = PairsOf(x) \ PairsOf(y)
        /\ (Compare(TreeOf(x), TreeOf(y)) = 0) = (PairsOf(x) = PairsOf(y))

\* Each Impl counts the trees that use it: none is freed while in use, none is
\* left behind.
RefsCounted == \A i \in DOMAIN impls : impls[i].refs = Cardinality({x \in Handles : impl[x] = i})
=============================================================================
