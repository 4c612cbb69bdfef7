---------------------------- MODULE SharedArray -----------------------------
(***************************************************************************)
(* MojVector and MojString: handles on reference counted buffers that are  *)
(* copied when a handle writes to a buffer it shares.  mode picks one of   *)
(* the two.  A buffer has its elements, Junk where none was constructed; a *)
(* string's buffer has room for the terminator besides.                    *)
(*                                                                         *)
(* An argument never points into the buffer of the handle that is changed, *)
(* but for assign() of a string: a reallocation would free it first.  Nor  *)
(* is a vector assigned to itself: the buffer is released before it is     *)
(* retained.                                                               *)
(***************************************************************************)
EXTENDS Sorting, SequencesExt, FiniteSetsExt

CONSTANTS
  Handles,      \* the vectors or strings
  Elems,        \* elements: an upper bound, a positive number
  InitialSize,  \* the smallest capacity that growing allocates
  MaxLen,       \* bound: length of a vector or string
  MaxCapacity   \* bound: capacity; appending to a shared string doubles it

VARIABLES
  mode,         \* "vector" or "string"
  mem,          \* at: the buffer and length of each handle; heap: the buffers
  content       \* history: what each handle should hold

arrayVars == <<mode, mem, content>>

Null == 0       \* NULL, or s_emptyString
Junk == -1
Zero == 0       \* the terminator

Buffers == 1..(Cardinality(Handles) + 1)
Free == [refs |-> 0, cells |-> <<>>]
Junks(n) == [i \in 1..n |-> Junk]

-----------------------------------------------------------------------------
(* Buffers *)

Length(m, h) == m.at[h].len
BufferOf(m, h) == m.at[h].buf
CellsOf(m, h) == IF BufferOf(m, h) = Null THEN <<>> ELSE m.heap[BufferOf(m, h)].cells
ItemsOf(m, h) == SubSeq(CellsOf(m, h), 1, Length(m, h))
RefCount(m, h) == m.heap[BufferOf(m, h)].refs

\* capacity(): a string's without the terminator.
Capacity(m, h) == IF BufferOf(m, h) = Null THEN 0 ELSE Len(CellsOf(m, h)) - (IF mode = "string" THEN 1 ELSE 0)

\* release(): the last reference frees the buffer.
Release(m, h) ==
  IF BufferOf(m, h) = Null THEN m
  ELSE [m EXCEPT !.heap[BufferOf(m, h)] = IF RefCount(m, h) = 1 THEN Free ELSE [@ EXCEPT !.refs = @ - 1]]

\* reset().
Reset(m, h, buf, len) == [Release(m, h) EXCEPT !.at[h] = [buf |-> buf, len |-> len]]

\* A buffer of its own for the handle, with these cells.
NewBuffer(m, h, cells, len) ==
  LET b == Min({x \in Buffers : m.heap[x].refs = 0})
  IN  Reset([m EXCEPT !.heap[b] = [refs |-> 1, cells |-> cells]], h, b, len)

\* realloc(): the elements, and a string's terminator, are copied.
Realloc(m, h, n) ==
  LET items == ItemsOf(m, h)
      room  == n - Len(items)
  IN  NewBuffer(m, h, items \o (IF mode = "string" THEN <<Zero>> ELSE <<>>) \o Junks(room), Len(items))

\* Faulty variant: a shared buffer is written.
EnsureWritableShared(m, h) ==
  IF mode = "string" /\ BufferOf(m, h) = Null THEN Realloc(m, h, Length(m, h)) ELSE m

\* ensureWritable(): a vector without a buffer has nothing to write to.
EnsureWritable(m, h) ==
  IF mode = "string"
  THEN IF BufferOf(m, h) # Null /\ RefCount(m, h) = 1 THEN m ELSE Realloc(m, h, Length(m, h))
  ELSE IF BufferOf(m, h) # Null /\ RefCount(m, h) > 1 THEN Realloc(m, h, Capacity(m, h)) ELSE m

\* The elements from a position on are written.
Written(m, h, pos, items) ==
  [m EXCEPT !.heap[BufferOf(m, h)].cells =
     [i \in DOMAIN @ |-> IF i \in (pos + 1)..(pos + Len(items)) THEN items[i - pos] ELSE @[i]]]

EndAt(m, h, len) == [m EXCEPT !.at[h].len = len]

Share(m, h, g) ==
  [Reset(m, h, BufferOf(m, g), Length(m, g)) EXCEPT !.heap[BufferOf(m, g)].refs = @ + 1]

-----------------------------------------------------------------------------
(* Vectors *)

\* ensureSpace(): twice the capacity at least; then a buffer of its own.
EnsureSpace(m, h, n) ==
  EnsureWritable(IF n > Capacity(m, h) THEN Realloc(m, h, Max({InitialSize, 2 * Capacity(m, h), n})) ELSE m, h)

\* push(), append().
Append2(m, h, items) ==
  LET e == EnsureSpace(m, h, Length(m, h) + Len(items))
  IN  IF items = <<>> THEN e ELSE EndAt(Written(e, h, Length(m, h), items), h, Length(m, h) + Len(items))

\* shift(): the hole past the end is default constructed, the elements that
\* move past the end are copied, the others assigned from the last one down.
ShiftCells(cells, idx, len, n) ==
  LET moved  == len - idx
      copied == Min({n, moved})
  IN  [i \in DOMAIN cells |->
         CASE i > len /\ i <= len + n - copied     -> Junk
           [] i > len + n - copied /\ i <= len + n -> cells[i - n]
           [] i > len - (moved - copied) /\ i <= len -> cells[i - n]
           [] OTHER -> cells[i]]

Shift(m, h, idx, n) ==
  LET e == EnsureSpace(m, h, Length(m, h) + n)
  IN  IF BufferOf(e, h) = Null THEN e
      ELSE EndAt(Written(e, h, 0, ShiftCells(CellsOf(e, h), idx, Length(m, h), n)), h, Length(m, h) + n)

\* insert().
Insert(m, h, idx, items) ==
  LET s == Shift(m, h, idx, Len(items)) IN IF items = <<>> THEN s ELSE Written(s, h, idx, items)

\* erase(): the elements after it are moved down, those at the end destroyed.
Erase(m, h, idx, n) ==
  LET e    == EnsureWritable(m, h)
      rest == SubSeq(ItemsOf(m, h), idx + n + 1, Length(m, h))
  IN  IF BufferOf(e, h) = Null THEN e
      ELSE EndAt(Written(e, h, idx, rest \o Junks(n)), h, Length(m, h) - n)

\* resize().
Resize(m, h, n, x) ==
  CASE n > Length(m, h) -> Insert(m, h, Length(m, h), [i \in 1..(n - Length(m, h)) |-> x])
    [] n < Length(m, h) -> Erase(m, h, n, Length(m, h) - n)
    [] OTHER            -> m

\* clear(): the only handle keeps the buffer.
ClearVector(m, h) ==
  CASE Length(m, h) = 0 -> m
    [] Length(m, h) # 0 /\ RefCount(m, h) = 1 -> EndAt(Written(m, h, 0, Junks(Length(m, h))), h, 0)
    [] OTHER -> Reset(m, h, Null, 0)

\* assign(): the other's buffer is shared, empty or not.
AssignVector(m, h, g) == IF BufferOf(m, g) = Null THEN Reset(m, h, Null, 0) ELSE Share(m, h, g)

\* sort(), reverse(): by MojSwap() in place.
SortVector(m, h) ==
  LET e == EnsureWritable(m, h)
      r == QuickSort([i \in 1..Length(m, h) |-> [val |-> ItemsOf(m, h)[i]]])
  IN  IF Length(m, h) <= 1 THEN m ELSE Written(e, h, 0, [i \in 1..Length(m, h) |-> r[i].val])

ReverseVector(m, h) ==
  IF Length(m, h) <= 1 THEN m ELSE Written(EnsureWritable(m, h), h, 0, Reverse(ItemsOf(m, h)))

-----------------------------------------------------------------------------
(* Strings *)

IsWritable(m, h) == BufferOf(m, h) # Null /\ RefCount(m, h) = 1

\* setEnd(); what is after the terminator does not matter any more.
SetEnd(m, h, len) ==
  EndAt(Written(m, h, len, <<Zero>> \o Junks(Len(CellsOf(m, h)) - len - 1)), h, len)

\* ensureSpace(): for len more characters.
EnsureRoom(m, h, len) ==
  IF len > Capacity(m, h) - Length(m, h) \/ ~IsWritable(m, h)
  THEN Realloc(m, h, Max({2 * Capacity(m, h), Length(m, h) + len, InitialSize})) ELSE m

\* append().
AppendChars(m, h, chars) ==
  IF chars = <<>> THEN m
  ELSE EndAt(Written(EnsureRoom(m, h, Len(chars)), h, Length(m, h), Append(chars, Zero)), h, Length(m, h) + Len(chars))

\* clear().
ClearString(m, h) ==
  CASE Length(m, h) = 0                      -> m
    [] Length(m, h) # 0 /\ IsWritable(m, h)  -> SetEnd(m, h, 0)
    [] Length(m, h) # 0 /\ ~IsWritable(m, h) -> Reset(m, h, Null, 0)

\* assign() of characters: moved into a buffer that is large enough and its
\* own, otherwise copied to a new one before the old one is released.
AssignChars(m, h, chars) ==
  CASE chars = <<>> -> ClearString(m, h)
    [] chars # <<>> /\ Len(chars) <= Capacity(m, h) /\ IsWritable(m, h) -> SetEnd(Written(m, h, 0, chars), h, Len(chars))
    [] OTHER -> NewBuffer(m, h, Append(chars, Zero), Len(chars))

\* assign() of a string: not of itself; an empty one is not shared.
AssignString(m, h, g) ==
  CASE h = g -> m
    [] h # g /\ Length(m, g) = 0 -> Reset(m, h, Null, 0)
    [] h # g /\ Length(m, g) # 0 -> Share(m, h, g)

\* truncate().
Truncate(m, h, len) == IF len < Length(m, h) THEN SetEnd(EnsureWritable(m, h), h, len) ELSE m

\* resize() to a longer string leaves the new characters to the caller, who
\* writes them through begin().
ResizeString(m, h, len, c) ==
  IF len = Length(m, h) THEN m
  ELSE LET w == EnsureWritable(m, h)
           r == SetEnd(IF len > Capacity(w, h) THEN Realloc(w, h, len) ELSE w, h, len)
       IN  Written(r, h, Length(m, h), [i \in 1..Max({0, len - Length(m, h)}) |-> c])

\* toUpper(), toLower(): the letter 1 is the lower case of the letter 2.
ToCase(m, h, from, to) ==
  LET w == EnsureWritable(m, h)
  IN  Written(w, h, 0, [i \in 1..Length(m, h) |-> IF ItemsOf(m, h)[i] = from THEN to ELSE ItemsOf(m, h)[i]])

\* split(): the parts that are not empty.
RECURSIVE SplitFrom(_, _, _)
SplitFrom(s, c, start) ==
  IF start > Len(s) THEN <<>>
  ELSE LET stops == {i \in start..Len(s) : s[i] = c}
           stop  == IF stops = {} THEN Len(s) + 1 ELSE Min(stops)
       IN  (IF stop > start THEN <<SubSeq(s, start, stop - 1)>> ELSE <<>>) \o SplitFrom(s, c, stop + 1)

-----------------------------------------------------------------------------
(* Operations *)

SetAt(m, h, idx, x) == Written(EnsureWritable(m, h), h, idx - 1, <<x>>)

\* swap(): a vector's pointers are swapped; strings go through a third one,
\* which shares the first; an empty one gives up its buffer.
Swap(m, h, g) ==
  IF mode = "vector" THEN [m EXCEPT !.at[h] = m.at[g], !.at[g] = m.at[h]]
  ELSE LET gone(x, y) == IF Length(x, y) = 0 THEN Reset(x, y, Null, 0) ELSE x
           both == gone(gone(m, h), g)
       IN  [both EXCEPT !.at[h] = both.at[g], !.at[g] = both.at[h]]

Reserve(m, h, n) == IF n > Capacity(m, h) THEN Realloc(m, h, n) ELSE m

Does(new, h, should) ==
  /\ Len(should) <= MaxLen /\ Capacity(new, h) <= MaxCapacity
  /\ mem' = new
  /\ content' = [content EXCEPT ![h] = should]
  /\ UNCHANGED mode

\* What is written is short, or what another handle holds.
Chunks == {<<x>> : x \in 1..Elems} \cup {<<1, 2>>}

\* Operations that both have, or under another name.
Change(h) ==
  LET c == content[h] n == Len(c)
  IN  \/ \E x \in 1..Elems, i \in 1..n : Does(SetAt(mem, h, i, x), h, [c EXCEPT ![i] = x])
      \/ \E k \in {1, MaxLen} : Does(Reserve(mem, h, k), h, c)
      \/ \E g \in Handles \ {h} : mem' = Swap(mem, h, g) /\ content' = [content EXCEPT ![h] = content[g], ![g] = c] /\ UNCHANGED mode

ChangeVector(h) ==
  LET c == content[h] n == Len(c)
  IN  /\ mode = "vector"
      /\ \/ \E s \in Chunks \cup {content[g] : g \in Handles \ {h}} :
              \/ Does(Append2(mem, h, s), h, c \o s)
              \/ \E i \in 0..n : Does(Insert(mem, h, i, s), h, SubSeq(c, 1, i) \o s \o SubSeq(c, i + 1, n))
         \/ \E i \in 0..n : \E k \in 0..(n - i) : Does(Erase(mem, h, i, k), h, SubSeq(c, 1, i) \o SubSeq(c, i + k + 1, n))
         \/ \E k \in 0..MaxLen : Does(Resize(mem, h, k, 1), h, [i \in 1..k |-> IF i <= n THEN c[i] ELSE 1])
         \/ Does(ClearVector(mem, h), h, <<>>)
         \/ Does(ReverseVector(mem, h), h, Reverse(c))
         \/ Does(SortVector(mem, h), h, SortSeq(c, <))
         \/ \E g \in Handles \ {h} : Does(AssignVector(mem, h, g), h, content[g])

ChangeString(h) ==
  LET c == content[h] n == Len(c)
  IN  /\ mode = "string"
      /\ \/ \E s \in Chunks \cup {content[g] : g \in Handles \ {h}} : Does(AppendChars(mem, h, s), h, c \o s)
         \/ \E g \in Handles : \E i \in 1..Len(content[g]), k \in 0..Len(content[g]) :
              Does(AssignChars(mem, h, SubSeq(ItemsOf(mem, g), i, k)), h, SubSeq(content[g], i, k))
         \/ \E g \in Handles : \E x \in 1..Elems, p \in 1..2 :
              LET parts == SplitFrom(ItemsOf(mem, g), x, 1)
              IN  p \in DOMAIN parts /\ Does(AssignChars(mem, h, parts[p]), h, parts[p])
         \/ \E k \in 0..n : Does(Truncate(mem, h, k), h, SubSeq(c, 1, k))
         \/ \E k \in 0..MaxLen : Does(ResizeString(mem, h, k, 1), h, [i \in 1..k |-> IF i <= n THEN c[i] ELSE 1])
         \/ Does(ClearString(mem, h), h, <<>>)
         \/ Does(ToCase(mem, h, 1, 2), h, [i \in 1..n |-> IF c[i] = 1 THEN 2 ELSE c[i]])
         \/ Does(ToCase(mem, h, 2, 1), h, [i \in 1..n |-> IF c[i] = 2 THEN 1 ELSE c[i]])
         \/ \E g \in Handles : Does(AssignString(mem, h, g), h, content[g])

Init ==
  /\ mode \in {"vector", "string"}
  /\ mem = [at |-> [h \in Handles |-> [buf |-> Null, len |-> 0]], heap |-> [b \in Buffers |-> Free]]
  /\ content = [h \in Handles |-> <<>>]

Next == \E h \in Handles : Change(h) \/ ChangeVector(h) \/ ChangeString(h)

-----------------------------------------------------------------------------
(* Properties *)

\* Each handle holds exactly what its own operations made it: no operation
\* reaches another handle through a shared buffer, and growing, shifting,
\* sorting, assigning parts of itself lose and invent nothing.
ContentExact == \A h \in Handles : ItemsOf(mem, h) = content[h]

\* A buffer is referred to by as many handles as it counts: it is not freed
\* while one uses it, and freed with the last.
RefsExact ==
  \A b \in Buffers : mem.heap[b].refs = Cardinality({h \in Handles : BufferOf(mem, h) = b})

\* A string ends within its buffer, with the terminator (MojStringAssertValid).
Terminated ==
  mode = "string" => \A h \in Handles : BufferOf(mem, h) # Null =>
    Length(mem, h) < Len(CellsOf(mem, h)) /\ CellsOf(mem, h)[Length(mem, h) + 1] = Zero
=============================================================================
