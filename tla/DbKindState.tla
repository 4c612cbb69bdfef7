---------------------------- MODULE DbKindState -----------------------------
(***************************************************************************)
(* The property tokens of a kind.  Stored objects name their properties by *)
(* small numbers; MojDbKindState keeps the table, shared by all writers of *)
(* the kind, and stores it in a transaction of its own before the object   *)
(* that uses it.  A writer encodes against a copy of the table and asks    *)
(* for a token when the copy has none.                                     *)
(***************************************************************************)
EXTENDS Naturals, FiniteSets, Sequences, SequencesExt

CONSTANTS Writers,       \* threads that put objects of the kind
          Props,         \* property names
          TableSize,     \* tokens there are: MojUInt8Max - TokenStartMarker
          TokensInTxn    \* LMDB build: the table is written in the object's transaction

\* There are finitely many names, and a number of tokens.
TokensAssumption == IsFiniteSet(Props) /\ TableSize \in Nat

ASSUME TokensAssumption

VARIABLES table,     \* m_tokenVec and m_tokensObj: table[i] is the name of token i
          stored,    \* the table in kinds.db
          oldItem,   \* m_oldTokensItem: the stored table has been read or written
          writer,    \* per thread: the object it encodes and its own copy
          objects    \* what the stored objects hold: <<token or 0, property>>

tokenVars == <<table, stored, oldItem, writer, objects>>

Resting == [pc |-> "idle", left |-> {}, copy |-> <<>>, code |-> {}, pending |-> <<>>]

TokenOf(t, p) == IF \E i \in DOMAIN t : t[i] = p THEN CHOOSE i \in DOMAIN t : t[i] = p ELSE 0

\* tokenSet(): update() hands the writer a copy of the table.
StartPut(w, ps) ==
    /\ writer[w].pc = "idle"
    /\ writer' = [writer EXCEPT ![w] = [Resting EXCEPT !.pc = "encode", !.left = ps, !.copy = table,
                                                       !.pending = stored]]
    /\ UNCHANGED <<table, stored, oldItem, objects>>

\* Faulty variant: the new token is one the table may have given out.
NewTableByCount(t, p) == IF Len(t) < TableSize THEN Append(SelectSeq(t, LAMBDA q : q # p), p)
                         ELSE [t EXCEPT ![Len(t)] = p]

\* addPropImpl(): one more token while there are any left.
NewTable(t, p) == IF Len(t) < TableSize THEN Append(t, p) ELSE t

\* writeTokens(): a transaction of its own, committed at once.
StoreTable(s, t) == t

\* tokenFromString(): from the copy, or addToken() under the lock.  A token that
\* another writer has added in the meantime is returned with an empty copy, and
\* so is a full table: the name is then written as it is.
WriteProp(w, p) ==
    /\ writer[w].pc = "encode" /\ p \in writer[w].left
    /\ IF TokenOf(writer[w].copy, p) # 0
       THEN /\ writer' = [writer EXCEPT ![w].left = @ \ {p},
                                        ![w].code = @ \cup {<<TokenOf(writer[w].copy, p), p>>}]
            /\ UNCHANGED <<table, stored, oldItem>>
       ELSE LET known == TokenOf(table, p) # 0
                new == IF known THEN table ELSE NewTable(table, p)
                added == ~known /\ new # table
            IN  /\ table' = new
                /\ stored' = IF added /\ ~TokensInTxn THEN StoreTable(stored, new) ELSE stored
                /\ oldItem' = (oldItem \/ added)
                /\ writer' = [writer EXCEPT ![w].left = @ \ {p},
                                            ![w].copy = IF added THEN new ELSE <<>>,
                                            ![w].pending = IF added THEN new ELSE @,
                                            ![w].code = @ \cup {<<TokenOf(new, p), p>>}]
    /\ UNCHANGED objects

\* The object's transaction commits, or is aborted.
CommitPut(w) ==
    /\ writer[w].pc = "encode" /\ writer[w].left = {}
    /\ objects' = objects \cup writer[w].code
    /\ stored' = IF TokensInTxn THEN writer[w].pending ELSE stored
    /\ writer' = [writer EXCEPT ![w] = Resting]
    /\ UNCHANGED <<table, oldItem>>

AbortPut(w) ==
    /\ writer[w].pc = "encode"
    /\ writer' = [writer EXCEPT ![w] = Resting]
    /\ UNCHANGED <<table, stored, oldItem, objects>>

\* initTokens(): the stored table, then a token for each string of the schema that
\* has none, while there are any left.
InitTokens(s, strings) ==
    LET new == SetToSeq({p \in strings : TokenOf(s, p) = 0})
    IN  s \o SubSeq(new, 1, IF Len(s) + Len(new) <= TableSize THEN Len(new) ELSE TableSize - Len(s))

\* configure() of the kind: a new state, under the schema lock; and a restart.
NewState(strings) ==
    /\ \A w \in Writers : writer[w].pc = "idle"
    /\ table' = InitTokens(stored, strings)
    /\ stored' = table'
    /\ oldItem' = TRUE
    /\ UNCHANGED <<writer, objects>>

ReadTokens ==
    /\ table' = stored
    /\ oldItem' = (stored # <<>>)
    /\ writer' = [w \in Writers |-> Resting]
    /\ UNCHANGED <<stored, objects>>

TokensInit ==
    /\ table = <<>> /\ stored = <<>> /\ oldItem = FALSE
    /\ writer = [w \in Writers |-> Resting]
    /\ objects = {}

TokensNext ==
    \/ \E w \in Writers : CommitPut(w) \/ AbortPut(w)
    \/ \E w \in Writers, p \in Props : WriteProp(w, p)
    \/ \E w \in Writers, ps \in SUBSET Props \ {{}} : StartPut(w, ps)
    \/ \E strings \in SUBSET Props : NewState(strings)
    \/ ReadTokens

TokensSpec == TokensInit /\ [][TokensNext]_tokenVars

-----------------------------------------------------------------------------
\* Every token of a stored object stands, in the stored table, for the property
\* it was written for: across concurrent writers, aborts, crashes and new states.
ObjectsReadable ==
    \A c \in objects : c[1] # 0 => c[1] \in DOMAIN stored /\ stored[c[1]] = c[2]

\* The shared table never gives a token or a name twice, and is the stored one.
TableConsistent ==
    /\ IsInjective(table)
    /\ ~TokensInTxn => table = stored

\* Every stored object can be read with the stored table of its kind, after crashes
\* too, and the table names no property twice.
TokensExact == ObjectsReadable /\ TableConsistent
=============================================================================
