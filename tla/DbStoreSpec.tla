----------------------------- MODULE DbStoreSpec -----------------------------
(***************************************************************************)
(* What the object store promises its clients: a request is a batch of     *)
(* operations that takes effect at once, as if they were run one after the *)
(* other with nobody else about, or is refused and has no effect.  There   *)
(* are no transactions, no index and no retries here.                      *)
(***************************************************************************)
EXTENDS Integers, SequencesExt

CONSTANTS
  Clients,   \* who makes requests
  Ids,       \* object ids
  Ops,       \* the operations they may ask for
  Revs,      \* revisions
  Absent     \* no object

VARIABLES
  objects,   \* the objects
  request,   \* what each client has asked for
  reply      \* its last answer

vars == <<objects, request, reply>>

Exists(o) == o # Absent

\* The operation is on an object that must be there and is not.
Void(op, o) == op.op \in {"del", "purge", "mergeExisting"} /\ ~Exists(o)

\* A put over an object has to name its revision; a revision that is named
\* has to be the object's.
Admitted(op, o) ==
  /\ op.op = "put" /\ op.rev = 0 /\ Exists(o) => o.del
  /\ op.op \in {"put", "merge", "mergeExisting"} /\ op.rev # 0 /\ Exists(o) => op.rev = o.rev

\* What the object holds after the operation, but for its revision.
Content(op, o) ==
  CASE op.op \in {"put", "force"}           -> [o EXCEPT !.key = op.key, !.del = FALSE]
    [] op.op \in {"merge", "mergeExisting"} -> [o EXCEPT !.key = op.key]
    [] op.op = "del"                        -> [o EXCEPT !.del = TRUE]

\* The object after the operation: it gets a later revision, or stays as it
\* is if nothing changes.
After(op, o) ==
  IF Void(op, o) THEN {o}
  ELSE IF ~Admitted(op, o) THEN {}
  ELSE IF op.op = "purge" THEN {Absent}
  ELSE {[Content(op, o) EXCEPT !.rev = r] : r \in {s \in Revs : s > o.rev}}
         \cup (IF Exists(o) THEN {o} \cap {Content(op, o)} ELSE {})

\* The stores a batch may lead to, from store s.
Outcomes(s, ops) ==
  LET Run(stores, op) == UNION {{[st EXCEPT ![op.id] = o] : o \in After(op, st[op.id])} : st \in stores}
  IN FoldLeft(Run, {s}, ops)

Begin(c) ==
  /\ request[c] = <<>> /\ reply' = [reply EXCEPT ![c] = "none"]
  /\ UNCHANGED <<objects, request>>

Ask(c) ==
  /\ reply[c] = "none"
  /\ \E op \in Ops : request' = [request EXCEPT ![c] = Append(@, op)]
  /\ UNCHANGED <<objects, reply>>

Execute(c) ==
  /\ request[c] # <<>>
  /\ reply' = [reply EXCEPT ![c] = "ok"] /\ request' = [request EXCEPT ![c] = <<>>]
  /\ objects' \in Outcomes(objects, request[c])

Refuse(c) ==
  /\ request[c] # <<>>
  /\ reply'[c] \notin {"none", "ok"} /\ reply' = [reply EXCEPT ![c] = reply'[c]]
  /\ request' = [request EXCEPT ![c] = <<>>]
  /\ UNCHANGED objects

Init ==
  /\ objects = [id \in Ids |-> Absent]
  /\ request = [c \in Clients |-> <<>>] /\ reply = [c \in Clients |-> "none"]

Next == \E c \in Clients : Begin(c) \/ Ask(c) \/ Execute(c) \/ Refuse(c)

Spec == Init /\ [][Next]_vars
=============================================================================
