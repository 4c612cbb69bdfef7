--------------------------- MODULE DbService_proofs ---------------------------
(***************************************************************************)
(* Proofs about DbService for any senders, threads and requests: replies   *)
(* are exact, and subscriptions end once.                                  *)
(*                                                                         *)
(* The argument about replies follows a request through the dispatcher     *)
(* (one thread at a time works for a sender, in the order of its           *)
(* requests), its handler (what has been sent at each point of it) and its *)
(* watch (one thread at most is about to send its event).                  *)
(*                                                                         *)
(* The argument about subscriptions follows a message: who holds it, who   *)
(* is about to destroy it, and that what is subscribed has the slot of its *)
(* cancel signal, had no reply yet, or was looked up for its cancel.       *)
(***************************************************************************)
EXTENDS DbService, FiniteSetTheorems, TLAPS

MessageRec ==
  [kind : {"put", "get", "watch", Nil}, subscribed : BOOLEAN, slot : BOOLEAN, replies : Nat,
   exists : BOOLEAN, held : BOOLEAN, watch : {"none", "pending", "active", "off"}, changed : BOOLEAN]

\* Where a thread is: between queues, serving a request, at a watch that
\* fires, or serving a cancel.
Firing == {"unslot", "unslotted", "event"}
AtRest == {"check", "wait", "exit"}
Points == AtRest \cup Firing \cup
          {"request", "refuse", "visit", "answer", "close", "firing", "destroy", "done",
           "crash", "cancel", "fire", "notify", "release"}

ThreadRec ==
  [pc : Points, id : Ids \cup {Nil}, what : {"request", "cancel", Nil}, todo : SUBSET Ids,
   at : Ids \cup {Nil}, back : {Nil, "answer", "done", "refuse"}, tries : Nat]

ServiceTypes ==
  /\ scheduled \in Seq(Senders) /\ pending \in SUBSET Senders
  /\ queue \in [Senders -> Seq(Ids \X {"request", "cancel"})]
  /\ thread \in [Threads -> ThreadRec]
  /\ msg \in [Ids -> MessageRec]
  /\ sent \in [Ids -> Seq({"answer", "error", "fired"})]

Busy(t) == thread[t].pc \notin AtRest

\* A queue is listed once, as scheduled while it has messages or as pending
\* while a thread works on it, and one thread at most does.
QueuesInv ==
  /\ \A i, j \in DOMAIN scheduled : scheduled[i] = scheduled[j] => i = j
  /\ \A i \in DOMAIN scheduled : scheduled[i] \notin pending /\ queue[scheduled[i]] # <<>>
  /\ \A s \in Senders : \A n \in DOMAIN queue[s] :
        queue[s][n][1][1] = s /\ msg[queue[s][n][1]].kind # Nil
  /\ \A t \in Threads : Busy(t) =>
        thread[t].id \in Ids /\ thread[t].id[1] \in pending /\ msg[thread[t].id].kind # Nil
  /\ \A t, u \in Threads : Busy(t) /\ Busy(u) /\ t # u => thread[t].id[1] # thread[u].id[1]

Arrived(id) == msg[id].kind # Nil
Waiting(id) == \E n \in DOMAIN queue[id[1]] : queue[id[1]][n] = <<id, "request">>
Serves(t, id) == Busy(t) /\ thread[t].what = "request" /\ thread[t].id = id
Earlier(id) == {e \in Ids : e[1] = id[1] /\ e[2] < id[2]}

\* The queue of a sender holds its requests in their order; a request that
\* was taken from it found all earlier ones answered, and is being served as
\* long as nothing was sent for it.  Nothing happened to one that waits.
OrderOf(id) ==
  /\ Arrived(id) => \A e \in Earlier(id) : Arrived(e)
  /\ Arrived(id) /\ ~Waiting(id) =>
        /\ \A e \in Earlier(id) : sent[e] # <<>>
        /\ sent[id] = <<>> => \E t \in Threads : Serves(t, id)
  /\ ~Arrived(id) \/ Waiting(id) =>
        /\ sent[id] = <<>> /\ msg[id].watch = "none"
        /\ \A t \in Threads : ~Serves(t, id)

QueueOrdered(s) ==
  \A i, j \in DOMAIN queue[s] :
    i < j /\ queue[s][i][2] = "request" /\ queue[s][j][2] = "request"
      => queue[s][i][1][2] < queue[s][j][1][2]

OrderInv == (\A s \in Senders : QueueOrdered(s)) /\ (\A id \in Ids : OrderOf(id))

\* What has been sent at each point of a handler.
PutFlow(t) ==
  LET th == thread[t] IN
  /\ th.pc \in {"request", "firing", "destroy", "answer", "done", "crash"} \cup Firing
  /\ sent[th.id] = <<>> <=> th.pc # "done"
  /\ th.pc \in {"firing", "destroy"} \cup Firing => th.back = "answer"

GetFlow(t) ==
  /\ thread[t].pc \in {"request", "answer", "done"}
  /\ sent[thread[t].id] = <<>> <=> thread[t].pc # "done"

\* A watch that found something has its event instead of an answer, sent by
\* its own close; until then its watch is pending.
WatchFlow(t) ==
  LET th == thread[t]
      m  == msg[th.id]
  IN  /\ th.pc \in {"request", "visit", "answer", "close", "refuse", "done", "firing", "crash"} \cup Firing
      /\ th.pc # "done" => th.todo = {}
      /\ th.pc \in Firing => th.at = th.id
      /\ th.pc \in {"answer", "close", "firing"} \cup Firing => th.back \in {"done", "refuse"}
      /\ th.pc = "request" => m.watch = "none" /\ sent[th.id] = <<>>
      /\ th.pc \in {"visit", "answer"} => m.watch = "pending" /\ sent[th.id] = <<>>
      /\ th.pc = "close" =>
            m.watch = "pending" /\ (th.back = "done" => sent[th.id] # <<>> \/ m.changed)
      /\ th.pc \in {"firing", "done"} => sent[th.id] # <<>>

CancelFlow(t) ==
  /\ thread[t].pc \in {"cancel", "fire", "notify", "release", "destroy", "done"}
  /\ thread[t].pc = "notify" => msg[thread[t].id].watch # "none"

FlowOf(t) ==
  LET kind == msg[thread[t].id].kind IN
  Busy(t) =>
    \/ thread[t].what = "request" /\ kind = "put" /\ PutFlow(t)
    \/ thread[t].what = "request" /\ kind = "get" /\ GetFlow(t)
    \/ thread[t].what = "request" /\ kind = "watch" /\ WatchFlow(t)
    \/ thread[t].what = "cancel" /\ CancelFlow(t)

Flow == \A t \in Threads : FlowOf(t)

Fired(id) == \E n \in DOMAIN sent[id] : sent[id][n] = "fired"

\* A thread at a watch that fires is the only one there, the watch is off,
\* and its event has not been sent.
TokenOf(t) ==
  thread[t].pc \in Firing =>
    /\ thread[t].at \in Ids /\ ~Fired(thread[t].at)
    /\ msg[thread[t].at].watch = "off"
    /\ \A u \in Threads \ {t} : thread[u].pc \in Firing => thread[u].at # thread[t].at

\* What a client was sent is one answer or error, one event, or the two in
\* this order, and the event comes of a watch that is off.
SentOf(id) ==
  /\ Len(sent[id]) <= 2 /\ (Len(sent[id]) = 2 => sent[id][1] # "fired" /\ sent[id][2] = "fired")
  /\ msg[id].replies = Len(sent[id])
  /\ msg[id].watch # "off" => ~Fired(id)
  /\ msg[id].watch # "none" => msg[id].kind = "watch"
  /\ msg[id].slot => msg[id].watch # "none"

SentInv == (\A t \in Threads : TokenOf(t)) /\ (\A id \in Ids : SentOf(id))

ServiceInv == ServiceTypes /\ QueuesInv /\ OrderInv /\ Flow /\ SentInv

-----------------------------------------------------------------------------
(* Identifiers of messages. *)

\* An identifier is a sender and a number, and all numbers before it identify messages too.
LEMMA IdShape ==
  ASSUME NEW id \in Ids
  PROVE  /\ id = <<id[1], id[2]>> /\ id[1] \in Senders /\ id[2] \in Nat /\ id[2] >= 1
         /\ id # Nil
         /\ \A i \in 1 .. id[2] : <<id[1], i>> \in Ids
<1>1. PICK s \in Senders : id \in {s} \X (1 .. Calls[s])
  BY DEF Ids
<1>2. id = <<id[1], id[2]>> /\ id[1] = s /\ id[2] \in 1 .. Calls[s] /\ Calls[s] \in Nat
  BY <1>1, CallsAssumption
<1>3. \A i \in 1 .. id[2] : <<id[1], i>> \in {s} \X (1 .. Calls[s])
  BY <1>2
<1> QED BY <1>2, <1>3, NilAssumption DEF Ids

-----------------------------------------------------------------------------
(* The replies of the message, and the steps of a thread inside a handler. *)

\* reply() counts, and may end a subscription; the rest stays.
LEMMA SendEffect ==
  ASSUME ServiceTypes, NEW id \in Ids, NEW what \in {"answer", "error", "fired"}, Send(id, what)
  PROVE  /\ msg' \in [Ids -> MessageRec] /\ sent' \in [Ids -> Seq({"answer", "error", "fired"})]
         /\ sent' = [sent EXCEPT ![id] = Append(@, what)]
         /\ msg'[id].replies = msg[id].replies + 1
         /\ \A i \in Ids : i # id => msg'[i] = msg[i]
         /\ \A i \in Ids : /\ msg'[i].kind = msg[i].kind /\ msg'[i].watch = msg[i].watch
                           /\ (msg'[i].slot <=> msg[i].slot) /\ (msg'[i].changed <=> msg[i].changed)
<1> DEFINE m == Reply(id, msg[id])
<1>1. msg[id] \in MessageRec
  BY DEF ServiceTypes
<1>2. /\ m \in MessageRec /\ m.replies = msg[id].replies + 1
      /\ m.kind = msg[id].kind /\ m.watch = msg[id].watch
      /\ (m.slot <=> msg[id].slot) /\ (m.changed <=> msg[id].changed)
  <2> DEFINE grown == msg[id].replies + 1
             kept(sub) == [msg[id] EXCEPT !.subscribed = sub, !.replies = grown]
             ended == [[msg[id] EXCEPT !.subscribed = FALSE] EXCEPT !.replies = grown]
  <2>1. grown \in Nat
    BY <1>1 DEF MessageRec
  <2>2. m = ended \/ m = kept(msg[id].subscribed \/ msg[id].replies = 0)
    BY DEF Reply, Unsubscribed
  <2>3. (msg[id].subscribed \/ msg[id].replies = 0) \in BOOLEAN
    OBVIOUS
  <2> HIDE DEF grown, m
  <2>4. /\ ended \in MessageRec /\ ended.replies = grown
        /\ ended.kind = msg[id].kind /\ ended.watch = msg[id].watch
        /\ ended.slot = msg[id].slot /\ ended.changed = msg[id].changed
    BY <1>1, <2>1 DEF MessageRec
  <2>5. ASSUME NEW sub \in BOOLEAN
        PROVE  /\ kept(sub) \in MessageRec /\ kept(sub).replies = grown
               /\ kept(sub).kind = msg[id].kind /\ kept(sub).watch = msg[id].watch
               /\ kept(sub).slot = msg[id].slot /\ kept(sub).changed = msg[id].changed
    BY <1>1, <2>1 DEF MessageRec
  <2> HIDE DEF ended, kept
  <2> QED BY <2>2, <2>3, <2>4, <2>5 DEF grown
<1>3. msg' = [msg EXCEPT ![id] = m] /\ sent' = [sent EXCEPT ![id] = Append(@, what)]
  BY DEF Send
<1> HIDE DEF m
<1> QED BY <1>2, <1>3 DEF ServiceTypes

\* A step of a thread inside a handler leaves the queues and the other
\* threads alone.
InnerStep(t) ==
  /\ UNCHANGED <<scheduled, pending, queue>>
  /\ Busy(t) /\ Busy(t)' /\ UNCHANGED <<thread[t].id, thread[t].what>>
  /\ \A u \in Threads \ {t} : thread'[u] = thread[u]
  /\ \A id \in Ids : msg'[id].kind = msg[id].kind

\* It concerns no message that has not arrived or still waits, and takes
\* nothing back that was sent.
Touches ==
  /\ \A id \in Ids : ~Arrived(id) \/ Waiting(id) =>
        sent'[id] = sent[id] /\ msg'[id].watch = msg[id].watch
  /\ \A id \in Ids : sent[id] # <<>> => sent'[id] # <<>>

\* A step inside a handler leaves the queues as they are.
LEMMA InnerQueues ==
  ASSUME ServiceTypes, QueuesInv, NEW t \in Threads, InnerStep(t)
  PROVE  QueuesInv'
<1>1. \A u \in Threads : Busy(u)' => Busy(u) /\ thread'[u].id = thread[u].id
  BY DEF InnerStep, Busy
<1>2. \A s \in Senders : \A n \in DOMAIN queue[s] : queue[s][n][1] \in Ids
  BY DEF ServiceTypes
<1>3. (\A s \in Senders : \A n \in DOMAIN queue[s] :
        queue[s][n][1][1] = s /\ msg[queue[s][n][1]].kind # Nil)'
  BY <1>2 DEF InnerStep, QueuesInv
<1>4. (\A u \in Threads : Busy(u) =>
        thread[u].id \in Ids /\ thread[u].id[1] \in pending /\ msg[thread[u].id].kind # Nil)'
  BY <1>1 DEF InnerStep, QueuesInv
<1>5. (\A v, u \in Threads : Busy(v) /\ Busy(u) /\ v # u => thread[v].id[1] # thread[u].id[1])'
  BY <1>1 DEF QueuesInv
<1> QED BY <1>3, <1>4, <1>5 DEF InnerStep, QueuesInv

\* A step inside a handler leaves the order of the answers to come as it is.
LEMMA InnerOrder ==
  ASSUME ServiceTypes, OrderInv, NEW t \in Threads, InnerStep(t), Touches
  PROVE  OrderInv'
<1>1. \A u \in Threads : Busy(u)' <=> Busy(u)
  BY DEF InnerStep, Busy
<1>2. \A u \in Threads : thread'[u].id = thread[u].id /\ thread'[u].what = thread[u].what
  BY DEF InnerStep
<1>3. \A id \in Ids : \A u \in Threads : Serves(u, id)' <=> Serves(u, id)
  BY <1>1, <1>2 DEF Serves
<1>4. \A s \in Senders : QueueOrdered(s)'
  BY DEF InnerStep, OrderInv, QueueOrdered
<1>5. ASSUME NEW id \in Ids PROVE OrderOf(id)'
  <2>1. (Arrived(id)' <=> Arrived(id)) /\ (Waiting(id)' <=> Waiting(id))
    BY DEF InnerStep, Arrived, Waiting
  <2>2. Earlier(id)' = Earlier(id) /\ \A e \in Earlier(id) : e \in Ids /\ (Arrived(e)' <=> Arrived(e))
    BY DEF InnerStep, Arrived, Earlier
  <2>3. OrderOf(id)
    BY DEF OrderInv
  <2> QED BY <1>3, <2>1, <2>2, <2>3 DEF OrderOf, Touches
<1> QED BY <1>4, <1>5 DEF OrderInv

\* A watch that is registered or over belongs to a request that was taken
\* from its queue.
LEMMA WatchArrived ==
  ASSUME OrderInv, NEW id \in Ids, msg[id].watch # "none" \/ sent[id] # <<>>
  PROVE  Arrived(id) /\ ~Waiting(id)
BY DEF OrderInv, OrderOf

\* So does the request a thread serves.
LEMMA ServedArrived ==
  ASSUME OrderInv, NEW t \in Threads, thread[t].id \in Ids, Busy(t), thread[t].what = "request"
  PROVE  Arrived(thread[t].id) /\ ~Waiting(thread[t].id)
BY DEF OrderInv, OrderOf, Serves

-----------------------------------------------------------------------------
(* The other threads, and messages nothing is sent for. *)

\* What the handler of another sender does to a message: it may end its
\* watch or mark it, and adds to what is sent only when its watch is off.
Mild(id) ==
  /\ msg'[id].kind = msg[id].kind
  /\ \/ msg'[id].watch = msg[id].watch
     \/ msg[id].watch \notin {"none", "pending"} /\ msg'[id].watch # "none"
  /\ msg[id].changed => msg'[id].changed
  /\ \/ sent'[id] = sent[id]
     \/ msg[id].kind = "watch" /\ msg[id].watch = "off" /\ sent'[id] # <<>>

\* Such a step disturbs the handler of no other thread.
LEMMA OtherFlow ==
  ASSUME ServiceTypes, QueuesInv, NEW u \in Threads, FlowOf(u), thread'[u] = thread[u],
         thread[u].id \in Ids => Mild(thread[u].id)
  PROVE  FlowOf(u)'
<1>1. CASE ~Busy(u)
  BY <1>1 DEF FlowOf, Busy
<1>2. CASE Busy(u)
  <2> DEFINE id == thread[u].id
  <2>1. id \in Ids /\ Mild(id)
    BY <1>2 DEF QueuesInv
  <2>2. CASE thread[u].what = "request" /\ msg[id].kind = "put" /\ PutFlow(u)
    BY <2>1, <2>2 DEF FlowOf, PutFlow, Mild
  <2>3. CASE thread[u].what = "request" /\ msg[id].kind = "get" /\ GetFlow(u)
    BY <2>1, <2>3 DEF FlowOf, GetFlow, Mild
  <2>4. CASE thread[u].what = "request" /\ msg[id].kind = "watch" /\ WatchFlow(u)
    BY <2>1, <2>4 DEF FlowOf, WatchFlow, Mild
  <2>5. CASE thread[u].what = "cancel" /\ CancelFlow(u)
    BY <2>1, <2>5 DEF FlowOf, CancelFlow, Mild
  <2> QED BY <1>2, <2>2, <2>3, <2>4, <2>5 DEF FlowOf
<1> QED BY <1>1, <1>2

\* A step that sends nothing, and lets nobody come to a watch that fires.
Quiet ==
  /\ sent' = sent
  /\ \A id \in Ids :
        /\ msg'[id].replies = msg[id].replies
        /\ msg'[id].kind = msg[id].kind \/ (msg[id].kind = Nil /\ msg'[id].watch = msg[id].watch)
        /\ \/ msg'[id].watch = msg[id].watch
           \/ msg'[id].watch = "off" /\ msg[id].watch # "none"
           \/ msg'[id].kind = "watch" /\ msg[id].watch # "off" /\ msg'[id].watch # "none"
        /\ msg'[id].slot => msg[id].slot \/ msg'[id].watch # "none"
  /\ \A t \in Threads : thread'[t].pc \in Firing =>
        thread[t].pc \in Firing /\ thread'[t].at = thread[t].at

\* A step that sends nothing keeps what was sent.
LEMMA QuietSent == ASSUME SentInv, Quiet PROVE SentInv'
<1> USE DEF Quiet
<1>1. ASSUME NEW t \in Threads PROVE TokenOf(t)'
  <2> SUFFICES ASSUME thread'[t].pc \in Firing PROVE TokenOf(t)'
    BY DEF TokenOf
  <2>1. thread[t].pc \in Firing /\ thread'[t].at = thread[t].at /\ TokenOf(t)
    BY DEF SentInv
  <2>2. thread[t].at \in Ids /\ msg'[thread[t].at].watch = "off"
    BY <2>1 DEF TokenOf
  <2>3. \A u \in Threads \ {t} : thread'[u].pc \in Firing => thread'[u].at # thread[t].at
    BY <2>1 DEF TokenOf
  <2> QED BY <2>1, <2>2, <2>3 DEF TokenOf, Fired
<1>2. ASSUME NEW id \in Ids PROVE SentOf(id)'
  <2>1. SentOf(id) /\ (Fired(id)' <=> Fired(id))
    BY DEF SentInv, Fired
  <2> QED BY <2>1, NilAssumption DEF SentOf
<1> QED BY <1>1, <1>2 DEF SentInv

\* A step inside a handler keeps the invariant if it does so for its own
\* thread and for what is sent.
LEMMA InnerKeeps ==
  ASSUME ServiceInv, ServiceTypes', NEW t \in Threads, InnerStep(t), Touches,
         \A id \in Ids \ {thread[t].id} : Mild(id), FlowOf(t)', SentInv'
  PROVE  ServiceInv'
<1>1. QueuesInv' /\ OrderInv'
  BY InnerQueues, InnerOrder DEF ServiceInv
<1>2. ASSUME NEW u \in Threads \ {t} PROVE FlowOf(u)'
  <2>1. FlowOf(u) /\ thread'[u] = thread[u]
    BY DEF ServiceInv, Flow, InnerStep
  <2>2. CASE Busy(u)
    <3>1. thread[u].id \in Ids /\ thread[u].id # thread[t].id
      BY <2>2 DEF ServiceInv, QueuesInv, InnerStep
    <3> QED BY <2>1, <3>1, OtherFlow DEF ServiceInv
  <2>3. CASE ~Busy(u)
    BY <2>1, <2>3 DEF FlowOf, Busy
  <2> QED BY <2>2, <2>3
<1>3. Flow'
  BY <1>2 DEF Flow
<1> QED BY <1>1, <1>3 DEF ServiceInv

\* A thread that only goes to another point of its handler.
Goes(t, p) ==
  /\ thread' \in [Threads -> ThreadRec]
  /\ thread'[t].pc = p
  /\ UNCHANGED <<thread[t].id, thread[t].what, thread[t].todo, thread[t].at, thread[t].back>>
  /\ \A u \in Threads \ {t} : thread'[u] = thread[u]

\* A step that only moves a thread on.
LEMMA Moves ==
  ASSUME ServiceTypes, NEW t \in Threads, NEW p \in Points, thread' = [thread EXCEPT ![t].pc = p]
  PROVE  Goes(t, p)
BY DEF ServiceTypes, ThreadRec, Goes

\* The points at which a thread serves a request.
LEMMA Serving ==
  ASSUME ServiceInv, NEW t \in Threads,
         thread[t].pc \in {"request", "refuse", "visit", "answer", "close", "firing"}
  PROVE  /\ Busy(t) /\ thread[t].id \in Ids /\ thread[t].what = "request"
         /\ Arrived(thread[t].id) /\ ~Waiting(thread[t].id)
         /\ \/ msg[thread[t].id].kind = "put" /\ PutFlow(t)
            \/ msg[thread[t].id].kind = "get" /\ GetFlow(t)
            \/ msg[thread[t].id].kind = "watch" /\ WatchFlow(t)
         /\ SentOf(thread[t].id)
<1>1. Busy(t)
  BY DEF Busy, AtRest
<1>2. thread[t].id \in Ids /\ FlowOf(t)
  BY <1>1 DEF ServiceInv, QueuesInv, Flow
<1>3. ~CancelFlow(t)
  BY DEF CancelFlow
<1>4. thread[t].what = "request"
  BY <1>1, <1>2, <1>3 DEF FlowOf
<1>5. Arrived(thread[t].id) /\ ~Waiting(thread[t].id)
  BY <1>1, <1>2, <1>4, ServedArrived DEF ServiceInv
<1> QED BY <1>1, <1>2, <1>3, <1>4, <1>5 DEF FlowOf, ServiceInv, SentInv

\* A step that changes no message and sends nothing.
LEMMA ThreadOnly ==
  ASSUME ServiceInv, NEW t \in Threads, NEW p \in Points \ (Firing \cup AtRest), Goes(t, p), Busy(t),
         UNCHANGED <<scheduled, pending, queue, msg, sent>>,
         FlowOf(t)'
  PROVE  ServiceInv'
<1>1. ServiceTypes'
  BY DEF ServiceInv, ServiceTypes, Goes
<1>2. InnerStep(t) /\ Touches
  BY DEF InnerStep, Touches, Goes, Busy
<1>3. \A id \in Ids : Mild(id)
  BY DEF Mild
<1>4. SentInv'
  <2>1. Quiet
    BY DEF Quiet, Goes
  <2> QED BY <2>1, QuietSent DEF ServiceInv
<1> QED BY <1>1, <1>2, <1>3, <1>4, InnerKeeps

-----------------------------------------------------------------------------
(* Requests *)

\* A step that sends one reply for the request it serves.
LEMMA SendKeeps ==
  ASSUME ServiceInv, NEW t \in Threads, NEW p \in {"done", "close"}, Goes(t, p),
         Busy(t), thread[t].id \in Ids, Arrived(thread[t].id), ~Waiting(thread[t].id),
         UNCHANGED <<scheduled, pending, queue>>,
         NEW what \in {"answer", "error"}, Send(thread[t].id, what), sent[thread[t].id] = <<>>,
         FlowOf(t)'
  PROVE  ServiceInv'
<1>0. PICK id \in Ids : id = thread[t].id
  OBVIOUS
<1>1. /\ msg' \in [Ids -> MessageRec] /\ sent' \in [Ids -> Seq({"answer", "error", "fired"})]
      /\ sent' = [sent EXCEPT ![id] = Append(@, what)]
      /\ msg'[id].replies = msg[id].replies + 1
      /\ \A i \in Ids : i # id => msg'[i] = msg[i]
      /\ \A i \in Ids : /\ msg'[i].kind = msg[i].kind /\ msg'[i].watch = msg[i].watch
                        /\ (msg'[i].slot <=> msg[i].slot) /\ (msg'[i].changed <=> msg[i].changed)
  BY <1>0, SendEffect DEF ServiceInv
<1>2. sent'[id] = <<what>> /\ sent[id] = <<>> /\ \A i \in Ids \ {id} : sent'[i] = sent[i]
  BY <1>0, <1>1 DEF ServiceInv, ServiceTypes
<1>3. ServiceTypes'
  BY <1>1 DEF ServiceInv, ServiceTypes, Goes
<1>4. InnerStep(t) /\ Touches
  <2>1. InnerStep(t)
    BY <1>1 DEF InnerStep, Goes, Busy, AtRest
  <2>2. Touches
    BY <1>0, <1>1, <1>2 DEF Touches
  <2> QED BY <2>1, <2>2
<1>5. \A i \in Ids \ {id} : Mild(i)
  BY <1>1, <1>2 DEF Mild
<1>6. \A i \in Ids : Fired(i)' <=> Fired(i)
  <2>1. ~Fired(id) /\ ~Fired(id)'
    <3>1. \A n \in DOMAIN sent[id] : FALSE
      BY <1>2
    <3>2. \A n \in DOMAIN sent'[id] : sent'[id][n] = what
      BY <1>2
    <3> QED BY <3>1, <3>2 DEF Fired
  <2> QED BY <1>2, <2>1 DEF Fired
<1>7. ASSUME NEW u \in Threads PROVE TokenOf(u)'
  <2>1. TokenOf(u)
    BY DEF ServiceInv, SentInv
  <2>2. \A v \in Threads : thread'[v].pc \in Firing => v # t /\ thread'[v] = thread[v]
    BY DEF Goes, Firing
  <2> QED BY <1>1, <1>6, <2>1, <2>2 DEF TokenOf
<1>8. ASSUME NEW i \in Ids PROVE SentOf(i)'
  <2>1. SentOf(i)
    BY DEF ServiceInv, SentInv
  <2>2. CASE i = id
    <3>1. Len(sent'[i]) = 1 /\ msg'[i].replies = 1
      BY <1>1, <1>2, <2>1, <2>2 DEF SentOf
    <3> QED BY <1>1, <1>6, <2>1, <2>2, <3>1 DEF SentOf
  <2>3. CASE i # id
    BY <1>1, <1>2, <1>6, <2>1, <2>3 DEF SentOf
  <2> QED BY <2>2, <2>3
<1>9. SentInv'
  BY <1>7, <1>8 DEF SentInv
<1> QED BY <1>0, <1>3, <1>4, <1>5, <1>9, InnerKeeps

\* dispatchRequest() reports an error unless something was sent.
LEMMA RefuseKeeps == ASSUME ServiceInv, NEW t \in Threads, Refuse(t) PROVE ServiceInv'
<1>1. Goes(t, "done")
  BY Moves DEF Refuse, ServiceInv, Points
<1>2. /\ Busy(t) /\ thread[t].id \in Ids /\ thread[t].what = "request"
      /\ Arrived(thread[t].id) /\ ~Waiting(thread[t].id) /\ SentOf(thread[t].id)
      /\ msg[thread[t].id].kind \in {"put", "get", "watch"}
  BY Serving DEF Refuse
<1>3. SentOf(thread[t].id) => (msg[thread[t].id].replies = 0 <=> sent[thread[t].id] = <<>>)
  BY <1>2 DEF SentOf, ServiceInv, ServiceTypes
<1>4. \A p \in {"done"} : msg'[thread[t].id].kind = msg[thread[t].id].kind /\ sent'[thread[t].id] # <<>>
         => FlowOf(t)'
  BY <1>1, <1>2 DEF FlowOf, PutFlow, GetFlow, WatchFlow, Goes, Firing
<1>5. CASE msg[thread[t].id].replies = 0
  <2>1. Send(thread[t].id, "error") /\ UNCHANGED <<scheduled, pending, queue>>
    BY <1>5 DEF Refuse
  <2>2. msg'[thread[t].id].kind = msg[thread[t].id].kind /\ sent'[thread[t].id] # <<>>
    BY <1>2, <2>1, SendEffect DEF ServiceInv, ServiceTypes
  <2> QED BY <1>1, <1>2, <1>3, <1>4, <1>5, <2>1, <2>2, SendKeeps
<1>6. CASE msg[thread[t].id].replies # 0
  <2>1. UNCHANGED <<scheduled, pending, queue, msg, sent>>
    BY <1>6 DEF Refuse
  <2>2. FlowOf(t)'
    BY <1>2, <1>3, <1>4, <1>6, <2>1
  <2> QED BY <1>1, <1>2, <2>1, <2>2, ThreadOnly DEF Points, Firing, AtRest
<1> QED BY <1>5, <1>6

\* Answer keeps the invariant.
LEMMA AnswerKeeps == ASSUME ServiceInv, NEW t \in Threads, Answer(t) PROVE ServiceInv'
<1> DEFINE id == thread[t].id
           p  == IF msg[id].kind = "watch" THEN "close" ELSE "done"
<1>1. Goes(t, p) /\ p \in {"done", "close"}
  BY Moves DEF Answer, ServiceInv, Points
<1>2. /\ Busy(t) /\ id \in Ids /\ thread[t].what = "request" /\ Arrived(id) /\ ~Waiting(id)
      /\ \/ msg[id].kind = "put" /\ PutFlow(t)
         \/ msg[id].kind = "get" /\ GetFlow(t)
         \/ msg[id].kind = "watch" /\ WatchFlow(t)
  BY Serving DEF Answer
<1>3. sent[id] = <<>> /\ (msg[id].kind = "watch" => msg[id].watch = "pending" /\ thread[t].todo = {})
  BY <1>2 DEF Answer, PutFlow, GetFlow, WatchFlow
<1>4. Send(id, "answer") /\ UNCHANGED <<scheduled, pending, queue>>
  BY DEF Answer
<1>5. msg'[id].kind = msg[id].kind /\ msg'[id].watch = msg[id].watch /\ sent'[id] # <<>>
  BY <1>2, <1>4, SendEffect DEF ServiceInv, ServiceTypes
<1>6. FlowOf(t)'
  <2>1. thread'[t].id = id /\ thread'[t].what = "request"
    BY <1>1, <1>2 DEF Goes
  <2>2. CASE msg[id].kind = "put"
    BY <1>1, <1>5, <2>1, <2>2 DEF FlowOf, PutFlow, Goes, Firing
  <2>3. CASE msg[id].kind = "get"
    BY <1>1, <1>5, <2>1, <2>3 DEF FlowOf, GetFlow, Goes
  <2>4. CASE msg[id].kind = "watch"
    <3>1. WatchFlow(t) /\ p = "close"
      BY <1>2, <2>4
    <3>2. thread'[t].pc = "close" /\ thread'[t].todo = {} /\ thread'[t].back \in {"done", "refuse"}
      BY <1>1, <3>1 DEF Goes, Answer, WatchFlow
    <3> QED BY <1>3, <1>5, <2>1, <2>4, <3>2 DEF FlowOf, WatchFlow, Firing
  <2> QED BY <1>2, <2>2, <2>3, <2>4
<1> QED BY <1>1, <1>2, <1>3, <1>4, <1>6, SendKeeps

\* A step that may mark messages and end watches, and sends nothing.
LEMMA QuietKeeps ==
  ASSUME ServiceInv, NEW t \in Threads, ServiceTypes', InnerStep(t), Quiet,
         \A id \in Ids : msg'[id].watch # msg[id].watch => Arrived(id) /\ ~Waiting(id),
         \A id \in Ids \ {thread[t].id} :
            /\ \/ msg'[id].watch = msg[id].watch
               \/ msg[id].watch \notin {"none", "pending"} /\ msg'[id].watch # "none"
            /\ msg[id].changed => msg'[id].changed,
         FlowOf(t)'
  PROVE  ServiceInv'
<1>1. Touches
  BY DEF Touches, Quiet
<1>2. \A id \in Ids \ {thread[t].id} : Mild(id)
  BY DEF Mild, InnerStep, Quiet
<1>3. SentInv'
  BY QuietSent DEF ServiceInv
<1> QED BY <1>1, <1>2, <1>3, InnerKeeps

\* A deadlock: the put is tried again.
LEMMA RetryKeeps == ASSUME ServiceInv, NEW t \in Threads, Retry(t) PROVE ServiceInv'
<1>1. /\ Busy(t) /\ thread[t].id \in Ids /\ thread[t].what = "request"
      /\ msg[thread[t].id].kind = "put" /\ PutFlow(t)
  BY Serving DEF Retry
<1>2. Goes(t, "request")
  <2> DEFINE grown == thread[t].tries + 1
  <2>1. thread' = [thread EXCEPT ![t].tries = grown] /\ thread[t].pc = "request"
    BY DEF Retry
  <2>2. grown \in Nat
    BY DEF ServiceInv, ServiceTypes, ThreadRec
  <2> HIDE DEF grown
  <2> QED BY <2>1, <2>2 DEF ServiceInv, ServiceTypes, ThreadRec, Goes
<1>3. FlowOf(t)'
  BY <1>1, <1>2 DEF Retry, FlowOf, PutFlow, Goes, Firing
<1> QED BY <1>1, <1>2, <1>3, ThreadOnly DEF Retry, Points, Firing, AtRest

\* Execute keeps the invariant.
LEMMA ExecuteKeeps == ASSUME ServiceInv, NEW t \in Threads, Execute(t) PROVE ServiceInv'
<1>1. /\ Busy(t) /\ thread[t].id \in Ids /\ thread[t].what = "request"
      /\ msg[thread[t].id].kind = "get" /\ GetFlow(t)
  BY Serving DEF Execute
<1>2. Goes(t, "answer")
  BY Moves DEF Execute, ServiceInv, Points
<1>3. FlowOf(t)'
  BY <1>1, <1>2 DEF Execute, FlowOf, GetFlow, Goes
<1> QED BY <1>1, <1>2, <1>3, ThreadOnly DEF Execute, Points, Firing, AtRest

\* A commit marks the pending watches, and has the active ones to fire.
LEMMA CommitKeeps == ASSUME ServiceInv, NEW t \in Threads, Commit(t) PROVE ServiceInv'
<1>1. /\ Busy(t) /\ thread[t].id \in Ids /\ thread[t].what = "request"
      /\ msg[thread[t].id].kind = "put" /\ PutFlow(t)
  BY Serving DEF Commit
<1>2. /\ thread' \in [Threads -> ThreadRec]
      /\ thread'[t].pc = "firing" /\ thread'[t].back = "answer"
      /\ thread'[t].id = thread[t].id /\ thread'[t].what = thread[t].what
      /\ \A u \in Threads \ {t} : thread'[u] = thread[u]
  <2> DEFINE active == {i \in Ids : msg[i].watch = "active"}
  <2>1. thread' = [thread EXCEPT ![t] = [@ EXCEPT !.pc = "firing", !.back = "answer", !.todo = active]]
    BY DEF Commit
  <2>2. active \in SUBSET Ids /\ "firing" \in Points
    BY DEF Points
  <2> HIDE DEF active
  <2> QED BY <2>1, <2>2, ZenonT(40) DEF ServiceInv, ServiceTypes, ThreadRec
<1>3. /\ msg' \in [Ids -> MessageRec]
      /\ \A i \in Ids : /\ msg'[i].kind = msg[i].kind /\ msg'[i].watch = msg[i].watch
                        /\ msg'[i].replies = msg[i].replies /\ (msg'[i].slot <=> msg[i].slot)
                        /\ msg[i].changed => msg'[i].changed
  BY ZenonT(40) DEF Commit, ServiceInv, ServiceTypes, MessageRec
<1>4. UNCHANGED <<scheduled, pending, queue, sent>>
  BY DEF Commit
<1>5. ServiceTypes'
  BY <1>2, <1>3, <1>4 DEF ServiceInv, ServiceTypes
<1>6. InnerStep(t) /\ Quiet
  BY <1>1, <1>2, <1>3, <1>4 DEF InnerStep, Quiet, Busy, AtRest, Firing
<1>7. FlowOf(t)'
  BY <1>1, <1>2, <1>3, <1>4 DEF Commit, FlowOf, PutFlow, Firing
<1> QED BY <1>3, <1>5, <1>6, <1>7, QuietKeeps

\* What a step does to one message.
LEMMA MessageEffect ==
  ASSUME ServiceTypes, NEW id \in Ids, NEW m \in MessageRec, msg' = [msg EXCEPT ![id] = m]
  PROVE  msg' \in [Ids -> MessageRec] /\ msg'[id] = m /\ \A i \in Ids \ {id} : msg'[i] = msg[i]
BY DEF ServiceTypes

\* find and watch: the new watch is pending.
LEMMA ConnectKeeps == ASSUME ServiceInv, NEW t \in Threads, Connect(t) PROVE ServiceInv'
<1>0. PICK id \in Ids : id = thread[t].id
  BY Serving DEF Connect
<1>1. /\ Busy(t) /\ thread[t].what = "request" /\ Arrived(id) /\ ~Waiting(id)
      /\ msg[id].kind = "watch" /\ WatchFlow(t)
  BY <1>0, Serving DEF Connect
<1>2. msg[id].watch = "none" /\ sent[id] = <<>> /\ thread[t].todo = {}
  BY <1>0, <1>1 DEF Connect, WatchFlow
<1>3. Goes(t, "visit")
  BY Moves DEF Connect, ServiceInv, Points
<1> DEFINE m == [msg[id] EXCEPT !.slot = TRUE, !.held = TRUE, !.watch = "pending"]
<1>4. msg[id] \in MessageRec
  BY DEF ServiceInv, ServiceTypes
<1>5. /\ m \in MessageRec /\ m.watch = "pending" /\ m.kind = msg[id].kind
      /\ m.replies = msg[id].replies
  BY <1>4 DEF MessageRec
<1>6. msg' = [msg EXCEPT ![id] = m] /\ UNCHANGED <<scheduled, pending, queue, sent>>
  BY <1>0 DEF Connect
<1> HIDE DEF m
<1>7. msg' \in [Ids -> MessageRec] /\ msg'[id] = m /\ \A i \in Ids \ {id} : msg'[i] = msg[i]
  BY <1>5, <1>6, MessageEffect DEF ServiceInv
<1>8. ServiceTypes' /\ InnerStep(t)
  BY <1>1, <1>3, <1>5, <1>6, <1>7 DEF ServiceInv, ServiceTypes, InnerStep, Goes, Busy, AtRest
<1>9. Quiet
  BY <1>1, <1>2, <1>3, <1>5, <1>6, <1>7 DEF Quiet, Goes, Firing
<1>10. FlowOf(t)'
  BY <1>0, <1>1, <1>2, <1>3, <1>5, <1>6, <1>7 DEF FlowOf, WatchFlow, Goes, Firing
<1> QED BY <1>0, <1>1, <1>7, <1>8, <1>9, <1>10, QuietKeeps

\* What watch() finds is left to its own close.
LEMMA VisitKeeps ==
  ASSUME ServiceInv, NEW t \in Threads, NEW result \in {"found", "read", "error"}, Visit(t, result)
  PROVE  ServiceInv'
<1>0. PICK id \in Ids : id = thread[t].id
  BY Serving DEF Visit
<1>1. /\ Busy(t) /\ thread[t].what = "request" /\ msg[id].kind = "watch" /\ WatchFlow(t)
  BY <1>0, Serving DEF Visit, PutFlow, GetFlow, Firing
<1>2. msg[id].watch = "pending" /\ sent[id] = <<>> /\ thread[t].todo = {}
  BY <1>0, <1>1 DEF Visit, WatchFlow
<1>3. /\ thread' \in [Threads -> ThreadRec]
      /\ thread'[t].pc = (IF result = "read" THEN "answer" ELSE "close")
      /\ thread'[t].back = (IF result = "error" THEN "refuse" ELSE "done")
      /\ thread'[t].id = id /\ thread'[t].what = "request" /\ thread'[t].todo = {}
      /\ \A u \in Threads \ {t} : thread'[u] = thread[u]
  <2> DEFINE p == IF result = "read" THEN "answer" ELSE "close"
             b == IF result = "error" THEN "refuse" ELSE "done"
  <2>1. thread' = [thread EXCEPT ![t] = [@ EXCEPT !.pc = p, !.back = b]]
    BY DEF Visit
  <2>2. p \in Points /\ b \in {Nil, "answer", "done", "refuse"}
    BY DEF Points
  <2> HIDE DEF p, b
  <2>3. /\ thread' \in [Threads -> ThreadRec] /\ thread'[t].pc = p /\ thread'[t].back = b
        /\ thread'[t].id = thread[t].id /\ thread'[t].what = thread[t].what /\ thread'[t].todo = thread[t].todo
        /\ \A u \in Threads \ {t} : thread'[u] = thread[u]
    BY <2>1, <2>2, ZenonT(40) DEF ServiceInv, ServiceTypes, ThreadRec
  <2> QED BY <1>0, <1>1, <1>2, <2>3 DEF p, b
<1>4. /\ msg' \in [Ids -> MessageRec]
      /\ \A i \in Ids : /\ msg'[i].kind = msg[i].kind /\ msg'[i].watch = msg[i].watch
                        /\ msg'[i].replies = msg[i].replies /\ (msg'[i].slot <=> msg[i].slot)
                        /\ msg[i].changed => msg'[i].changed
      /\ result = "found" => msg'[id].changed
  <2>1. CASE result = "found"
    <3> DEFINE m == [msg[id] EXCEPT !.changed = TRUE]
    <3>1. msg[id] \in MessageRec
      BY DEF ServiceInv, ServiceTypes
    <3>2. /\ m \in MessageRec /\ m.kind = msg[id].kind /\ m.watch = msg[id].watch
          /\ m.replies = msg[id].replies /\ m.slot = msg[id].slot /\ m.changed = TRUE
      BY <3>1 DEF MessageRec
    <3>3. msg' = [msg EXCEPT ![id] = m]
      BY <1>0, <2>1 DEF Visit
    <3> HIDE DEF m
    <3> QED BY <3>2, <3>3, MessageEffect DEF ServiceInv
  <2>2. CASE result # "found"
    BY <2>2 DEF Visit, ServiceInv, ServiceTypes
  <2> QED BY <2>1, <2>2
<1>5. UNCHANGED <<scheduled, pending, queue, sent>>
  BY DEF Visit
<1>6. ServiceTypes'
  BY <1>3, <1>4, <1>5 DEF ServiceInv, ServiceTypes
<1>7. InnerStep(t) /\ Quiet
  BY <1>0, <1>1, <1>3, <1>4, <1>5 DEF InnerStep, Quiet, Busy, AtRest, Firing
<1>8. FlowOf(t)'
  BY <1>1, <1>2, <1>3, <1>4, <1>5 DEF FlowOf, WatchFlow, Firing
<1> QED BY <1>4, <1>6, <1>7, <1>8, QuietKeeps

-----------------------------------------------------------------------------
(* Watches that fire *)

\* A watch that is turned off by the thread that is to send its event: no
\* other thread is at it.
LEMMA FiresKeeps ==
  ASSUME ServiceInv, NEW t \in Threads, Busy(t), thread[t].pc \notin Firing, NEW id \in Ids,
         thread' = [thread EXCEPT ![t] = [@ EXCEPT !.pc = "unslot", !.at = id]],
         msg' = [msg EXCEPT ![id].watch = "off"],
         msg[id].watch \in {"pending", "active"},
         msg[id].watch = "pending" => id = thread[t].id,
         UNCHANGED <<scheduled, pending, queue, sent>>,
         thread[t].what = "request",
         \/ msg[thread[t].id].kind = "put" /\ PutFlow(t) /\ thread[t].back = "answer" /\ thread[t].pc # "done"
         \/ msg[thread[t].id].kind = "watch" /\ id = thread[t].id /\ thread[t].todo = {}
            /\ thread[t].back \in {"done", "refuse"}
  PROVE  ServiceInv'
<1>1. /\ thread' \in [Threads -> ThreadRec]
      /\ thread'[t].pc = "unslot" /\ thread'[t].at = id
      /\ thread'[t].id = thread[t].id /\ thread'[t].what = thread[t].what
      /\ thread'[t].todo = thread[t].todo /\ thread'[t].back = thread[t].back
      /\ \A u \in Threads \ {t} : thread'[u] = thread[u]
  <2>1. "unslot" \in Points
    BY DEF Points, Firing
  <2> QED BY <2>1 DEF ServiceInv, ServiceTypes, ThreadRec
<1>2. /\ msg' \in [Ids -> MessageRec] /\ msg'[id].watch = "off"
      /\ \A i \in Ids : /\ i # id => msg'[i] = msg[i]
                        /\ msg'[i].kind = msg[i].kind /\ msg'[i].replies = msg[i].replies
                        /\ (msg'[i].slot <=> msg[i].slot) /\ (msg'[i].changed <=> msg[i].changed)
  BY ZenonT(40) DEF ServiceInv, ServiceTypes, MessageRec
<1>3. ServiceTypes' /\ InnerStep(t)
  BY <1>1, <1>2 DEF ServiceInv, ServiceTypes, InnerStep, Busy, AtRest
<1>4. Touches
  <2>1. Arrived(id) /\ ~Waiting(id)
    BY WatchArrived DEF ServiceInv
  <2> QED BY <1>2, <2>1 DEF Touches
<1>5. \A i \in Ids \ {thread[t].id} : Mild(i)
  BY <1>2 DEF Mild
<1>6. FlowOf(t)'
  BY <1>1, <1>2 DEF FlowOf, PutFlow, WatchFlow, Firing
<1>7. ASSUME NEW u \in Threads PROVE TokenOf(u)'
  <2>1. \A v \in Threads : TokenOf(v)
    BY DEF ServiceInv, SentInv
  <2>2. \A v \in Threads \ {t} : thread[v].pc \in Firing => thread[v].at \in Ids /\ thread[v].at # id
    BY <2>1 DEF TokenOf
  <2>3. ~Fired(id)
    BY DEF ServiceInv, SentInv, SentOf
  <2>4. CASE u = t
    BY <1>1, <1>2, <2>2, <2>3, <2>4 DEF TokenOf, Fired
  <2>5. CASE u # t
    <3> SUFFICES ASSUME thread'[u].pc \in Firing PROVE TokenOf(u)'
      BY DEF TokenOf
    <3>1. thread'[u] = thread[u] /\ thread[u].pc \in Firing /\ thread[u].at \in Ids /\ thread[u].at # id
      BY <1>1, <2>2, <2>5
    <3>2. ~Fired(thread[u].at) /\ msg'[thread[u].at].watch = "off"
      BY <1>2, <2>1, <3>1 DEF TokenOf
    <3>3. \A v \in Threads \ {u} : thread'[v].pc \in Firing => thread'[v].at # thread[u].at
      BY <1>1, <2>1, <3>1 DEF TokenOf
    <3> QED BY <3>1, <3>2, <3>3 DEF TokenOf, Fired
  <2> QED BY <2>4, <2>5
<1>8. ASSUME NEW i \in Ids PROVE SentOf(i)'
  <2>1. SentOf(i)
    BY DEF ServiceInv, SentInv
  <2> QED BY <1>2, <2>1 DEF SentOf, Fired
<1> QED BY <1>3, <1>4, <1>5, <1>6, <1>7, <1>8, InnerKeeps DEF SentInv

\* cursor.close(): active from now on, or fired by what changed meanwhile.
LEMMA CloseKeeps == ASSUME ServiceInv, NEW t \in Threads, Close(t) PROVE ServiceInv'
<1>0. PICK id \in Ids : id = thread[t].id
  BY Serving DEF Close
<1>1. /\ Busy(t) /\ thread[t].what = "request" /\ Arrived(id) /\ ~Waiting(id)
      /\ msg[id].kind = "watch" /\ WatchFlow(t)
  BY <1>0, Serving DEF Close, PutFlow, GetFlow, Firing
<1>2. /\ thread[t].pc = "close" /\ msg[id].watch = "pending" /\ thread[t].todo = {}
      /\ thread[t].back \in {"done", "refuse"}
      /\ thread[t].back = "done" => sent[id] # <<>> \/ msg[id].changed
  BY <1>0, <1>1 DEF Close, WatchFlow
<1>3. UNCHANGED <<scheduled, pending, queue, sent>>
  BY DEF Close
<1>4. CASE msg[id].changed
  <2>1. /\ thread' = [thread EXCEPT ![t] = [@ EXCEPT !.pc = "unslot", !.at = id]]
        /\ msg' = [msg EXCEPT ![id].watch = "off"]
    BY <1>0, <1>2, <1>4 DEF Close
  <2> QED BY <1>0, <1>1, <1>2, <1>3, <2>1, FiresKeeps DEF Firing
<1>5. CASE ~msg[id].changed
  <2> DEFINE m == [msg[id] EXCEPT !.watch = "active"]
  <2>1. thread' = [thread EXCEPT ![t].pc = thread[t].back]
    <3>1. thread' = [thread EXCEPT ![t] = [@ EXCEPT !.pc = thread[t].back]]
      BY <1>0, <1>5 DEF Close
    <3> QED BY <3>1
  <2>2. thread[t].back \in Points
    BY <1>2 DEF Points
  <2>3. Goes(t, thread[t].back)
    BY <2>1, <2>2, Moves DEF ServiceInv
  <2>4. msg[id] \in MessageRec
    BY DEF ServiceInv, ServiceTypes
  <2>5. /\ m \in MessageRec /\ m.watch = "active" /\ m.kind = msg[id].kind
        /\ m.replies = msg[id].replies
    BY <2>4 DEF MessageRec
  <2>6. msg' = [msg EXCEPT ![id] = m]
    BY <1>0, <1>2, <1>5 DEF Close
  <2> HIDE DEF m
  <2>7. msg' \in [Ids -> MessageRec] /\ msg'[id] = m /\ \A i \in Ids \ {id} : msg'[i] = msg[i]
    BY <2>5, <2>6, MessageEffect DEF ServiceInv
  <2>8. ServiceTypes' /\ InnerStep(t)
    BY <1>1, <1>2, <1>3, <2>3, <2>5, <2>7 DEF ServiceInv, ServiceTypes, InnerStep, Goes, Busy, AtRest
  <2>9. Quiet
    BY <1>1, <1>2, <1>3, <2>3, <2>5, <2>7 DEF Quiet, Goes, Firing
  <2>10. FlowOf(t)'
    BY <1>0, <1>1, <1>2, <1>3, <1>5, <2>3, <2>5, <2>7 DEF FlowOf, WatchFlow, Goes, Firing
  <2> QED BY <1>0, <1>1, <2>7, <2>8, <2>9, <2>10, QuietKeeps
<1> QED BY <1>4, <1>5

\* A commit visits the watches that were active: each is fired by one thread.
LEMMA FireKeeps == ASSUME ServiceInv, NEW t \in Threads, Fire(t) PROVE ServiceInv'
<1>1. /\ Busy(t) /\ thread[t].id \in Ids /\ thread[t].what = "request" /\ thread[t].pc = "firing"
      /\ \/ msg[thread[t].id].kind = "put" /\ PutFlow(t) /\ thread[t].back = "answer"
         \/ /\ msg[thread[t].id].kind = "watch" /\ WatchFlow(t) /\ thread[t].todo = {}
            /\ thread[t].back \in {"done", "refuse"} /\ sent[thread[t].id] # <<>>
  BY Serving DEF Fire, PutFlow, GetFlow, WatchFlow
<1>2. UNCHANGED <<scheduled, pending, queue, sent>>
  BY DEF Fire
<1>3. CASE thread[t].todo = {}
  <2>1. thread' = [thread EXCEPT ![t].pc = thread[t].back] /\ msg' = msg
    BY <1>3 DEF Fire
  <2>2. thread[t].back \in Points \ (Firing \cup AtRest)
    BY <1>1 DEF Points, Firing, AtRest
  <2>3. Goes(t, thread[t].back)
    BY <2>1, <2>2, Moves DEF ServiceInv
  <2>4. FlowOf(t)'
    BY <1>1, <1>2, <2>1, <2>3 DEF FlowOf, PutFlow, WatchFlow, Goes, Firing
  <2> QED BY <1>1, <1>2, <2>1, <2>2, <2>3, <2>4, ThreadOnly
<1>4. ASSUME NEW id \in thread[t].todo, msg[id].watch = "active",
             msg' = [msg EXCEPT ![id].watch = "off"],
             thread' = [thread EXCEPT ![t] = [@ EXCEPT !.pc = "unslot", !.at = id]]
      PROVE  ServiceInv'
  <2>1. id \in Ids
    BY DEF ServiceInv, ServiceTypes, ThreadRec
  <2> QED BY <1>1, <1>2, <1>4, <2>1, FiresKeeps DEF Firing
<1>5. ASSUME NEW id \in thread[t].todo, msg' = msg, thread' = [thread EXCEPT ![t].todo = @ \ {id}]
      PROVE  ServiceInv'
  <2>1. /\ thread' \in [Threads -> ThreadRec]
        /\ thread'[t].pc = "firing" /\ thread'[t].back = thread[t].back
        /\ thread'[t].id = thread[t].id /\ thread'[t].what = thread[t].what
        /\ \A u \in Threads \ {t} : thread'[u] = thread[u]
    BY <1>1, <1>5, ZenonT(40) DEF ServiceInv, ServiceTypes, ThreadRec
  <2>2. ServiceTypes' /\ InnerStep(t) /\ Quiet
    BY <1>1, <1>2, <1>5, <2>1 DEF ServiceInv, ServiceTypes, InnerStep, Quiet, Busy, AtRest, Firing
  <2>3. FlowOf(t)'
    BY <1>1, <1>2, <1>5, <2>1 DEF FlowOf, PutFlow, Firing
  <2> QED BY <1>5, <2>2, <2>3, QuietKeeps
<1> QED BY <1>3, <1>4, <1>5 DEF Fire

\* A thread at a watch that fires serves a put, or the watch itself.
LEMMA AtWatch ==
  ASSUME ServiceInv, NEW t \in Threads, thread[t].pc \in Firing
  PROVE  /\ Busy(t) /\ thread[t].id \in Ids /\ thread[t].what = "request" /\ TokenOf(t)
         /\ thread[t].at \in Ids /\ msg[thread[t].at].watch = "off"
         /\ msg[thread[t].at].kind = "watch"
         /\ Arrived(thread[t].at) /\ ~Waiting(thread[t].at)
         /\ \/ msg[thread[t].id].kind = "put" /\ PutFlow(t) /\ thread[t].back = "answer"
            \/ /\ msg[thread[t].id].kind = "watch" /\ WatchFlow(t) /\ thread[t].todo = {}
               /\ thread[t].at = thread[t].id /\ thread[t].back \in {"done", "refuse"}
<1>1. Busy(t)
  BY DEF Busy, AtRest, Firing
<1>2. thread[t].id \in Ids /\ FlowOf(t)
  BY <1>1 DEF ServiceInv, QueuesInv, Flow
<1>3. ~CancelFlow(t) /\ ~GetFlow(t)
  BY DEF CancelFlow, GetFlow, Firing
<1>4. /\ thread[t].what = "request"
      /\ \/ msg[thread[t].id].kind = "put" /\ PutFlow(t) /\ thread[t].back = "answer"
         \/ /\ msg[thread[t].id].kind = "watch" /\ WatchFlow(t) /\ thread[t].todo = {}
            /\ thread[t].at = thread[t].id /\ thread[t].back \in {"done", "refuse"}
  <2>1. thread[t].pc # "done"
    BY DEF Firing
  <2> QED BY <1>1, <1>2, <1>3, <2>1 DEF FlowOf, PutFlow, WatchFlow
<1>5. TokenOf(t)
  BY DEF ServiceInv, SentInv
<1>6. thread[t].at \in Ids /\ msg[thread[t].at].watch = "off"
  BY <1>5 DEF TokenOf
<1>7. msg[thread[t].at].kind = "watch"
  BY <1>6 DEF ServiceInv, SentInv, SentOf
<1> QED BY <1>1, <1>2, <1>4, <1>5, <1>6, <1>7, WatchArrived DEF ServiceInv

\* The slot of the fired watch is cancelled.
LEMMA CancelSlotKeeps == ASSUME ServiceInv, NEW t \in Threads, CancelSlot(t) PROVE ServiceInv'
<1>0. /\ Busy(t) /\ thread[t].id \in Ids /\ thread[t].what = "request" /\ thread[t].pc = "unslot"
      /\ \/ msg[thread[t].id].kind = "put" /\ PutFlow(t)
         \/ msg[thread[t].id].kind = "watch" /\ WatchFlow(t)
  BY AtWatch DEF CancelSlot, Firing
<1>1. PICK id \in Ids : id = thread[t].at
  BY AtWatch DEF CancelSlot, Firing
<1>2. Goes(t, "unslotted")
  BY Moves DEF CancelSlot, ServiceInv, Points, Firing
<1>3. PICK m : m = (IF msg[id].slot THEN Unsubscribed(id, msg[id]) ELSE msg[id])
  OBVIOUS
<1>4. msg[id] \in MessageRec
  BY DEF ServiceInv, ServiceTypes
<1>5. /\ m \in MessageRec /\ m.kind = msg[id].kind /\ m.watch = msg[id].watch
      /\ m.replies = msg[id].replies /\ m.slot = msg[id].slot /\ m.changed = msg[id].changed
  BY <1>3, <1>4 DEF MessageRec, Unsubscribed
<1>6. msg' = [msg EXCEPT ![id] = m] /\ UNCHANGED <<scheduled, pending, queue, sent>>
  BY <1>1, <1>3 DEF CancelSlot
<1>7. msg' \in [Ids -> MessageRec] /\ msg'[id] = m /\ \A i \in Ids \ {id} : msg'[i] = msg[i]
  BY <1>5, <1>6, MessageEffect DEF ServiceInv
<1>8. ServiceTypes' /\ InnerStep(t)
  BY <1>0, <1>2, <1>5, <1>6, <1>7 DEF ServiceInv, ServiceTypes, InnerStep, Goes, Busy, AtRest
<1>9. Quiet
  BY <1>0, <1>2, <1>5, <1>6, <1>7 DEF Quiet, Goes, Firing
<1>10. FlowOf(t)'
  BY <1>0, <1>2, <1>5, <1>6, <1>7 DEF FlowOf, PutFlow, WatchFlow, Goes, Firing
<1> QED BY <1>5, <1>7, <1>8, <1>9, <1>10, QuietKeeps

\* handleWatch() takes the message, or the process fails.
LEMMA TakeMessageKeeps == ASSUME ServiceInv, NEW t \in Threads, TakeMessage(t) PROVE ServiceInv'
<1>0. /\ Busy(t) /\ thread[t].id \in Ids /\ thread[t].what = "request" /\ thread[t].pc = "unslotted"
      /\ \/ msg[thread[t].id].kind = "put" /\ PutFlow(t)
         \/ msg[thread[t].id].kind = "watch" /\ WatchFlow(t)
  BY AtWatch DEF TakeMessage, Firing
<1>1. PICK id \in Ids : id = thread[t].at
  BY AtWatch DEF TakeMessage, Firing
<1>2. Goes(t, "event") \/ Goes(t, "crash")
  BY Moves DEF TakeMessage, ServiceInv, Points, Firing
<1> DEFINE m == [msg[id] EXCEPT !.slot = FALSE, !.held = FALSE]
<1>4. msg[id] \in MessageRec
  BY DEF ServiceInv, ServiceTypes
<1>5. /\ m \in MessageRec /\ m.kind = msg[id].kind /\ m.watch = msg[id].watch
      /\ m.replies = msg[id].replies /\ ~m.slot /\ m.changed = msg[id].changed
  BY <1>4 DEF MessageRec
<1>6. msg' = [msg EXCEPT ![id] = m] /\ UNCHANGED <<scheduled, pending, queue, sent>>
  BY <1>1 DEF TakeMessage
<1> HIDE DEF m
<1>7. msg' \in [Ids -> MessageRec] /\ msg'[id] = m /\ \A i \in Ids \ {id} : msg'[i] = msg[i]
  BY <1>5, <1>6, MessageEffect DEF ServiceInv
<1>8. ServiceTypes' /\ InnerStep(t)
  BY <1>0, <1>2, <1>5, <1>6, <1>7 DEF ServiceInv, ServiceTypes, InnerStep, Goes, Busy, AtRest
<1>9. Quiet
  BY <1>0, <1>2, <1>5, <1>6, <1>7 DEF Quiet, Goes, Firing
<1>10. FlowOf(t)'
  BY <1>0, <1>2, <1>5, <1>6, <1>7 DEF FlowOf, PutFlow, WatchFlow, Goes, Firing
<1> QED BY <1>5, <1>7, <1>8, <1>9, <1>10, QuietKeeps

\* The event is sent by the only thread at the watch.
LEMMA SendFiredKeeps == ASSUME ServiceInv, NEW t \in Threads, SendFired(t) PROVE ServiceInv'
<1>0. /\ Busy(t) /\ thread[t].id \in Ids /\ thread[t].what = "request" /\ thread[t].pc = "event"
      /\ TokenOf(t)
      /\ \/ msg[thread[t].id].kind = "put" /\ PutFlow(t) /\ thread[t].back = "answer"
         \/ /\ msg[thread[t].id].kind = "watch" /\ thread[t].todo = {}
            /\ thread[t].at = thread[t].id /\ thread[t].back \in {"done", "refuse"}
  BY AtWatch DEF SendFired, Firing
<1>1. PICK id \in Ids : id = thread[t].at
  BY AtWatch DEF SendFired, Firing
<1>2. msg[id].watch = "off" /\ msg[id].kind = "watch" /\ Arrived(id) /\ ~Waiting(id) /\ ~Fired(id)
  BY <1>0, <1>1, AtWatch DEF SendFired, Firing, TokenOf
<1>3. /\ msg' \in [Ids -> MessageRec] /\ sent' \in [Ids -> Seq({"answer", "error", "fired"})]
      /\ sent' = [sent EXCEPT ![id] = Append(@, "fired")]
      /\ msg'[id].replies = msg[id].replies + 1
      /\ \A i \in Ids : i # id => msg'[i] = msg[i]
      /\ \A i \in Ids : /\ msg'[i].kind = msg[i].kind /\ msg'[i].watch = msg[i].watch
                        /\ (msg'[i].slot <=> msg[i].slot) /\ (msg'[i].changed <=> msg[i].changed)
  BY <1>1, SendEffect DEF ServiceInv, SendFired
<1>4. /\ sent'[id] = Append(sent[id], "fired") /\ sent'[id] # <<>>
      /\ \A i \in Ids \ {id} : sent'[i] = sent[i]
  <2>1. sent[id] \in Seq({"answer", "error", "fired"})
    BY DEF ServiceInv, ServiceTypes
  <2>2. sent'[id] = Append(sent[id], "fired") /\ \A i \in Ids \ {id} : sent'[i] = sent[i]
    BY <1>3 DEF ServiceInv, ServiceTypes
  <2>3. Len(sent'[id]) = Len(sent[id]) + 1 /\ Len(sent[id]) \in Nat
    BY <2>1, <2>2
  <2>4. \A n \in Nat : n + 1 # 0
    OBVIOUS
  <2>5. sent'[id] # <<>>
    <3>1. Len(sent'[id]) # 0
      BY <2>3, <2>4
    <3> QED BY <3>1
  <2> QED BY <2>2, <2>5
<1>5. /\ thread' \in [Threads -> ThreadRec]
      /\ thread'[t].pc \in {"destroy", "firing"} /\ (thread[t].id = id => thread'[t].pc = "firing")
      /\ thread'[t].id = thread[t].id /\ thread'[t].what = thread[t].what
      /\ thread'[t].todo = thread[t].todo \ {id} /\ thread'[t].back = thread[t].back
      /\ \A u \in Threads \ {t} : thread'[u] = thread[u]
  <2> DEFINE last == IsLast(t, thread[t].at) /\ thread[t].id # thread[t].at
             p == IF last THEN "destroy" ELSE "firing"
             a == IF last THEN thread[t].at ELSE Nil
             rest == thread[t].todo \ {thread[t].at}
  <2>1. thread' = [thread EXCEPT ![t] = [@ EXCEPT !.pc = p, !.at = a, !.todo = rest]]
    BY DEF SendFired
  <2>2. p \in Points /\ a \in Ids \cup {Nil} /\ rest \in SUBSET Ids
    BY <1>1 DEF Points, ServiceInv, ServiceTypes, ThreadRec
  <2>3. /\ p \in {"destroy", "firing"} /\ (thread[t].id = id => p = "firing")
        /\ rest = thread[t].todo \ {id}
    BY <1>1
  <2> HIDE DEF last, p, a, rest
  <2>4. /\ thread' \in [Threads -> ThreadRec] /\ thread'[t].pc = p
        /\ thread'[t].id = thread[t].id /\ thread'[t].what = thread[t].what
        /\ thread'[t].todo = rest /\ thread'[t].back = thread[t].back
        /\ \A u \in Threads \ {t} : thread'[u] = thread[u]
    BY <2>1, <2>2, ZenonT(40) DEF ServiceInv, ServiceTypes, ThreadRec
  <2> QED BY <2>3, <2>4
<1>6. UNCHANGED <<scheduled, pending, queue>>
  BY DEF SendFired
<1>7. ServiceTypes' /\ InnerStep(t)
  BY <1>0, <1>3, <1>5, <1>6 DEF ServiceInv, ServiceTypes, InnerStep, Busy, AtRest
<1>8. Touches
  BY <1>2, <1>3, <1>4 DEF Touches
<1>9. \A i \in Ids \ {thread[t].id} : Mild(i)
  BY <1>2, <1>3, <1>4 DEF Mild
<1>10. FlowOf(t)'
  <2>1. CASE msg[thread[t].id].kind = "put" /\ PutFlow(t) /\ thread[t].back = "answer"
    <3>1. thread[t].id # id /\ sent[thread[t].id] = <<>>
      BY <1>0, <1>2, <2>1 DEF PutFlow
    <3> QED BY <1>0, <1>3, <1>4, <1>5, <2>1, <3>1 DEF FlowOf, PutFlow, Firing
  <2>2. CASE /\ msg[thread[t].id].kind = "watch" /\ thread[t].todo = {}
             /\ thread[t].at = thread[t].id /\ thread[t].back \in {"done", "refuse"}
    BY <1>0, <1>1, <1>3, <1>4, <1>5, <2>2 DEF FlowOf, WatchFlow, Firing
  <2> QED BY <1>0, <2>1, <2>2
<1>11. ASSUME NEW u \in Threads PROVE TokenOf(u)'
  <2> SUFFICES ASSUME thread'[u].pc \in Firing PROVE TokenOf(u)'
    BY DEF TokenOf
  <2>1. u # t /\ thread'[u] = thread[u] /\ TokenOf(u)
    BY <1>5 DEF Firing, ServiceInv, SentInv
  <2>2. thread[u].at # id
    BY <1>0, <1>1, <2>1 DEF TokenOf, Firing
  <2>3. \A v \in Threads \ {u} : thread'[v].pc \in Firing => thread'[v].at # thread[u].at
    BY <1>5, <2>1 DEF TokenOf, Firing
  <2>4. sent'[thread[u].at] = sent[thread[u].at]
    BY <1>4, <2>1, <2>2 DEF TokenOf
  <2> QED BY <1>3, <2>1, <2>3, <2>4, ZenonT(40) DEF TokenOf, Fired
<1>12. ASSUME NEW i \in Ids PROVE SentOf(i)'
  <2>1. SentOf(i)
    BY DEF ServiceInv, SentInv
  <2>2. CASE i = id
    <3>1. sent[id] \in Seq({"answer", "error", "fired"})
      BY DEF ServiceInv, ServiceTypes
    <3>2. Len(sent[id]) <= 1
      <4>1. Len(sent[id]) \in Nat /\ Len(sent[id]) <= 2
        BY <2>1, <2>2, <3>1 DEF SentOf
      <4>2. CASE Len(sent[id]) = 2
        <5>1. 2 \in DOMAIN sent[id] /\ sent[id][2] = "fired"
          BY <2>1, <2>2, <3>1, <4>2 DEF SentOf
        <5> QED BY <1>2, <5>1 DEF Fired
      <4>3. \A n \in Nat : n <= 2 /\ n # 2 => n <= 1
        OBVIOUS
      <4> QED BY <4>1, <4>2, <4>3
    <3>3. Len(sent[id]) = 1 => sent[id][1] # "fired"
      BY <1>2, <3>1 DEF Fired
    <3>4. /\ Len(sent'[id]) = Len(sent[id]) + 1
          /\ sent'[id][Len(sent[id]) + 1] = "fired"
          /\ \A n \in 1 .. Len(sent[id]) : sent'[id][n] = sent[id][n]
      BY <1>4, <3>1
    <3>5. Len(sent'[id]) <= 2 /\ (Len(sent'[id]) = 2 => sent'[id][1] # "fired" /\ sent'[id][2] = "fired")
      <4>1. CASE Len(sent[id]) = 0
        BY <3>4, <4>1
      <4>2. CASE Len(sent[id]) = 1
        BY <3>3, <3>4, <4>2
      <4>3. Len(sent[id]) \in Nat
        BY <3>1
      <4>4. \A n \in Nat : n <= 1 => n = 0 \/ n = 1
        OBVIOUS
      <4> QED BY <3>2, <4>1, <4>2, <4>3, <4>4
    <3>6. msg'[id].replies = Len(sent'[id])
      BY <1>3, <2>1, <2>2, <3>4 DEF SentOf
    <3> QED BY <1>2, <1>3, <2>1, <2>2, <3>5, <3>6 DEF SentOf
  <2>3. CASE i # id
    BY <1>3, <1>4, <2>1, <2>3 DEF SentOf, Fired
  <2> QED BY <2>2, <2>3
<1> QED BY <1>7, <1>8, <1>9, <1>10, <1>11, <1>12, InnerKeeps DEF SentInv

-----------------------------------------------------------------------------
(* Watches that are cancelled *)

\* The points at which a thread serves a cancel.
LEMMA Cancelling ==
  ASSUME ServiceInv, NEW t \in Threads, thread[t].pc \in {"cancel", "fire", "notify", "release"}
  PROVE  Busy(t) /\ thread[t].id \in Ids /\ thread[t].what = "cancel" /\ CancelFlow(t)
<1>1. Busy(t)
  BY DEF Busy, AtRest
<1>2. thread[t].id \in Ids /\ FlowOf(t)
  BY <1>1 DEF ServiceInv, QueuesInv, Flow
<1>3. ~PutFlow(t) /\ ~GetFlow(t) /\ ~WatchFlow(t)
  BY DEF PutFlow, GetFlow, WatchFlow, Firing
<1> QED BY <1>1, <1>2, <1>3 DEF FlowOf

\* LookUp keeps the invariant.
LEMMA LookUpKeeps == ASSUME ServiceInv, NEW t \in Threads, LookUp(t) PROVE ServiceInv'
<1>1. Busy(t) /\ thread[t].what = "cancel"
  BY Cancelling DEF LookUp
<1>2. PICK p \in {"fire", "done"} : Goes(t, p)
  <2>1. PICK p \in {"fire", "done"} : thread' = [thread EXCEPT ![t].pc = p]
    BY DEF LookUp
  <2> QED BY <2>1, Moves DEF ServiceInv, Points
<1>3. FlowOf(t)'
  BY <1>1, <1>2 DEF FlowOf, CancelFlow, Goes
<1>4. p \in Points \ (Firing \cup AtRest)
  BY DEF Points, Firing, AtRest
<1>5. UNCHANGED <<scheduled, pending, queue, msg, sent>>
  BY DEF LookUp
<1> QED BY <1>1, <1>2, <1>3, <1>4, <1>5, ThreadOnly

\* Release keeps the invariant.
LEMMA ReleaseKeeps == ASSUME ServiceInv, NEW t \in Threads, Release(t) PROVE ServiceInv'
<1>1. Busy(t) /\ thread[t].what = "cancel" /\ thread[t].id \in Ids
  BY Cancelling DEF Release
<1>2. /\ thread' \in [Threads -> ThreadRec] /\ thread'[t].pc \in {"destroy", "done"}
      /\ thread'[t].id = thread[t].id /\ thread'[t].what = thread[t].what
      /\ \A u \in Threads \ {t} : thread'[u] = thread[u]
  <2>0. "destroy" \in Points /\ "done" \in Points
    BY DEF Points
  <2>1. CASE thread' = [thread EXCEPT ![t] = [@ EXCEPT !.pc = "destroy", !.at = thread[t].id]]
    BY <1>1, <2>0, <2>1, ZenonT(40) DEF ServiceInv, ServiceTypes, ThreadRec
  <2>2. CASE thread' = [thread EXCEPT ![t] = [@ EXCEPT !.pc = "done"]]
    BY <2>0, <2>2, ZenonT(40) DEF ServiceInv, ServiceTypes, ThreadRec
  <2> QED BY <2>1, <2>2 DEF Release
<1>3. UNCHANGED <<scheduled, pending, queue, msg, sent>>
  BY DEF Release
<1>4. ServiceTypes' /\ InnerStep(t) /\ Quiet
  BY <1>1, <1>2, <1>3 DEF ServiceInv, ServiceTypes, InnerStep, Quiet, Busy, AtRest, Firing
<1>5. FlowOf(t)'
  BY <1>1, <1>2 DEF FlowOf, CancelFlow
<1> QED BY <1>3, <1>4, <1>5, QuietKeeps

\* FireCancel keeps the invariant.
LEMMA FireCancelKeeps == ASSUME ServiceInv, NEW t \in Threads, FireCancel(t) PROVE ServiceInv'
<1>0. PICK id \in Ids : id = thread[t].id
  BY Cancelling DEF FireCancel
<1>1. Busy(t) /\ thread[t].what = "cancel"
  BY Cancelling DEF FireCancel
<1>2. PICK p : p = (IF msg[id].slot THEN "notify" ELSE "release")
  OBVIOUS
<1>3. Goes(t, p)
  BY <1>0, <1>2, Moves DEF FireCancel, ServiceInv, Points
<1> DEFINE m == [msg[id] EXCEPT !.slot = FALSE]
<1>4. msg[id] \in MessageRec
  BY DEF ServiceInv, ServiceTypes
<1>5. /\ m \in MessageRec /\ m.kind = msg[id].kind /\ m.watch = msg[id].watch
      /\ m.replies = msg[id].replies /\ ~m.slot /\ m.changed = msg[id].changed
  BY <1>4 DEF MessageRec
<1>6. msg' = [msg EXCEPT ![id] = m] /\ UNCHANGED <<scheduled, pending, queue, sent>>
  BY <1>0 DEF FireCancel
<1> HIDE DEF m
<1>7. msg' \in [Ids -> MessageRec] /\ msg'[id] = m /\ \A i \in Ids \ {id} : msg'[i] = msg[i]
  BY <1>5, <1>6, MessageEffect DEF ServiceInv
<1>8. ServiceTypes' /\ InnerStep(t)
  BY <1>0, <1>1, <1>2, <1>3, <1>5, <1>6, <1>7 DEF ServiceInv, ServiceTypes, InnerStep, Goes, Busy, AtRest
<1>9. Quiet
  BY <1>1, <1>2, <1>3, <1>5, <1>6, <1>7 DEF Quiet, Goes, Firing
<1>10. p = "notify" => msg[id].watch # "none"
  BY <1>2 DEF ServiceInv, SentInv, SentOf
<1>11. FlowOf(t)'
  BY <1>0, <1>1, <1>2, <1>3, <1>5, <1>7, <1>10 DEF FlowOf, CancelFlow, Goes
<1> QED BY <1>5, <1>7, <1>8, <1>9, <1>11, QuietKeeps

\* The cancelled watch is off.
LEMMA WatcherCancelKeeps == ASSUME ServiceInv, NEW t \in Threads, WatcherCancel(t) PROVE ServiceInv'
<1>0. PICK id \in Ids : id = thread[t].id
  BY Cancelling DEF WatcherCancel
<1>1. Busy(t) /\ thread[t].what = "cancel" /\ msg[id].watch # "none"
  BY <1>0, Cancelling DEF WatcherCancel, CancelFlow
<1>2. Arrived(id) /\ ~Waiting(id)
  BY <1>1, WatchArrived DEF ServiceInv
<1>3. Goes(t, "release")
  BY Moves DEF WatcherCancel, ServiceInv, Points
<1> DEFINE m == [msg[id] EXCEPT !.held = FALSE, !.watch = "off"]
<1>4. msg[id] \in MessageRec
  BY DEF ServiceInv, ServiceTypes
<1>5. /\ m \in MessageRec /\ m.kind = msg[id].kind /\ m.watch = "off"
      /\ m.replies = msg[id].replies /\ m.slot = msg[id].slot /\ m.changed = msg[id].changed
  BY <1>4 DEF MessageRec
<1>6. msg' = [msg EXCEPT ![id] = m] /\ UNCHANGED <<scheduled, pending, queue, sent>>
  BY <1>0 DEF WatcherCancel
<1> HIDE DEF m
<1>7. msg' \in [Ids -> MessageRec] /\ msg'[id] = m /\ \A i \in Ids \ {id} : msg'[i] = msg[i]
  BY <1>5, <1>6, MessageEffect DEF ServiceInv
<1>8. ServiceTypes' /\ InnerStep(t)
  BY <1>0, <1>1, <1>3, <1>5, <1>6, <1>7 DEF ServiceInv, ServiceTypes, InnerStep, Goes, Busy, AtRest
<1>9. Quiet
  BY <1>1, <1>3, <1>5, <1>6, <1>7 DEF Quiet, Goes, Firing
<1>10. FlowOf(t)'
  BY <1>0, <1>1, <1>3, <1>5, <1>7 DEF FlowOf, CancelFlow, Goes
<1> QED BY <1>0, <1>2, <1>7, <1>8, <1>9, <1>10, QuietKeeps

\* ~MojLunaMessage() changes nothing the replies depend on.
LEMMA DestroyedEffect ==
  ASSUME ServiceTypes, NEW id, Destroyed(id)
  PROVE  /\ msg' \in [Ids -> MessageRec]
         /\ \A i \in Ids : /\ msg'[i].kind = msg[i].kind /\ msg'[i].watch = msg[i].watch
                           /\ msg'[i].replies = msg[i].replies /\ (msg'[i].slot <=> msg[i].slot)
                           /\ (msg'[i].changed <=> msg[i].changed)
<1>1. msg' = [msg EXCEPT ![id].exists = FALSE]
  BY DEF Destroyed
<1> QED BY <1>1, ZenonT(40) DEF ServiceTypes, MessageRec

\* Destroy keeps the invariant.
LEMMA DestroyKeeps == ASSUME ServiceInv, NEW t \in Threads, Destroy(t) PROVE ServiceInv'
<1>1. Busy(t)
  BY DEF Destroy, Busy, AtRest
<1>2. thread[t].id \in Ids /\ FlowOf(t)
  BY <1>1 DEF ServiceInv, QueuesInv, Flow
<1>3. \/ thread[t].what = "cancel"
      \/ thread[t].what = "request" /\ msg[thread[t].id].kind = "put" /\ PutFlow(t)
         /\ thread[t].back = "answer" /\ sent[thread[t].id] = <<>>
  BY <1>1, <1>2 DEF Destroy, FlowOf, PutFlow, GetFlow, WatchFlow, Firing
<1>4. PICK p : p = (IF thread[t].what = "cancel" THEN "done" ELSE "firing")
  OBVIOUS
<1>5. /\ thread' \in [Threads -> ThreadRec] /\ thread'[t].pc = p
      /\ thread'[t].id = thread[t].id /\ thread'[t].what = thread[t].what
      /\ thread'[t].back = thread[t].back
      /\ \A u \in Threads \ {t} : thread'[u] = thread[u]
  <2>1. p \in Points
    BY <1>4 DEF Points
  <2>2. thread' = [thread EXCEPT ![t] = [@ EXCEPT !.pc = p, !.at = Nil]]
    BY <1>4 DEF Destroy
  <2> QED BY <2>1, <2>2, ZenonT(40) DEF ServiceInv, ServiceTypes, ThreadRec
<1>6. /\ msg' \in [Ids -> MessageRec]
      /\ \A i \in Ids : /\ msg'[i].kind = msg[i].kind /\ msg'[i].watch = msg[i].watch
                        /\ msg'[i].replies = msg[i].replies /\ (msg'[i].slot <=> msg[i].slot)
                        /\ (msg'[i].changed <=> msg[i].changed)
  BY DestroyedEffect DEF Destroy, ServiceInv
<1>7. UNCHANGED <<scheduled, pending, queue, sent>>
  BY DEF Destroy
<1>8. ServiceTypes' /\ InnerStep(t)
  BY <1>1, <1>4, <1>5, <1>6, <1>7 DEF ServiceInv, ServiceTypes, InnerStep, Busy, AtRest
<1>9. Quiet
  BY <1>4, <1>5, <1>6, <1>7 DEF Quiet, Firing
<1>10. FlowOf(t)'
  BY <1>2, <1>3, <1>4, <1>5, <1>6, <1>7 DEF FlowOf, PutFlow, CancelFlow, Firing
<1> QED BY <1>6, <1>8, <1>9, <1>10, QuietKeeps

-----------------------------------------------------------------------------
(* What the bus thread queues, and the stop *)

\* Nobody that works is disturbed: a thread at rest may wake up.
Undisturbed ==
  \A t \in Threads :
    /\ Busy(t)' <=> Busy(t)
    /\ Busy(t) => thread'[t] = thread[t]

\* schedule() appends to the queue, lists it unless it is listed, and wakes
\* a thread that waits.
LEMMA ScheduleEffect ==
  ASSUME ServiceTypes, QueuesInv, NEW s \in Senders, NEW m \in Ids \X {"request", "cancel"},
         m[1][1] = s, msg'[m[1]].kind # Nil, \A id \in Ids : msg[id].kind # Nil => msg'[id].kind = msg[id].kind,
         Schedule(s, m), pending' = pending
  PROVE  /\ scheduled' \in Seq(Senders)
         /\ queue' \in [Senders -> Seq(Ids \X {"request", "cancel"})]
         /\ queue' = [queue EXCEPT ![s] = Append(@, m)]
         /\ thread' \in [Threads -> ThreadRec]
         /\ Undisturbed /\ QueuesInv'
<1>0. scheduled \in Seq(Senders) /\ queue[s] \in Seq(Ids \X {"request", "cancel"})
  BY DEF ServiceTypes
<1>1. queue' = [queue EXCEPT ![s] = Append(@, m)]
  BY DEF Schedule
<1>2. queue' \in [Senders -> Seq(Ids \X {"request", "cancel"})]
  BY <1>1 DEF ServiceTypes
<1>3. \/ scheduled' = scheduled
      \/ /\ s \notin pending /\ \A i \in DOMAIN scheduled : scheduled[i] # s
         /\ scheduled' = Append(scheduled, s)
  BY <1>0 DEF Schedule, ToSet
<1>4. thread' = thread \/ \E t \in Threads : thread[t].pc = "wait" /\ thread' = [thread EXCEPT ![t].pc = "check"]
  BY DEF Schedule
<1>5. thread' \in [Threads -> ThreadRec] /\ Undisturbed
  <2>1. CASE thread' = thread
    BY <2>1 DEF ServiceTypes, Undisturbed, Busy
  <2>2. ASSUME NEW t \in Threads, thread[t].pc = "wait", thread' = [thread EXCEPT ![t].pc = "check"]
        PROVE  thread' \in [Threads -> ThreadRec] /\ Undisturbed
    <3>1. "check" \in Points
      BY DEF Points, AtRest
    <3> DEFINE th == [thread[t] EXCEPT !.pc = "check"]
    <3>4. th \in ThreadRec
      <4>1. thread[t] \in ThreadRec
        BY <2>2 DEF ServiceTypes
      <4> QED BY <3>1, <4>1 DEF ThreadRec
    <3>5. thread' = [thread EXCEPT ![t] = th]
      BY <2>2
    <3> HIDE DEF th
    <3>2. thread' \in [Threads -> ThreadRec]
      BY <3>4, <3>5 DEF ServiceTypes
    <3>3. thread'[t].pc = "check" /\ \A u \in Threads \ {t} : thread'[u] = thread[u]
      BY <2>2 DEF ServiceTypes, ThreadRec
    <3> QED BY <2>2, <3>2, <3>3 DEF Undisturbed, Busy, AtRest
  <2> QED BY <1>4, <2>1, <2>2
<1>6. scheduled' \in Seq(Senders)
  BY <1>0, <1>3
<1>7. QueuesInv'
  <2>1. (\A i, j \in DOMAIN scheduled : scheduled[i] = scheduled[j] => i = j)'
    <3>1. \A i, j \in DOMAIN scheduled : scheduled[i] = scheduled[j] => i = j
      BY DEF QueuesInv
    <3> QED BY <1>0, <1>3, <3>1
  <2>2. (\A i \in DOMAIN scheduled : scheduled[i] \notin pending /\ queue[scheduled[i]] # <<>>)'
    <3> SUFFICES ASSUME NEW i \in DOMAIN scheduled'
                 PROVE  scheduled'[i] \notin pending /\ queue'[scheduled'[i]] # <<>>
      OBVIOUS
    <3>1. scheduled'[i] = s \/ (i \in DOMAIN scheduled /\ scheduled'[i] = scheduled[i])
      BY <1>0, <1>3
    <3>2. scheduled'[i] \notin pending
      BY <1>3, <3>1 DEF QueuesInv
    <3>3. scheduled'[i] \in Senders
      BY <1>6
    <3>4. queue'[s] # <<>>
      <4>1. queue'[s] = Append(queue[s], m)
        BY <1>1 DEF ServiceTypes
      <4>2. Len(queue'[s]) = Len(queue[s]) + 1 /\ Len(queue[s]) \in Nat
        BY <1>0, <4>1
      <4> QED BY <4>2
    <3>5. \A r \in Senders \ {s} : queue'[r] = queue[r]
      BY <1>1 DEF ServiceTypes
    <3> QED BY <3>1, <3>2, <3>3, <3>4, <3>5 DEF QueuesInv
  <2>3. (\A r \in Senders : \A n \in DOMAIN queue[r] :
            queue[r][n][1][1] = r /\ msg[queue[r][n][1]].kind # Nil)'
    <3> SUFFICES ASSUME NEW r \in Senders, NEW n \in DOMAIN queue'[r]
                 PROVE  queue'[r][n][1][1] = r /\ msg'[queue'[r][n][1]].kind # Nil
      OBVIOUS
    <3>1. (r = s /\ queue'[r][n] = m) \/ (n \in DOMAIN queue[r] /\ queue'[r][n] = queue[r][n])
      BY <1>1 DEF ServiceTypes
    <3>2. n \in DOMAIN queue[r] => queue[r][n][1] \in Ids
      BY DEF ServiceTypes
    <3> QED BY <3>1, <3>2 DEF QueuesInv
  <2>4. (\A t \in Threads : Busy(t) =>
            thread[t].id \in Ids /\ thread[t].id[1] \in pending /\ msg[thread[t].id].kind # Nil)'
    BY <1>5 DEF Undisturbed, QueuesInv
  <2>5. (\A t, u \in Threads : Busy(t) /\ Busy(u) /\ t # u => thread[t].id[1] # thread[u].id[1])'
    BY <1>5 DEF Undisturbed, QueuesInv
  <2> QED BY <2>1, <2>2, <2>3, <2>4, <2>5 DEF QueuesInv
<1> QED BY <1>1, <1>2, <1>5, <1>6, <1>7

\* What a thread serves stays what it serves.
LEMMA UndisturbedServes ==
  ASSUME Undisturbed, NEW id \in Ids, NEW t \in Threads PROVE Serves(t, id)' <=> Serves(t, id)
BY DEF Undisturbed, Serves

\* A step that disturbs no thread at work leaves each on its way.
LEMMA UndisturbedFlow ==
  ASSUME ServiceTypes, QueuesInv, Flow, Undisturbed, sent' = sent,
         \A id \in Ids : Arrived(id) => /\ msg'[id].kind = msg[id].kind /\ msg'[id].watch = msg[id].watch
                                        /\ msg[id].changed => msg'[id].changed
  PROVE  Flow'
<1> SUFFICES ASSUME NEW u \in Threads, Busy(u)' PROVE FlowOf(u)'
  BY DEF Flow, FlowOf
<1>1. Busy(u) /\ thread'[u] = thread[u] /\ FlowOf(u)
  BY DEF Undisturbed, Flow
<1>2. thread[u].id \in Ids => Mild(thread[u].id)
  BY <1>1 DEF QueuesInv, Mild, Arrived
<1> QED BY <1>1, <1>2, OtherFlow

\* Nobody starts to fire a watch in such a step.
LEMMA UndisturbedFiring ==
  ASSUME Undisturbed
  PROVE  \A t \in Threads : thread'[t].pc \in Firing => thread[t].pc \in Firing /\ thread'[t].at = thread[t].at
BY DEF Undisturbed, Busy, Firing, AtRest

\* The members of an extended queue.
LEMMA AppendHas ==
  ASSUME NEW S, NEW q \in Seq(S), NEW e \in S, NEW x
  PROVE  (\E n \in DOMAIN Append(q, e) : Append(q, e)[n] = x) <=> (\E n \in DOMAIN q : q[n] = x) \/ e = x
<1>1. DOMAIN q = 1 .. Len(q) /\ DOMAIN Append(q, e) = 1 .. Len(q) + 1 /\ Len(q) \in Nat
  OBVIOUS
<1>2. Append(q, e)[Len(q) + 1] = e /\ \A n \in 1 .. Len(q) : Append(q, e)[n] = q[n]
  OBVIOUS
<1>3. \A k \in Nat : k + 1 \in 1 .. k + 1 /\ \A n \in 1 .. k + 1 : n \in 1 .. k \/ n = k + 1
  OBVIOUS
<1>4. \A k \in Nat : \A n \in 1 .. k : n \in 1 .. k + 1
  OBVIOUS
<1> QED BY <1>1, <1>2, <1>3, <1>4, Zenon

\* A request joins the end of its sender's queue: the bus numbers requests as they come.
LEMMA HandleRequestKeeps ==
  ASSUME ServiceInv, NEW id \in Ids, NEW kind \in {"put", "get", "watch"}, HandleRequest(id, kind)
  PROVE  ServiceInv'
<1> DEFINE m == [NoMessage EXCEPT !.kind = kind, !.subscribed = Subscribing(kind), !.exists = TRUE]
           e == <<id, "request">>
<1>1. m \in MessageRec /\ m.kind = kind /\ m.watch = "none" /\ m.replies = 0 /\ ~m.slot
  <2>1. \A b \in BOOLEAN :
          LET n == [NoMessage EXCEPT !.kind = kind, !.subscribed = b, !.exists = TRUE]
          IN  n \in MessageRec /\ n.kind = kind /\ n.watch = "none" /\ n.replies = 0 /\ ~n.slot
    BY DEF NoMessage, MessageRec
  <2>2. Subscribing(kind) \in BOOLEAN
    BY DEF Subscribing
  <2> QED BY <2>1, <2>2
<1>2. /\ msg' = [msg EXCEPT ![id] = m] /\ msg[id] = NoMessage /\ sent' = sent /\ pending' = pending
      /\ \A i \in 1 .. id[2] - 1 : msg[<<id[1], i>>].kind # Nil
      /\ Schedule(id[1], e)
  BY DEF HandleRequest
<1>3. /\ msg[id].kind = Nil /\ msg[id].watch = "none" /\ msg[id].replies = 0 /\ ~msg[id].changed
  BY <1>2 DEF NoMessage
<1> HIDE DEF m
<1>4. kind # Nil
  BY NilAssumption
<1>5. msg' \in [Ids -> MessageRec] /\ msg'[id] = m /\ \A i \in Ids \ {id} : msg'[i] = msg[i]
  BY <1>1, <1>2, MessageEffect DEF ServiceInv
<1>6. \A i \in Ids : Arrived(i) => msg'[i] = msg[i] /\ i # id
  BY <1>3, <1>5 DEF Arrived
<1>7. e \in Ids \X {"request", "cancel"} /\ e[1] = id /\ id[1] \in Senders
  BY IdShape
<1>8. /\ scheduled' \in Seq(Senders) /\ queue' \in [Senders -> Seq(Ids \X {"request", "cancel"})]
      /\ queue' = [queue EXCEPT ![id[1]] = Append(@, e)]
      /\ thread' \in [Threads -> ThreadRec] /\ Undisturbed /\ QueuesInv'
  <2>1. \A i \in Ids : msg[i].kind # Nil => msg'[i].kind = msg[i].kind
    BY <1>6 DEF Arrived
  <2>2. e[1][1] = id[1] /\ msg'[e[1]].kind # Nil
    BY <1>1, <1>4, <1>5
  <2> QED BY <1>2, <1>7, <2>1, <2>2, ScheduleEffect DEF ServiceInv
<1> HIDE DEF e
<1>9. ServiceTypes'
  BY <1>2, <1>5, <1>8 DEF ServiceInv, ServiceTypes
<1>10. Flow'
  BY <1>2, <1>6, <1>8, UndisturbedFlow DEF ServiceInv
<1>11. SentInv'
  <2>1. Quiet
    BY <1>1, <1>2, <1>3, <1>5, <1>8, UndisturbedFiring DEF Quiet
  <2> QED BY <2>1, QuietSent DEF ServiceInv
<1>12. ~Arrived(id) /\ OrderOf(id)
  BY <1>3 DEF Arrived, ServiceInv, OrderInv
<1>13. \A i \in Ids : Arrived(i)' <=> (Arrived(i) \/ i = id)
  BY <1>1, <1>4, <1>5, <1>6 DEF Arrived
<1>14. ASSUME NEW i \in Ids PROVE Waiting(i)' <=> (Waiting(i) \/ i = id)
  <2>1. i[1] \in Senders
    BY IdShape
  <2>2. queue[i[1]] \in Seq(Ids \X {"request", "cancel"})
    BY <2>1 DEF ServiceInv, ServiceTypes
  <2>3. CASE i[1] = id[1]
    <3>1. queue'[i[1]] = Append(queue[i[1]], e)
      BY <1>8, <2>1, <2>3 DEF ServiceInv, ServiceTypes
    <3>2. e = <<i, "request">> <=> i = id
      BY DEF e
    <3> DEFINE r == <<i, "request">>
               q == queue[i[1]]
    <3>3. (\E n \in DOMAIN Append(q, e) : Append(q, e)[n] = r) <=> (\E n \in DOMAIN q : q[n] = r) \/ e = r
      <4> DEFINE M == Ids \X {"request", "cancel"}
      <4>1. e \in M /\ q \in Seq(M)
        BY <1>7, <2>2
      <4> HIDE DEF q, r, M
      <4> QED BY <4>1, AppendHas
    <3> QED BY <3>1, <3>2, <3>3 DEF Waiting
  <2>4. CASE i[1] # id[1]
    <3>1. queue'[i[1]] = queue[i[1]]
      BY <1>8, <2>1, <2>4 DEF ServiceInv, ServiceTypes
    <3> QED BY <2>4, <3>1 DEF Waiting
  <2> QED BY <2>3, <2>4
<1>15. \A i \in Ids : \A t \in Threads : Serves(t, i)' <=> Serves(t, i)
  BY <1>8, UndisturbedServes
<1>16. ASSUME NEW i \in Ids PROVE OrderOf(i)'
  <2>1. Earlier(i)' = Earlier(i) /\ Earlier(i) \subseteq Ids
    BY DEF Earlier
  <2>2. OrderOf(i)
    BY DEF ServiceInv, OrderInv
  <2>3. CASE i = id
    <3>1. \A x \in Earlier(id) : Arrived(x)
      <4> SUFFICES ASSUME NEW x \in Earlier(id) PROVE Arrived(x)
        OBVIOUS
      <4>1. x \in Ids /\ x[1] = id[1] /\ x[2] < id[2]
        BY DEF Earlier
      <4>2. x = <<id[1], x[2]>> /\ x[2] \in 1 .. id[2] - 1
        BY <4>1, IdShape
      <4> QED BY <1>2, <4>2 DEF Arrived
    <3>2. sent[id] = <<>> /\ (\A t \in Threads : ~Serves(t, id)) /\ msg'[id].watch = "none"
      BY <1>1, <1>5, <1>12 DEF OrderOf
    <3> QED BY <1>2, <1>13, <1>14, <1>15, <2>1, <2>3, <3>1, <3>2 DEF OrderOf
  <2>4. CASE i # id
    <3>1. msg'[i].watch = msg[i].watch
      BY <1>5, <2>4
    <3> QED BY <1>2, <1>13, <1>14, <1>15, <2>1, <2>2, <2>4, <3>1 DEF OrderOf
  <2> QED BY <2>3, <2>4
<1>17. ASSUME NEW s \in Senders PROVE QueueOrdered(s)'
  <2>1. QueueOrdered(s) /\ queue[s] \in Seq(Ids \X {"request", "cancel"})
    BY DEF ServiceInv, ServiceTypes, OrderInv
  <2>2. CASE s # id[1]
    <3>1. queue'[s] = queue[s]
      BY <1>8, <2>2 DEF ServiceInv, ServiceTypes
    <3> QED BY <2>1, <3>1 DEF QueueOrdered
  <2>3. CASE s = id[1]
    <3>1. queue'[s] = Append(queue[s], e)
      BY <1>8, <2>3 DEF ServiceInv, ServiceTypes
    <3>2. ASSUME NEW i \in DOMAIN queue[s], queue[s][i][2] = "request"
          PROVE  queue[s][i][1][2] < id[2]
      <4>1. PICK x \in Ids : x = queue[s][i][1]
        BY <2>1
      <4>2. x[1] = s /\ Arrived(x)
        BY <4>1 DEF ServiceInv, QueuesInv, Arrived
      <4>3. x # id
        BY <1>12, <4>2
      <4>4. id \notin Earlier(x)
        BY <1>12, <4>2 DEF OrderOf, ServiceInv, OrderInv
      <4>5. x = <<x[1], x[2]>> /\ id = <<id[1], id[2]>> /\ x[2] \in Nat /\ id[2] \in Nat
        BY IdShape
      <4>6. ~(id[2] < x[2])
        BY <2>3, <4>2, <4>4 DEF Earlier
      <4> QED BY <2>3, <4>1, <4>2, <4>3, <4>5, <4>6
    <3>3. ASSUME NEW i \in DOMAIN queue'[s], NEW j \in DOMAIN queue'[s], i < j,
                 queue'[s][i][2] = "request", queue'[s][j][2] = "request"
          PROVE  queue'[s][i][1][2] < queue'[s][j][1][2]
      <4>1. i \in DOMAIN queue[s] /\ queue'[s][i] = queue[s][i]
        BY <2>1, <3>1, <3>3
      <4>2. (j \in DOMAIN queue[s] /\ queue'[s][j] = queue[s][j]) \/ queue'[s][j] = e
        BY <2>1, <3>1, <3>3
      <4> QED BY <1>7, <2>1, <3>2, <3>3, <4>1, <4>2 DEF QueueOrdered
    <3> QED BY <3>3 DEF QueueOrdered
  <2> QED BY <2>2, <2>3
<1>18. OrderInv'
  BY <1>16, <1>17 DEF OrderInv
<1> QED BY <1>8, <1>9, <1>10, <1>11, <1>18 DEF ServiceInv

\* A cancel waits in the queue like a request, and is none.
LEMMA HandleCancelKeeps ==
  ASSUME ServiceInv, NEW id \in Ids, HandleCancel(id) PROVE ServiceInv'
<1> DEFINE e == <<id, "cancel">>
<1>1. msg' = msg /\ sent' = sent /\ pending' = pending /\ msg[id].kind = "watch" /\ Schedule(id[1], e)
  BY DEF HandleCancel
<1>2. e \in Ids \X {"request", "cancel"} /\ e[1] = id /\ id[1] \in Senders
  BY IdShape
<1>3. /\ scheduled' \in Seq(Senders) /\ queue' \in [Senders -> Seq(Ids \X {"request", "cancel"})]
      /\ queue' = [queue EXCEPT ![id[1]] = Append(@, e)]
      /\ thread' \in [Threads -> ThreadRec] /\ Undisturbed /\ QueuesInv'
  BY <1>1, <1>2, ScheduleEffect, NilAssumption DEF ServiceInv
<1>4. e[2] # "request" /\ \A i \in Ids : e # <<i, "request">>
  OBVIOUS
<1> HIDE DEF e
<1>5. ServiceTypes'
  BY <1>1, <1>3 DEF ServiceInv, ServiceTypes
<1>6. Flow'
  BY <1>1, <1>3, UndisturbedFlow DEF ServiceInv
<1>7. SentInv'
  <2>1. Quiet
    BY <1>1, <1>3, UndisturbedFiring DEF Quiet
  <2> QED BY <2>1, QuietSent DEF ServiceInv
<1>8. ASSUME NEW s \in Senders
      PROVE  /\ queue[s] \in Seq(Ids \X {"request", "cancel"})
             /\ queue'[s] = queue[s] \/ queue'[s] = Append(queue[s], e)
  BY <1>3 DEF ServiceInv, ServiceTypes
<1>9. \A i \in Ids : Waiting(i)' <=> Waiting(i)
  <2> SUFFICES ASSUME NEW i \in Ids PROVE Waiting(i)' <=> Waiting(i)
    OBVIOUS
  <2>1. i[1] \in Senders
    BY IdShape
  <2> DEFINE r == <<i, "request">>
             q == queue[i[1]]
  <2>2. (\E n \in DOMAIN Append(q, e) : Append(q, e)[n] = r) <=> (\E n \in DOMAIN q : q[n] = r) \/ e = r
    <3> DEFINE M == Ids \X {"request", "cancel"}
    <3>1. e \in M /\ q \in Seq(M)
      BY <1>2, <1>8, <2>1
    <3> HIDE DEF q, r, M
    <3> QED BY <3>1, AppendHas
  <2> QED BY <1>4, <1>8, <2>1, <2>2 DEF Waiting
<1>10. ASSUME NEW i \in Ids PROVE OrderOf(i)'
  <2>1. OrderOf(i) /\ Earlier(i)' = Earlier(i)
    BY DEF ServiceInv, OrderInv, Earlier
  <2>2. \A t \in Threads : Serves(t, i)' <=> Serves(t, i)
    BY <1>3, UndisturbedServes
  <2> QED BY <1>1, <1>9, <2>1, <2>2 DEF OrderOf, Arrived
<1>11. ASSUME NEW s \in Senders PROVE QueueOrdered(s)'
  <2>1. QueueOrdered(s)
    BY DEF ServiceInv, OrderInv
  <2>2. CASE queue'[s] = queue[s]
    BY <2>1, <2>2 DEF QueueOrdered
  <2>3. CASE queue'[s] = Append(queue[s], e)
    <3>1. \A i \in DOMAIN queue'[s] : queue'[s][i][2] = "request" => i \in DOMAIN queue[s] /\ queue'[s][i] = queue[s][i]
      BY <1>2, <1>4, <1>8, <2>3
    <3> QED BY <2>1, <3>1 DEF QueueOrdered
  <2> QED BY <1>8, <2>2, <2>3
<1> QED BY <1>3, <1>5, <1>6, <1>7, <1>10, <1>11 DEF ServiceInv, OrderInv

\* Undisturbed keeps the invariant.
LEMMA UndisturbedKeeps ==
  ASSUME ServiceInv, UNCHANGED <<scheduled, pending, queue, msg, sent>>,
         thread' \in [Threads -> ThreadRec], Undisturbed
  PROVE  ServiceInv'
<1>3. ServiceTypes'
  BY DEF ServiceInv, ServiceTypes
<1>4. QueuesInv'
  BY DEF ServiceInv, QueuesInv, Undisturbed
<1>5. OrderInv'
  <2>1. \A i \in Ids : \A t \in Threads : Serves(t, i)' <=> Serves(t, i)
    BY UndisturbedServes
  <2> QED BY <2>1 DEF ServiceInv, OrderInv, OrderOf, QueueOrdered, Arrived, Waiting, Earlier
<1>6. Flow'
  BY UndisturbedFlow DEF ServiceInv
<1>7. Quiet
  BY UndisturbedFiring DEF Quiet
<1> QED BY <1>3, <1>4, <1>5, <1>6, <1>7, QuietSent DEF ServiceInv

\* stop() wakes the threads that wait.
LEMMA StopKeeps == ASSUME ServiceInv, Stop PROVE ServiceInv'
<1>1. UNCHANGED <<scheduled, pending, queue, msg, sent>>
  BY DEF Stop
<1>2. thread' \in [Threads -> ThreadRec] /\ Undisturbed
  <2> SUFFICES ASSUME NEW t \in Threads
               PROVE  thread'[t] \in ThreadRec /\ (Busy(t)' <=> Busy(t)) /\ (Busy(t) => thread'[t] = thread[t])
    BY DEF Stop, Undisturbed
  <2>1. thread[t] \in ThreadRec /\ "check" \in Points
    BY DEF ServiceInv, ServiceTypes, Points, AtRest
  <2>2. CASE thread[t].pc = "wait"
    <3>1. thread'[t] = [thread[t] EXCEPT !.pc = "check"]
      BY <2>2 DEF Stop
    <3> QED BY <2>1, <2>2, <3>1 DEF ThreadRec, Busy, AtRest
  <2>3. CASE thread[t].pc # "wait"
    <3>1. thread'[t] = thread[t]
      BY <2>1, <2>3 DEF Stop, ThreadRec
    <3> QED BY <2>1, <3>1 DEF Busy
  <2> QED BY <2>2, <2>3
<1> QED BY <1>1, <1>2, UndisturbedKeeps

\* close() of the service ends the watches that are left, when all threads have gone.
LEMMA CloseServiceKeeps == ASSUME ServiceInv, CloseService PROVE ServiceInv'
<1>1. UNCHANGED <<scheduled, pending, queue, thread, sent>>
  BY DEF CloseService
<1>2. \A t \in Threads : ~Busy(t) /\ thread[t].pc \notin Firing
  BY DEF CloseService, Busy, AtRest, Firing
<1>3. /\ msg' \in [Ids -> MessageRec]
      /\ \A id \in Ids : /\ msg'[id].kind = msg[id].kind /\ msg'[id].replies = msg[id].replies
                         /\ \/ msg'[id].watch = msg[id].watch
                            \/ msg'[id].watch = "off" /\ msg[id].slot
                         /\ msg'[id].slot => msg[id].slot
  <2> DEFINE gone == {id \in subscriptions : msg[id].slot}
             off(id) == [msg[id] EXCEPT !.slot = FALSE, !.held = FALSE, !.watch = "off",
                                        !.subscribed = FALSE, !.exists = FALSE]
  <2>1. msg' = [id \in Ids |-> IF id \in gone THEN off(id) ELSE msg[id]]
    BY DEF CloseService
  <2>2. \A id \in Ids : msg[id] \in MessageRec
    BY DEF ServiceInv, ServiceTypes
  <2>3. \A id \in Ids : /\ off(id) \in MessageRec /\ off(id).kind = msg[id].kind
                        /\ off(id).replies = msg[id].replies /\ off(id).watch = "off" /\ ~off(id).slot
    BY <2>2 DEF MessageRec
  <2>4. \A id \in gone : msg[id].slot
    OBVIOUS
  <2> HIDE DEF gone, off
  <2> QED BY <2>1, <2>2, <2>3, <2>4
<1>4. \A id \in Ids : msg[id].slot => msg[id].watch # "none"
  BY DEF ServiceInv, SentInv, SentOf
<1>5. ServiceTypes'
  BY <1>1, <1>3 DEF ServiceInv, ServiceTypes
<1>6. QueuesInv'
  <2>1. \A s \in Senders : \A n \in DOMAIN queue[s] : queue[s][n][1] \in Ids
    BY DEF ServiceInv, ServiceTypes
  <2>2. \A t \in Threads : ~Busy(t)'
    BY <1>1, <1>2 DEF Busy
  <2> QED BY <1>1, <1>3, <2>1, <2>2 DEF ServiceInv, QueuesInv
<1>7. OrderInv'
  <2>1. ASSUME NEW id \in Ids PROVE OrderOf(id)'
    <3>1. OrderOf(id) /\ Earlier(id)' = Earlier(id) /\ Earlier(id) \subseteq Ids
      BY DEF ServiceInv, OrderInv, Earlier
    <3>2. \A i \in Ids : Arrived(i)' <=> Arrived(i)
      BY <1>3 DEF Arrived
    <3>3. (Waiting(id)' <=> Waiting(id)) /\ \A t \in Threads : Serves(t, id)' <=> Serves(t, id)
      BY <1>1 DEF Waiting, Serves, Busy
    <3>4. msg'[id].watch = msg[id].watch \/ (Arrived(id) /\ ~Waiting(id))
      BY <1>3, <1>4, WatchArrived DEF ServiceInv
    <3> QED BY <1>1, <3>1, <3>2, <3>3, <3>4 DEF OrderOf
  <2> QED BY <1>1, <2>1 DEF ServiceInv, OrderInv, QueueOrdered
<1>8. Flow'
  BY <1>1, <1>2 DEF Flow, FlowOf, Busy
<1>9. Quiet
  BY <1>1, <1>2, <1>3, <1>4 DEF Quiet
<1> QED BY <1>5, <1>6, <1>7, <1>8, <1>9, QuietSent DEF ServiceInv

-----------------------------------------------------------------------------
(* Queues that are taken and left *)

\* A thread that has done its message may go on to another one of the sender.
LEMMA FinishKeeps == ASSUME ServiceInv, NEW t \in Threads, Finish(t) PROVE ServiceInv'
<1>1. thread[t].pc = "done" /\ Busy(t)
  BY DEF Finish, Busy, AtRest
<1>2. PICK s \in Senders : s = thread[t].id[1]
  <2>1. thread[t].id \in Ids
    BY <1>1 DEF ServiceInv, QueuesInv
  <2> QED BY <2>1, IdShape
<1>3. /\ s \in pending /\ pending' = pending \ {s} /\ UNCHANGED <<queue, sent>>
      /\ thread' = [thread EXCEPT ![t] = Idle]
      /\ \/ scheduled' = scheduled /\ queue[s] = <<>>
         \/ scheduled' = Append(scheduled, s) /\ queue[s] # <<>>
  <2>1. s \in pending
    BY <1>1, <1>2 DEF ServiceInv, QueuesInv
  <2>2. pending' = pending \ {s} /\ UNCHANGED <<queue, sent>> /\ thread' = [thread EXCEPT ![t] = Idle]
    BY <1>2 DEF Finish
  <2>3. scheduled' = IF queue[s] = <<>> THEN scheduled ELSE Append(scheduled, s)
    BY <1>2 DEF Finish
  <2>4. queue[s] = <<>> => scheduled' = scheduled
    BY <2>3, Zenon
  <2>5. queue[s] # <<>> => scheduled' = Append(scheduled, s)
    BY <2>3, Zenon
  <2> QED BY <2>1, <2>2, <2>4, <2>5, Zenon
<1>4. /\ msg' \in [Ids -> MessageRec]
      /\ \A i \in Ids : /\ msg'[i].kind = msg[i].kind /\ msg'[i].watch = msg[i].watch
                        /\ msg'[i].replies = msg[i].replies /\ (msg'[i].slot <=> msg[i].slot)
                        /\ (msg'[i].changed <=> msg[i].changed)
  <2>1. CASE Destroyed(thread[t].id)
    BY <2>1, DestroyedEffect DEF ServiceInv
  <2>2. CASE msg' = msg
    BY <2>2 DEF ServiceInv, ServiceTypes
  <2> QED BY <2>1, <2>2 DEF Finish
<1>5. /\ thread' \in [Threads -> ThreadRec] /\ thread'[t].pc = "check"
      /\ \A u \in Threads \ {t} : thread'[u] = thread[u]
  <2>1. Idle \in ThreadRec /\ Idle.pc = "check"
    BY DEF Idle, ThreadRec, Points, AtRest
  <2> QED BY <1>3, <2>1 DEF ServiceInv, ServiceTypes
<1>6. scheduled \in Seq(Senders) /\ scheduled' \in Seq(Senders)
  <2>1. scheduled \in Seq(Senders)
    BY DEF ServiceInv, ServiceTypes
  <2> QED BY <1>3, <2>1
<1>7. ServiceTypes'
  BY <1>3, <1>4, <1>5, <1>6 DEF ServiceInv, ServiceTypes
<1>8. ~Busy(t)' /\ \A u \in Threads \ {t} : Busy(u)' <=> Busy(u)
  BY <1>5 DEF Busy, AtRest
<1>9. QueuesInv'
  <2>1. \A i \in DOMAIN scheduled : scheduled[i] \notin pending /\ queue[scheduled[i]] # <<>> /\ scheduled[i] # s
    BY <1>3 DEF ServiceInv, QueuesInv
  <2>2. \A i, j \in DOMAIN scheduled : scheduled[i] = scheduled[j] => i = j
    BY DEF ServiceInv, QueuesInv
  <2>3. (\A i, j \in DOMAIN scheduled : scheduled[i] = scheduled[j] => i = j)'
    BY <1>3, <1>6, <2>1, <2>2
  <2>4. (\A i \in DOMAIN scheduled : scheduled[i] \notin pending /\ queue[scheduled[i]] # <<>>)'
    BY <1>3, <1>6, <2>1
  <2>5. (\A r \in Senders : \A n \in DOMAIN queue[r] :
            queue[r][n][1][1] = r /\ msg[queue[r][n][1]].kind # Nil)'
    <3>1. \A r \in Senders : \A n \in DOMAIN queue[r] : queue[r][n][1] \in Ids
      BY DEF ServiceInv, ServiceTypes
    <3> QED BY <1>3, <1>4, <3>1 DEF ServiceInv, QueuesInv
  <2>6. (\A u \in Threads : Busy(u) =>
            thread[u].id \in Ids /\ thread[u].id[1] \in pending /\ msg[thread[u].id].kind # Nil)'
    BY <1>1, <1>2, <1>3, <1>4, <1>5, <1>8 DEF ServiceInv, QueuesInv
  <2>7. (\A v, u \in Threads : Busy(v) /\ Busy(u) /\ v # u => thread[v].id[1] # thread[u].id[1])'
    BY <1>5, <1>8 DEF ServiceInv, QueuesInv
  <2> QED BY <2>3, <2>4, <2>5, <2>6, <2>7 DEF QueuesInv
<1>10. OrderInv'
  <2>1. ASSUME NEW id \in Ids PROVE OrderOf(id)'
    <3>1. OrderOf(id) /\ Earlier(id)' = Earlier(id) /\ Earlier(id) \subseteq Ids
      BY DEF ServiceInv, OrderInv, Earlier
    <3>2. \A i \in Ids : Arrived(i)' <=> Arrived(i)
      BY <1>4 DEF Arrived
    <3>3. Waiting(id)' <=> Waiting(id)
      BY <1>3 DEF Waiting
    <3>4. ~Serves(t, id)' /\ \A u \in Threads \ {t} : Serves(u, id)' <=> Serves(u, id)
      BY <1>5, <1>8 DEF Serves
    <3>5. Serves(t, id) => sent[id] # <<>>
      <4>1. FlowOf(t)
        BY DEF ServiceInv, Flow
      <4> QED BY <1>1, <4>1 DEF FlowOf, Serves, PutFlow, GetFlow, WatchFlow
    <3> QED BY <1>3, <1>4, <3>1, <3>2, <3>3, <3>4, <3>5 DEF OrderOf
  <2> QED BY <1>3, <2>1 DEF ServiceInv, OrderInv, QueueOrdered
<1>11. Flow'
  <2>1. ASSUME NEW u \in Threads \ {t} PROVE FlowOf(u)'
    <3>1. thread[u].id \in Ids => Mild(thread[u].id)
      BY <1>3, <1>4 DEF Mild
    <3>2. FlowOf(u)
      BY DEF ServiceInv, Flow
    <3> QED BY <1>5, <3>1, <3>2, OtherFlow DEF ServiceInv
  <2>2. FlowOf(t)'
    BY <1>8 DEF FlowOf
  <2> QED BY <2>1, <2>2 DEF Flow
<1>12. Quiet
  BY <1>3, <1>4, <1>5 DEF Quiet, Firing
<1> QED BY <1>7, <1>9, <1>10, <1>11, <1>12, QuietSent DEF ServiceInv

\* A thread between two requests has no watches left to fire.
Rested == \A t \in Threads : ~Busy(t) => thread[t].todo = {}

\* What dispatch() does: thread t takes message m of sender s.
Taking(t, s, m) ==
  /\ m[1] \in Ids /\ m[2] \in {"request", "cancel"} /\ m = <<m[1], m[2]>>
  /\ m[1][1] = s /\ Arrived(m[1]) /\ s \notin pending /\ pending' = pending \cup {s}
  /\ scheduled \in Seq(Senders) /\ 1 \in DOMAIN scheduled /\ scheduled[1] = s /\ scheduled' \in Seq(Senders)
  /\ \A i \in DOMAIN scheduled' : i + 1 \in DOMAIN scheduled /\ scheduled'[i] = scheduled[i + 1] /\ i \in Nat /\ i # 0
  /\ \A i \in DOMAIN scheduled : i = 1 \/ (i - 1 \in DOMAIN scheduled' /\ scheduled'[i - 1] = scheduled[i])
  /\ queue[s] \in Seq(Ids \X {"request", "cancel"}) /\ 1 \in DOMAIN queue[s] /\ queue[s][1] = m
  /\ queue'[s] \in Seq(Ids \X {"request", "cancel"})
  /\ \A n \in DOMAIN queue'[s] : n + 1 \in DOMAIN queue[s] /\ queue'[s][n] = queue[s][n + 1] /\ n \in Nat /\ n # 0
  /\ \A n \in DOMAIN queue[s] : n = 1 \/ (n - 1 \in DOMAIN queue'[s] /\ queue'[s][n - 1] = queue[s][n])
  /\ \A r \in Senders \ {s} : queue'[r] = queue[r]
  /\ queue' \in [Senders -> Seq(Ids \X {"request", "cancel"})] /\ thread' \in [Threads -> ThreadRec]
  /\ thread[t].pc = "check" /\ thread'[t].pc = m[2] /\ thread'[t].id = m[1] /\ thread'[t].what = m[2]
  /\ thread'[t].todo = thread[t].todo
  /\ \A u \in Threads \ {t} : thread'[u] = thread[u]

\* Dispatching with senders scheduled takes a message of the first.
LEMMA TakeEffect ==
  ASSUME ServiceInv, NEW t \in Threads, Dispatch(t), scheduled # <<>>
  PROVE  \E s \in Senders, m \in Ids \X {"request", "cancel"} : Taking(t, s, m)
<1>1. PICK s \in Senders, m \in Ids \X {"request", "cancel"} : s = Head(scheduled) /\ m = Head(queue[s]) /\ queue[s] # <<>>
  <2>1. scheduled \in Seq(Senders) /\ queue \in [Senders -> Seq(Ids \X {"request", "cancel"})]
    BY DEF ServiceInv, ServiceTypes
  <2>2. Head(scheduled) = scheduled[1] /\ 1 \in DOMAIN scheduled /\ scheduled[1] \in Senders
    BY <2>1
  <2>3. queue[scheduled[1]] # <<>>
    BY <2>2 DEF ServiceInv, QueuesInv
  <2>4. Head(queue[scheduled[1]]) \in Ids \X {"request", "cancel"}
    BY <2>1, <2>2, <2>3
  <2> QED BY <2>2, <2>3, <2>4
<1>2. m[1] \in Ids /\ m[2] \in {"request", "cancel"} /\ m = <<m[1], m[2]>>
  OBVIOUS
<1>3. /\ scheduled' = Tail(scheduled) /\ pending' = pending \cup {s}
      /\ queue' = [queue EXCEPT ![s] = Tail(@)] /\ thread[t].pc = "check"
      /\ thread' = [thread EXCEPT ![t] = [@ EXCEPT !.pc = m[2], !.id = m[1], !.what = m[2]]]
  BY <1>1 DEF Dispatch
<1>4. /\ scheduled \in Seq(Senders) /\ 1 \in DOMAIN scheduled /\ scheduled[1] = s
      /\ scheduled' \in Seq(Senders)
      /\ \A i \in DOMAIN scheduled' : i + 1 \in DOMAIN scheduled /\ scheduled'[i] = scheduled[i + 1] /\ i \in Nat /\ i # 0
      /\ \A i \in DOMAIN scheduled : i = 1 \/ (i - 1 \in DOMAIN scheduled' /\ scheduled'[i - 1] = scheduled[i])
  <2>1. scheduled \in Seq(Senders)
    BY DEF ServiceInv, ServiceTypes
  <2>2. \A i \in DOMAIN scheduled : i = 1 \/ (i - 1 \in DOMAIN scheduled' /\ scheduled'[i - 1] = scheduled[i])
    BY <1>1, <1>3, <2>1
  <2> QED BY <1>1, <1>3, <2>1, <2>2
<1> DEFINE q == queue[s]
           M == Ids \X {"request", "cancel"}
<1>5. queue'[s] = Tail(q) /\ (\A r \in Senders \ {s} : queue'[r] = queue[r]) /\ q \in Seq(M) /\ q # <<>> /\ m = Head(q)
  BY <1>1, <1>3 DEF ServiceInv, ServiceTypes
<1>6. /\ Tail(q) \in Seq(M) /\ 1 \in DOMAIN q /\ q[1] = m
      /\ \A n \in DOMAIN Tail(q) : n + 1 \in DOMAIN q /\ Tail(q)[n] = q[n + 1] /\ n \in Nat /\ n # 0
      /\ \A n \in DOMAIN q : n = 1 \/ (n - 1 \in DOMAIN Tail(q) /\ Tail(q)[n - 1] = q[n])
  <2> HIDE DEF q, M
  <2>1. Tail(q) \in Seq(M) /\ 1 \in DOMAIN q /\ q[1] = m
    BY <1>5
  <2>2. \A n \in DOMAIN Tail(q) : n + 1 \in DOMAIN q /\ Tail(q)[n] = q[n + 1] /\ n \in Nat /\ n # 0
    BY <1>5
  <2>3. \A n \in DOMAIN q : n = 1 \/ (n - 1 \in DOMAIN Tail(q) /\ Tail(q)[n - 1] = q[n])
    BY <1>5
  <2> QED BY <2>1, <2>2, <2>3
<1>7. /\ thread' \in [Threads -> ThreadRec] /\ queue' \in [Senders -> Seq(M)]
      /\ thread'[t].pc = m[2] /\ thread'[t].id = m[1] /\ thread'[t].what = m[2] /\ thread'[t].todo = thread[t].todo
      /\ \A u \in Threads \ {t} : thread'[u] = thread[u]
  <2>1. thread[t] \in ThreadRec /\ thread \in [Threads -> ThreadRec] /\ m[2] \in Points
    BY <1>2 DEF ServiceInv, ServiceTypes, Points
  <2> DEFINE th == [thread[t] EXCEPT !.pc = m[2], !.id = m[1], !.what = m[2]]
  <2>2. th \in ThreadRec /\ th.pc = m[2] /\ th.id = m[1] /\ th.what = m[2] /\ th.todo = thread[t].todo
    BY <1>2, <2>1 DEF ThreadRec
  <2>3. thread' = [thread EXCEPT ![t] = th]
    BY <1>3
  <2>4. queue' \in [Senders -> Seq(M)]
    <3>1. queue \in [Senders -> Seq(M)]
      BY DEF ServiceInv, ServiceTypes
    <3> HIDE DEF M
    <3> QED BY <1>3, <1>5, <1>6, <3>1
  <2> HIDE DEF th
  <2> QED BY <2>1, <2>2, <2>3, <2>4
<1>8. s \notin pending /\ m[1][1] = s /\ Arrived(m[1])
  BY <1>4, <1>5, <1>6 DEF ServiceInv, QueuesInv, Arrived
<1>9. /\ queue[s] \in Seq(M) /\ 1 \in DOMAIN queue[s] /\ queue[s][1] = m /\ queue'[s] \in Seq(M)
      /\ \A n \in DOMAIN queue'[s] : n + 1 \in DOMAIN queue[s] /\ queue'[s][n] = queue[s][n + 1] /\ n \in Nat /\ n # 0
      /\ \A n \in DOMAIN queue[s] : n = 1 \/ (n - 1 \in DOMAIN queue'[s] /\ queue'[s][n - 1] = queue[s][n])
  <2> HIDE DEF M
  <2> QED BY <1>5, <1>6
<1>10. Taking(t, s, m)
  BY <1>2, <1>3, <1>4, <1>5, <1>7, <1>8, <1>9 DEF Taking
<1> QED BY <1>10

\* The request that is taken does not wait any more, and the others do.
LEMMA TakeWaiting ==
  ASSUME ServiceInv, NEW t \in Threads, NEW s \in Senders, NEW m \in Ids \X {"request", "cancel"}, Taking(t, s, m),
         NEW i \in Ids
  PROVE  Waiting(i)' <=> Waiting(i) /\ m # <<i, "request">>
<1>1. i[1] \in Senders /\ QueueOrdered(s)
  BY IdShape DEF ServiceInv, OrderInv
<1>2. CASE i[1] # s
  <2>1. queue'[i[1]] = queue[i[1]] /\ m[1] # i
    BY <1>1, <1>2 DEF Taking
  <2>2. m # <<i, "request">>
    BY <2>1
  <2> QED BY <2>1, <2>2 DEF Waiting
<1>3. CASE i[1] = s
  <2> DEFINE x == <<i, "request">>
  <2>1. (Waiting(i)' <=> \E n \in DOMAIN queue'[s] : queue'[s][n] = x) /\ (Waiting(i) <=> \E n \in DOMAIN queue[s] : queue[s][n] = x)
    BY <1>3 DEF Waiting
  <2>2. CASE m = x
    <3>1. ASSUME NEW n \in DOMAIN queue'[s], queue'[s][n] = x PROVE FALSE
      <4>1. n + 1 \in DOMAIN queue[s] /\ queue[s][n + 1] = x /\ 1 < n + 1 /\ 1 \in DOMAIN queue[s] /\ queue[s][1] = x
        BY <2>2, <3>1 DEF Taking
      <4>2. x[1] = i /\ x[2] = "request"
        OBVIOUS
      <4> HIDE DEF x
      <4>3. i[2] < i[2] /\ i[2] \in Nat
        BY <1>1, <4>1, <4>2, IdShape DEF QueueOrdered
      <4> QED BY <4>3
    <3> QED BY <2>1, <2>2, <3>1
  <2>3. CASE m # x
    <3> HIDE DEF x
    <3>1. ASSUME NEW n \in DOMAIN queue[s], queue[s][n] = x PROVE \E k \in DOMAIN queue'[s] : queue'[s][k] = x
      BY <2>3, <3>1 DEF Taking
    <3>2. ASSUME NEW n \in DOMAIN queue'[s], queue'[s][n] = x PROVE \E k \in DOMAIN queue[s] : queue[s][k] = x
      BY <3>2 DEF Taking
    <3>3. Waiting(i)' <=> Waiting(i)
      BY <2>1, <3>1, <3>2 DEF x
    <3> QED BY <2>3, <3>3 DEF x
  <2> QED BY <2>2, <2>3
<1> QED BY <1>2, <1>3

\* dispatch() takes the first message of the first queue.
LEMMA TakeKeeps ==
  ASSUME ServiceInv, Rested, NEW t \in Threads, Dispatch(t), scheduled # <<>> PROVE ServiceInv'
<1>1. PICK s \in Senders, m \in Ids \X {"request", "cancel"} : Taking(t, s, m)
  BY TakeEffect
<1> DEFINE id == m[1]
           q == queue[s]
           rest == queue'[s]
<1>2. id \in Ids /\ m[2] \in {"request", "cancel"} /\ m = <<id, m[2]>>
  BY <1>1 DEF Taking
<1>3. UNCHANGED <<msg, sent>> /\ pending' = pending \cup {s} /\ thread[t].pc = "check"
  BY <1>1 DEF Dispatch, Taking
<1>4. /\ scheduled \in Seq(Senders) /\ 1 \in DOMAIN scheduled /\ scheduled[1] = s
      /\ scheduled' \in Seq(Senders)
      /\ \A i \in DOMAIN scheduled' : i + 1 \in DOMAIN scheduled /\ scheduled'[i] = scheduled[i + 1] /\ i \in Nat /\ i # 0
  BY <1>1 DEF Taking
<1>5. /\ q \in Seq(Ids \X {"request", "cancel"}) /\ 1 \in DOMAIN q /\ q[1] = m
      /\ queue'[s] = rest /\ rest \in Seq(Ids \X {"request", "cancel"})
      /\ \A n \in DOMAIN rest : n + 1 \in DOMAIN q /\ rest[n] = q[n + 1] /\ n \in Nat /\ n # 0
      /\ \A n \in DOMAIN q : n = 1 \/ (n - 1 \in DOMAIN rest /\ rest[n - 1] = q[n])
      /\ \A r \in Senders \ {s} : queue'[r] = queue[r]
  BY <1>1 DEF Taking
<1>6. /\ thread' \in [Threads -> ThreadRec]
      /\ thread'[t].pc = m[2] /\ thread'[t].id = id /\ thread'[t].what = m[2] /\ thread'[t].todo = {}
      /\ \A u \in Threads \ {t} : thread'[u] = thread[u]
  BY <1>1 DEF Taking, Rested, Busy, AtRest
<1>7. queue' \in [Senders -> Seq(Ids \X {"request", "cancel"})]
  BY <1>1 DEF Taking
<1>8. ServiceTypes'
  BY <1>3, <1>4, <1>6, <1>7 DEF ServiceInv, ServiceTypes
<1>9. ~Busy(t) /\ Busy(t)' /\ \A u \in Threads \ {t} : Busy(u)' <=> Busy(u)
  BY <1>2, <1>3, <1>6 DEF Busy, AtRest
<1>10. s \notin pending /\ id[1] = s /\ Arrived(id)
  BY <1>4, <1>5 DEF ServiceInv, QueuesInv, Arrived
<1> HIDE DEF id, q, rest
<1>11. QueuesInv'
  <2>1. \A i, j \in DOMAIN scheduled : scheduled[i] = scheduled[j] => i = j
    BY DEF ServiceInv, QueuesInv
  <2>2. \A i \in DOMAIN scheduled : scheduled[i] \notin pending /\ queue[scheduled[i]] # <<>>
    BY DEF ServiceInv, QueuesInv
  <2>3. (\A i, j \in DOMAIN scheduled : scheduled[i] = scheduled[j] => i = j)'
    <3>1. ASSUME NEW i \in DOMAIN scheduled', NEW j \in DOMAIN scheduled', scheduled'[i] = scheduled'[j] PROVE i = j
      <4>1. i + 1 = j + 1 /\ i \in Nat /\ j \in Nat
        BY <1>4, <2>1, <3>1
      <4> QED BY <4>1
    <3> QED BY <3>1
  <2>4. (\A i \in DOMAIN scheduled : scheduled[i] \notin pending /\ queue[scheduled[i]] # <<>>)'
    <3>1. ASSUME NEW i \in DOMAIN scheduled' PROVE scheduled'[i] \notin pending' /\ queue'[scheduled'[i]] # <<>>
      <4>1. i + 1 \in DOMAIN scheduled /\ scheduled'[i] = scheduled[i + 1] /\ i + 1 # 1 /\ scheduled'[i] \in Senders
        BY <1>4
      <4>2. scheduled'[i] # s
        BY <1>4, <2>1, <4>1
      <4> QED BY <1>3, <1>5, <2>2, <4>1, <4>2, ZenonT(40)
    <3> QED BY <3>1
  <2>5. (\A r \in Senders : \A n \in DOMAIN queue[r] :
            queue[r][n][1][1] = r /\ msg[queue[r][n][1]].kind # Nil)'
    <3>1. ASSUME NEW r \in Senders, NEW n \in DOMAIN queue'[r]
          PROVE  \E k \in DOMAIN queue[r] : queue'[r][n] = queue[r][k]
      <4>1. CASE r # s
        BY <1>5, <4>1
      <4>2. CASE r = s
        <5>1. queue'[r] = rest /\ n \in DOMAIN rest
          BY <1>5, <4>2
        <5>2. n + 1 \in DOMAIN q /\ rest[n] = q[n + 1]
          BY <1>5, <5>1
        <5> QED BY <4>2, <5>1, <5>2 DEF q
      <4> QED BY <4>1, <4>2
    <3> QED BY <1>3, <3>1 DEF ServiceInv, QueuesInv
  <2>6. (\A u \in Threads : Busy(u) =>
            thread[u].id \in Ids /\ thread[u].id[1] \in pending /\ msg[thread[u].id].kind # Nil)'
    <3>1. ASSUME NEW u \in Threads \ {t}, Busy(u)'
          PROVE  thread'[u].id \in Ids /\ thread'[u].id[1] \in pending' /\ msg'[thread'[u].id].kind # Nil
      BY <1>3, <1>6, <1>9, <3>1 DEF ServiceInv, QueuesInv
    <3>2. thread'[t].id \in Ids /\ thread'[t].id[1] \in pending' /\ msg'[thread'[t].id].kind # Nil
      BY <1>2, <1>3, <1>6, <1>10 DEF Arrived, id
    <3> QED BY <3>1, <3>2
  <2>7. (\A v, u \in Threads : Busy(v) /\ Busy(u) /\ v # u => thread[v].id[1] # thread[u].id[1])'
    <3>1. \A u \in Threads \ {t} : Busy(u)' => thread'[u].id[1] # s
      BY <1>6, <1>9, <1>10 DEF ServiceInv, QueuesInv
    <3> QED BY <1>6, <1>9, <1>10, <3>1 DEF ServiceInv, QueuesInv
  <2> QED BY <2>3, <2>4, <2>5, <2>6, <2>7 DEF QueuesInv
<1>12. QueueOrdered(s)
  BY DEF ServiceInv, OrderInv
<1>13. m[2] = "request" => Waiting(id) /\ sent[id] = <<>> /\ msg[id].watch = "none"
  <2> SUFFICES ASSUME m[2] = "request" PROVE Waiting(id) /\ sent[id] = <<>> /\ msg[id].watch = "none"
    OBVIOUS
  <2>1. Waiting(id)
    BY <1>2, <1>5, <1>10 DEF Waiting, q, id
  <2> QED BY <1>2, <2>1 DEF ServiceInv, OrderInv, OrderOf, id
<1>14. ASSUME NEW i \in Ids PROVE Waiting(i)' <=> Waiting(i) /\ ~(i = id /\ m[2] = "request")
  <2>1. m # <<i, "request">> <=> ~(i = id /\ m[2] = "request")
    BY <1>2 DEF id
  <2> QED BY <1>1, <2>1, TakeWaiting
<1>15. \A i \in Ids : /\ Serves(t, i)' <=> i = id /\ m[2] = "request"
                      /\ ~Serves(t, i)
                      /\ \A u \in Threads \ {t} : Serves(u, i)' <=> Serves(u, i)
  BY <1>6, <1>9 DEF Serves
<1>16. ASSUME NEW i \in Ids PROVE OrderOf(i)'
  <2>1. OrderOf(i) /\ Earlier(i)' = Earlier(i) /\ Earlier(i) \subseteq Ids
    BY DEF ServiceInv, OrderInv, Earlier
  <2>2. \A e \in Ids : Arrived(e)' <=> Arrived(e)
    BY <1>3 DEF Arrived
  <2>3. CASE i = id /\ m[2] = "request"
    <3>1. ASSUME NEW e \in Earlier(i) PROVE sent[e] # <<>>
      <4>1. e \in Ids /\ e[1] = s /\ e[2] < id[2] /\ e[2] \in Nat /\ id[2] \in Nat
        BY <1>2, <1>10, <2>3, IdShape DEF Earlier, id
      <4>2. Arrived(e)
        BY <1>10, <2>1, <2>3 DEF OrderOf
      <4>3. ~Waiting(e)
        <5> SUFFICES ASSUME NEW n \in DOMAIN q, q[n] = <<e, "request">> PROVE FALSE
          BY <4>1 DEF Waiting, q
        <5>0. \A r : <<r, "request">>[1] = r /\ <<r, "request">>[2] = "request"
          OBVIOUS
        <5>1. q[n][1] = e /\ q[n][2] = "request" /\ q[1][1] = id /\ q[1][2] = "request"
          BY <1>5, <2>3, <5>0 DEF id
        <5>2. n = 1 \/ (1 < n /\ n \in DOMAIN q /\ 1 \in DOMAIN q)
          BY <1>5
        <5>3. n # 1 => id[2] < e[2]
          BY <1>12, <5>1, <5>2 DEF QueueOrdered, q
        <5>4. n # 1
          BY <4>1, <5>1
        <5> QED BY <4>1, <5>3, <5>4
      <4>4. \A u \in Threads : ~Serves(u, e)
        BY <1>10, <4>1 DEF Serves, ServiceInv, QueuesInv
      <4>5. OrderOf(e)
        BY <4>1 DEF ServiceInv, OrderInv
      <4> QED BY <4>2, <4>3, <4>4, <4>5 DEF OrderOf
    <3> QED BY <1>3, <1>10, <1>14, <1>15, <2>1, <2>2, <2>3, <3>1 DEF OrderOf
  <2>4. CASE ~(i = id /\ m[2] = "request")
    <3>1. (Waiting(i)' <=> Waiting(i)) /\ \A u \in Threads : Serves(u, i)' <=> Serves(u, i)
      BY <1>14, <1>15, <2>4
    <3> QED BY <1>3, <2>1, <2>2, <3>1 DEF OrderOf
  <2> QED BY <2>3, <2>4
<1>17. ASSUME NEW r \in Senders PROVE QueueOrdered(r)'
  <2>1. CASE r # s
    <3>1. queue'[r] = queue[r]
      BY <1>5, <2>1
    <3> QED BY <3>1 DEF ServiceInv, OrderInv, QueueOrdered
  <2>2. CASE r = s
    <3>1. ASSUME NEW i \in DOMAIN rest, NEW j \in DOMAIN rest, i < j,
                 rest[i][2] = "request", rest[j][2] = "request"
          PROVE  rest[i][1][2] < rest[j][1][2]
      <4>1. i + 1 \in DOMAIN q /\ j + 1 \in DOMAIN q /\ rest[i] = q[i + 1] /\ rest[j] = q[j + 1] /\ i + 1 < j + 1
        BY <1>5, <3>1
      <4> QED BY <1>12, <3>1, <4>1 DEF QueueOrdered, q
    <3>2. queue'[r] = rest
      BY <1>5, <2>2
    <3> QED BY <3>1, <3>2 DEF QueueOrdered
  <2> QED BY <2>1, <2>2
<1>18. OrderInv'
  BY <1>16, <1>17 DEF OrderInv
<1>19. Flow'
  <2>1. ASSUME NEW u \in Threads \ {t} PROVE FlowOf(u)'
    <3>1. thread[u].id \in Ids => Mild(thread[u].id)
      BY <1>3 DEF Mild
    <3>2. FlowOf(u)
      BY DEF ServiceInv, Flow
    <3> QED BY <1>6, <3>1, <3>2, OtherFlow DEF ServiceInv
  <2>2. FlowOf(t)'
    <3>1. msg[id].kind \in {"put", "get", "watch"}
      <4>1. msg[id] \in MessageRec
        BY <1>2 DEF ServiceInv, ServiceTypes, id
      <4> QED BY <1>10, <4>1 DEF MessageRec, Arrived
    <3>2. CASE m[2] = "cancel"
      BY <1>3, <1>6, <3>2 DEF FlowOf, CancelFlow
    <3>3. CASE m[2] = "request"
      BY <1>3, <1>6, <1>13, <3>1, <3>3 DEF FlowOf, PutFlow, GetFlow, WatchFlow, Firing
    <3> QED BY <1>2, <3>2, <3>3
  <2> QED BY <2>1, <2>2 DEF Flow
<1>20. Quiet
  BY <1>2, <1>3, <1>6 DEF Quiet, Firing
<1> QED BY <1>8, <1>11, <1>18, <1>19, <1>20, QuietSent DEF ServiceInv

\* Dispatch keeps the invariant.
LEMMA DispatchKeeps == ASSUME ServiceInv, Rested, NEW t \in Threads, Dispatch(t) PROVE ServiceInv'
<1>1. CASE scheduled = <<>>
  <2>1. PICK p \in {"wait", "exit"} : thread' = [thread EXCEPT ![t].pc = p]
    BY <1>1 DEF Dispatch
  <2>2. UNCHANGED <<scheduled, pending, queue, msg, sent>> /\ thread[t].pc = "check"
    BY <1>1 DEF Dispatch
  <2>3. p \in Points /\ thread[t] \in ThreadRec /\ thread \in [Threads -> ThreadRec]
    BY DEF Points, AtRest, ServiceInv, ServiceTypes
  <2> DEFINE th == [thread[t] EXCEPT !.pc = p]
  <2>4. th \in ThreadRec /\ th.pc = p
    BY <2>3 DEF ThreadRec
  <2>5. thread' = [thread EXCEPT ![t] = th]
    BY <2>1
  <2> HIDE DEF th
  <2>6. thread' \in [Threads -> ThreadRec] /\ thread'[t].pc = p /\ \A u \in Threads \ {t} : thread'[u] = thread[u]
    BY <2>3, <2>4, <2>5
  <2>7. Undisturbed
    BY <2>2, <2>6 DEF Undisturbed, Busy, AtRest
  <2> QED BY <2>2, <2>6, <2>7, UndisturbedKeeps
<1> QED BY <1>1, TakeKeeps

\* A thread that finishes is at rest.
LEMMA FinishRests == ASSUME ServiceInv, Rested, NEW t \in Threads, Finish(t) PROVE Rested'
BY DEF Finish, Rested, ServiceInv, ServiceTypes, Busy, AtRest, Idle

\* A thread that takes nothing is at rest.
LEMMA DispatchRests == ASSUME ServiceInv, Rested, NEW t \in Threads, Dispatch(t) PROVE Rested'
<1>1. \A u \in Threads \ {t} : thread'[u] = thread[u]
  BY DEF Dispatch, ServiceInv, ServiceTypes
<1>2. thread'[t].todo = thread[t].todo /\ ~Busy(t)
  <2>1. thread[t].pc = "check" /\ thread \in [Threads -> ThreadRec] /\ thread[t] \in ThreadRec
    BY DEF Dispatch, ServiceInv, ServiceTypes
  <2>2. \/ \E p : thread' = [thread EXCEPT ![t].pc = p]
        \/ \E p, id : thread' = [thread EXCEPT ![t] = [@ EXCEPT !.pc = p, !.id = id, !.what = p]]
    BY DEF Dispatch
  <2>3. ASSUME NEW p, thread' = [thread EXCEPT ![t].pc = p] PROVE thread'[t].todo = thread[t].todo
    BY <2>1, <2>3 DEF ThreadRec
  <2>4. ASSUME NEW p, NEW id, thread' = [thread EXCEPT ![t] = [@ EXCEPT !.pc = p, !.id = id, !.what = p]]
        PROVE  thread'[t].todo = thread[t].todo
    BY <2>1, <2>4 DEF ThreadRec
  <2> QED BY <2>1, <2>2, <2>3, <2>4 DEF Busy, AtRest
<1> QED BY <1>1, <1>2 DEF Rested, Busy

\* A step inside a handler leaves its thread busy, and the others as they are.
LEMMA InnerRests ==
  ASSUME Rested, NEW t \in Threads, thread \in [Threads -> ThreadRec],
         NEW th \in ThreadRec, thread' = [thread EXCEPT ![t] = th], th.pc \notin AtRest
  PROVE  Rested'
<1>1. thread'[t] = th /\ \A u \in Threads \ {t} : thread'[u] = thread[u]
  OBVIOUS
<1> QED BY <1>1 DEF Rested, Busy

\* Where a handler goes on after a watch that fired.
LEMMA Returns ==
  ASSUME ServiceInv, NEW t \in Threads, thread[t].pc \in {"close", "firing"}
  PROVE  thread[t].back \notin AtRest
<1>1. thread[t].back \in {"answer", "done", "refuse"}
  BY Serving DEF PutFlow, GetFlow, WatchFlow
<1> QED BY <1>1 DEF AtRest

\* The steps of a thread inside a handler leave it busy: none of them has a point at
\* rest to go back to.
LEMMA StepRests ==
  ASSUME ServiceInv, Rested, NEW t \in Threads, Serve(t) \/ Notify(t) \/ Cancel(t) PROVE Rested'
<1> DEFINE Elsewhere == \A u \in Threads \ {t} : thread'[u] = thread[u]
           Still == Elsewhere /\ thread'[t].pc \notin AtRest
<1>1. thread \in [Threads -> ThreadRec] /\ thread[t] \in ThreadRec
  BY DEF ServiceInv, ServiceTypes
<1>2. Serve(t) => Still
  <2>1. CASE Refuse(t)
    BY <1>1, <2>1 DEF Refuse, AtRest, ThreadRec
  <2>2. CASE Retry(t)
    BY <1>1, <2>2 DEF Retry, AtRest, ThreadRec
  <2>3. CASE Commit(t)
    BY <1>1, <2>3 DEF Commit, AtRest, ThreadRec
  <2>4. CASE Connect(t)
    BY <1>1, <2>4 DEF Connect, AtRest, ThreadRec
  <2>5. ASSUME NEW r \in {"found", "read", "error"}, Visit(t, r) PROVE Still
    BY <1>1, <2>5 DEF Visit, AtRest, ThreadRec
  <2>6. CASE Execute(t)
    BY <1>1, <2>6 DEF Execute, AtRest, ThreadRec
  <2>7. CASE Answer(t)
    BY <1>1, <2>7 DEF Answer, AtRest, ThreadRec
  <2>8. CASE Close(t)
    <3>1. thread[t].back \notin AtRest
      BY <2>8, Returns DEF Close
    <3> QED BY <1>1, <2>8, <3>1 DEF Close, AtRest, ThreadRec
  <2> QED BY <2>1, <2>2, <2>3, <2>4, <2>5, <2>6, <2>7, <2>8 DEF Serve
<1>3. Notify(t) => Still
  <2>1. CASE Fire(t)
    <3>1. thread[t].back \notin AtRest
      BY <2>1, Returns DEF Fire
    <3>2. CASE thread' = [thread EXCEPT ![t].pc = thread[t].back]
      BY <1>1, <3>1, <3>2 DEF ThreadRec
    <3>3. ASSUME NEW id, thread' = [thread EXCEPT ![t] = [@ EXCEPT !.pc = "unslot", !.at = id]] PROVE Still
      BY <1>1, <3>3 DEF AtRest, ThreadRec
    <3>4. ASSUME NEW id, thread' = [thread EXCEPT ![t].todo = @ \ {id}] PROVE Still
      BY <1>1, <2>1, <3>4 DEF Fire, AtRest, ThreadRec
    <3> QED BY <2>1, <3>2, <3>3, <3>4 DEF Fire
  <2>2. CASE CancelSlot(t)
    BY <1>1, <2>2 DEF CancelSlot, AtRest, ThreadRec
  <2>3. CASE TakeMessage(t)
    BY <1>1, <2>3 DEF TakeMessage, AtRest, ThreadRec
  <2>4. CASE SendFired(t)
    BY <1>1, <2>4 DEF SendFired, AtRest, ThreadRec
  <2> QED BY <2>1, <2>2, <2>3, <2>4 DEF Notify
<1>4. Cancel(t) => Still
  <2>1. CASE LookUp(t)
    BY <1>1, <2>1 DEF LookUp, AtRest, ThreadRec
  <2>2. CASE FireCancel(t)
    BY <1>1, <2>2 DEF FireCancel, AtRest, ThreadRec
  <2>3. CASE WatcherCancel(t)
    BY <1>1, <2>3 DEF WatcherCancel, AtRest, ThreadRec
  <2>4. CASE Release(t)
    BY <1>1, <2>4 DEF Release, AtRest, ThreadRec
  <2>5. CASE Destroy(t)
    BY <1>1, <2>5 DEF Destroy, AtRest, ThreadRec
  <2> QED BY <2>1, <2>2, <2>3, <2>4, <2>5 DEF Cancel
<1> QED BY <1>2, <1>3, <1>4 DEF Rested, Busy

-----------------------------------------------------------------------------
(* The invariant holds *)

\* The invariant holds at the start.
LEMMA InitKeeps == Init => ServiceInv /\ Rested
<1> SUFFICES ASSUME Init PROVE ServiceInv /\ Rested
  OBVIOUS
<1>1. Idle \in ThreadRec /\ Idle.pc = "check" /\ Idle.todo = {}
  BY DEF Idle, ThreadRec, Points, AtRest
<1>2. NoMessage \in MessageRec /\ NoMessage.kind = Nil /\ NoMessage.watch = "none" /\ NoMessage.replies = 0 /\ ~NoMessage.slot
  BY DEF NoMessage, MessageRec
<1>3. \A t \in Threads : ~Busy(t) /\ thread[t].pc \notin Firing /\ thread[t].todo = {}
  BY <1>1 DEF Init, Busy, AtRest, Firing
<1>4. \A id \in Ids : msg[id] = NoMessage /\ sent[id] = <<>>
  BY DEF Init
<1>5. scheduled = <<>> /\ pending = {} /\ \A s \in Senders : queue[s] = <<>>
  BY DEF Init
<1>6. ServiceTypes
  BY <1>1, <1>2 DEF Init, ServiceTypes
<1>7. QueuesInv
  BY <1>3, <1>5 DEF QueuesInv
<1>8. OrderInv
  BY <1>2, <1>3, <1>4, <1>5 DEF OrderInv, OrderOf, QueueOrdered, Arrived, Serves
<1>9. Flow
  BY <1>3 DEF Flow, FlowOf
<1>10. SentInv
  BY <1>2, <1>3, <1>4 DEF SentInv, TokenOf, SentOf, Fired
<1> QED BY <1>3, <1>6, <1>7, <1>8, <1>9, <1>10 DEF ServiceInv, Rested

\* Every step of a thread keeps the invariant.
LEMMA ThreadKeeps == ASSUME ServiceInv, Rested, NEW t \in Threads, ThreadStep(t) PROVE ServiceInv' /\ Rested'
<1>1. CASE Dispatch(t)
  BY <1>1, DispatchKeeps, DispatchRests
<1>2. CASE Serve(t)
  BY <1>2, StepRests, RefuseKeeps, RetryKeeps, CommitKeeps, ConnectKeeps, VisitKeeps, ExecuteKeeps, AnswerKeeps,
     CloseKeeps DEF Serve
<1>3. CASE Notify(t)
  BY <1>3, StepRests, FireKeeps, CancelSlotKeeps, TakeMessageKeeps, SendFiredKeeps DEF Notify
<1>4. CASE Cancel(t)
  BY <1>4, StepRests, LookUpKeeps, FireCancelKeeps, WatcherCancelKeeps, ReleaseKeeps, DestroyKeeps DEF Cancel
<1>5. CASE Finish(t)
  BY <1>5, FinishKeeps, FinishRests
<1> QED BY <1>1, <1>2, <1>3, <1>4, <1>5 DEF ThreadStep

\* The bus thread and the stop change no thread that has work.
LEMMA OutsideRests ==
  ASSUME Rested, ServiceTypes, ServiceTypes',
         \/ thread' = thread
         \/ \E t \in Threads : thread[t].pc = "wait" /\ thread' = [thread EXCEPT ![t].pc = "check"]
         \/ thread' = [t \in Threads |-> [thread[t] EXCEPT !.pc = IF @ = "wait" THEN "check" ELSE @]]
  PROVE  Rested'
<1> SUFFICES ASSUME NEW t \in Threads PROVE (Busy(t)' <=> Busy(t)) /\ thread'[t].todo = thread[t].todo
  BY DEF Rested
<1>1. thread[t] \in ThreadRec /\ thread \in [Threads -> ThreadRec]
  BY DEF ServiceTypes
<1>2. CASE thread' = thread
  BY <1>2 DEF Busy
<1>3. ASSUME NEW u \in Threads, thread[u].pc = "wait", thread' = [thread EXCEPT ![u].pc = "check"]
      PROVE  (Busy(t)' <=> Busy(t)) /\ thread'[t].todo = thread[t].todo
  <2>1. CASE t = u
    <3>1. thread'[t] = [thread[t] EXCEPT !.pc = "check"]
      BY <1>1, <1>3, <2>1
    <3> QED BY <1>1, <1>3, <2>1, <3>1 DEF ThreadRec, Busy, AtRest
  <2>2. CASE t # u
    BY <1>1, <1>3, <2>2 DEF Busy
  <2> QED BY <2>1, <2>2
<1>4. CASE thread' = [u \in Threads |-> [thread[u] EXCEPT !.pc = IF @ = "wait" THEN "check" ELSE @]]
  <2>1. CASE thread[t].pc = "wait"
    <3>1. thread'[t] = [thread[t] EXCEPT !.pc = "check"]
      BY <1>4, <2>1
    <3> QED BY <1>1, <2>1, <3>1 DEF ThreadRec, Busy, AtRest
  <2>2. CASE thread[t].pc # "wait"
    BY <1>1, <1>4, <2>2 DEF ThreadRec, Busy
  <2> QED BY <2>1, <2>2
<1> QED BY <1>2, <1>3, <1>4

\* Every step keeps the invariant.
LEMMA NextKeeps == ServiceInv /\ Rested /\ [Next]_vars => ServiceInv' /\ Rested'
<1> SUFFICES ASSUME ServiceInv, Rested, [Next]_vars PROVE ServiceInv' /\ Rested'
  OBVIOUS
<1>1. ASSUME NEW id \in Ids, NEW kind \in {"put", "get", "watch"}, HandleRequest(id, kind)
      PROVE  ServiceInv' /\ Rested'
  <2>1. ServiceInv'
    BY <1>1, HandleRequestKeeps
  <2>2. thread' = thread \/ \E t \in Threads : thread[t].pc = "wait" /\ thread' = [thread EXCEPT ![t].pc = "check"]
    BY <1>1 DEF HandleRequest, Schedule
  <2> QED BY <2>1, <2>2, OutsideRests DEF ServiceInv
<1>2. ASSUME NEW id \in Ids, HandleCancel(id) PROVE ServiceInv' /\ Rested'
  <2>1. ServiceInv'
    BY <1>2, HandleCancelKeeps
  <2>2. thread' = thread \/ \E t \in Threads : thread[t].pc = "wait" /\ thread' = [thread EXCEPT ![t].pc = "check"]
    BY <1>2 DEF HandleCancel, Schedule
  <2> QED BY <2>1, <2>2, OutsideRests DEF ServiceInv
<1>3. ASSUME NEW t \in Threads, ThreadStep(t) PROVE ServiceInv' /\ Rested'
  BY <1>3, ThreadKeeps
<1>4. CASE Stop
  <2>1. ServiceInv'
    BY <1>4, StopKeeps
  <2> QED BY <1>4, <2>1, OutsideRests DEF ServiceInv, Stop
<1>5. CASE CloseService
  <2>1. ServiceInv'
    BY <1>5, CloseServiceKeeps
  <2> QED BY <1>5, <2>1, OutsideRests DEF ServiceInv, CloseService
<1>6. CASE UNCHANGED vars
  <2>1. Undisturbed /\ thread' \in [Threads -> ThreadRec]
    BY <1>6 DEF vars, Undisturbed, Busy, ServiceInv, ServiceTypes
  <2>2. ServiceInv'
    BY <1>6, <2>1, UndisturbedKeeps DEF vars
  <2> QED BY <1>6, <2>2, OutsideRests DEF ServiceInv, vars
<1> QED BY <1>1, <1>2, <1>3, <1>4, <1>5, <1>6 DEF Next

\* Whatever the requests, the senders and the threads are: queues are listed
\* once and served by one thread, in order, and each handler has sent what its
\* point says.
THEOREM ServiceInvAlways == Spec => [](ServiceInv /\ Rested)
<1>1. Init => ServiceInv /\ Rested
  BY InitKeeps
<1>2. ServiceInv /\ Rested /\ [Next]_vars => (ServiceInv /\ Rested)'
  BY NextKeeps
<1> QED BY <1>1, <1>2, PTL DEF Spec

-----------------------------------------------------------------------------
(* Replies are exact *)

\* A subset of a singleton has none or one.
LEMMA AtMostOne ==
  ASSUME NEW S, NEW x, S \subseteq {x} PROVE IsFiniteSet(S) /\ Cardinality(S) \in {0, 1} /\ (S = {} => Cardinality(S) = 0)
<1>1. S = {} \/ S = {x}
  OBVIOUS
<1>2. IsFiniteSet({}) /\ Cardinality({}) = 0
  BY FS_EmptySet
<1>3. IsFiniteSet({x}) /\ Cardinality({x}) = 1
  BY FS_Singleton
<1> QED BY <1>1, <1>2, <1>3

\* The invariant says that a request gets at most one reply.
LEMMA OneReplyHolds == ServiceInv => OneReply
<1> SUFFICES ASSUME ServiceInv, NEW id \in Ids
             PROVE  /\ Count(id, "answer") + Count(id, "error") <= 1
                    /\ Count(id, "fired") <= 1
                    /\ Len(sent[id]) > 1 => sent[id][1] # "fired"
  BY DEF OneReply
<1> DEFINE q == sent[id]
           Those(what) == {n \in DOMAIN q : q[n] = what}
<1>1. /\ q \in Seq({"answer", "error", "fired"}) /\ Len(q) \in Nat /\ Len(q) <= 2
      /\ Len(q) = 2 => q[1] # "fired" /\ q[2] = "fired"
      /\ DOMAIN q = 1 .. Len(q)
  BY DEF ServiceInv, ServiceTypes, SentInv, SentOf
<1>2. DOMAIN q \subseteq {1, 2} /\ (2 \in DOMAIN q => Len(q) = 2)
  <2>1. \A k \in Nat : k <= 2 => 1 .. k \subseteq {1, 2} /\ (2 \in 1 .. k => k = 2)
    OBVIOUS
  <2> QED BY <1>1, <2>1
<1> HIDE DEF q
<1>3. Those("answer") \subseteq {1} /\ Those("error") \subseteq {1} /\ (Those("answer") = {} \/ Those("error") = {})
  BY <1>1, <1>2
<1>4. PICK last \in {1, 2} : Those("fired") \subseteq {last}
  <2>1. Len(q) = 2 => Those("fired") \subseteq {2}
    BY <1>1, <1>2
  <2>2. Len(q) # 2 => Those("fired") \subseteq {1}
    BY <1>1, <1>2
  <2> QED BY <2>1, <2>2
<1> HIDE DEF Those
<1>5. \A what : Count(id, what) = Cardinality(Those(what))
  BY DEF Count, Those, q
<1>6. /\ Cardinality(Those("answer")) \in {0, 1} /\ (Those("answer") = {} => Cardinality(Those("answer")) = 0)
      /\ Cardinality(Those("error")) \in {0, 1} /\ (Those("error") = {} => Cardinality(Those("error")) = 0)
  BY <1>3, AtMostOne
<1>7. Cardinality(Those("fired")) \in {0, 1}
  BY <1>4, AtMostOne
<1>8. Len(q) > 1 => q[1] # "fired"
  BY <1>1
<1> QED BY <1>3, <1>5, <1>6, <1>7, <1>8 DEF q

\* It says that a sender's requests are answered in their order.
LEMMA SenderOrderHolds == ServiceInv => SenderOrder
<1> SUFFICES ASSUME ServiceInv, NEW id \in Ids, id[2] > 1, sent[id] # <<>>
             PROVE  sent[<<id[1], id[2] - 1>>] # <<>>
  BY DEF SenderOrder
<1>1. id[2] \in Nat /\ id[2] - 1 \in 1 .. id[2] /\ id[2] - 1 < id[2]
  BY IdShape
<1> DEFINE e == <<id[1], id[2] - 1>>
<1>2. e \in Ids /\ e[1] = id[1] /\ e[2] = id[2] - 1
  BY <1>1, IdShape
<1>3. e \in Earlier(id)
  BY <1>1, <1>2 DEF Earlier
<1>4. Arrived(id) /\ ~Waiting(id)
  BY WatchArrived DEF ServiceInv
<1> QED BY <1>3, <1>4 DEF ServiceInv, OrderInv, OrderOf

\* A request gets at most one answer, a watch at most one event after it, and
\* the requests of a sender are answered in their order, with any number of
\* clients, requests and dispatcher threads: reply() of the service message,
\* the Watcher and the dispatcher together.
THEOREM RepliesExactAlways == Spec => []RepliesExact
<1>1. ServiceInv /\ Rested => RepliesExact
  BY OneReplyHolds, SenderOrderHolds DEF RepliesExact
<1> QED BY <1>1, ServiceInvAlways, PTL

-----------------------------------------------------------------------------
(* Subscriptions end: the invariant *)

Failed(id) == \E n \in DOMAIN sent[id] : sent[id][n] = "error"

\* What a thread has to do with a message: it serves the request, runs its
\* query, is at its watch or about to destroy it, or carries out its cancel.
Does(t, id) == thread[t].what = "request" /\ thread[t].id = id
Reads(t, id) == Does(t, id) /\ msg[id].kind = "watch" /\ thread[t].pc \in {"visit", "answer", "close"}
Ends(t, id) == thread[t].pc = "unslotted" /\ thread[t].at = id
Sends(t, id) == thread[t].pc = "event" /\ thread[t].at = id
Destroys(t, id) == thread[t].pc = "destroy" /\ thread[t].at = id
Looks(t, id) == thread[t].what = "cancel" /\ thread[t].id = id /\ thread[t].pc = "cancel"
Fires(t, id) == thread[t].what = "cancel" /\ thread[t].id = id /\ thread[t].pc = "fire"
Notifies(t, id) == thread[t].what = "cancel" /\ thread[t].id = id /\ thread[t].pc = "notify"
Releases(t, id) == thread[t].what = "cancel" /\ thread[t].id = id /\ thread[t].pc = "release"
Cancels(t, id) == Fires(t, id) \/ Notifies(t, id) \/ Releases(t, id)

\* The cancel of a message was taken from its queue; and the message was looked up.
Taken(id) == id \in cancelled /\ \A n \in DOMAIN queue[id[1]] : queue[id[1]][n] # <<id, "cancel">>
LookedUp(id) == Taken(id) /\ \A t \in Threads : ~Looks(t, id)

\* The map lists the messages that are subscribed and exist.
Listed(id) == id \in subscriptions <=> msg[id].subscribed /\ msg[id].exists

\* A message exists as long as its Watcher, the queue, its request or its
\* event holds it, and the Watcher does until its slot is disconnected.
Kept(id) ==
  /\ msg[id].slot => msg[id].held
  /\ msg[id].held => msg[id].exists /\ (msg[id].slot \/ \E t \in Threads : Notifies(t, id))
  /\ Waiting(id) => msg[id].exists
  /\ \A t \in Threads :
       /\ Does(t, id) \/ Sends(t, id) => msg[id].exists
       /\ Notifies(t, id) => ~msg[id].slot
       /\ Destroys(t, id) =>
            /\ msg[id].kind # Nil /\ ~msg[id].held /\ ~Waiting(id)
            /\ \A u \in Threads : ~Does(u, id) /\ ~Sends(u, id)

\* One that nobody holds any more is about to be destroyed.
Reclaimed(id) ==
  msg[id].exists =>
    \/ msg[id].held \/ Waiting(id)
    \/ \E t \in Threads : Does(t, id) \/ Sends(t, id) \/ Destroys(t, id) \/ Cancels(t, id)

\* Unless its query failed, it is destroyed once, and not while a cancel is at it.
DestroyedOnce(id) ==
  ~Failed(id) =>
    \A t \in Threads :
      /\ Cancels(t, id) => msg[id].exists
      /\ Destroys(t, id) => msg[id].exists /\ \A u \in Threads : ~Cancels(u, id) /\ (Destroys(u, id) => u = t)

\* Unless its query failed, what is subscribed has its slot, had no reply
\* yet, or was looked up for its cancel.
EndedBefore(id) ==
  ~Failed(id) =>
    /\ msg[id].subscribed => msg[id].slot \/ (sent[id] = <<>> /\ msg[id].watch = "none") \/ LookedUp(id)
    /\ \A t \in Threads : Ends(t, id) => ~msg[id].subscribed \/ LookedUp(id)

\* A watch that is not over is subscribed as long as its slot is connected.
Watched(id) ==
  /\ msg[id].kind = "watch" /\ msg[id].watch # "off" /\ (msg[id].slot \/ sent[id] = <<>>) => msg[id].subscribed
  /\ msg[id].watch = "pending" => \E t \in Threads : Reads(t, id)
  /\ msg[id].watch \in {"pending", "active"} => msg[id].slot \/ \E t \in Threads : Notifies(t, id)

\* A cancel comes after its request, and finds the watch off or turns it off.
CancelEnds(id) ==
  /\ id \in cancelled => msg[id].kind = "watch"
  /\ Taken(id) => ~Waiting(id) /\ \A t \in Threads : ~Does(t, id)
  /\ LookedUp(id) => \/ msg[id].watch \notin {"pending", "active"}
                     \/ \E t \in Threads : Fires(t, id) \/ Notifies(t, id)

MessageInv(id) ==
  /\ Listed(id) /\ Kept(id) /\ Reclaimed(id) /\ DestroyedOnce(id)
  /\ EndedBefore(id) /\ Watched(id) /\ CancelEnds(id)

\* A cancel is queued once, behind the request it is for.
CancelsQueued(s) ==
  \A n \in DOMAIN queue[s] : queue[s][n][2] = "cancel" =>
    /\ queue[s][n][1] \in cancelled
    /\ \A k \in DOMAIN queue[s] : queue[s][k][1] = queue[s][n][1] =>
         IF queue[s][k][2] = "cancel" THEN k = n ELSE k < n

\* Threads exit when there is nothing left for them in any queue.
Drained ==
  /\ \A t \in Threads :
       /\ ~Busy(t) => thread[t].what = Nil /\ thread[t].id = Nil /\ thread[t].at = Nil
       /\ thread[t].what = "cancel" => Taken(thread[t].id)
       /\ thread[t].pc = "destroy" => thread[t].at \in Ids
       /\ thread[t].pc = "exit" => stop # "no"
  /\ \A s \in Senders :
       /\ CancelsQueued(s)
       /\ queue[s] # <<>> => s \in pending \/ \E n \in DOMAIN scheduled : scheduled[n] = s
       /\ s \in pending => \E t \in Threads : Busy(t) /\ thread[t].id[1] = s
  /\ scheduled # <<>> => \E t \in Threads : thread[t].pc # "exit"
  /\ stop = "closed" => subscriptions = {} /\ \A t \in Threads : thread[t].pc = "exit"

Excused == \A a \in asserts : a[1] \in Ids /\ Failed(a[1])

SubscriptionInv == Drained /\ (\A id \in Ids : MessageInv(id)) /\ Excused

-----------------------------------------------------------------------------
(* What a step leaves alone *)

SameLinks(u, id) ==
  /\ Does(u, id)' <=> Does(u, id)
  /\ Reads(u, id) => Reads(u, id)'
  /\ Ends(u, id)' <=> Ends(u, id)
  /\ Sends(u, id)' <=> Sends(u, id)
  /\ Destroys(u, id)' <=> Destroys(u, id)
  /\ Looks(u, id)' <=> Looks(u, id)
  /\ Fires(u, id)' <=> Fires(u, id)
  /\ Notifies(u, id)' <=> Notifies(u, id)
  /\ Releases(u, id)' <=> Releases(u, id)

SameFields(id) ==
  /\ msg'[id].kind = msg[id].kind /\ msg'[id].subscribed = msg[id].subscribed
  /\ msg'[id].slot = msg[id].slot /\ msg'[id].held = msg[id].held
  /\ msg'[id].exists = msg[id].exists /\ msg'[id].watch = msg[id].watch

SameQueue(id) ==
  /\ Waiting(id)' <=> Waiting(id)
  /\ Taken(id)' <=> Taken(id)
  /\ id \in cancelled' <=> id \in cancelled

SameMessage(id) ==
  SameFields(id) /\ sent'[id] = sent[id] /\ (id \in subscriptions' <=> id \in subscriptions)

\* A step that leaves the threads' links to a message alone leaves its cancels alone.
LEMMA SameCancels ==
  ASSUME NEW id, \A u \in Threads : SameLinks(u, id)
  PROVE  /\ \A u \in Threads : Cancels(u, id)' <=> Cancels(u, id)
         /\ (Taken(id)' <=> Taken(id)) => (LookedUp(id)' <=> LookedUp(id))
<1>1. \A u \in Threads : Cancels(u, id)' <=> Cancels(u, id)
  BY DEF SameLinks, Cancels
<1>2. (Taken(id)' <=> Taken(id)) => (LookedUp(id)' <=> LookedUp(id))
  BY DEF SameLinks, LookedUp
<1> QED BY <1>1, <1>2

\* What holds of a message still holds after a step that has nothing to do with it.
LEMMA Untouched ==
  ASSUME NEW id \in Ids, MessageInv(id), SameMessage(id), SameQueue(id), \A u \in Threads : SameLinks(u, id)
  PROVE  MessageInv(id)'
<1>1. /\ \A u \in Threads : Cancels(u, id)' <=> Cancels(u, id)
      /\ LookedUp(id)' <=> LookedUp(id)
  BY SameCancels DEF SameQueue
<1>2. Failed(id)' <=> Failed(id)
  BY DEF SameMessage, Failed
<1>3. Listed(id)'
  BY DEF MessageInv, Listed, SameMessage, SameFields
<1>4. Kept(id)'
  BY DEF MessageInv, Kept, SameMessage, SameFields, SameQueue, SameLinks
<1>5. Reclaimed(id)'
  BY <1>1 DEF MessageInv, Reclaimed, SameMessage, SameFields, SameQueue, SameLinks
<1>6. DestroyedOnce(id)'
  BY <1>1, <1>2 DEF MessageInv, DestroyedOnce, SameMessage, SameFields, SameLinks
<1>7. EndedBefore(id)'
  BY <1>1, <1>2 DEF MessageInv, EndedBefore, SameMessage, SameFields, SameLinks
<1>8. Watched(id)'
  BY DEF MessageInv, Watched, SameMessage, SameFields, SameLinks
<1>9. CancelEnds(id)'
  BY <1>1 DEF MessageInv, CancelEnds, SameMessage, SameFields, SameQueue, SameLinks
<1> QED BY <1>3, <1>4, <1>5, <1>6, <1>7, <1>8, <1>9 DEF MessageInv

\* A thread that stays where it is has the same to do with a message.
LEMMA OtherLinks ==
  ASSUME NEW u, NEW id, thread'[u] = thread[u], msg'[id].kind = msg[id].kind
  PROVE  SameLinks(u, id)
BY DEF SameLinks, Does, Reads, Ends, Sends, Destroys, Looks, Fires, Notifies, Releases

\* Who has to do with a message by its identifier works for its sender, and
\* is the only one who does.
LEMMA OneAtWork ==
  ASSUME ServiceInv, Drained, NEW t \in Threads, NEW id \in Ids, Busy(t), thread[t].id[1] = id[1],
         NEW u \in Threads \ {t}
  PROVE  /\ ~Does(u, id) /\ ~Reads(u, id) /\ ~Looks(u, id)
         /\ ~Fires(u, id) /\ ~Notifies(u, id) /\ ~Releases(u, id) /\ ~Cancels(u, id)
<1>1. Busy(u) => thread[u].id # id
  BY DEF ServiceInv, QueuesInv
<1>2. thread[u].what \in {"request", "cancel"} => Busy(u)
  BY NilAssumption DEF Drained, ServiceInv, ServiceTypes, Ids
<1> QED BY <1>1, <1>2 DEF Does, Reads, Looks, Fires, Notifies, Releases, Cancels

\* The references to a message are these.
LEMMA HoldsLinks ==
  ASSUME ServiceInv, Drained, NEW u \in Threads, NEW id \in Ids
  PROVE  Holds(u, id) <=> Does(u, id) \/ Sends(u, id) \/ Cancels(u, id)
<1>1. thread[u].pc \in {"fire", "notify", "release"} => thread[u].what = "cancel"
  <2> SUFFICES ASSUME thread[u].pc \in {"fire", "notify", "release"} PROVE thread[u].what = "cancel"
    OBVIOUS
  <2>1. Busy(u) /\ FlowOf(u)
    BY DEF ServiceInv, Flow, Busy, AtRest
  <2> QED BY <2>1 DEF FlowOf, PutFlow, GetFlow, WatchFlow, Firing
<1>2. thread[u].pc \in {"fire", "notify", "release"} => thread[u].pc # "event"
  OBVIOUS
<1> QED BY <1>1 DEF Holds, Does, Sends, Cancels, Fires, Notifies, Releases

\* The last reference to a message is the one beside which nobody has to do with it.
LEMMA LastLinks ==
  ASSUME ServiceInv, Drained, NEW t \in Threads, NEW id \in Ids
  PROVE  IsLast(t, id) <=> /\ ~msg[id].held /\ ~Waiting(id)
                           /\ \A u \in Threads \ {t} : ~Does(u, id) /\ ~Sends(u, id) /\ ~Cancels(u, id)
BY HoldsLinks DEF IsLast, Waiting

\* A step inside a handler leaves the queues and who works on them alone.
LEMMA InnerDrained ==
  ASSUME ServiceInv, Drained, NEW t \in Threads, InnerStep(t), UNCHANGED <<stop, cancelled>>,
         thread'[t].pc = "destroy" => thread'[t].at \in Ids
  PROVE  Drained'
<1>1. \A u \in Threads : /\ thread'[u].id = thread[u].id /\ thread'[u].what = thread[u].what
                         /\ Busy(u)' <=> Busy(u)
                         /\ ~Busy(u) => thread'[u] = thread[u]
  BY DEF InnerStep, Busy
<1>2. \A id : Taken(id)' <=> Taken(id)
  BY DEF InnerStep, Taken
<1>3. stop # "closed"
  BY DEF Drained, InnerStep, Busy, AtRest
<1>4. ASSUME NEW u \in Threads
      PROVE  (/\ ~Busy(u) => thread[u].what = Nil /\ thread[u].id = Nil /\ thread[u].at = Nil
              /\ thread[u].what = "cancel" => Taken(thread[u].id)
              /\ thread[u].pc = "destroy" => thread[u].at \in Ids
              /\ thread[u].pc = "exit" => stop # "no")'
  <2>1. u = t \/ thread'[u] = thread[u]
    BY DEF InnerStep
  <2>2. Busy(t) /\ thread'[t].pc # "exit"
    BY DEF InnerStep, Busy, AtRest
  <2> QED BY <1>1, <1>2, <2>1, <2>2 DEF Drained
<1>5. ASSUME NEW s \in Senders
      PROVE  (/\ CancelsQueued(s)
              /\ queue[s] # <<>> => s \in pending \/ \E n \in DOMAIN scheduled : scheduled[n] = s
              /\ s \in pending => \E u \in Threads : Busy(u) /\ thread[u].id[1] = s)'
  <2>1. CancelsQueued(s)'
    BY DEF Drained, CancelsQueued, InnerStep
  <2>2. (s \in pending => \E u \in Threads : Busy(u) /\ thread[u].id[1] = s)'
    BY <1>1 DEF Drained, InnerStep
  <2> QED BY <2>1, <2>2 DEF Drained, InnerStep
<1>6. (scheduled # <<>> => \E u \in Threads : thread[u].pc # "exit")'
  BY DEF InnerStep, Busy, AtRest
<1> QED BY <1>3, <1>4, <1>5, <1>6 DEF Drained

\* It keeps the invariant of every message it has nothing to do with.
LEMMA InnerSubscriptions ==
  ASSUME ServiceInv, SubscriptionInv, NEW t \in Threads, InnerStep(t), UNCHANGED <<stop, cancelled>>,
         thread'[t].pc = "destroy" => thread'[t].at \in Ids,
         NEW focus,
         \A i \in Ids : i = focus \/ (SameMessage(i) /\ SameLinks(t, i)),
         focus \in Ids => MessageInv(focus)',
         \A i \in Ids : Failed(i) => Failed(i)',
         \A a \in asserts' : a \in asserts \/ (a[1] \in Ids /\ Failed(a[1])')
  PROVE  SubscriptionInv'
<1>1. Drained'
  BY InnerDrained DEF SubscriptionInv
<1>2. ASSUME NEW i \in Ids PROVE MessageInv(i)'
  <2>1. CASE i = focus
    BY <2>1
  <2>2. CASE i # focus
    <3>1. SameMessage(i) /\ SameLinks(t, i) /\ MessageInv(i)
      BY <2>2 DEF SubscriptionInv
    <3>2. SameQueue(i)
      BY DEF SameQueue, InnerStep, Waiting, Taken
    <3>3. \A u \in Threads \ {t} : SameLinks(u, i)
      BY OtherLinks DEF InnerStep
    <3> QED BY <3>1, <3>2, <3>3, Untouched
  <2> QED BY <2>1, <2>2
<1>3. Excused'
  BY DEF SubscriptionInv, Excused
<1> QED BY <1>1, <1>2, <1>3 DEF SubscriptionInv

\* A step that has nothing to do with any message.
LEMMA InnerAside ==
  ASSUME ServiceInv, SubscriptionInv, NEW t \in Threads, InnerStep(t), UNCHANGED <<stop, cancelled, asserts, sent>>,
         thread'[t].pc # "destroy",
         \A i \in Ids : SameMessage(i) /\ SameLinks(t, i)
  PROVE  SubscriptionInv'
<1>1. \A i \in Ids : Failed(i) => Failed(i)'
  BY DEF Failed
<1>2. PICK focus : focus \notin Ids
  BY NilAssumption
<1> QED BY <1>1, <1>2, InnerSubscriptions

-----------------------------------------------------------------------------
(* Requests and subscriptions *)

\* A thread that goes on inside the handler of a request.
LEMMA RequestLinks ==
  ASSUME NEW t, NEW id, UNCHANGED <<thread[t].id, thread[t].what>>, thread[t].what = "request",
         thread[t].pc \notin {"unslotted", "event", "destroy"},
         thread'[t].pc \notin {"unslotted", "event", "destroy"},
         Reads(t, id) => Reads(t, id)'
  PROVE  SameLinks(t, id)
BY DEF SameLinks, Does, Ends, Sends, Destroys, Looks, Fires, Notifies, Releases

\* Retry keeps what holds of the subscriptions.
LEMMA RetrySubs == ASSUME ServiceInv, SubscriptionInv, NEW t \in Threads, Retry(t) PROVE SubscriptionInv'
<1>1. Busy(t) /\ thread[t].what = "request"
  BY Serving DEF Retry
<1>2. /\ UNCHANGED <<thread[t].id, thread[t].what, thread[t].pc>>
      /\ \A u \in Threads \ {t} : thread'[u] = thread[u]
  <2> DEFINE grown == thread[t].tries + 1
  <2>1. thread' = [thread EXCEPT ![t].tries = grown]
    BY DEF Retry
  <2> HIDE DEF grown
  <2> QED BY <2>1 DEF ServiceInv, ServiceTypes, ThreadRec
<1>3. UNCHANGED <<scheduled, pending, queue, stop, msg, subscriptions, sent, cancelled, asserts>> /\ thread[t].pc = "request"
  BY DEF Retry
<1>4. InnerStep(t)
  BY <1>1, <1>2, <1>3 DEF InnerStep, Busy
<1>5. \A i \in Ids : SameMessage(i) /\ SameLinks(t, i)
  <2>1. \A i : Reads(t, i) => Reads(t, i)'
    BY <1>2, <1>3 DEF Reads, Does
  <2> QED BY <1>1, <1>2, <1>3, <2>1, RequestLinks DEF SameMessage, SameFields
<1> QED BY <1>2, <1>3, <1>4, <1>5, InnerAside

\* Execute keeps what holds of the subscriptions.
LEMMA ExecuteSubs == ASSUME ServiceInv, SubscriptionInv, NEW t \in Threads, Execute(t) PROVE SubscriptionInv'
<1>1. Busy(t) /\ thread[t].what = "request"
  BY Serving DEF Execute
<1>2. Goes(t, "answer")
  BY Moves DEF Execute, ServiceInv, Points
<1>3. UNCHANGED <<scheduled, pending, queue, stop, msg, subscriptions, sent, cancelled, asserts>> /\ thread[t].pc = "request"
  BY DEF Execute
<1>4. InnerStep(t)
  BY <1>1, <1>2, <1>3 DEF InnerStep, Busy, AtRest, Goes
<1>5. \A i \in Ids : SameMessage(i) /\ SameLinks(t, i)
  <2>1. \A i : Reads(t, i) => Reads(t, i)'
    BY <1>3 DEF Reads
  <2> QED BY <1>1, <1>2, <1>3, <2>1, RequestLinks DEF SameMessage, SameFields, Goes
<1> QED BY <1>2, <1>3, <1>4, <1>5, InnerAside DEF Goes

\* A commit only marks messages as changed.
LEMMA CommitSubs == ASSUME ServiceInv, SubscriptionInv, NEW t \in Threads, Commit(t) PROVE SubscriptionInv'
<1>1. Busy(t) /\ thread[t].what = "request"
  BY Serving DEF Commit
<1>2. /\ thread'[t].pc = "firing" /\ UNCHANGED <<thread[t].id, thread[t].what>>
      /\ \A u \in Threads \ {t} : thread'[u] = thread[u]
  <2> DEFINE active == {i \in Ids : msg[i].watch = "active"}
  <2>1. thread' = [thread EXCEPT ![t] = [@ EXCEPT !.pc = "firing", !.back = "answer", !.todo = active]]
    BY DEF Commit
  <2> HIDE DEF active
  <2> QED BY <2>1 DEF ServiceInv, ServiceTypes, ThreadRec
<1>3. \A i \in Ids : SameFields(i)
  BY DEF Commit, ServiceInv, ServiceTypes, MessageRec, SameFields
<1>4. UNCHANGED <<scheduled, pending, queue, stop, subscriptions, sent, cancelled, asserts>> /\ thread[t].pc = "request"
  BY DEF Commit
<1>5. InnerStep(t)
  BY <1>1, <1>2, <1>3, <1>4 DEF InnerStep, Busy, AtRest, SameFields
<1>6. \A i \in Ids : SameMessage(i) /\ SameLinks(t, i)
  <2>1. \A i : Reads(t, i) => Reads(t, i)'
    BY <1>4 DEF Reads
  <2> QED BY <1>1, <1>2, <1>3, <1>4, <2>1, RequestLinks DEF SameMessage
<1> QED BY <1>2, <1>4, <1>5, <1>6, InnerAside

\* Visit keeps what holds of the subscriptions.
LEMMA VisitSubs ==
  ASSUME ServiceInv, SubscriptionInv, NEW t \in Threads, NEW result \in {"found", "read", "error"}, Visit(t, result)
  PROVE  SubscriptionInv'
<1>1. Busy(t) /\ thread[t].what = "request" /\ thread[t].id \in Ids
  BY Serving DEF Visit
<1>2. /\ thread'[t].pc \in {"answer", "close"} /\ UNCHANGED <<thread[t].id, thread[t].what>>
      /\ \A u \in Threads \ {t} : thread'[u] = thread[u]
  <2> DEFINE p == IF result = "read" THEN "answer" ELSE "close"
             b == IF result = "error" THEN "refuse" ELSE "done"
  <2>1. thread' = [thread EXCEPT ![t] = [@ EXCEPT !.pc = p, !.back = b]]
    BY DEF Visit
  <2>2. p \in {"answer", "close"}
    OBVIOUS
  <2> HIDE DEF p, b
  <2> QED BY <2>1, <2>2 DEF ServiceInv, ServiceTypes, ThreadRec
<1>3. \A i \in Ids : SameFields(i)
  <2> DEFINE m == [msg[thread[t].id] EXCEPT !.changed = TRUE]
  <2>1. msg' = msg \/ msg' = [msg EXCEPT ![thread[t].id] = m]
    BY DEF Visit
  <2>2. msg[thread[t].id] \in MessageRec
    BY <1>1 DEF ServiceInv, ServiceTypes
  <2>3. /\ m.kind = msg[thread[t].id].kind /\ m.subscribed = msg[thread[t].id].subscribed
        /\ m.slot = msg[thread[t].id].slot /\ m.held = msg[thread[t].id].held
        /\ m.exists = msg[thread[t].id].exists /\ m.watch = msg[thread[t].id].watch
    BY <2>2 DEF MessageRec
  <2> HIDE DEF m
  <2> QED BY <1>1, <2>1, <2>3 DEF ServiceInv, ServiceTypes, SameFields
<1>4. UNCHANGED <<scheduled, pending, queue, stop, subscriptions, sent, cancelled, asserts>> /\ thread[t].pc = "visit"
  BY DEF Visit
<1>5. InnerStep(t)
  BY <1>1, <1>2, <1>3, <1>4 DEF InnerStep, Busy, AtRest, SameFields
<1>6. \A i \in Ids : SameMessage(i) /\ SameLinks(t, i)
  <2>1. \A i \in Ids : Reads(t, i) => Reads(t, i)'
    BY <1>2, <1>3 DEF Reads, Does, SameFields
  <2> QED BY <1>1, <1>2, <1>3, <1>4, <2>1, RequestLinks DEF SameMessage
<1> QED BY <1>2, <1>4, <1>5, <1>6, InnerAside

\* A reply registers or removes its message without a failed assertion.
LEMMA SendMessage ==
  ASSUME ServiceInv, NEW id \in Ids, MessageInv(id), msg[id].exists,
         NEW what \in {"answer", "error", "fired"}, Send(id, what)
  PROVE  /\ asserts' = asserts
         /\ \A i \in Ids \ {id} : SameMessage(i)
         /\ msg'[id].kind = msg[id].kind /\ msg'[id].slot = msg[id].slot /\ msg'[id].held = msg[id].held
         /\ msg'[id].exists = msg[id].exists /\ msg'[id].watch = msg[id].watch
         /\ msg'[id].subscribed <=> \/ msg[id].subscribed /\ (sent[id] # <<>> \/ msg[id].slot)
                                    \/ sent[id] = <<>> /\ msg[id].slot
         /\ Listed(id)' /\ sent'[id] # <<>>
         /\ \A i \in Ids : Failed(i) => Failed(i)'
         /\ what = "error" => Failed(id)'
<1> DEFINE m == Reply(id, msg[id])
           grown == msg[id].replies + 1
           ended == [[msg[id] EXCEPT !.subscribed = FALSE] EXCEPT !.replies = grown]
           kept(sub) == [msg[id] EXCEPT !.subscribed = sub, !.replies = grown]
<1>1. msg[id] \in MessageRec /\ grown \in Nat /\ msg[id].replies \in Nat /\ sent[id] \in Seq({"answer", "error", "fired"})
  BY DEF ServiceInv, ServiceTypes, MessageRec
<1>2. msg[id].replies = 0 <=> sent[id] = <<>>
  BY <1>1 DEF ServiceInv, SentInv, SentOf
<1>3. m = IF sent[id] = <<>> /\ ~msg[id].slot THEN ended ELSE kept(msg[id].subscribed \/ sent[id] = <<>>)
  BY <1>2 DEF Reply, Unsubscribed
<1>4. /\ ended.subscribed = FALSE /\ ended.kind = msg[id].kind /\ ended.watch = msg[id].watch
      /\ ended.slot = msg[id].slot /\ ended.held = msg[id].held /\ ended.exists = msg[id].exists
  BY <1>1 DEF MessageRec
<1>5. ASSUME NEW sub
      PROVE  /\ kept(sub).subscribed = sub /\ kept(sub).kind = msg[id].kind /\ kept(sub).watch = msg[id].watch
             /\ kept(sub).slot = msg[id].slot /\ kept(sub).held = msg[id].held /\ kept(sub).exists = msg[id].exists
  BY <1>1 DEF MessageRec
<1> HIDE DEF ended, kept, m
<1>6. /\ m.kind = msg[id].kind /\ m.slot = msg[id].slot /\ m.held = msg[id].held
      /\ m.exists = msg[id].exists /\ m.watch = msg[id].watch
      /\ m.subscribed <=> \/ msg[id].subscribed /\ (sent[id] # <<>> \/ msg[id].slot)
                          \/ sent[id] = <<>> /\ msg[id].slot
      /\ m.subscribed \in BOOLEAN
  BY <1>3, <1>4, <1>5, <1>1 DEF MessageRec
<1>7. msg' = [msg EXCEPT ![id] = m] /\ sent' = [sent EXCEPT ![id] = Append(@, what)] /\ Register(id, m)
  BY DEF Send, m
<1>8. msg'[id] = m /\ sent'[id] = Append(sent[id], what)
      /\ \A i \in Ids \ {id} : msg'[i] = msg[i] /\ sent'[i] = sent[i]
  BY <1>7 DEF ServiceInv, ServiceTypes
<1>9. id \in subscriptions <=> msg[id].subscribed
  BY DEF MessageInv, Listed
<1>10. asserts' = asserts
  BY <1>7, <1>9 DEF Register
<1>11. (id \in subscriptions' <=> m.subscribed) /\ \A i \in Ids \ {id} : i \in subscriptions' <=> i \in subscriptions
  <2>0. m.subscribed \in BOOLEAN /\ msg[id].subscribed \in BOOLEAN
    BY <1>1, <1>6 DEF MessageRec
  <2>1. subscriptions' = IF m.subscribed = msg[id].subscribed THEN subscriptions
                         ELSE IF m.subscribed THEN subscriptions \cup {id} ELSE subscriptions \ {id}
    BY <1>7 DEF Register
  <2> QED BY <1>9, <2>0, <2>1
<1>12. \A i \in Ids \ {id} : SameMessage(i)
  BY <1>8, <1>11 DEF SameMessage, SameFields
<1>13. Listed(id)'
  BY <1>6, <1>8, <1>11 DEF Listed
<1>14. \A i \in Ids : Failed(i) => Failed(i)'
  BY <1>1, <1>8, SMTT(40) DEF Failed
<1>15. sent'[id] # <<>> /\ (what = "error" => Failed(id)')
  <2>1. Len(sent[id]) + 1 \in DOMAIN sent'[id] /\ sent'[id][Len(sent[id]) + 1] = what
    BY <1>1, <1>8
  <2> QED BY <2>1 DEF Failed
<1> QED BY <1>6, <1>8, <1>10, <1>12, <1>13, <1>14, <1>15

\* After a reply, what is subscribed still has its slot or was looked up.
LEMMA RepliedInv ==
  ASSUME NEW id \in Ids, MessageInv(id), NEW what, SameQueue(id),
         msg'[id].kind = msg[id].kind, msg'[id].slot = msg[id].slot, msg'[id].held = msg[id].held,
         msg'[id].exists = msg[id].exists, msg'[id].watch = msg[id].watch,
         msg'[id].subscribed <=> \/ msg[id].subscribed /\ (sent[id] # <<>> \/ msg[id].slot)
                                 \/ sent[id] = <<>> /\ msg[id].slot,
         sent'[id] # <<>>, Failed(id) => Failed(id)', what = "error" => Failed(id)',
         what = "error" \/ \A u \in Threads : ~Ends(u, id)',
         \A u \in Threads : /\ Reads(u, id) => Reads(u, id)'
                            /\ Notifies(u, id)' <=> Notifies(u, id)
                            /\ Looks(u, id)' <=> Looks(u, id)
  PROVE  EndedBefore(id)' /\ Watched(id)'
<1>1. LookedUp(id)' <=> LookedUp(id)
  BY DEF LookedUp, SameQueue
<1>2. EndedBefore(id)'
  <2> SUFFICES ASSUME ~Failed(id)'
               PROVE  /\ (msg[id].subscribed => msg[id].slot \/ (sent[id] = <<>> /\ msg[id].watch = "none") \/ LookedUp(id))'
                      /\ \A t \in Threads : (Ends(t, id) => ~msg[id].subscribed \/ LookedUp(id))'
    BY DEF EndedBefore
  <2>1. msg[id].subscribed => msg[id].slot \/ (sent[id] = <<>> /\ msg[id].watch = "none") \/ LookedUp(id)
    BY DEF MessageInv, EndedBefore
  <2> QED BY <1>1, <2>1
<1>3. Watched(id)'
  BY DEF MessageInv, Watched
<1> QED BY <1>2, <1>3

\* The reply of the thread that serves the request.
LEMMA ServedReply ==
  ASSUME ServiceInv, SubscriptionInv, NEW t \in Threads, NEW p \in {"done", "close"}, Goes(t, p), Busy(t),
         thread[t].what = "request", thread[t].pc \in {"request", "refuse", "answer"},
         NEW id \in Ids, id = thread[t].id, UNCHANGED <<scheduled, pending, queue, stop, cancelled>>,
         NEW what \in {"answer", "error"}, Send(id, what),
         what = "error" \/ \A u \in Threads : ~Ends(u, id),
         Reads(t, id) => Reads(t, id)'
  PROVE  SubscriptionInv'
<1>1. MessageInv(id) /\ msg[id].exists
  BY DEF SubscriptionInv, MessageInv, Kept, Does
<1>2. /\ asserts' = asserts
      /\ \A i \in Ids \ {id} : SameMessage(i)
      /\ msg'[id].kind = msg[id].kind /\ msg'[id].slot = msg[id].slot /\ msg'[id].held = msg[id].held
      /\ msg'[id].exists = msg[id].exists /\ msg'[id].watch = msg[id].watch
      /\ msg'[id].subscribed <=> \/ msg[id].subscribed /\ (sent[id] # <<>> \/ msg[id].slot)
                                 \/ sent[id] = <<>> /\ msg[id].slot
      /\ Listed(id)' /\ sent'[id] # <<>>
      /\ \A i \in Ids : Failed(i) => Failed(i)'
      /\ what = "error" => Failed(id)'
  BY <1>1, SendMessage
<1>3. \A i \in Ids : msg'[i].kind = msg[i].kind
  BY <1>2 DEF SameMessage, SameFields
<1>4. InnerStep(t)
  BY <1>3 DEF InnerStep, Busy, AtRest, Goes
<1>5. \A i \in Ids : SameLinks(t, i)
  <2>1. \A i \in Ids \ {id} : ~Reads(t, i)
    BY DEF Reads, Does
  <2> QED BY <2>1, RequestLinks DEF Goes
<1>6. \A u \in Threads : SameLinks(u, id)
  <2>1. \A u \in Threads \ {t} : SameLinks(u, id)
    BY <1>3, OtherLinks DEF Goes
  <2> QED BY <1>5, <2>1
<1>7. SameQueue(id)
  BY DEF SameQueue, Waiting, Taken
<1>8. EndedBefore(id)' /\ Watched(id)'
  <2>1. what = "error" \/ \A u \in Threads : ~Ends(u, id)'
    BY <1>6 DEF SameLinks
  <2>2. \A u \in Threads : /\ Reads(u, id) => Reads(u, id)'
                           /\ Notifies(u, id)' <=> Notifies(u, id)
                           /\ Looks(u, id)' <=> Looks(u, id)
    BY <1>6 DEF SameLinks
  <2> QED BY <1>1, <1>2, <1>7, <2>1, <2>2, RepliedInv
<1>9. Kept(id)'
  BY <1>1, <1>2, <1>6, <1>7 DEF MessageInv, Kept, SameLinks, SameQueue
<1>10. /\ \A u \in Threads : Cancels(u, id)' <=> Cancels(u, id)
       /\ LookedUp(id)' <=> LookedUp(id)
  BY <1>6, <1>7, SameCancels DEF SameQueue
<1>11. Reclaimed(id)'
  BY <1>1, <1>2, <1>6, <1>7, <1>10 DEF MessageInv, Reclaimed, SameLinks, SameQueue
<1>12. DestroyedOnce(id)'
  BY <1>1, <1>2, <1>6, <1>10 DEF MessageInv, DestroyedOnce, SameLinks
<1>13. CancelEnds(id)'
  BY <1>1, <1>2, <1>6, <1>7, <1>10 DEF MessageInv, CancelEnds, SameLinks, SameQueue
<1>14. MessageInv(id)'
  BY <1>2, <1>8, <1>9, <1>11, <1>12, <1>13 DEF MessageInv
<1>15. thread'[t].pc # "destroy"
  BY DEF Goes
<1> QED BY <1>2, <1>4, <1>5, <1>14, <1>15, InnerSubscriptions

\* Refuse keeps what holds of the subscriptions.
LEMMA RefuseSubs == ASSUME ServiceInv, SubscriptionInv, NEW t \in Threads, Refuse(t) PROVE SubscriptionInv'
<1>0. PICK id \in Ids : id = thread[t].id
  BY Serving DEF Refuse
<1>1. Busy(t) /\ thread[t].what = "request" /\ thread[t].pc \in {"request", "refuse"}
  BY Serving DEF Refuse
<1>2. Goes(t, "done")
  BY Moves DEF Refuse, ServiceInv, Points
<1>3. UNCHANGED <<scheduled, pending, queue, stop, cancelled>>
  BY DEF Refuse
<1>4. \A i : ~Reads(t, i)
  BY <1>1 DEF Reads
<1>5. CASE msg[id].replies = 0
  <2>1. Send(id, "error")
    BY <1>0, <1>5 DEF Refuse
  <2> QED BY <1>0, <1>1, <1>2, <1>3, <1>4, <2>1, ServedReply
<1>6. CASE msg[id].replies # 0
  <2>1. UNCHANGED <<msg, subscriptions, sent, asserts>>
    BY <1>0, <1>6 DEF Refuse
  <2>2. InnerStep(t)
    BY <1>1, <1>2, <1>3, <2>1 DEF InnerStep, Busy, AtRest, Goes
  <2>3. \A i \in Ids : SameMessage(i) /\ SameLinks(t, i)
    BY <1>1, <1>2, <1>4, <2>1, RequestLinks DEF SameMessage, SameFields, Goes
  <2> QED BY <1>2, <1>3, <2>1, <2>2, <2>3, InnerAside DEF Goes
<1> QED BY <1>5, <1>6

\* Answer keeps what holds of the subscriptions.
LEMMA AnswerSubs == ASSUME ServiceInv, SubscriptionInv, NEW t \in Threads, Answer(t) PROVE SubscriptionInv'
<1>0. PICK id \in Ids : id = thread[t].id
  BY Serving DEF Answer
<1> DEFINE p == IF msg[id].kind = "watch" THEN "close" ELSE "done"
<1>1. Busy(t) /\ thread[t].what = "request" /\ thread[t].pc = "answer"
  BY Serving DEF Answer
<1>2. Goes(t, p) /\ p \in {"done", "close"}
  BY <1>0, Moves DEF Answer, ServiceInv, Points
<1>3. UNCHANGED <<scheduled, pending, queue, stop, cancelled>> /\ Send(id, "answer")
  BY <1>0 DEF Answer
\* While the query runs its watch is pending, so no other thread is at it.
<1>4. \A u \in Threads : ~Ends(u, id)
  <2>1. msg[id].watch # "off"
    <3>1. msg[id].kind = "watch" => msg[id].watch = "pending"
      BY <1>0, <1>1, Serving DEF WatchFlow
    <3>2. msg[id].watch # "none" => msg[id].kind = "watch"
      BY DEF ServiceInv, SentInv, SentOf
    <3> QED BY <3>1, <3>2
  <2>2. \A u \in Threads : TokenOf(u)
    BY DEF ServiceInv, SentInv
  <2> QED BY <2>1, <2>2 DEF TokenOf, Ends, Firing
<1>5. Reads(t, id) => Reads(t, id)'
  <2>1. msg'[id].kind = msg[id].kind
    BY <1>3, SendEffect DEF ServiceInv
  <2> QED BY <1>2, <2>1 DEF Reads, Does, Goes
<1> QED BY <1>0, <1>1, <1>2, <1>3, <1>4, <1>5, ServedReply

\* A step of a thread that changes one message, when nothing is sent.
LEMMA FocusSubs ==
  ASSUME ServiceInv, SubscriptionInv, NEW t \in Threads, InnerStep(t), UNCHANGED <<stop, cancelled, asserts, sent>>,
         thread'[t].pc = "destroy" => thread'[t].at \in Ids,
         NEW id \in Ids, \A i \in Ids \ {id} : msg'[i] = msg[i] /\ (i \in subscriptions' <=> i \in subscriptions),
         \A i \in Ids \ {id} : SameLinks(t, i),
         MessageInv(id)'
  PROVE  SubscriptionInv'
<1>1. \A i \in Ids \ {id} : SameMessage(i)
  BY DEF SameMessage, SameFields
<1>2. \A i \in Ids : Failed(i) => Failed(i)'
  BY DEF Failed
<1> QED BY <1>1, <1>2, InnerSubscriptions

\* The queue of a sender does not change inside a handler.
LEMMA InnerQueue == ASSUME NEW t, InnerStep(t), cancelled' = cancelled, NEW id PROVE SameQueue(id)
BY DEF InnerStep, SameQueue, Waiting, Taken

\* Connect keeps what holds of the subscriptions.
LEMMA ConnectSubs == ASSUME ServiceInv, SubscriptionInv, NEW t \in Threads, Connect(t) PROVE SubscriptionInv'
<1>0. PICK id \in Ids : id = thread[t].id
  BY Serving DEF Connect
<1>1. /\ Busy(t) /\ thread[t].what = "request" /\ thread[t].pc = "request"
      /\ msg[id].kind = "watch" /\ WatchFlow(t) /\ SentOf(id) /\ Does(t, id)
  BY <1>0, Serving DEF Connect, Does
<1>2. msg[id].watch = "none" /\ sent[id] = <<>>
  BY <1>0, <1>1 DEF WatchFlow
<1>3. Goes(t, "visit")
  BY Moves DEF Connect, ServiceInv, Points
<1> DEFINE m == [msg[id] EXCEPT !.slot = TRUE, !.held = TRUE, !.watch = "pending"]
<1>4. msg[id] \in MessageRec
  BY DEF ServiceInv, ServiceTypes
<1>5. /\ m.watch = "pending" /\ m.kind = msg[id].kind /\ m.slot = TRUE /\ m.held = TRUE
      /\ m.subscribed = msg[id].subscribed /\ m.exists = msg[id].exists
  BY <1>4 DEF MessageRec
<1>6. /\ msg' = [msg EXCEPT ![id] = m]
      /\ UNCHANGED <<scheduled, pending, queue, stop, subscriptions, sent, cancelled, asserts>>
  <2>1. msg[id].replies = 0
    BY <1>1, <1>2 DEF SentOf
  <2> QED BY <1>0, <2>1 DEF Connect
<1> HIDE DEF m
<1>7. msg'[id] = m /\ \A i \in Ids \ {id} : msg'[i] = msg[i]
  BY <1>6 DEF ServiceInv, ServiceTypes
<1>8. InnerStep(t) /\ SameQueue(id)
  <2>1. InnerStep(t)
    BY <1>1, <1>3, <1>5, <1>6, <1>7 DEF InnerStep, Goes, Busy, AtRest
  <2> QED BY <1>6, <2>1, InnerQueue
<1>9. \A i \in Ids : SameLinks(t, i)
  <2>1. \A i : ~Reads(t, i)
    BY <1>1 DEF Reads
  <2> QED BY <1>1, <1>3, <2>1, RequestLinks DEF Goes
<1>10. \A u \in Threads : SameLinks(u, id)
  <2>1. \A u \in Threads \ {t} : SameLinks(u, id)
    BY <1>5, <1>7, <1>8, OtherLinks DEF InnerStep
  <2> QED BY <1>9, <2>1
<1>11. MessageInv(id) /\ Reads(t, id)'
  BY <1>0, <1>1, <1>3, <1>5, <1>7 DEF SubscriptionInv, Reads, Does, Goes
<1>12. \A u \in Threads : ~Notifies(u, id) /\ ~Destroys(u, id) /\ ~Ends(u, id)
  <2>1. \A u \in Threads : TokenOf(u)
    BY DEF ServiceInv, SentInv
  <2>2. \A u \in Threads : ~Ends(u, id)
    BY <1>2, <2>1 DEF TokenOf, Ends, Firing
  <2>3. \A u \in Threads : ~Destroys(u, id)
    BY <1>1, <1>11 DEF MessageInv, Kept
  <2>4. \A u \in Threads \ {t} : ~Notifies(u, id)
    BY <1>0, <1>1, OneAtWork DEF SubscriptionInv
  <2>5. ~Notifies(t, id)
    BY <1>1 DEF Notifies
  <2> QED BY <2>2, <2>3, <2>4, <2>5
<1>13. /\ \A u \in Threads : Cancels(u, id)' <=> Cancels(u, id)
       /\ LookedUp(id)' <=> LookedUp(id)
  BY <1>8, <1>10, SameCancels DEF SameQueue
<1>14. Failed(id)' <=> Failed(id)
  BY <1>6 DEF Failed
<1>15. Listed(id)'
  BY <1>5, <1>6, <1>7, <1>11 DEF MessageInv, Listed
<1>16. Kept(id)'
  BY <1>1, <1>5, <1>7, <1>8, <1>10, <1>11, <1>12 DEF MessageInv, Kept, SameLinks, SameQueue
<1>17. Reclaimed(id)'
  BY <1>5, <1>7 DEF Reclaimed
<1>18. DestroyedOnce(id)'
  BY <1>5, <1>7, <1>10, <1>11, <1>13, <1>14 DEF MessageInv, DestroyedOnce, SameLinks
<1>19. EndedBefore(id)'
  BY <1>5, <1>7, <1>10, <1>12 DEF EndedBefore, SameLinks
<1>20. Watched(id)'
  BY <1>1, <1>2, <1>5, <1>7, <1>11 DEF MessageInv, Watched
<1>21. CancelEnds(id)'
  <2>1. ~Taken(id)'
    BY <1>1, <1>8, <1>11 DEF MessageInv, CancelEnds, SameQueue
  <2> QED BY <1>1, <1>5, <1>7, <2>1 DEF CancelEnds, LookedUp
<1>22. MessageInv(id)'
  BY <1>15, <1>16, <1>17, <1>18, <1>19, <1>20, <1>21 DEF MessageInv
<1> QED BY <1>3, <1>6, <1>7, <1>8, <1>9, <1>22, FocusSubs DEF Goes

-----------------------------------------------------------------------------
(* Watches that fire, and subscriptions *)

\* As SameLinks, for a thread whose query may end.
QuietLinks(u, id) ==
  /\ Does(u, id)' <=> Does(u, id)
  /\ Ends(u, id)' <=> Ends(u, id)
  /\ Sends(u, id)' <=> Sends(u, id)
  /\ Destroys(u, id)' <=> Destroys(u, id)
  /\ Looks(u, id)' <=> Looks(u, id)
  /\ Fires(u, id)' <=> Fires(u, id)
  /\ Notifies(u, id)' <=> Notifies(u, id)
  /\ Releases(u, id)' <=> Releases(u, id)

\* A thread that stays in its request neither begins nor ends having to do with a message.
LEMMA RequestQuiet ==
  ASSUME NEW t, NEW id, UNCHANGED <<thread[t].id, thread[t].what>>, thread[t].what = "request",
         thread[t].pc \notin {"unslotted", "event", "destroy"},
         thread'[t].pc \notin {"unslotted", "event", "destroy"}
  PROVE  QuietLinks(t, id)
BY DEF QuietLinks, Does, Ends, Sends, Destroys, Looks, Fires, Notifies, Releases

\* A watch that becomes active after its query, or fires.
LEMMA WatchTurns ==
  ASSUME NEW id \in Ids, MessageInv(id), SameQueue(id), sent'[id] = sent[id],
         id \in subscriptions' <=> id \in subscriptions,
         msg'[id].kind = msg[id].kind, msg'[id].subscribed = msg[id].subscribed,
         msg'[id].slot = msg[id].slot, msg'[id].held = msg[id].held, msg'[id].exists = msg[id].exists,
         \/ msg[id].watch = "pending" /\ msg'[id].watch \in {"active", "off"}
         \/ msg[id].watch = "active" /\ msg'[id].watch = "off",
         \A u \in Threads : QuietLinks(u, id)
  PROVE  MessageInv(id)'
<1>1. /\ \A u \in Threads : Cancels(u, id)' <=> Cancels(u, id)
      /\ LookedUp(id)' <=> LookedUp(id)
  BY DEF SameQueue, QuietLinks, Cancels, LookedUp
<1>2. Failed(id)' <=> Failed(id)
  BY DEF Failed
<1>3. Listed(id)'
  BY DEF MessageInv, Listed
<1>4. Kept(id)'
  BY DEF MessageInv, Kept, SameQueue, QuietLinks
<1>5. Reclaimed(id)'
  BY <1>1 DEF MessageInv, Reclaimed, SameQueue, QuietLinks
<1>6. DestroyedOnce(id)'
  BY <1>1, <1>2 DEF MessageInv, DestroyedOnce, QuietLinks
<1>7. EndedBefore(id)'
  BY <1>1, <1>2 DEF MessageInv, EndedBefore, QuietLinks
<1>8. Watched(id)'
  BY DEF MessageInv, Watched, QuietLinks
<1>9. CancelEnds(id)'
  BY <1>1 DEF MessageInv, CancelEnds, SameQueue, QuietLinks
<1> QED BY <1>3, <1>4, <1>5, <1>6, <1>7, <1>8, <1>9 DEF MessageInv

\* Turn keeps what holds of the subscriptions.
LEMMA TurnSubs ==
  ASSUME ServiceInv, SubscriptionInv, NEW t \in Threads, Busy(t), thread[t].what = "request",
         thread[t].pc \in {"close", "firing"}, NEW p \in {"unslot", "done", "refuse"},
         thread'[t].pc = p, UNCHANGED <<thread[t].id, thread[t].what>>,
         \A u \in Threads \ {t} : thread'[u] = thread[u],
         NEW id \in Ids, NEW w, msg' = [msg EXCEPT ![id].watch = w],
         \/ msg[id].watch = "pending" /\ w \in {"active", "off"}
         \/ msg[id].watch = "active" /\ w = "off",
         thread[t].pc = "close" => id = thread[t].id,
         UNCHANGED <<scheduled, pending, queue, stop, subscriptions, sent, cancelled, asserts>>
  PROVE  SubscriptionInv'
<1> DEFINE m == [msg[id] EXCEPT !.watch = w]
<1>1. msg[id] \in MessageRec
  BY DEF ServiceInv, ServiceTypes
<1>2. /\ m.watch = w /\ m.kind = msg[id].kind /\ m.slot = msg[id].slot /\ m.held = msg[id].held
      /\ m.subscribed = msg[id].subscribed /\ m.exists = msg[id].exists
  BY <1>1 DEF MessageRec
<1>3. msg' = [msg EXCEPT ![id] = m]
  OBVIOUS
<1> HIDE DEF m
<1>4. msg'[id] = m /\ \A i \in Ids \ {id} : msg'[i] = msg[i]
  BY <1>3 DEF ServiceInv, ServiceTypes
<1>5. InnerStep(t)
  BY <1>2, <1>4 DEF InnerStep, Busy, AtRest
<1>6. SameQueue(id)
  BY <1>5, InnerQueue
<1>7. \A u \in Threads : QuietLinks(u, id)
  <2>1. \A u \in Threads \ {t} : SameLinks(u, id)
    BY <1>2, <1>4, OtherLinks
  <2> QED BY <2>1, RequestQuiet DEF SameLinks, QuietLinks
<1>8. MessageInv(id)'
  <2>1. MessageInv(id)
    BY DEF SubscriptionInv
  <2> QED BY <1>2, <1>4, <1>6, <1>7, <2>1, WatchTurns
<1>9. ASSUME NEW i \in Ids \ {id} PROVE SameLinks(t, i)
  <2>1. ~Reads(t, i)
    BY DEF Reads, Does
  <2> QED BY <2>1, RequestLinks
<1> QED BY <1>4, <1>5, <1>8, <1>9, FocusSubs

\* Close keeps what holds of the subscriptions.
LEMMA CloseSubs == ASSUME ServiceInv, SubscriptionInv, NEW t \in Threads, Close(t) PROVE SubscriptionInv'
<1>0. PICK id \in Ids : id = thread[t].id
  BY Serving DEF Close
<1>1. /\ Busy(t) /\ thread[t].what = "request" /\ thread[t].pc = "close"
      /\ msg[id].watch = "pending" /\ thread[t].back \in {"done", "refuse"}
  BY <1>0, Serving DEF Close, WatchFlow, PutFlow, GetFlow, Firing
<1> DEFINE fires == msg[id].watch = "pending" /\ msg[id].changed
           w == IF fires THEN "off" ELSE "active"
           p == IF fires THEN "unslot" ELSE thread[t].back
<1>2. msg' = [msg EXCEPT ![id].watch = w]
  BY <1>0, <1>1 DEF Close
<1>3. /\ thread'[t].pc = p /\ UNCHANGED <<thread[t].id, thread[t].what>>
      /\ \A u \in Threads \ {t} : thread'[u] = thread[u]
  <2>1. CASE fires
    <3>1. thread' = [thread EXCEPT ![t] = [@ EXCEPT !.pc = "unslot", !.at = id]]
      BY <1>0, <2>1 DEF Close
    <3> QED BY <2>1, <3>1 DEF ServiceInv, ServiceTypes, ThreadRec
  <2>2. CASE ~fires
    <3>1. thread' = [thread EXCEPT ![t] = [@ EXCEPT !.pc = thread[t].back]]
      BY <1>0, <2>2 DEF Close
    <3> QED BY <2>2, <3>1 DEF ServiceInv, ServiceTypes, ThreadRec
  <2> QED BY <2>1, <2>2
<1>4. UNCHANGED <<scheduled, pending, queue, stop, subscriptions, sent, cancelled, asserts>>
  BY DEF Close
<1>5. p \in {"unslot", "done", "refuse"} /\ w \in {"active", "off"}
  BY <1>1
<1> HIDE DEF w, p, fires
<1> QED BY <1>0, <1>1, <1>2, <1>3, <1>4, <1>5, TurnSubs

\* Fire keeps what holds of the subscriptions.
LEMMA FireSubs == ASSUME ServiceInv, SubscriptionInv, NEW t \in Threads, Fire(t) PROVE SubscriptionInv'
<1>0. PICK id \in Ids : id = thread[t].id
  BY Serving DEF Fire
<1>1. /\ Busy(t) /\ thread[t].what = "request" /\ thread[t].pc = "firing"
      /\ \/ msg[id].kind = "put" /\ thread[t].back = "answer"
         \/ msg[id].kind = "watch" /\ thread[t].back \in {"done", "refuse"}
  BY <1>0, Serving DEF Fire, WatchFlow, PutFlow, GetFlow, Firing
<1>2. thread[t].todo \subseteq Ids
  BY DEF ServiceInv, ServiceTypes, ThreadRec
<1>3. UNCHANGED <<scheduled, pending, queue, stop, subscriptions, sent, cancelled, asserts>>
  BY DEF Fire
<1>4. ASSUME NEW i \in Ids, msg[i].watch = "active", msg' = [msg EXCEPT ![i].watch = "off"],
             thread' = [thread EXCEPT ![t] = [@ EXCEPT !.pc = "unslot", !.at = i]]
      PROVE  SubscriptionInv'
  <2>1. /\ thread'[t].pc = "unslot" /\ UNCHANGED <<thread[t].id, thread[t].what>>
        /\ \A u \in Threads \ {t} : thread'[u] = thread[u]
    BY <1>4 DEF ServiceInv, ServiceTypes, ThreadRec
  <2>2. thread[t].pc # "close"
    BY <1>1
  <2> QED BY <1>1, <1>3, <1>4, <2>1, <2>2, TurnSubs
<1>5. ASSUME msg' = msg, thread'[t].pc \in {"firing", "answer", "done", "refuse"},
             UNCHANGED <<thread[t].id, thread[t].what>>,
             \A u \in Threads \ {t} : thread'[u] = thread[u]
      PROVE  SubscriptionInv'
  <2>1. InnerStep(t)
    BY <1>1, <1>3, <1>5 DEF InnerStep, Busy, AtRest
  <2>2. \A i \in Ids : SameMessage(i) /\ SameLinks(t, i)
    <3>1. \A i : ~Reads(t, i)
      BY <1>1 DEF Reads
    <3> QED BY <1>1, <1>3, <1>5, <3>1, RequestLinks DEF SameMessage, SameFields
  <2> QED BY <1>3, <1>5, <2>1, <2>2, InnerAside
<1>6. CASE thread' = [thread EXCEPT ![t].pc = thread[t].back] /\ msg' = msg
  <2>1. /\ thread'[t].pc = thread[t].back /\ UNCHANGED <<thread[t].id, thread[t].what>>
        /\ \A u \in Threads \ {t} : thread'[u] = thread[u]
    BY <1>6 DEF ServiceInv, ServiceTypes, ThreadRec
  <2> QED BY <1>1, <1>5, <1>6, <2>1
<1>7. ASSUME NEW i, thread' = [thread EXCEPT ![t].todo = @ \ {i}], msg' = msg PROVE SubscriptionInv'
  <2>1. /\ thread'[t].pc = thread[t].pc /\ UNCHANGED <<thread[t].id, thread[t].what>>
        /\ \A u \in Threads \ {t} : thread'[u] = thread[u]
    BY <1>7 DEF ServiceInv, ServiceTypes, ThreadRec
  <2> QED BY <1>1, <1>5, <1>7, <2>1
<1> QED BY <1>2, <1>4, <1>6, <1>7 DEF Fire

\* A thread at a watch that fires: its steps concern the watch, and no other
\* thread is there.
LEMMA FiringLinks ==
  ASSUME NEW t, NEW id, UNCHANGED <<thread[t].id, thread[t].what>>, thread[t].what = "request",
         thread[t].pc \in Firing, thread[t].at # id,
         thread'[t].pc \in {"unslotted", "event", "crash", "destroy", "firing"},
         thread'[t].at = thread[t].at \/ thread'[t].pc \in {"crash", "firing"}
  PROVE  SameLinks(t, id)
BY DEF SameLinks, Does, Reads, Ends, Sends, Destroys, Looks, Fires, Notifies, Releases, Firing

\* Only one thread fires a watch.
LEMMA AloneAtWatch ==
  ASSUME ServiceInv, NEW t \in Threads, thread[t].pc \in Firing, NEW id, id = thread[t].at
  PROVE  /\ \A u \in Threads \ {t} : ~Ends(u, id) /\ ~Sends(u, id)
         /\ ~Destroys(t, id) /\ ~Looks(t, id) /\ ~Cancels(t, id) /\ ~Reads(t, id) /\ ~Notifies(t, id)
<1>1. TokenOf(t) /\ thread[t].what = "request"
  BY AtWatch
<1>2. \A u \in Threads \ {t} : ~Ends(u, id) /\ ~Sends(u, id)
  BY <1>1 DEF TokenOf, Ends, Sends, Firing
<1>3. ~Destroys(t, id) /\ ~Looks(t, id) /\ ~Cancels(t, id) /\ ~Reads(t, id) /\ ~Notifies(t, id)
  BY <1>1 DEF Destroys, Looks, Cancels, Fires, Notifies, Releases, Reads, Firing
<1> QED BY <1>2, <1>3

\* The subscription ends, if the slot is still connected.
LEMMA CancelSlotSubs == ASSUME ServiceInv, SubscriptionInv, NEW t \in Threads, CancelSlot(t) PROVE SubscriptionInv'
<1>0. /\ Busy(t) /\ thread[t].what = "request" /\ thread[t].pc = "unslot" /\ thread[t].pc \in Firing
  BY AtWatch DEF CancelSlot, Firing
<1>1. PICK id \in Ids : id = thread[t].at
  BY AtWatch DEF CancelSlot, Firing
<1>2. Goes(t, "unslotted") /\ msg[id].watch = "off"
  BY <1>1, Moves, AtWatch DEF CancelSlot, ServiceInv, Points, Firing
<1>3. PICK m : m = (IF msg[id].slot THEN Unsubscribed(id, msg[id]) ELSE msg[id])
  OBVIOUS
<1>4. msg[id] \in MessageRec
  BY DEF ServiceInv, ServiceTypes
<1>5. /\ m.kind = msg[id].kind /\ m.watch = msg[id].watch /\ m.slot = msg[id].slot
      /\ m.held = msg[id].held /\ m.exists = msg[id].exists
      /\ m.subscribed <=> msg[id].subscribed /\ ~msg[id].slot
      /\ m.subscribed \in BOOLEAN
  BY <1>3, <1>4 DEF MessageRec, Unsubscribed
<1>6. /\ msg' = [msg EXCEPT ![id] = m] /\ Register(id, m)
      /\ UNCHANGED <<scheduled, pending, queue, stop, sent, cancelled>>
  BY <1>1, <1>3 DEF CancelSlot
<1>7. msg'[id] = m /\ \A i \in Ids \ {id} : msg'[i] = msg[i]
  BY <1>6 DEF ServiceInv, ServiceTypes
<1>8. MessageInv(id)
  BY DEF SubscriptionInv
<1>9. msg[id].subscribed /\ ~m.subscribed => id \in subscriptions /\ msg[id].exists
  BY <1>5, <1>8 DEF MessageInv, Listed, Kept
<1>10. asserts' = asserts
  BY <1>5, <1>6, <1>9 DEF Register
<1>11. /\ id \in subscriptions' <=> m.subscribed /\ msg[id].exists
       /\ \A i \in Ids \ {id} : i \in subscriptions' <=> i \in subscriptions
  <2>1. subscriptions' = IF m.subscribed = msg[id].subscribed THEN subscriptions
                         ELSE IF m.subscribed THEN subscriptions \cup {id} ELSE subscriptions \ {id}
    BY <1>6 DEF Register
  <2>2. msg[id].subscribed \in BOOLEAN /\ (id \in subscriptions <=> msg[id].subscribed /\ msg[id].exists)
    BY <1>4, <1>8 DEF MessageRec, MessageInv, Listed
  <2>3. CASE m.subscribed = msg[id].subscribed
    BY <2>1, <2>2, <2>3
  <2>4. CASE m.subscribed # msg[id].subscribed
    <3>1. ~m.subscribed /\ msg[id].subscribed
      BY <1>5, <2>2, <2>4
    <3> QED BY <2>1, <2>4, <3>1
  <2> QED BY <2>3, <2>4
<1>12. InnerStep(t) /\ SameQueue(id)
  <2>1. InnerStep(t)
    BY <1>0, <1>2, <1>5, <1>6, <1>7 DEF InnerStep, Goes, Busy, AtRest
  <2> QED BY <1>6, <2>1, InnerQueue
<1>13. \A u \in Threads \ {t} : SameLinks(u, id) /\ ~Ends(u, id)
  BY <1>0, <1>1, <1>2, <1>5, <1>7, OtherLinks, AloneAtWatch DEF Goes
<1>14. /\ Does(t, id)' <=> Does(t, id)
       /\ ~Sends(t, id)' /\ ~Destroys(t, id)' /\ ~Looks(t, id)' /\ ~Cancels(t, id)' /\ ~Notifies(t, id)' /\ ~Fires(t, id)'
       /\ ~Sends(t, id) /\ ~Destroys(t, id) /\ ~Looks(t, id) /\ ~Cancels(t, id) /\ ~Notifies(t, id) /\ ~Fires(t, id)
  BY <1>0, <1>2 DEF Goes, Does, Sends, Destroys, Looks, Cancels, Fires, Notifies, Releases
<1>15. /\ \A u \in Threads : /\ Does(u, id)' <=> Does(u, id)
                             /\ Sends(u, id)' <=> Sends(u, id)
                             /\ Destroys(u, id)' <=> Destroys(u, id)
                             /\ Looks(u, id)' <=> Looks(u, id)
                             /\ Notifies(u, id)' <=> Notifies(u, id)
                             /\ Fires(u, id)' <=> Fires(u, id)
                             /\ Cancels(u, id)' <=> Cancels(u, id)
       /\ LookedUp(id)' <=> LookedUp(id)
  BY <1>12, <1>13, <1>14 DEF SameLinks, Cancels, LookedUp, SameQueue
<1>16. Failed(id)' <=> Failed(id)
  BY <1>6 DEF Failed
<1>17. Listed(id)'
  BY <1>5, <1>7, <1>11 DEF Listed
<1>18. Kept(id)'
  BY <1>5, <1>7, <1>8, <1>12, <1>15 DEF MessageInv, Kept, SameQueue
<1>19. Reclaimed(id)'
  BY <1>5, <1>7, <1>8, <1>12, <1>15 DEF MessageInv, Reclaimed, SameQueue
<1>20. DestroyedOnce(id)'
  BY <1>5, <1>7, <1>8, <1>15, <1>16 DEF MessageInv, DestroyedOnce
<1>21. EndedBefore(id)'
  BY <1>2, <1>5, <1>6, <1>7, <1>8, <1>15, <1>16 DEF MessageInv, EndedBefore
<1>22. Watched(id)'
  BY <1>2, <1>5, <1>7 DEF Watched
<1>23. CancelEnds(id)'
  BY <1>2, <1>5, <1>6, <1>7, <1>8, <1>12, <1>15 DEF MessageInv, CancelEnds, SameQueue
<1>24. MessageInv(id)'
  BY <1>17, <1>18, <1>19, <1>20, <1>21, <1>22, <1>23 DEF MessageInv
<1>25. \A i \in Ids \ {id} : SameLinks(t, i)
  BY <1>0, <1>1, <1>2, FiringLinks DEF Goes
<1> QED BY <1>2, <1>6, <1>7, <1>10, <1>11, <1>12, <1>24, <1>25, FocusSubs DEF Goes

\* handleWatch() takes the message from the Watcher.
LEMMA TakeMessageSubs == ASSUME ServiceInv, SubscriptionInv, NEW t \in Threads, TakeMessage(t) PROVE SubscriptionInv'
<1>0. /\ Busy(t) /\ thread[t].what = "request" /\ thread[t].pc = "unslotted" /\ thread[t].pc \in Firing
  BY AtWatch DEF TakeMessage, Firing
<1>1. PICK id \in Ids : id = thread[t].at
  BY AtWatch DEF TakeMessage, Firing
<1> DEFINE p == IF msg[id].held THEN "event" ELSE "crash"
           m == [msg[id] EXCEPT !.slot = FALSE, !.held = FALSE]
<1>2. Goes(t, p) /\ msg[id].watch = "off"
  BY <1>1, Moves, AtWatch DEF TakeMessage, ServiceInv, Points, Firing
<1>3. p \in {"event", "crash"} /\ (p = "event" <=> msg[id].held)
  OBVIOUS
<1>4. msg[id] \in MessageRec
  BY DEF ServiceInv, ServiceTypes
<1>5. /\ m.kind = msg[id].kind /\ m.watch = msg[id].watch /\ ~m.slot /\ ~m.held
      /\ m.exists = msg[id].exists /\ m.subscribed = msg[id].subscribed
  BY <1>4 DEF MessageRec
<1>6. /\ msg' = [msg EXCEPT ![id] = m]
      /\ UNCHANGED <<scheduled, pending, queue, stop, subscriptions, sent, cancelled, asserts>>
  BY <1>1 DEF TakeMessage
<1> HIDE DEF m, p
<1>7. msg'[id] = m /\ \A i \in Ids \ {id} : msg'[i] = msg[i]
  BY <1>6 DEF ServiceInv, ServiceTypes
<1>8. MessageInv(id) /\ Ends(t, id)
  BY <1>0, <1>1 DEF SubscriptionInv, Ends
<1>9. InnerStep(t) /\ SameQueue(id)
  <2>1. InnerStep(t)
    BY <1>0, <1>2, <1>3, <1>5, <1>6, <1>7 DEF InnerStep, Goes, Busy, AtRest
  <2> QED BY <1>6, <2>1, InnerQueue
<1>10. \A u \in Threads \ {t} : SameLinks(u, id) /\ ~Ends(u, id) /\ ~Sends(u, id)
  BY <1>0, <1>1, <1>2, <1>5, <1>7, OtherLinks, AloneAtWatch DEF Goes
<1>11. /\ Does(t, id)' <=> Does(t, id)
       /\ Sends(t, id)' <=> msg[id].held
       /\ ~Ends(t, id)' /\ ~Destroys(t, id)' /\ ~Looks(t, id)' /\ ~Cancels(t, id)' /\ ~Notifies(t, id)' /\ ~Fires(t, id)'
       /\ ~Sends(t, id) /\ ~Destroys(t, id) /\ ~Looks(t, id) /\ ~Cancels(t, id) /\ ~Notifies(t, id) /\ ~Fires(t, id)
  BY <1>0, <1>1, <1>2, <1>3 DEF Goes, Does, Sends, Ends, Destroys, Looks, Cancels, Fires, Notifies, Releases
<1>12. /\ \A u \in Threads : /\ Does(u, id)' <=> Does(u, id)
                             /\ Destroys(u, id)' <=> Destroys(u, id)
                             /\ Looks(u, id)' <=> Looks(u, id)
                             /\ Notifies(u, id)' <=> Notifies(u, id)
                             /\ Fires(u, id)' <=> Fires(u, id)
                             /\ Cancels(u, id)' <=> Cancels(u, id)
                             /\ ~Ends(u, id)'
                             /\ Sends(u, id)' <=> u = t /\ msg[id].held
                             /\ ~Sends(u, id)
       /\ LookedUp(id)' <=> LookedUp(id)
  BY <1>9, <1>10, <1>11 DEF SameLinks, Cancels, LookedUp, SameQueue
<1>13. Failed(id)' <=> Failed(id)
  BY <1>6 DEF Failed
<1>14. Listed(id)'
  BY <1>5, <1>6, <1>7, <1>8 DEF MessageInv, Listed
<1>15. Kept(id)'
  BY <1>5, <1>7, <1>8, <1>9, <1>12 DEF MessageInv, Kept, SameQueue
<1>16. Reclaimed(id)'
  BY <1>5, <1>7, <1>8, <1>9, <1>12 DEF MessageInv, Reclaimed, SameQueue
<1>17. DestroyedOnce(id)'
  BY <1>5, <1>7, <1>8, <1>12, <1>13 DEF MessageInv, DestroyedOnce
<1>18. EndedBefore(id)'
  BY <1>2, <1>5, <1>6, <1>7, <1>8, <1>12, <1>13 DEF MessageInv, EndedBefore
<1>19. Watched(id)'
  BY <1>2, <1>5, <1>7 DEF Watched
<1>20. CancelEnds(id)'
  BY <1>2, <1>5, <1>6, <1>7, <1>8, <1>9, <1>12 DEF MessageInv, CancelEnds, SameQueue
<1>21. MessageInv(id)'
  BY <1>14, <1>15, <1>16, <1>17, <1>18, <1>19, <1>20 DEF MessageInv
<1>22. \A i \in Ids \ {id} : SameLinks(t, i)
  BY <1>0, <1>1, <1>2, <1>3, FiringLinks DEF Goes
<1>23. thread'[t].pc # "destroy"
  BY <1>2, <1>3 DEF Goes
<1> QED BY <1>6, <1>7, <1>9, <1>21, <1>22, <1>23, FocusSubs

\* The event is sent; the message goes with the last reference to it.
LEMMA SendFiredSubs == ASSUME ServiceInv, SubscriptionInv, NEW t \in Threads, SendFired(t) PROVE SubscriptionInv'
<1>0. /\ Busy(t) /\ thread[t].what = "request" /\ thread[t].pc = "event" /\ thread[t].pc \in Firing
  BY AtWatch DEF SendFired, Firing
<1>1. PICK id \in Ids : id = thread[t].at
  BY AtWatch DEF SendFired, Firing
<1>2. msg[id].watch = "off" /\ msg[id].kind = "watch"
  BY <1>0, <1>1, AtWatch
<1>3. PICK last : last = (IsLast(t, id) /\ thread[t].id # id)
  OBVIOUS
<1>4. /\ thread'[t].pc = (IF last THEN "destroy" ELSE "firing")
      /\ thread'[t].at = (IF last THEN id ELSE Nil)
      /\ UNCHANGED <<thread[t].id, thread[t].what>>
      /\ \A u \in Threads \ {t} : thread'[u] = thread[u]
  <2> DEFINE p == IF last THEN "destroy" ELSE "firing"
             a == IF last THEN id ELSE Nil
             rest == thread[t].todo \ {id}
  <2>1. thread' = [thread EXCEPT ![t] = [@ EXCEPT !.pc = p, !.at = a, !.todo = rest]]
    BY <1>1, <1>3 DEF SendFired
  <2> HIDE DEF p, a, rest
  <2>2. thread'[t].pc = p /\ thread'[t].at = a /\ UNCHANGED <<thread[t].id, thread[t].what>>
        /\ \A u \in Threads \ {t} : thread'[u] = thread[u]
    BY <2>1 DEF ServiceInv, ServiceTypes, ThreadRec
  <2> QED BY <2>2 DEF p, a
<1>5. MessageInv(id) /\ Sends(t, id) /\ msg[id].exists
  BY <1>0, <1>1 DEF SubscriptionInv, MessageInv, Kept, Sends
<1>6. Send(id, "fired") /\ UNCHANGED <<scheduled, pending, queue, stop, cancelled>>
  BY <1>1 DEF SendFired
<1>7. /\ asserts' = asserts
      /\ \A i \in Ids \ {id} : SameMessage(i)
      /\ msg'[id].kind = msg[id].kind /\ msg'[id].slot = msg[id].slot /\ msg'[id].held = msg[id].held
      /\ msg'[id].exists = msg[id].exists /\ msg'[id].watch = msg[id].watch
      /\ msg'[id].subscribed <=> \/ msg[id].subscribed /\ (sent[id] # <<>> \/ msg[id].slot)
                                 \/ sent[id] = <<>> /\ msg[id].slot
      /\ Listed(id)' /\ sent'[id] # <<>>
      /\ \A i \in Ids : Failed(i) => Failed(i)'
  BY <1>5, <1>6, SendMessage
<1>8. InnerStep(t) /\ SameQueue(id)
  <2>1. \A i \in Ids : msg'[i].kind = msg[i].kind
    BY <1>7 DEF SameMessage, SameFields
  <2>2. InnerStep(t)
    BY <1>0, <1>4, <1>6, <2>1 DEF InnerStep, Busy, AtRest
  <2> QED BY <1>6, <2>2, InnerQueue
<1>9. \A u \in Threads \ {t} : SameLinks(u, id) /\ ~Ends(u, id) /\ ~Sends(u, id)
  BY <1>0, <1>1, <1>4, <1>7, OtherLinks, AloneAtWatch
<1>10. /\ Does(t, id)' <=> Does(t, id)
       /\ Does(t, id) <=> thread[t].id = id
       /\ Destroys(t, id)' <=> last
       /\ ~Ends(t, id)' /\ ~Sends(t, id)' /\ ~Looks(t, id)' /\ ~Cancels(t, id)' /\ ~Notifies(t, id)' /\ ~Fires(t, id)'
       /\ ~Destroys(t, id) /\ ~Looks(t, id) /\ ~Cancels(t, id) /\ ~Notifies(t, id) /\ ~Fires(t, id) /\ ~Reads(t, id)
  BY <1>0, <1>1, <1>3, <1>4 DEF Does, Reads, Sends, Ends, Destroys, Looks, Cancels, Fires, Notifies, Releases, IsLast
<1>11. /\ \A u \in Threads : /\ Does(u, id)' <=> Does(u, id)
                             /\ Looks(u, id)' <=> Looks(u, id)
                             /\ Notifies(u, id)' <=> Notifies(u, id)
                             /\ Fires(u, id)' <=> Fires(u, id)
                             /\ Cancels(u, id)' <=> Cancels(u, id)
                             /\ Reads(u, id) => Reads(u, id)'
                             /\ ~Ends(u, id)' /\ ~Sends(u, id)'
                             /\ ~Destroys(u, id)
                             /\ Destroys(u, id)' <=> u = t /\ last
       /\ LookedUp(id)' <=> LookedUp(id)
  <2>1. \A u \in Threads : ~Destroys(u, id)
    BY <1>5 DEF MessageInv, Kept
  <2> QED BY <1>8, <1>9, <1>10, <2>1 DEF SameLinks, Cancels, LookedUp, SameQueue
<1>12. last => /\ ~msg[id].held /\ ~Waiting(id)
               /\ \A u \in Threads : ~Does(u, id) /\ ~Cancels(u, id)
  BY <1>3, <1>10, LastLinks DEF SubscriptionInv
<1>13. ~last => msg[id].held \/ Waiting(id) \/ \E u \in Threads : Does(u, id) \/ Cancels(u, id)
  BY <1>3, <1>9, <1>10, LastLinks DEF SubscriptionInv
<1>14. EndedBefore(id)' /\ Watched(id)'
  <2> DEFINE what == "fired"
  <2>1. what # "error"
    OBVIOUS
  <2> HIDE DEF what
  <2>2. /\ what = "error" => Failed(id)'
        /\ what = "error" \/ \A u \in Threads : ~Ends(u, id)'
        /\ Failed(id) => Failed(id)'
        /\ \A u \in Threads : /\ Reads(u, id) => Reads(u, id)'
                              /\ Notifies(u, id)' <=> Notifies(u, id)
                              /\ Looks(u, id)' <=> Looks(u, id)
    BY <1>7, <1>11, <2>1
  <2> QED BY <1>5, <1>7, <1>8, <2>2, RepliedInv
<1>15. Kept(id)'
  <2>1. msg[id].kind # Nil
    BY <1>2, NilAssumption
  <2> QED BY <1>5, <1>7, <1>8, <1>11, <1>12, <2>1 DEF MessageInv, Kept, SameQueue
<1>16. Reclaimed(id)'
  BY <1>8, <1>11, <1>13, <1>7 DEF Reclaimed, SameQueue
<1>17. DestroyedOnce(id)'
  BY <1>5, <1>7, <1>11, <1>12 DEF MessageInv, DestroyedOnce
<1>18. CancelEnds(id)'
  BY <1>2, <1>5, <1>6, <1>7, <1>8, <1>11 DEF MessageInv, CancelEnds, SameQueue
<1>19. MessageInv(id)'
  BY <1>7, <1>14, <1>15, <1>16, <1>17, <1>18 DEF MessageInv
<1>20. \A i \in Ids \ {id} : SameLinks(t, i)
  BY <1>0, <1>1, <1>4, FiringLinks
<1>21. thread'[t].pc = "destroy" => thread'[t].at \in Ids
  BY <1>4
<1> QED BY <1>6, <1>7, <1>8, <1>19, <1>20, <1>21, InnerSubscriptions

-----------------------------------------------------------------------------
(* Watches that are cancelled, and subscriptions *)

\* The steps of a thread that carries out a cancel concern its message only.
LEMMA CancelLinks ==
  ASSUME NEW t, NEW id, UNCHANGED <<thread[t].id, thread[t].what>>, thread[t].what = "cancel",
         thread[t].id # id,
         thread[t].pc \in {"cancel", "fire", "notify", "release"},
         thread'[t].pc \in {"fire", "notify", "release", "done", "destroy"},
         thread'[t].pc = "destroy" => thread'[t].at # id
  PROVE  SameLinks(t, id)
BY DEF SameLinks, Does, Reads, Ends, Sends, Destroys, Looks, Fires, Notifies, Releases

\* What such a thread has to do with its own message is told by its point.
LEMMA OwnLinks ==
  ASSUME NEW t, NEW id, UNCHANGED <<thread[t].id, thread[t].what>>, thread[t].what = "cancel", thread[t].id = id,
         thread[t].pc \in {"cancel", "fire", "notify", "release"},
         thread'[t].pc \in {"fire", "notify", "release", "done", "destroy"}
  PROVE  /\ ~Does(t, id) /\ ~Reads(t, id) /\ ~Ends(t, id) /\ ~Sends(t, id) /\ ~Destroys(t, id)
         /\ Looks(t, id) <=> thread[t].pc = "cancel"
         /\ Fires(t, id) <=> thread[t].pc = "fire"
         /\ Notifies(t, id) <=> thread[t].pc = "notify"
         /\ Cancels(t, id) <=> thread[t].pc \in {"fire", "notify", "release"}
         /\ ~Does(t, id)' /\ ~Reads(t, id)' /\ ~Ends(t, id)' /\ ~Sends(t, id)' /\ ~Looks(t, id)'
         /\ Destroys(t, id)' <=> thread'[t].pc = "destroy" /\ thread'[t].at = id
         /\ Fires(t, id)' <=> thread'[t].pc = "fire"
         /\ Notifies(t, id)' <=> thread'[t].pc = "notify"
         /\ Cancels(t, id)' <=> thread'[t].pc \in {"fire", "notify", "release"}
BY DEF Does, Reads, Ends, Sends, Destroys, Looks, Fires, Notifies, Releases, Cancels

\* Its message was taken from the queue after the request had been served.
LEMMA OwnMessage ==
  ASSUME ServiceInv, SubscriptionInv, NEW t \in Threads, NEW id \in Ids, Busy(t), thread[t].id = id, thread[t].what = "cancel"
  PROVE  /\ MessageInv(id) /\ Taken(id) /\ id \in cancelled /\ msg[id].kind = "watch"
         /\ ~Waiting(id) /\ Arrived(id)
         /\ \A u \in Threads : ~Does(u, id) /\ ~Reads(u, id)
         /\ \A u \in Threads \ {t} : ~Looks(u, id) /\ ~Cancels(u, id) /\ ~Fires(u, id) /\ ~Notifies(u, id)
<1>1. MessageInv(id) /\ Taken(id)
  BY DEF SubscriptionInv, Drained
<1>2. id \in cancelled
  BY <1>1 DEF Taken
<1>3. ~Waiting(id) /\ \A u \in Threads : ~Does(u, id)
  BY <1>1 DEF MessageInv, CancelEnds
<1>4. msg[id].kind = "watch" /\ Arrived(id)
  BY <1>1, <1>2, NilAssumption DEF MessageInv, CancelEnds, Arrived
<1>5. \A u \in Threads \ {t} : ~Looks(u, id) /\ ~Cancels(u, id) /\ ~Fires(u, id) /\ ~Notifies(u, id)
  BY OneAtWork DEF SubscriptionInv
<1> QED BY <1>1, <1>2, <1>3, <1>4, <1>5 DEF Reads

\* dispatchCancel() finds the message only while somebody holds it: one that
\* is about to be destroyed is not subscribed.
LEMMA LookUpSubs == ASSUME ServiceInv, SubscriptionInv, NEW t \in Threads, LookUp(t) PROVE SubscriptionInv'
<1>0. Busy(t) /\ thread[t].what = "cancel" /\ thread[t].pc = "cancel"
  BY Cancelling DEF LookUp
<1>1. PICK id \in Ids : id = thread[t].id
  BY Cancelling DEF LookUp
<1> DEFINE p == IF id \in subscriptions THEN "fire" ELSE "done"
<1>2. Goes(t, p)
  BY <1>1, Moves DEF LookUp, ServiceInv, Points
<1>3. p \in {"fire", "done"} /\ (p = "fire" <=> id \in subscriptions)
  OBVIOUS
<1> HIDE DEF p
<1>4. /\ UNCHANGED <<scheduled, pending, queue, stop, msg, subscriptions, sent, cancelled>>
      /\ asserts' = IF id \in subscriptions /\ ~Held(id) THEN asserts \cup {<<id, "used when freed">>} ELSE asserts
  BY <1>1 DEF LookUp
<1>5. /\ MessageInv(id) /\ Taken(id) /\ id \in cancelled /\ msg[id].kind = "watch"
      /\ ~Waiting(id) /\ Arrived(id)
      /\ \A u \in Threads : ~Does(u, id) /\ ~Reads(u, id)
      /\ \A u \in Threads \ {t} : ~Looks(u, id) /\ ~Cancels(u, id) /\ ~Fires(u, id) /\ ~Notifies(u, id)
  BY <1>0, <1>1, OwnMessage
<1>6. InnerStep(t) /\ SameQueue(id)
  <2>1. InnerStep(t)
    BY <1>0, <1>2, <1>3, <1>4 DEF InnerStep, Busy, AtRest, Goes
  <2> QED BY <1>4, <2>1, InnerQueue
<1>7. \A u \in Threads \ {t} : SameLinks(u, id)
  BY <1>2, <1>4, OtherLinks DEF Goes
<1>8. /\ ~Does(t, id) /\ ~Reads(t, id) /\ ~Ends(t, id) /\ ~Sends(t, id) /\ ~Destroys(t, id)
      /\ ~Does(t, id)' /\ ~Reads(t, id)' /\ ~Ends(t, id)' /\ ~Sends(t, id)' /\ ~Looks(t, id)' /\ ~Destroys(t, id)'
      /\ Looks(t, id) /\ ~Cancels(t, id) /\ ~Notifies(t, id) /\ ~Notifies(t, id)'
      /\ Fires(t, id)' <=> id \in subscriptions
      /\ Cancels(t, id)' <=> id \in subscriptions
  BY <1>0, <1>1, <1>2, <1>3, OwnLinks DEF Goes
<1>9. /\ \A u \in Threads : /\ ~Does(u, id)'
                            /\ Sends(u, id)' <=> Sends(u, id)
                            /\ Ends(u, id)' <=> Ends(u, id)
                            /\ Destroys(u, id)' <=> Destroys(u, id)
                            /\ ~Notifies(u, id) /\ ~Notifies(u, id)' /\ ~Cancels(u, id)
                            /\ Cancels(u, id)' <=> u = t /\ id \in subscriptions
      /\ LookedUp(id)' /\ ~LookedUp(id)
  BY <1>5, <1>6, <1>7, <1>8 DEF SameLinks, Cancels, LookedUp, SameQueue
<1>10. Failed(id)' <=> Failed(id)
  BY <1>4 DEF Failed
\* What is to be destroyed is not subscribed, as it was not looked up.
<1>11. ASSUME ~Failed(id), NEW u \in Threads, Destroys(u, id) PROVE id \notin subscriptions
  <2>1. ~msg[id].held /\ ~msg[id].slot
    BY <1>5, <1>11 DEF MessageInv, Kept
  <2>2. sent[id] # <<>>
    <3>1. OrderOf(id)
      BY DEF ServiceInv, OrderInv
    <3> QED BY <1>5, <3>1 DEF OrderOf, Serves, Does
  <2>3. ~msg[id].subscribed
    BY <1>5, <1>9, <1>11, <2>1, <2>2 DEF MessageInv, EndedBefore
  <2> QED BY <1>5, <2>3 DEF MessageInv, Listed
<1>12. id \in subscriptions => Held(id) \/ Failed(id)
  <2> SUFFICES ASSUME id \in subscriptions, ~Failed(id), ~Held(id) PROVE FALSE
    OBVIOUS
  <2>1. ~msg[id].held /\ \A u \in Threads : ~Does(u, id) /\ ~Sends(u, id) /\ ~Cancels(u, id)
    BY HoldsLinks DEF Held, SubscriptionInv
  <2>2. msg[id].exists
    BY <1>5 DEF MessageInv, Listed
  <2>3. \E u \in Threads : Destroys(u, id)
    BY <1>5, <2>1, <2>2 DEF MessageInv, Reclaimed
  <2> QED BY <1>11, <2>3
<1>13. \A a \in asserts' : a \in asserts \/ (a[1] \in Ids /\ Failed(a[1])')
  <2> SUFFICES ASSUME NEW a \in asserts', a \notin asserts PROVE a[1] \in Ids /\ Failed(a[1])'
    OBVIOUS
  <2>1. a = <<id, "used when freed">> /\ id \in subscriptions /\ ~Held(id)
    BY <1>4
  <2>2. a[1] = id
    BY <2>1
  <2> QED BY <1>10, <1>12, <2>1, <2>2
<1>14. Listed(id)'
  BY <1>4, <1>5 DEF MessageInv, Listed
<1>15. Kept(id)'
  BY <1>4, <1>5, <1>6, <1>9 DEF MessageInv, Kept, SameQueue
<1>16. Reclaimed(id)'
  BY <1>4, <1>5, <1>6, <1>9 DEF MessageInv, Reclaimed, SameQueue
<1>17. DestroyedOnce(id)'
  <2> SUFFICES ASSUME ~Failed(id), NEW u \in Threads
               PROVE  /\ Cancels(u, id)' => msg'[id].exists
                      /\ Destroys(u, id)' => /\ msg'[id].exists
                                             /\ \A v \in Threads : ~Cancels(v, id)' /\ (Destroys(v, id)' => v = u)
    BY <1>10 DEF DestroyedOnce
  <2>1. Cancels(u, id)' => msg'[id].exists
    BY <1>4, <1>5, <1>9 DEF MessageInv, Listed
  <2>2. Destroys(u, id) => msg[id].exists /\ \A v \in Threads : Destroys(v, id) => v = u
    BY <1>5 DEF MessageInv, DestroyedOnce
  <2>3. Destroys(u, id) => \A v \in Threads : ~Cancels(v, id)'
    BY <1>9, <1>11
  <2> QED BY <1>4, <1>9, <2>1, <2>2, <2>3
<1>18. EndedBefore(id)'
  BY <1>9 DEF EndedBefore
<1>19. Watched(id)'
  <2>1. msg[id].watch # "pending"
    BY <1>5 DEF MessageInv, Watched
  <2> QED BY <1>4, <1>5, <1>9, <2>1 DEF MessageInv, Watched
<1>20. CancelEnds(id)'
  <2>1. id \notin subscriptions => msg[id].watch \notin {"pending", "active"}
    <3>1. msg[id].watch # "pending"
      BY <1>5 DEF MessageInv, Watched
    <3>2. msg[id].watch = "active" => msg[id].slot /\ msg[id].subscribed
      BY <1>5, <1>9 DEF MessageInv, Watched
    <3>3. msg[id].slot => msg[id].exists
      BY <1>5 DEF MessageInv, Kept
    <3> QED BY <1>5, <3>1, <3>2, <3>3 DEF MessageInv, Listed
  <2> QED BY <1>4, <1>5, <1>6, <1>8, <1>9, <2>1 DEF MessageInv, CancelEnds, SameQueue
<1>21. MessageInv(id)'
  BY <1>14, <1>15, <1>16, <1>17, <1>18, <1>19, <1>20 DEF MessageInv
<1>22. \A i \in Ids \ {id} : SameMessage(i) /\ SameLinks(t, i)
  BY <1>0, <1>1, <1>2, <1>3, <1>4, CancelLinks DEF SameMessage, SameFields, Goes
<1>23. \A i \in Ids : Failed(i) => Failed(i)'
  BY <1>4 DEF Failed
<1>24. thread'[t].pc # "destroy"
  BY <1>2, <1>3 DEF Goes
<1> QED BY <1>4, <1>6, <1>13, <1>21, <1>22, <1>23, <1>24, InnerSubscriptions

\* m_cancelSignal.fire() disconnects the slot of a watch that is looked up.
LEMMA FireCancelSubs == ASSUME ServiceInv, SubscriptionInv, NEW t \in Threads, FireCancel(t) PROVE SubscriptionInv'
<1>0. Busy(t) /\ thread[t].what = "cancel" /\ thread[t].pc = "fire"
  BY Cancelling DEF FireCancel
<1>1. PICK id \in Ids : id = thread[t].id
  BY Cancelling DEF FireCancel
<1> DEFINE p == IF msg[id].slot THEN "notify" ELSE "release"
           m == [msg[id] EXCEPT !.slot = FALSE]
<1>2. Goes(t, p)
  BY <1>1, Moves DEF FireCancel, ServiceInv, Points
<1>3. p \in {"notify", "release"} /\ (p = "notify" <=> msg[id].slot)
  OBVIOUS
<1>4. msg[id] \in MessageRec
  BY DEF ServiceInv, ServiceTypes
<1>5. /\ m.kind = msg[id].kind /\ m.watch = msg[id].watch /\ ~m.slot /\ m.held = msg[id].held
      /\ m.exists = msg[id].exists /\ m.subscribed = msg[id].subscribed
  BY <1>4 DEF MessageRec
<1>6. /\ msg' = [msg EXCEPT ![id] = m]
      /\ UNCHANGED <<scheduled, pending, queue, stop, subscriptions, sent, cancelled, asserts>>
  BY <1>1 DEF FireCancel
<1> HIDE DEF m, p
<1>7. msg'[id] = m /\ \A i \in Ids \ {id} : msg'[i] = msg[i]
  BY <1>6 DEF ServiceInv, ServiceTypes
<1>8. /\ MessageInv(id) /\ Taken(id) /\ msg[id].kind = "watch" /\ ~Waiting(id)
      /\ \A u \in Threads : ~Does(u, id) /\ ~Reads(u, id)
      /\ \A u \in Threads \ {t} : ~Looks(u, id) /\ ~Cancels(u, id) /\ ~Fires(u, id) /\ ~Notifies(u, id)
  BY <1>0, <1>1, OwnMessage
<1>9. InnerStep(t) /\ SameQueue(id)
  <2>1. InnerStep(t)
    BY <1>0, <1>2, <1>3, <1>5, <1>6, <1>7 DEF InnerStep, Goes, Busy, AtRest
  <2> QED BY <1>6, <2>1, InnerQueue
<1>10. \A u \in Threads \ {t} : SameLinks(u, id)
  BY <1>2, <1>5, <1>7, OtherLinks DEF Goes
<1>11. /\ ~Does(t, id) /\ ~Reads(t, id) /\ ~Ends(t, id) /\ ~Sends(t, id) /\ ~Destroys(t, id)
       /\ ~Does(t, id)' /\ ~Reads(t, id)' /\ ~Ends(t, id)' /\ ~Sends(t, id)' /\ ~Looks(t, id)' /\ ~Destroys(t, id)'
       /\ ~Looks(t, id) /\ Cancels(t, id) /\ Cancels(t, id)' /\ ~Notifies(t, id)
       /\ Notifies(t, id)' <=> msg[id].slot
  BY <1>0, <1>1, <1>2, <1>3, OwnLinks DEF Goes
<1>12. /\ \A u \in Threads : /\ ~Does(u, id)'
                             /\ Sends(u, id)' <=> Sends(u, id)
                             /\ Destroys(u, id)' <=> Destroys(u, id)
                             /\ ~Notifies(u, id)
                             /\ Notifies(u, id)' <=> u = t /\ msg[id].slot
                             /\ Cancels(u, id)' <=> Cancels(u, id)
       /\ LookedUp(id)' /\ LookedUp(id)
  BY <1>8, <1>9, <1>10, <1>11 DEF SameLinks, Cancels, LookedUp, SameQueue
<1>13. Failed(id)' <=> Failed(id)
  BY <1>6 DEF Failed
<1>14. Listed(id)'
  BY <1>5, <1>6, <1>7, <1>8 DEF MessageInv, Listed
<1>15. Kept(id)'
  BY <1>5, <1>7, <1>8, <1>9, <1>12 DEF MessageInv, Kept, SameQueue
<1>16. Reclaimed(id)'
  BY <1>11 DEF Reclaimed
<1>17. DestroyedOnce(id)'
  BY <1>5, <1>7, <1>8, <1>12, <1>13 DEF MessageInv, DestroyedOnce
<1>18. EndedBefore(id)'
  BY <1>12 DEF EndedBefore
<1>19. Watched(id)'
  BY <1>5, <1>6, <1>7, <1>8, <1>12 DEF MessageInv, Watched
<1>20. CancelEnds(id)'
  <2>1. \/ msg[id].watch \notin {"pending", "active"}
        \/ msg[id].slot
    BY <1>8, <1>12 DEF MessageInv, Watched
  <2> QED BY <1>5, <1>6, <1>7, <1>8, <1>9, <1>12, <2>1 DEF MessageInv, CancelEnds, SameQueue
<1>21. MessageInv(id)'
  BY <1>14, <1>15, <1>16, <1>17, <1>18, <1>19, <1>20 DEF MessageInv
<1>22. \A i \in Ids \ {id} : SameLinks(t, i)
  BY <1>0, <1>1, <1>2, <1>3, CancelLinks DEF Goes
<1>23. thread'[t].pc # "destroy"
  BY <1>2, <1>3 DEF Goes
<1> QED BY <1>6, <1>7, <1>9, <1>21, <1>22, <1>23, FocusSubs

\* Watcher::handleCancel() turns the watch off and lets the message go.
LEMMA WatcherCancelSubs == ASSUME ServiceInv, SubscriptionInv, NEW t \in Threads, WatcherCancel(t) PROVE SubscriptionInv'
<1>0. Busy(t) /\ thread[t].what = "cancel" /\ thread[t].pc = "notify"
  BY Cancelling DEF WatcherCancel
<1>1. PICK id \in Ids : id = thread[t].id
  BY Cancelling DEF WatcherCancel
<1> DEFINE m == [msg[id] EXCEPT !.held = FALSE, !.watch = "off"]
<1>2. Goes(t, "release")
  BY <1>1, Moves DEF WatcherCancel, ServiceInv, Points
<1>4. msg[id] \in MessageRec
  BY DEF ServiceInv, ServiceTypes
<1>5. /\ m.kind = msg[id].kind /\ m.watch = "off" /\ m.slot = msg[id].slot /\ ~m.held
      /\ m.exists = msg[id].exists /\ m.subscribed = msg[id].subscribed
  BY <1>4 DEF MessageRec
<1>6. /\ msg' = [msg EXCEPT ![id] = m]
      /\ UNCHANGED <<scheduled, pending, queue, stop, subscriptions, sent, cancelled, asserts>>
  BY <1>1 DEF WatcherCancel
<1> HIDE DEF m
<1>7. msg'[id] = m /\ \A i \in Ids \ {id} : msg'[i] = msg[i]
  BY <1>6 DEF ServiceInv, ServiceTypes
<1>8. /\ MessageInv(id) /\ Taken(id) /\ msg[id].kind = "watch" /\ ~Waiting(id)
      /\ \A u \in Threads : ~Does(u, id) /\ ~Reads(u, id)
      /\ \A u \in Threads \ {t} : ~Looks(u, id) /\ ~Cancels(u, id) /\ ~Fires(u, id) /\ ~Notifies(u, id)
  BY <1>0, <1>1, OwnMessage
<1>9. InnerStep(t) /\ SameQueue(id)
  <2>1. InnerStep(t)
    BY <1>0, <1>2, <1>5, <1>6, <1>7 DEF InnerStep, Goes, Busy, AtRest
  <2> QED BY <1>6, <2>1, InnerQueue
<1>10. \A u \in Threads \ {t} : SameLinks(u, id)
  BY <1>2, <1>5, <1>7, OtherLinks DEF Goes
<1>11. /\ ~Does(t, id) /\ ~Reads(t, id) /\ ~Ends(t, id) /\ ~Sends(t, id) /\ ~Destroys(t, id)
       /\ ~Does(t, id)' /\ ~Reads(t, id)' /\ ~Ends(t, id)' /\ ~Sends(t, id)' /\ ~Looks(t, id)' /\ ~Destroys(t, id)'
       /\ ~Looks(t, id) /\ Cancels(t, id) /\ Cancels(t, id)' /\ Notifies(t, id) /\ ~Notifies(t, id)'
  BY <1>0, <1>1, <1>2, OwnLinks DEF Goes
<1>12. /\ \A u \in Threads : /\ ~Does(u, id)'
                             /\ Sends(u, id)' <=> Sends(u, id)
                             /\ Destroys(u, id)' <=> Destroys(u, id)
                             /\ ~Notifies(u, id)'
                             /\ Cancels(u, id)' <=> Cancels(u, id)
       /\ LookedUp(id)' /\ LookedUp(id)
  BY <1>8, <1>9, <1>10, <1>11 DEF SameLinks, Cancels, LookedUp, SameQueue
<1>13. Failed(id)' <=> Failed(id)
  BY <1>6 DEF Failed
<1>14. Listed(id)'
  BY <1>5, <1>6, <1>7, <1>8 DEF MessageInv, Listed
<1>15. Kept(id)'
  BY <1>5, <1>7, <1>8, <1>9, <1>11, <1>12 DEF MessageInv, Kept, SameQueue
<1>16. Reclaimed(id)'
  BY <1>11 DEF Reclaimed
<1>17. DestroyedOnce(id)'
  BY <1>5, <1>7, <1>8, <1>12, <1>13 DEF MessageInv, DestroyedOnce
<1>18. EndedBefore(id)'
  BY <1>12 DEF EndedBefore
<1>19. Watched(id)'
  BY <1>5, <1>7 DEF Watched
<1>20. CancelEnds(id)'
  BY <1>5, <1>6, <1>7, <1>8, <1>9, <1>12 DEF MessageInv, CancelEnds, SameQueue
<1>21. MessageInv(id)'
  BY <1>14, <1>15, <1>16, <1>17, <1>18, <1>19, <1>20 DEF MessageInv
<1>22. \A i \in Ids \ {id} : SameLinks(t, i)
  BY <1>0, <1>1, <1>2, CancelLinks DEF Goes
<1> QED BY <1>2, <1>6, <1>7, <1>9, <1>21, <1>22, FocusSubs DEF Goes

\* The last reference to a message, when its cancel has been carried out.
LEMMA ReleaseSubs == ASSUME ServiceInv, SubscriptionInv, NEW t \in Threads, Release(t) PROVE SubscriptionInv'
<1>0. Busy(t) /\ thread[t].what = "cancel" /\ thread[t].pc = "release"
  BY Cancelling DEF Release
<1>1. PICK id \in Ids : id = thread[t].id
  BY Cancelling DEF Release
<1>2. PICK last : last = IsLast(t, id)
  OBVIOUS
<1>3. /\ thread'[t].pc = (IF last THEN "destroy" ELSE "done")
      /\ last => thread'[t].at = id
      /\ UNCHANGED <<thread[t].id, thread[t].what>>
      /\ \A u \in Threads \ {t} : thread'[u] = thread[u]
  <2>1. CASE last
    <3>1. thread' = [thread EXCEPT ![t] = [@ EXCEPT !.pc = "destroy", !.at = id]]
      BY <1>1, <1>2, <2>1 DEF Release
    <3> QED BY <2>1, <3>1 DEF ServiceInv, ServiceTypes, ThreadRec
  <2>2. CASE ~last
    <3>1. thread' = [thread EXCEPT ![t] = [@ EXCEPT !.pc = "done"]]
      BY <1>1, <1>2, <2>2 DEF Release
    <3> QED BY <2>2, <3>1 DEF ServiceInv, ServiceTypes, ThreadRec
  <2> QED BY <2>1, <2>2
<1>4. UNCHANGED <<scheduled, pending, queue, stop, msg, subscriptions, sent, cancelled, asserts>>
  BY DEF Release
<1>5. /\ MessageInv(id) /\ Taken(id) /\ msg[id].kind = "watch" /\ ~Waiting(id)
      /\ \A u \in Threads : ~Does(u, id) /\ ~Reads(u, id)
      /\ \A u \in Threads \ {t} : ~Looks(u, id) /\ ~Cancels(u, id) /\ ~Fires(u, id) /\ ~Notifies(u, id)
  BY <1>0, <1>1, OwnMessage
<1>6. InnerStep(t) /\ SameQueue(id)
  <2>1. InnerStep(t)
    BY <1>0, <1>3, <1>4 DEF InnerStep, Busy, AtRest
  <2> QED BY <1>4, <2>1, InnerQueue
<1>7. \A u \in Threads \ {t} : SameLinks(u, id)
  BY <1>3, <1>4, OtherLinks
<1>8. /\ ~Does(t, id) /\ ~Reads(t, id) /\ ~Ends(t, id) /\ ~Sends(t, id) /\ ~Destroys(t, id)
      /\ ~Does(t, id)' /\ ~Reads(t, id)' /\ ~Ends(t, id)' /\ ~Sends(t, id)' /\ ~Looks(t, id)'
      /\ ~Looks(t, id) /\ Cancels(t, id) /\ ~Cancels(t, id)' /\ ~Notifies(t, id) /\ ~Notifies(t, id)'
      /\ ~Fires(t, id) /\ ~Fires(t, id)'
      /\ Destroys(t, id)' <=> last
  BY <1>0, <1>1, <1>3, OwnLinks
<1>9. /\ \A u \in Threads : /\ ~Does(u, id)'
                            /\ Sends(u, id)' <=> Sends(u, id)
                            /\ Ends(u, id)' <=> Ends(u, id)
                            /\ Destroys(u, id)' <=> Destroys(u, id) \/ (u = t /\ last)
                            /\ ~Notifies(u, id) /\ ~Notifies(u, id)' /\ ~Fires(u, id) /\ ~Fires(u, id)'
                            /\ ~Cancels(u, id)'
      /\ LookedUp(id)' <=> LookedUp(id)
  BY <1>5, <1>6, <1>7, <1>8 DEF SameLinks, Cancels, LookedUp, SameQueue
<1>10. last <=> ~msg[id].held /\ \A u \in Threads \ {t} : ~Sends(u, id)
  BY <1>2, <1>5, LastLinks DEF SubscriptionInv
<1>11. Failed(id)' <=> Failed(id)
  BY <1>4 DEF Failed
<1>12. Listed(id)'
  BY <1>4, <1>5 DEF MessageInv, Listed
<1>13. Kept(id)'
  <2>1. msg[id].kind # Nil
    BY <1>5, NilAssumption
  <2> QED BY <1>4, <1>5, <1>6, <1>8, <1>9, <1>10, <2>1 DEF MessageInv, Kept, SameQueue
<1>14. Reclaimed(id)'
  BY <1>4, <1>9, <1>10 DEF Reclaimed
<1>15. DestroyedOnce(id)'
  BY <1>4, <1>5, <1>8, <1>9, <1>11 DEF MessageInv, DestroyedOnce
<1>16. EndedBefore(id)'
  BY <1>4, <1>5, <1>9, <1>11 DEF MessageInv, EndedBefore
<1>17. Watched(id)'
  BY <1>4, <1>5, <1>9 DEF MessageInv, Watched
<1>18. CancelEnds(id)'
  BY <1>4, <1>5, <1>6, <1>9 DEF MessageInv, CancelEnds, SameQueue
<1>19. MessageInv(id)'
  BY <1>12, <1>13, <1>14, <1>15, <1>16, <1>17, <1>18 DEF MessageInv
<1>20. \A i \in Ids \ {id} : SameLinks(t, i)
  BY <1>0, <1>1, <1>3, CancelLinks
<1>21. thread'[t].pc = "destroy" => thread'[t].at \in Ids
  BY <1>3
<1> QED BY <1>4, <1>6, <1>19, <1>20, <1>21, FocusSubs

\* ~MojLunaMessage(), the last step of the life of a message.  Nobody holds it.
LEMMA DestroyedMessage ==
  ASSUME NEW id \in Ids, MessageInv(id), SameQueue(id), UNCHANGED sent,
         msg'[id].kind = msg[id].kind, msg'[id].subscribed = msg[id].subscribed, msg'[id].slot = msg[id].slot,
         msg'[id].held = msg[id].held, msg'[id].watch = msg[id].watch, ~msg'[id].exists,
         msg[id].subscribed => id \notin subscriptions',
         ~msg[id].subscribed => (id \in subscriptions' <=> id \in subscriptions),
         ~msg[id].held, ~Waiting(id), msg[id].watch # "pending",
         \A u \in Threads : /\ ~Does(u, id)' /\ ~Sends(u, id)'
                            /\ Ends(u, id)' <=> Ends(u, id)
                            /\ Destroys(u, id)' => Destroys(u, id)
                            /\ ~Failed(id) => ~Destroys(u, id)' /\ ~Cancels(u, id)'
                            /\ Looks(u, id)' <=> Looks(u, id)
                            /\ Fires(u, id)' <=> Fires(u, id)
                            /\ Notifies(u, id)' <=> Notifies(u, id)
  PROVE  MessageInv(id)'
<1>1. LookedUp(id)' <=> LookedUp(id)
  BY DEF LookedUp, SameQueue
<1>2. Failed(id)' <=> Failed(id)
  BY DEF Failed
<1>3. Listed(id)'
  BY DEF MessageInv, Listed
<1>4. Kept(id)'
  BY DEF MessageInv, Kept, SameQueue
<1>5. Reclaimed(id)'
  BY DEF Reclaimed
<1>6. DestroyedOnce(id)'
  BY <1>2 DEF DestroyedOnce
<1>7. EndedBefore(id)'
  BY <1>1, <1>2 DEF MessageInv, EndedBefore
<1>8. Watched(id)'
  BY DEF MessageInv, Watched
<1>9. CancelEnds(id)'
  BY <1>1 DEF MessageInv, CancelEnds, SameQueue
<1> QED BY <1>3, <1>4, <1>5, <1>6, <1>7, <1>8, <1>9 DEF MessageInv

\* The destructor finds the subscription that is left.
LEMMA DestroySubs == ASSUME ServiceInv, SubscriptionInv, NEW t \in Threads, Destroy(t) PROVE SubscriptionInv'
<1>0. Busy(t) /\ thread[t].pc = "destroy"
  BY DEF Destroy, Busy, AtRest
<1>1. PICK id \in Ids : id = thread[t].at
  BY <1>0 DEF SubscriptionInv, Drained
<1>2. /\ thread'[t].pc \in {"done", "firing"} /\ UNCHANGED <<thread[t].id, thread[t].what>>
      /\ \A u \in Threads \ {t} : thread'[u] = thread[u]
  <2> DEFINE p == IF thread[t].what = "cancel" THEN "done" ELSE "firing"
  <2>1. thread' = [thread EXCEPT ![t] = [@ EXCEPT !.pc = p, !.at = Nil]]
    BY DEF Destroy
  <2>2. p \in {"done", "firing"}
    OBVIOUS
  <2> HIDE DEF p
  <2> QED BY <2>1, <2>2 DEF ServiceInv, ServiceTypes, ThreadRec
<1>3. Destroyed(id) /\ UNCHANGED <<scheduled, pending, queue, stop, sent, cancelled>>
  BY <1>1 DEF Destroy
<1> DEFINE m == [msg[id] EXCEPT !.exists = FALSE]
<1>4. msg[id] \in MessageRec
  BY DEF ServiceInv, ServiceTypes
<1>5. /\ m.kind = msg[id].kind /\ m.watch = msg[id].watch /\ m.slot = msg[id].slot /\ m.held = msg[id].held
      /\ ~m.exists /\ m.subscribed = msg[id].subscribed
  BY <1>4 DEF MessageRec
<1>6. msg' = [msg EXCEPT ![id] = m]
  BY <1>3 DEF Destroyed
<1> HIDE DEF m
<1>7. msg'[id] = m /\ \A i \in Ids \ {id} : msg'[i] = msg[i]
  BY <1>6 DEF ServiceInv, ServiceTypes
<1>8. MessageInv(id) /\ Destroys(t, id)
  BY <1>0, <1>1 DEF SubscriptionInv, Destroys
<1>9. InnerStep(t) /\ SameQueue(id)
  <2>1. InnerStep(t)
    BY <1>0, <1>2, <1>3, <1>5, <1>7 DEF InnerStep, Busy, AtRest
  <2> QED BY <1>3, <2>1, InnerQueue
<1>10. \A u \in Threads \ {t} : SameLinks(u, id)
  BY <1>2, <1>5, <1>7, OtherLinks
<1>11. /\ ~msg[id].held /\ ~Waiting(id) /\ \A u \in Threads : ~Does(u, id) /\ ~Sends(u, id)
       /\ ~Failed(id) => msg[id].exists /\ \A u \in Threads : ~Cancels(u, id) /\ (Destroys(u, id) => u = t)
  BY <1>8 DEF MessageInv, Kept, DestroyedOnce
<1>12. /\ ~Does(t, id)' /\ ~Reads(t, id)' /\ ~Ends(t, id)' /\ ~Sends(t, id)' /\ ~Looks(t, id)' /\ ~Destroys(t, id)'
       /\ ~Cancels(t, id)' /\ ~Notifies(t, id)' /\ ~Fires(t, id)'
       /\ ~Reads(t, id) /\ ~Ends(t, id) /\ ~Looks(t, id) /\ ~Cancels(t, id) /\ ~Notifies(t, id) /\ ~Fires(t, id)
  <2>1. ~Does(t, id)'
    BY <1>2, <1>11 DEF Does
  <2> QED BY <1>0, <1>2, <2>1 DEF Reads, Ends, Sends, Looks, Destroys, Cancels, Fires, Notifies, Releases
<1>13. \A u \in Threads : /\ ~Does(u, id)' /\ ~Sends(u, id)'
                          /\ Ends(u, id)' <=> Ends(u, id)
                          /\ Destroys(u, id)' => Destroys(u, id)
                          /\ ~Failed(id) => ~Destroys(u, id)' /\ ~Cancels(u, id)'
                          /\ Looks(u, id)' <=> Looks(u, id)
                          /\ Fires(u, id)' <=> Fires(u, id)
                          /\ Notifies(u, id)' <=> Notifies(u, id)
  <2>1. \A u \in Threads \ {t} : Cancels(u, id)' <=> Cancels(u, id)
    BY <1>10 DEF SameLinks, Cancels
  <2> QED BY <1>10, <1>11, <1>12, <2>1 DEF SameLinks
<1>14. /\ subscriptions' = IF msg[id].subscribed THEN subscriptions \ {id} ELSE subscriptions
       /\ asserts' = IF msg[id].subscribed /\ id \notin subscriptions THEN asserts \cup {<<id, "removed twice">>} ELSE asserts
  BY <1>3 DEF Destroyed
<1>15. MessageInv(id)'
  <2>1. msg[id].watch # "pending"
    BY <1>8, <1>11 DEF MessageInv, Watched, Reads
  <2> QED BY <1>3, <1>5, <1>7, <1>8, <1>9, <1>11, <1>13, <1>14, <2>1, DestroyedMessage
\* It was listed, unless it had been destroyed before.
<1>16. \A a \in asserts' : a \in asserts \/ (a[1] \in Ids /\ Failed(a[1])')
  <2> SUFFICES ASSUME NEW a \in asserts', a \notin asserts PROVE a[1] \in Ids /\ Failed(a[1])'
    OBVIOUS
  <2>1. a = <<id, "removed twice">> /\ msg[id].subscribed /\ id \notin subscriptions
    BY <1>14
  <2>2. a[1] = id
    BY <2>1
  <2>3. ~msg[id].exists
    BY <1>8, <2>1 DEF MessageInv, Listed
  <2>4. Failed(id)
    BY <1>11, <2>3
  <2>5. Failed(id)' <=> Failed(id)
    BY <1>3 DEF Failed
  <2> QED BY <2>2, <2>4, <2>5
<1>17. \A i \in Ids \ {id} : SameMessage(i)
  BY <1>3, <1>7, <1>14 DEF SameMessage, SameFields
<1>18. \A i \in Ids \ {id} : SameLinks(t, i)
  BY <1>0, <1>1, <1>2 DEF SameLinks, Does, Reads, Ends, Sends, Destroys, Looks, Fires, Notifies, Releases
<1>19. \A i \in Ids : Failed(i) => Failed(i)'
  BY <1>3 DEF Failed
<1>20. thread'[t].pc # "destroy"
  BY <1>2
<1> QED BY <1>3, <1>9, <1>15, <1>16, <1>17, <1>18, <1>19, <1>20, InnerSubscriptions

\* Serving a request, firing watches and cancelling end what they should.
LEMMA StepSubs ==
  ASSUME ServiceInv, SubscriptionInv, NEW t \in Threads, Serve(t) \/ Notify(t) \/ Cancel(t) PROVE SubscriptionInv'
<1>1. Serve(t) => SubscriptionInv'
  BY RefuseSubs, RetrySubs, CommitSubs, ConnectSubs, VisitSubs, ExecuteSubs, AnswerSubs, CloseSubs DEF Serve
<1>2. Notify(t) => SubscriptionInv'
  BY FireSubs, CancelSlotSubs, TakeMessageSubs, SendFiredSubs DEF Notify
<1>3. Cancel(t) => SubscriptionInv'
  BY LookUpSubs, FireCancelSubs, WatcherCancelSubs, ReleaseSubs, DestroySubs DEF Cancel
<1> QED BY <1>1, <1>2, <1>3

-----------------------------------------------------------------------------
(* Queues that are taken and left *)

\* A thread at the end of a message has nothing to do with any but the request it served.
LEMMA DoneLinks ==
  ASSUME NEW t, NEW id, thread[t].pc = "done", thread'[t] = Idle, id \in Ids
  PROVE  /\ ~Reads(t, id) /\ ~Ends(t, id) /\ ~Sends(t, id) /\ ~Destroys(t, id) /\ ~Looks(t, id)
         /\ ~Fires(t, id) /\ ~Notifies(t, id) /\ ~Releases(t, id)
         /\ ~Does(t, id)' /\ ~Reads(t, id)' /\ ~Ends(t, id)' /\ ~Sends(t, id)' /\ ~Destroys(t, id)' /\ ~Looks(t, id)'
         /\ ~Fires(t, id)' /\ ~Notifies(t, id)' /\ ~Releases(t, id)'
<1>1. /\ thread'[t].pc = "check" /\ thread'[t].what = Nil
      /\ Nil # "request" /\ Nil # "cancel"
  BY NilAssumption DEF Idle
<1> QED BY <1>1 DEF Does, Reads, Ends, Sends, Destroys, Looks, Fires, Notifies, Releases

\* The request that was served is released, and destroyed if nobody else holds it.
LEMMA FinishedMessage ==
  ASSUME ServiceInv, SubscriptionInv, NEW t \in Threads, thread[t].pc = "done", thread[t].what = "request",
         NEW id \in Ids, id = thread[t].id, thread'[t] = Idle, \A u \in Threads \ {t} : thread'[u] = thread[u],
         UNCHANGED <<queue, sent, cancelled>>,
         IF IsLast(t, id) THEN Destroyed(id) ELSE UNCHANGED <<msg, subscriptions, asserts>>
  PROVE  MessageInv(id)' /\ asserts' = asserts
<1>1. MessageInv(id) /\ Does(t, id) /\ msg[id].exists /\ Busy(t)
  <2>1. MessageInv(id)
    BY DEF SubscriptionInv
  <2>2. Does(t, id) /\ Busy(t)
    BY DEF Does, Busy, AtRest
  <2> QED BY <2>1, <2>2 DEF MessageInv, Kept
<1>2. \A u \in Threads \ {t} : ~Does(u, id) /\ ~Reads(u, id) /\ ~Cancels(u, id)
  BY <1>1, OneAtWork DEF SubscriptionInv
<1>3. \A u \in Threads : ~Destroys(u, id)
  BY <1>1 DEF MessageInv, Kept
<1>4. ~Cancels(t, id) /\ ~Cancels(t, id)' /\ ~Reads(t, id)
  BY DoneLinks DEF Cancels
<1>5. msg[id].watch # "pending"
  BY <1>1, <1>2, <1>4 DEF MessageInv, Watched
<1>6. SameQueue(id)
  BY DEF SameQueue, Waiting, Taken
<1>7. IsLast(t, id) <=> /\ ~msg[id].held /\ ~Waiting(id)
                        /\ \A u \in Threads \ {t} : ~Does(u, id) /\ ~Sends(u, id) /\ ~Cancels(u, id)
  BY LastLinks DEF SubscriptionInv
<1>8. Listed(id)
  BY <1>1 DEF MessageInv
<1>9. CASE IsLast(t, id)
  <2> DEFINE m == [msg[id] EXCEPT !.exists = FALSE]
  <2>1. msg[id] \in MessageRec
    BY DEF ServiceInv, ServiceTypes
  <2>2. /\ m.kind = msg[id].kind /\ m.watch = msg[id].watch /\ m.slot = msg[id].slot /\ m.held = msg[id].held
        /\ ~m.exists /\ m.subscribed = msg[id].subscribed
    BY <2>1 DEF MessageRec
  <2>3. /\ msg' = [msg EXCEPT ![id] = m]
        /\ subscriptions' = IF msg[id].subscribed THEN subscriptions \ {id} ELSE subscriptions
        /\ asserts' = IF msg[id].subscribed /\ id \notin subscriptions THEN asserts \cup {<<id, "removed twice">>} ELSE asserts
    BY <1>9 DEF Destroyed
  <2> HIDE DEF m
  <2>4. msg'[id] = m
    BY <2>3 DEF ServiceInv, ServiceTypes
  <2>5. asserts' = asserts
    BY <1>1, <1>8, <2>3 DEF Listed
  <2>6. ASSUME NEW u \in Threads
        PROVE  /\ ~Does(u, id)' /\ ~Sends(u, id)'
               /\ Ends(u, id)' <=> Ends(u, id)
               /\ Destroys(u, id)' => Destroys(u, id)
               /\ ~Failed(id) => ~Destroys(u, id)' /\ ~Cancels(u, id)'
               /\ Looks(u, id)' <=> Looks(u, id)
               /\ Fires(u, id)' <=> Fires(u, id)
               /\ Notifies(u, id)' <=> Notifies(u, id)
    <3>1. CASE u = t
      BY <1>4, <3>1, DoneLinks
    <3>2. CASE u # t
      <4>1. SameLinks(u, id)
        BY <2>2, <2>4, <3>2, OtherLinks
      <4>2. ~Cancels(u, id)'
        BY <1>2, <3>2, <4>1 DEF SameLinks, Cancels
      <4> QED BY <1>2, <1>3, <1>7, <1>9, <3>2, <4>1, <4>2 DEF SameLinks
    <3> QED BY <3>1, <3>2
  <2>7. subscriptions' = subscriptions \/ subscriptions' = subscriptions \ {id}
    BY <2>3
  <2>8. msg[id].subscribed => id \notin subscriptions'
    BY <2>3
  <2>9. ~msg[id].subscribed => subscriptions' = subscriptions
    BY <2>3
  <2>10. MessageInv(id)'
    BY <1>1, <1>5, <1>6, <1>7, <1>9, <2>2, <2>4, <2>6, <2>8, <2>9, DestroyedMessage
  <2> QED BY <2>5, <2>10
<1>10. CASE ~IsLast(t, id)
  <2>1. UNCHANGED <<msg, subscriptions, asserts>>
    BY <1>10
  <2>2. \A u \in Threads \ {t} : SameLinks(u, id)
    BY <2>1, OtherLinks
  <2>3. msg[id].held \/ Waiting(id) \/ \E u \in Threads \ {t} : Sends(u, id)
    BY <1>2, <1>7, <1>10
  <2>4. \A u \in Threads : /\ ~Does(u, id)' /\ ~Destroys(u, id)' /\ ~Reads(u, id)
                           /\ Sends(u, id)' <=> Sends(u, id)
                           /\ Ends(u, id)' <=> Ends(u, id)
                           /\ Looks(u, id)' <=> Looks(u, id)
                           /\ Fires(u, id)' <=> Fires(u, id)
                           /\ Notifies(u, id)' <=> Notifies(u, id)
                           /\ Cancels(u, id)' <=> Cancels(u, id)
    <3>1. \A u \in Threads \ {t} : Cancels(u, id)' <=> Cancels(u, id)
      BY <2>2 DEF SameLinks, Cancels
    <3> QED BY <1>2, <1>3, <1>4, <2>2, <3>1, DoneLinks DEF SameLinks
  <2>5. /\ LookedUp(id)' <=> LookedUp(id)
        /\ Failed(id)' <=> Failed(id)
    BY <1>6, <2>4 DEF LookedUp, SameQueue, Failed
  <2>6. Listed(id)'
    BY <1>8, <2>1 DEF Listed
  <2>7. Kept(id)'
    BY <1>1, <1>6, <2>1, <2>4 DEF MessageInv, Kept, SameQueue
  <2>8. Reclaimed(id)'
    BY <1>6, <2>1, <2>3, <2>4 DEF Reclaimed, SameQueue
  <2>9. DestroyedOnce(id)'
    BY <1>1, <2>1, <2>4, <2>5 DEF MessageInv, DestroyedOnce
  <2>10. EndedBefore(id)'
    BY <1>1, <2>1, <2>4, <2>5 DEF MessageInv, EndedBefore
  <2>11. Watched(id)'
    BY <1>1, <1>5, <2>1, <2>4 DEF MessageInv, Watched
  <2>12. CancelEnds(id)'
    BY <1>1, <1>6, <2>1, <2>4, <2>5 DEF MessageInv, CancelEnds, SameQueue
  <2> QED BY <2>1, <2>6, <2>7, <2>8, <2>9, <2>10, <2>11, <2>12 DEF MessageInv
<1> QED BY <1>9, <1>10

\* The queue of a sender is left: it is scheduled again if something waits in it.
LEMMA FinishDrained ==
  ASSUME ServiceInv, Drained, NEW t \in Threads, Finish(t)
  PROVE  Drained'
<1>1. thread[t].pc = "done" /\ Busy(t)
  BY DEF Finish, Busy, AtRest
<1>2. PICK s \in Senders : s = thread[t].id[1]
  <2>1. thread[t].id \in Ids
    BY <1>1 DEF ServiceInv, QueuesInv
  <2> QED BY <2>1, IdShape
<1>3. /\ pending' = pending \ {s} /\ UNCHANGED <<queue, stop, cancelled>>
      /\ thread' = [thread EXCEPT ![t] = Idle]
      /\ scheduled' = IF queue[s] = <<>> THEN scheduled ELSE Append(scheduled, s)
  BY <1>2 DEF Finish
<1>4. /\ thread'[t] = Idle /\ \A u \in Threads \ {t} : thread'[u] = thread[u]
      /\ Idle.pc = "check" /\ Idle.what = Nil /\ Idle.id = Nil /\ Idle.at = Nil /\ Nil # "cancel"
  BY <1>3, NilAssumption DEF ServiceInv, ServiceTypes, Idle
<1>5. ~Busy(t)' /\ \A u \in Threads \ {t} : Busy(u)' <=> Busy(u)
  BY <1>4 DEF Busy, AtRest
<1>6. stop # "closed" /\ thread[t].pc # "exit"
  BY <1>1 DEF Drained
<1>7. \A r \in Senders : queue[r] # <<>> => r \in pending' \/ \E n \in DOMAIN scheduled' : scheduled'[n] = r
  <2> SUFFICES ASSUME NEW r \in Senders, queue[r] # <<>>
               PROVE  r \in pending' \/ \E n \in DOMAIN scheduled' : scheduled'[n] = r
    OBVIOUS
  <2>1. scheduled \in Seq(Senders)
    BY DEF ServiceInv, ServiceTypes
  <2>2. \A n \in DOMAIN scheduled : n \in DOMAIN scheduled' /\ scheduled'[n] = scheduled[n]
    <3>1. CASE queue[s] = <<>>
      <4>1. scheduled' = scheduled
        BY <1>3, <3>1, Zenon
      <4> QED BY <4>1
    <3>2. CASE queue[s] # <<>>
      <4>1. scheduled' = Append(scheduled, s)
        BY <1>3, <3>2, Zenon
      <4> QED BY <2>1, <4>1
    <3> QED BY <3>1, <3>2
  <2>3. CASE r = s
    <3>1. scheduled' = Append(scheduled, s)
      BY <1>3, <2>3, Zenon
    <3>2. Len(scheduled) + 1 \in DOMAIN scheduled' /\ scheduled'[Len(scheduled) + 1] = s
      BY <2>1, <3>1
    <3> QED BY <2>3, <3>2
  <2>4. CASE r # s
    BY <1>3, <2>2, <2>4 DEF Drained
  <2> QED BY <2>3, <2>4
<1>8. \A r \in Senders : r \in pending' => \E u \in Threads : Busy(u)' /\ thread'[u].id[1] = r
  BY <1>2, <1>3, <1>4, <1>5 DEF Drained
<1>9. \A u \in Threads :
        (/\ ~Busy(u) => thread[u].what = Nil /\ thread[u].id = Nil /\ thread[u].at = Nil
         /\ thread[u].what = "cancel" => Taken(thread[u].id)
         /\ thread[u].pc = "destroy" => thread[u].at \in Ids
         /\ thread[u].pc = "exit" => stop # "no")'
  BY <1>3, <1>4, <1>5 DEF Drained, Taken
<1>10. \A r \in Senders : CancelsQueued(r)'
  BY <1>3 DEF Drained, CancelsQueued
<1>11. (scheduled # <<>> => \E u \in Threads : thread[u].pc # "exit")'
  BY <1>4
<1> QED BY <1>3, <1>6, <1>7, <1>8, <1>9, <1>10, <1>11 DEF Drained

\* Finish keeps what holds of the subscriptions.
LEMMA FinishSubs == ASSUME ServiceInv, SubscriptionInv, NEW t \in Threads, Finish(t) PROVE SubscriptionInv'
<1>1. Drained'
  BY FinishDrained DEF SubscriptionInv
<1>2. thread[t].pc = "done" /\ Busy(t) /\ UNCHANGED <<queue, sent, cancelled>>
  BY DEF Finish, Busy, AtRest
<1>3. PICK id \in Ids : id = thread[t].id
  BY <1>2 DEF ServiceInv, QueuesInv
<1>4. thread'[t] = Idle /\ \A u \in Threads \ {t} : thread'[u] = thread[u]
  BY DEF Finish, ServiceInv, ServiceTypes
<1>5. ASSUME NEW i \in Ids, SameMessage(i), ~Does(t, i) PROVE MessageInv(i)'
  <2>1. \A u \in Threads : SameLinks(u, i)
    BY <1>2, <1>4, <1>5, OtherLinks, DoneLinks DEF SameLinks, SameMessage, SameFields
  <2>2. SameQueue(i)
    BY <1>2 DEF SameQueue, Waiting, Taken
  <2> QED BY <1>5, <2>1, <2>2, Untouched DEF SubscriptionInv
<1>6. \A i \in Ids : Failed(i)' <=> Failed(i)
  BY <1>2 DEF Failed
<1>7. CASE thread[t].what = "request" /\ IsLast(t, id)
  <2>1. Destroyed(id)
    BY <1>3, <1>7 DEF Finish
  <2>2. MessageInv(id)' /\ asserts' = asserts
    BY <1>2, <1>3, <1>4, <1>7, <2>1, FinishedMessage
  <2>3. ASSUME NEW i \in Ids \ {id} PROVE SameMessage(i) /\ ~Does(t, i)
    <3>1. msg'[i] = msg[i] /\ (i \in subscriptions' <=> i \in subscriptions)
      BY <2>1 DEF Destroyed, ServiceInv, ServiceTypes
    <3> QED BY <1>2, <1>3, <3>1 DEF SameMessage, SameFields, Does
  <2>4. \A i \in Ids : MessageInv(i)'
    BY <1>5, <2>2, <2>3
  <2> QED BY <1>1, <1>6, <2>2, <2>4 DEF SubscriptionInv, Excused
<1>8. CASE ~(thread[t].what = "request" /\ IsLast(t, id))
  <2>1. UNCHANGED <<msg, subscriptions, asserts>>
    BY <1>3, <1>8 DEF Finish
  <2>2. thread[t].what = "request" => MessageInv(id)'
    BY <1>2, <1>3, <1>4, <1>8, <2>1, FinishedMessage
  <2>3. ASSUME NEW i \in Ids PROVE SameMessage(i) /\ (Does(t, i) => i = id /\ thread[t].what = "request")
    BY <1>2, <1>3, <2>1 DEF SameMessage, SameFields, Does
  <2>4. \A i \in Ids : MessageInv(i)'
    BY <1>5, <2>2, <2>3
  <2> QED BY <1>1, <1>6, <2>1, <2>4 DEF SubscriptionInv, Excused
<1> QED BY <1>7, <1>8

\* A thread between queues has nothing to do with any message.
LEMMA RestLinks ==
  ASSUME Drained, NEW t \in Threads, NEW id \in Ids, ~Busy(t)
  PROVE  /\ ~Does(t, id) /\ ~Reads(t, id) /\ ~Ends(t, id) /\ ~Sends(t, id) /\ ~Destroys(t, id) /\ ~Looks(t, id)
         /\ ~Fires(t, id) /\ ~Notifies(t, id) /\ ~Releases(t, id) /\ ~Cancels(t, id)
<1>1. thread[t].what = Nil /\ Nil # "request" /\ Nil # "cancel" /\ thread[t].pc \in AtRest
  BY NilAssumption DEF Drained, Busy
<1> QED BY <1>1 DEF Does, Reads, Ends, Sends, Destroys, Looks, Fires, Notifies, Releases, Cancels, AtRest

\* After it took a message, it has to do with that one.
LEMMA TakenLinks ==
  ASSUME NEW t, NEW s, NEW m, Taking(t, s, m), NEW id \in Ids
  PROVE  /\ ~Reads(t, id)' /\ ~Ends(t, id)' /\ ~Sends(t, id)' /\ ~Destroys(t, id)'
         /\ ~Fires(t, id)' /\ ~Notifies(t, id)' /\ ~Releases(t, id)' /\ ~Cancels(t, id)'
         /\ Does(t, id)' <=> m = <<id, "request">>
         /\ Looks(t, id)' <=> m = <<id, "cancel">>
<1>1. /\ thread'[t].pc = m[2] /\ thread'[t].what = m[2] /\ thread'[t].id = m[1]
      /\ m[2] \in {"request", "cancel"} /\ m = <<m[1], m[2]>>
  BY DEF Taking
<1>2. \A x : m = <<id, x>> <=> m[1] = id /\ m[2] = x
  BY <1>1
<1>3. Does(t, id)' <=> m = <<id, "request">>
  BY <1>1, <1>2 DEF Does
<1>4. Looks(t, id)' <=> m = <<id, "cancel">>
  BY <1>1, <1>2 DEF Looks
<1> QED BY <1>1, <1>3, <1>4 DEF Reads, Ends, Sends, Destroys, Fires, Notifies, Releases, Cancels

\* What else is in the queues stays there.
LEMMA TakeOther ==
  ASSUME NEW t, NEW s, NEW m, Taking(t, s, m), NEW r \in Senders, NEW x, m # x
  PROVE  (\E n \in DOMAIN queue'[r] : queue'[r][n] = x) <=> \E n \in DOMAIN queue[r] : queue[r][n] = x
<1>1. CASE r # s
  BY <1>1 DEF Taking
<1>2. CASE r = s
  <2>1. ASSUME NEW n \in DOMAIN queue[s], queue[s][n] = x PROVE \E k \in DOMAIN queue'[s] : queue'[s][k] = x
    BY <2>1 DEF Taking
  <2>2. ASSUME NEW n \in DOMAIN queue'[s], queue'[s][n] = x PROVE \E k \in DOMAIN queue[s] : queue[s][k] = x
    BY <2>2 DEF Taking
  <2> QED BY <1>2, <2>1, <2>2
<1> QED BY <1>1, <1>2

\* A cancel is taken once, and only the cancel itself comes to be taken.
LEMMA TakeTaken ==
  ASSUME ServiceInv, Drained, NEW t \in Threads, NEW s \in Senders, NEW m \in Ids \X {"request", "cancel"},
         Taking(t, s, m), cancelled' = cancelled, NEW i \in Ids
  PROVE  /\ Taken(i)' <=> Taken(i) \/ m = <<i, "cancel">>
         /\ m = <<i, "cancel">> => ~Taken(i) /\ ~Waiting(i) /\ i \in cancelled
<1>0. i[1] \in Senders
  BY IdShape
<1> DEFINE x == <<i, "cancel">>
<1>1. CASE m # x
  <2> HIDE DEF x
  <2>1. (\E n \in DOMAIN queue'[i[1]] : queue'[i[1]][n] = x) <=> \E n \in DOMAIN queue[i[1]] : queue[i[1]][n] = x
    BY <1>0, <1>1, TakeOther
  <2>2. Taken(i)' <=> Taken(i)
    BY <2>1 DEF Taken, x
  <2> QED BY <1>1, <2>2 DEF x
<1>2. CASE m = x
  <2>1. i[1] = s /\ 1 \in DOMAIN queue[s] /\ queue[s][1] = x /\ m[1] = i /\ m[2] = "cancel"
    BY <1>2 DEF Taking
  <2>2. ~Taken(i)
    BY <2>1 DEF Taken
  <2>3. /\ i \in cancelled
        /\ \A k \in DOMAIN queue[s] : queue[s][k][1] = i => IF queue[s][k][2] = "cancel" THEN k = 1 ELSE k < 1
    BY <1>2, <2>1 DEF Drained, CancelsQueued
  <2>4. ~Waiting(i)
    <3> SUFFICES ASSUME NEW k \in DOMAIN queue[s], queue[s][k] = <<i, "request">> PROVE FALSE
      BY <2>1 DEF Waiting
    <3>1. k < 1
      BY <2>3
    <3> QED BY <3>1 DEF Taking
  <2>5. Taken(i)'
    <3> SUFFICES ASSUME NEW k \in DOMAIN queue'[s], queue'[s][k] = x PROVE FALSE
      BY <2>1, <2>3 DEF Taken
    <3>1. k + 1 \in DOMAIN queue[s] /\ queue[s][k + 1] = x /\ k \in Nat /\ k # 0
      BY DEF Taking
    <3>2. k + 1 = 1
      BY <2>3, <3>1
    <3> QED BY <3>1, <3>2
  <2> QED BY <1>2, <2>2, <2>3, <2>4, <2>5
<1> QED BY <1>1, <1>2

\* A message that is taken leaves the queue of a sender that only this thread works for.
LEMMA TakeDrained ==
  ASSUME ServiceInv, Drained, NEW t \in Threads, NEW s \in Senders, NEW m \in Ids \X {"request", "cancel"},
         Taking(t, s, m), UNCHANGED <<stop, cancelled>>
  PROVE  Drained'
<1>1. ~Busy(t) /\ Busy(t)' /\ stop # "closed" /\ thread'[t].pc \in {"request", "cancel"}
  BY DEF Taking, Busy, AtRest, Drained
<1>2. \A u \in Threads \ {t} : thread'[u] = thread[u] /\ (Busy(u)' <=> Busy(u))
  BY DEF Taking, Busy
<1>3. ASSUME NEW u \in Threads
      PROVE  (/\ ~Busy(u) => thread[u].what = Nil /\ thread[u].id = Nil /\ thread[u].at = Nil
              /\ thread[u].what = "cancel" => Taken(thread[u].id)
              /\ thread[u].pc = "destroy" => thread[u].at \in Ids
              /\ thread[u].pc = "exit" => stop # "no")'
  <2>1. CASE u = t
    <3>1. PICK i \in Ids : i = m[1]
      OBVIOUS
    <3>2. thread'[t].id = i /\ thread'[t].what = m[2] /\ m = <<i, m[2]>>
      BY <3>1 DEF Taking
    <3>3. m[2] = "cancel" => Taken(i)'
      BY <3>2, TakeTaken
    <3>4. thread'[t].what = "cancel" => Taken(thread[t].id)'
      BY <3>2, <3>3 DEF Taken
    <3> QED BY <1>1, <2>1, <3>4
  <2>2. CASE u # t
    <3>1. thread[u].what = "cancel" => thread[u].id \in Ids
      BY NilAssumption DEF Drained, ServiceInv, QueuesInv
    <3>2. thread[u].what = "cancel" => Taken(thread[u].id)'
      <4> SUFFICES ASSUME thread[u].what = "cancel" PROVE Taken(thread[u].id)'
        OBVIOUS
      <4>1. PICK i \in Ids : i = thread[u].id
        BY <3>1
      <4>2. Taken(i)'
        BY <4>1, TakeTaken DEF Drained
      <4>3. thread'[u].id = i
        BY <1>2, <2>2, <4>1
      <4> QED BY <4>2, <4>3 DEF Taken
    <3> QED BY <1>2, <2>2, <3>2 DEF Drained
  <2> QED BY <2>1, <2>2
<1>4. ASSUME NEW r \in Senders PROVE CancelsQueued(r)'
  <2>1. CASE r # s
    <3>1. queue'[r] = queue[r]
      BY <2>1 DEF Taking
    <3> QED BY <3>1 DEF Drained, CancelsQueued
  <2>2. CASE r = s
    <3> SUFFICES ASSUME NEW n \in DOMAIN queue'[s], queue'[s][n][2] = "cancel"
                 PROVE  /\ queue'[s][n][1] \in cancelled
                        /\ \A k \in DOMAIN queue'[s] : queue'[s][k][1] = queue'[s][n][1] =>
                             IF queue'[s][k][2] = "cancel" THEN k = n ELSE k < n
      BY <2>2 DEF CancelsQueued
    <3>1. \A k \in DOMAIN queue'[s] : k + 1 \in DOMAIN queue[s] /\ queue'[s][k] = queue[s][k + 1] /\ k \in Nat
      BY DEF Taking
    <3>2. /\ queue[s][n + 1][1] \in cancelled
          /\ \A k \in DOMAIN queue[s] : queue[s][k][1] = queue[s][n + 1][1] =>
               IF queue[s][k][2] = "cancel" THEN k = n + 1 ELSE k < n + 1
      BY <3>1 DEF Drained, CancelsQueued
    <3>3. ASSUME NEW k \in DOMAIN queue'[s], queue'[s][k][1] = queue'[s][n][1]
          PROVE  IF queue'[s][k][2] = "cancel" THEN k = n ELSE k < n
      <4>1. IF queue[s][k + 1][2] = "cancel" THEN k + 1 = n + 1 ELSE k + 1 < n + 1
        BY <3>1, <3>2, <3>3
      <4> QED BY <3>1, <4>1
    <3> QED BY <3>1, <3>2, <3>3
  <2> QED BY <2>1, <2>2
<1>5. ASSUME NEW r \in Senders, queue'[r] # <<>> PROVE r \in pending' \/ \E n \in DOMAIN scheduled' : scheduled'[n] = r
  <2>1. CASE r = s
    BY <2>1 DEF Taking
  <2>2. CASE r # s
    <3>1. r \in pending \/ \E n \in DOMAIN scheduled : scheduled[n] = r
      BY <1>5, <2>2 DEF Taking, Drained
    <3>2. ASSUME NEW n \in DOMAIN scheduled, scheduled[n] = r PROVE \E k \in DOMAIN scheduled' : scheduled'[k] = r
      BY <2>2, <3>2 DEF Taking
    <3> QED BY <3>1, <3>2 DEF Taking
  <2> QED BY <2>1, <2>2
<1>6. \A r \in Senders : r \in pending' => \E u \in Threads : Busy(u)' /\ thread'[u].id[1] = r
  <2>1. thread'[t].id[1] = s /\ pending' = pending \cup {s}
    BY DEF Taking
  <2>2. \A r \in Senders : r \in pending => \E u \in Threads : Busy(u) /\ thread[u].id[1] = r
    BY DEF Drained
  <2> QED BY <1>1, <1>2, <2>1, <2>2
<1> QED BY <1>1, <1>3, <1>4, <1>5, <1>6 DEF Drained

\* The request that is taken is served from now on.
LEMMA TakenRequest ==
  ASSUME ServiceInv, SubscriptionInv, NEW t \in Threads, NEW s \in Senders, NEW m \in Ids \X {"request", "cancel"},
         Taking(t, s, m), UNCHANGED <<msg, subscriptions, sent, cancelled>>, NEW id \in Ids, m = <<id, "request">>
  PROVE  MessageInv(id)'
<1>1. MessageInv(id) /\ Drained /\ ~Busy(t) /\ id[1] \in Senders
  BY IdShape DEF SubscriptionInv, Taking, Busy, AtRest
<1>2. Waiting(id) /\ ~Waiting(id)'
  <2>1. id[1] = s /\ 1 \in DOMAIN queue[s] /\ queue[s][1] = m
    BY DEF Taking
  <2> QED BY <2>1, TakeWaiting DEF Waiting
<1>3. m # <<id, "cancel">>
  OBVIOUS
<1>4. ~Taken(id) /\ ~Taken(id)'
  BY <1>1, <1>2, <1>3, TakeTaken DEF MessageInv, CancelEnds
<1>5. \A u \in Threads \ {t} : SameLinks(u, id)
  BY OtherLinks DEF Taking
<1>6. /\ Does(t, id)'
      /\ \A u \in Threads : /\ ~Destroys(u, id) /\ ~Destroys(u, id)'
                            /\ Does(u, id)' <=> Does(u, id) \/ u = t
                            /\ Reads(u, id) => Reads(u, id)'
                            /\ Sends(u, id)' <=> Sends(u, id)
                            /\ Ends(u, id)' <=> Ends(u, id)
                            /\ Notifies(u, id)' <=> Notifies(u, id)
                            /\ Cancels(u, id)' <=> Cancels(u, id)
  <2>1. \A u \in Threads \ {t} : Cancels(u, id)' <=> Cancels(u, id)
    BY <1>5 DEF SameLinks, Cancels
  <2>2. \A u \in Threads : ~Destroys(u, id)
    BY <1>1, <1>2 DEF MessageInv, Kept
  <2>3. Does(t, id)'
    BY TakenLinks
  <2> QED BY <1>1, <1>5, <2>1, <2>2, <2>3, RestLinks, TakenLinks DEF SameLinks
<1>7. ~LookedUp(id) /\ ~LookedUp(id)' /\ (Failed(id)' <=> Failed(id))
  BY <1>4 DEF LookedUp, Failed
<1>8. Listed(id)'
  BY <1>1 DEF MessageInv, Listed
<1>9. Kept(id)'
  BY <1>1, <1>2, <1>6 DEF MessageInv, Kept
<1>10. Reclaimed(id)'
  BY <1>6 DEF Reclaimed
<1>11. DestroyedOnce(id)'
  BY <1>1, <1>6, <1>7 DEF MessageInv, DestroyedOnce
<1>12. EndedBefore(id)'
  BY <1>1, <1>6, <1>7 DEF MessageInv, EndedBefore
<1>13. Watched(id)'
  BY <1>1, <1>6 DEF MessageInv, Watched
<1>14. CancelEnds(id)'
  BY <1>1, <1>4, <1>7 DEF MessageInv, CancelEnds
<1> QED BY <1>8, <1>9, <1>10, <1>11, <1>12, <1>13, <1>14 DEF MessageInv

\* The cancel that is taken finds its request served.
LEMMA TakenCancel ==
  ASSUME ServiceInv, SubscriptionInv, NEW t \in Threads, NEW s \in Senders, NEW m \in Ids \X {"request", "cancel"},
         Taking(t, s, m), UNCHANGED <<msg, subscriptions, sent, cancelled>>, NEW id \in Ids, m = <<id, "cancel">>
  PROVE  MessageInv(id)'
<1>1. MessageInv(id) /\ Drained /\ ~Busy(t) /\ id[1] = s /\ s \notin pending
  BY DEF SubscriptionInv, Taking, Busy, AtRest
<1>2. ~Taken(id) /\ ~Waiting(id) /\ Taken(id)' /\ id \in cancelled
  BY <1>1, TakeTaken
<1>3. ~Waiting(id)'
  <2>1. m # <<id, "request">>
    OBVIOUS
  <2> QED BY <1>2, <2>1, TakeWaiting
<1>4. \A u \in Threads : ~Does(u, id)
  <2> SUFFICES ASSUME NEW u \in Threads, Does(u, id) PROVE FALSE
    OBVIOUS
  <2>1. Busy(u)
    BY <1>1, RestLinks
  <2> QED BY <1>1, <2>1 DEF Does, ServiceInv, QueuesInv
<1>5. \A u \in Threads \ {t} : SameLinks(u, id)
  BY OtherLinks DEF Taking
<1>6. /\ Looks(t, id)'
      /\ \A u \in Threads : /\ ~Does(u, id)'
                            /\ Reads(u, id) => Reads(u, id)'
                            /\ Destroys(u, id)' <=> Destroys(u, id)
                            /\ Sends(u, id)' <=> Sends(u, id)
                            /\ Ends(u, id)' <=> Ends(u, id)
                            /\ Notifies(u, id)' <=> Notifies(u, id)
                            /\ Cancels(u, id)' <=> Cancels(u, id)
  <2>1. \A u \in Threads \ {t} : Cancels(u, id)' <=> Cancels(u, id)
    BY <1>5 DEF SameLinks, Cancels
  <2>2. Looks(t, id)' /\ ~Does(t, id)'
    <3>1. m # <<id, "request">>
      OBVIOUS
    <3> QED BY <3>1, TakenLinks
  <2> QED BY <1>1, <1>4, <1>5, <2>1, <2>2, RestLinks, TakenLinks DEF SameLinks
<1>7. ~LookedUp(id) /\ ~LookedUp(id)' /\ (Failed(id)' <=> Failed(id))
  BY <1>2, <1>6 DEF LookedUp, Failed
<1>8. Listed(id)'
  BY <1>1 DEF MessageInv, Listed
<1>9. Kept(id)'
  BY <1>1, <1>3, <1>6 DEF MessageInv, Kept
<1>10. Reclaimed(id)'
  BY <1>1, <1>2, <1>4, <1>6 DEF MessageInv, Reclaimed
<1>11. DestroyedOnce(id)'
  BY <1>1, <1>6, <1>7 DEF MessageInv, DestroyedOnce
<1>12. EndedBefore(id)'
  BY <1>1, <1>6, <1>7 DEF MessageInv, EndedBefore
<1>13. Watched(id)'
  BY <1>1, <1>6 DEF MessageInv, Watched
<1>14. CancelEnds(id)'
  BY <1>1, <1>3, <1>6, <1>7 DEF MessageInv, CancelEnds
<1> QED BY <1>8, <1>9, <1>10, <1>11, <1>12, <1>13, <1>14 DEF MessageInv

\* Take keeps what holds of the subscriptions.
LEMMA TakeSubs ==
  ASSUME ServiceInv, SubscriptionInv, NEW t \in Threads, Dispatch(t), scheduled # <<>> PROVE SubscriptionInv'
<1>1. PICK s \in Senders, m \in Ids \X {"request", "cancel"} : Taking(t, s, m)
  BY TakeEffect
<1>2. UNCHANGED <<stop, msg, subscriptions, sent, cancelled, asserts>>
  BY DEF Dispatch
<1>3. Drained'
  BY <1>1, <1>2, TakeDrained DEF SubscriptionInv
<1>4. ASSUME NEW i \in Ids PROVE MessageInv(i)'
  <2>1. CASE m = <<i, "request">>
    BY <1>1, <1>2, <2>1, TakenRequest
  <2>2. CASE m = <<i, "cancel">>
    BY <1>1, <1>2, <2>2, TakenCancel
  <2>3. CASE m # <<i, "request">> /\ m # <<i, "cancel">>
    <3>1. ~Busy(t) /\ Drained /\ MessageInv(i)
      BY <1>1 DEF Taking, Busy, AtRest, SubscriptionInv
    <3>2. SameLinks(t, i)
      BY <1>1, <2>3, <3>1, RestLinks, TakenLinks DEF SameLinks
    <3>3. \A u \in Threads \ {t} : SameLinks(u, i)
      BY <1>1, <1>2, OtherLinks DEF Taking
    <3>4. SameQueue(i)
      <4>1. Waiting(i)' <=> Waiting(i)
        BY <1>1, <2>3, TakeWaiting
      <4>2. Taken(i)' <=> Taken(i)
        BY <1>1, <1>2, <2>3, <3>1, TakeTaken
      <4> QED BY <1>2, <4>1, <4>2 DEF SameQueue
    <3>5. SameMessage(i)
      BY <1>2 DEF SameMessage, SameFields
    <3> QED BY <3>1, <3>2, <3>3, <3>4, <3>5, Untouched
  <2> QED BY <2>1, <2>2, <2>3
<1>5. Excused'
  BY <1>2 DEF SubscriptionInv, Excused, Failed
<1> QED BY <1>3, <1>4, <1>5 DEF SubscriptionInv

-----------------------------------------------------------------------------
(* Threads that wait, and the stop *)

\* A step that changes at most where threads are between queues; one exits
\* only if the service stops and no queue is left.
Resting ==
  /\ stop # "no" => stop' # "no"
  /\ stop' = "closed" => stop = "closed" /\ thread' = thread
  /\ \A u \in Threads :
       IF Busy(u) THEN thread'[u] = thread[u]
       ELSE /\ ~Busy(u)' /\ UNCHANGED <<thread[u].what, thread[u].id, thread[u].at>>
            /\ thread'[u].pc = "exit" => thread[u].pc = "exit" \/ (stop' # "no" /\ scheduled = <<>>)

\* While the threads rest their links stay as they are.
LEMMA RestingLinks ==
  ASSUME Drained, Resting, NEW u \in Threads, NEW id \in Ids, msg[id].kind = "watch" => msg'[id].kind = "watch"
  PROVE  SameLinks(u, id)
<1>1. CASE Busy(u)
  <2>1. thread'[u] = thread[u]
    BY <1>1 DEF Resting
  <2> QED BY <2>1 DEF SameLinks, Does, Reads, Ends, Sends, Destroys, Looks, Fires, Notifies, Releases
<1>2. CASE ~Busy(u)
  <2>1. thread[u].what = Nil /\ thread'[u].what = Nil /\ thread[u].pc \in AtRest /\ thread'[u].pc \in AtRest
    BY <1>2 DEF Resting, Drained, Busy
  <2>2. Nil # "request" /\ Nil # "cancel"
    BY NilAssumption
  <2> QED BY <2>1, <2>2 DEF SameLinks, Does, Reads, Ends, Sends, Destroys, Looks, Fires, Notifies, Releases, AtRest
<1> QED BY <1>1, <1>2

\* What Drained says of the threads, and of a queue that is as it was.
LEMMA RestingThreads ==
  ASSUME ServiceInv, Drained, Resting, \A i \in Ids : Taken(i) => Taken(i)'
  PROVE  /\ \A u \in Threads : Busy(u)' <=> Busy(u)
         /\ \A u \in Threads : /\ ~Busy(u)' => thread'[u].what = Nil /\ thread'[u].id = Nil /\ thread'[u].at = Nil
                               /\ (thread[u].what = "cancel" => Taken(thread[u].id))'
                               /\ thread'[u].pc = "destroy" => thread'[u].at \in Ids
                               /\ thread'[u].pc = "exit" => stop' # "no"
         /\ \A r \in Senders : (\E u \in Threads : Busy(u) /\ thread[u].id[1] = r)
                               => \E u \in Threads : Busy(u)' /\ thread'[u].id[1] = r
<1>1. ASSUME NEW u \in Threads
      PROVE  /\ Busy(u)' <=> Busy(u)
             /\ ~Busy(u)' => thread'[u].what = Nil /\ thread'[u].id = Nil /\ thread'[u].at = Nil
             /\ (thread[u].what = "cancel" => Taken(thread[u].id))'
             /\ thread'[u].pc = "destroy" => thread'[u].at \in Ids
             /\ thread'[u].pc = "exit" => stop' # "no"
             /\ Busy(u) => thread'[u] = thread[u]
  <2>1. CASE Busy(u)
    <3>1. thread'[u] = thread[u] /\ Busy(u)'
      BY <2>1 DEF Resting, Busy
    <3>2. PICK i \in Ids : i = thread[u].id
      BY <2>1 DEF ServiceInv, QueuesInv
    <3>3. thread[u].what = "cancel" => Taken(i)'
      BY <3>2 DEF Drained
    <3>4. (thread[u].what = "cancel" => Taken(thread[u].id))'
      BY <3>1, <3>2, <3>3 DEF Taken
    <3>5. thread[u].pc # "exit"
      BY <2>1 DEF Busy, AtRest
    <3> QED BY <2>1, <3>1, <3>4, <3>5 DEF Drained
  <2>2. CASE ~Busy(u)
    <3>1. ~Busy(u)' /\ thread'[u].what = Nil /\ thread'[u].id = Nil /\ thread'[u].at = Nil
      BY <2>2 DEF Resting, Drained
    <3>2. thread'[u].pc # "destroy" /\ Nil # "cancel"
      BY <3>1, NilAssumption DEF Busy, AtRest
    <3>3. thread'[u].pc = "exit" => stop' # "no"
      BY <2>2 DEF Resting, Drained
    <3> QED BY <2>2, <3>1, <3>2, <3>3
  <2> QED BY <2>1, <2>2
<1> QED BY <1>1

\* Resting keeps what holds of the subscriptions.
LEMMA RestingSubs ==
  ASSUME ServiceInv, SubscriptionInv, Resting,
         UNCHANGED <<scheduled, pending, queue, msg, subscriptions, sent, cancelled, asserts>>
  PROVE  SubscriptionInv'
<1>1. \A i : Taken(i)' <=> Taken(i)
  BY DEF Taken
<1>2. Drained'
  <2>1. Drained
    BY DEF SubscriptionInv
  <2>2. \A r \in Senders : CancelsQueued(r)'
    BY <2>1 DEF Drained, CancelsQueued
  <2>3. scheduled # <<>> => \E u \in Threads : thread'[u].pc # "exit"
    BY <2>1 DEF Drained, Resting, Busy, AtRest
  <2>4. stop' = "closed" => subscriptions = {} /\ \A u \in Threads : thread'[u].pc = "exit"
    BY <2>1 DEF Drained, Resting
  <2>5. /\ \A u \in Threads : Busy(u)' <=> Busy(u)
        /\ \A u \in Threads : /\ ~Busy(u)' => thread'[u].what = Nil /\ thread'[u].id = Nil /\ thread'[u].at = Nil
                              /\ (thread[u].what = "cancel" => Taken(thread[u].id))'
                              /\ thread'[u].pc = "destroy" => thread'[u].at \in Ids
                              /\ thread'[u].pc = "exit" => stop' # "no"
        /\ \A r \in Senders : (\E u \in Threads : Busy(u) /\ thread[u].id[1] = r)
                              => \E u \in Threads : Busy(u)' /\ thread'[u].id[1] = r
    BY <1>1, <2>1, RestingThreads
  <2> QED BY <2>1, <2>2, <2>3, <2>4, <2>5 DEF Drained
<1>3. ASSUME NEW i \in Ids PROVE MessageInv(i)'
  <2>1. \A u \in Threads : SameLinks(u, i)
    BY RestingLinks DEF SubscriptionInv
  <2>2. SameMessage(i) /\ SameQueue(i)
    BY <1>1 DEF SameMessage, SameFields, SameQueue, Waiting
  <2> QED BY <2>1, <2>2, Untouched DEF SubscriptionInv
<1>4. Excused'
  BY DEF SubscriptionInv, Excused, Failed
<1> QED BY <1>2, <1>3, <1>4 DEF SubscriptionInv

\* Dispatch keeps what holds of the subscriptions.
LEMMA DispatchSubs == ASSUME ServiceInv, SubscriptionInv, NEW t \in Threads, Dispatch(t) PROVE SubscriptionInv'
<1>1. CASE scheduled = <<>>
  <2>1. PICK p \in {"wait", "exit"} : thread' = [thread EXCEPT ![t].pc = p] /\ (p = "exit" => stop # "no")
    BY <1>1 DEF Dispatch
  <2>2. /\ UNCHANGED <<scheduled, pending, queue, stop, msg, subscriptions, sent, cancelled, asserts>>
        /\ thread[t].pc = "check"
    BY <1>1 DEF Dispatch
  <2> DEFINE th == [thread[t] EXCEPT !.pc = p]
  <2>3. thread' = [thread EXCEPT ![t] = th] /\ thread \in [Threads -> ThreadRec] /\ thread[t] \in ThreadRec
    BY <2>1 DEF ServiceInv, ServiceTypes
  <2>4. th.pc = p /\ th.what = thread[t].what /\ th.id = thread[t].id /\ th.at = thread[t].at
    BY <2>3 DEF ThreadRec
  <2> HIDE DEF th
  <2>5. /\ thread'[t].pc = p /\ UNCHANGED <<thread[t].what, thread[t].id, thread[t].at>>
        /\ \A u \in Threads \ {t} : thread'[u] = thread[u]
    BY <2>3, <2>4
  <2>6. stop # "closed"
    BY <2>2 DEF SubscriptionInv, Drained
  <2>7. Resting
    BY <1>1, <2>1, <2>2, <2>5, <2>6 DEF Resting, Busy, AtRest
  <2> QED BY <2>2, <2>7, RestingSubs
<1> QED BY <1>1, TakeSubs

\* stop() wakes the threads that wait.
LEMMA StopSubs == ASSUME ServiceInv, SubscriptionInv, Stop PROVE SubscriptionInv'
<1>1. UNCHANGED <<scheduled, pending, queue, msg, subscriptions, sent, cancelled, asserts>> /\ stop' = "stopping"
  BY DEF Stop
<1>2. ASSUME NEW u \in Threads
      PROVE  IF Busy(u) THEN thread'[u] = thread[u]
             ELSE /\ ~Busy(u)' /\ UNCHANGED <<thread[u].what, thread[u].id, thread[u].at>>
                  /\ thread'[u].pc = "exit" => thread[u].pc = "exit"
  <2>1. thread[u] \in ThreadRec
    BY DEF ServiceInv, ServiceTypes
  <2>2. CASE thread[u].pc = "wait"
    <3>1. thread'[u] = [thread[u] EXCEPT !.pc = "check"]
      BY <2>2 DEF Stop
    <3> QED BY <2>1, <2>2, <3>1 DEF ThreadRec, Busy, AtRest
  <2>3. CASE thread[u].pc # "wait"
    <3>1. thread'[u] = thread[u]
      BY <2>1, <2>3 DEF Stop, ThreadRec
    <3> QED BY <3>1 DEF Busy
  <2> QED BY <2>2, <2>3
<1>3. Resting
  BY <1>1, <1>2 DEF Resting
<1> QED BY <1>1, <1>3, RestingSubs

-----------------------------------------------------------------------------
(* What comes from the bus *)

\* Nothing but the queue changes when a message is scheduled.
LEMMA ScheduleResting ==
  ASSUME ServiceInv, NEW s, NEW m, Schedule(s, m), stop = "no", stop' = stop
  PROVE  Resting
<1>1. thread' = thread \/ \E t \in Threads : thread[t].pc = "wait" /\ thread' = [thread EXCEPT ![t].pc = "check"]
  BY DEF Schedule
<1>2. CASE thread' = thread
  BY <1>2 DEF Resting, Busy
<1>3. ASSUME NEW t \in Threads, thread[t].pc = "wait", thread' = [thread EXCEPT ![t].pc = "check"] PROVE Resting
  <2> DEFINE th == [thread[t] EXCEPT !.pc = "check"]
  <2>1. thread' = [thread EXCEPT ![t] = th] /\ thread \in [Threads -> ThreadRec] /\ thread[t] \in ThreadRec
    BY <1>3 DEF ServiceInv, ServiceTypes
  <2>2. th.pc = "check" /\ th.what = thread[t].what /\ th.id = thread[t].id /\ th.at = thread[t].at
    BY <2>1 DEF ThreadRec
  <2> HIDE DEF th
  <2>3. /\ thread'[t].pc = "check" /\ UNCHANGED <<thread[t].what, thread[t].id, thread[t].at>>
        /\ \A u \in Threads \ {t} : thread'[u] = thread[u]
    BY <2>1, <2>2
  <2> QED BY <1>3, <2>3 DEF Resting, Busy, AtRest
<1> QED BY <1>1, <1>2, <1>3

Queued(r, x) == \E n \in DOMAIN queue[r] : queue[r][n] = x

\* The message joins the queue of its sender, and nothing else changes in the queues.
LEMMA ScheduleHas ==
  ASSUME ServiceInv, NEW s \in Senders, NEW m \in Ids \X {"request", "cancel"}, Schedule(s, m), NEW r \in Senders, NEW x
  PROVE  Queued(r, x)' <=> Queued(r, x) \/ (r = s /\ m = x)
<1>1. queue' = [queue EXCEPT ![s] = Append(@, m)] /\ queue \in [Senders -> Seq(Ids \X {"request", "cancel"})]
  BY DEF Schedule, ServiceInv, ServiceTypes
<1>2. CASE r # s
  BY <1>1, <1>2 DEF Queued
<1>3. CASE r = s
  <2> DEFINE M == Ids \X {"request", "cancel"}
             q == queue[s]
  <2>1. queue'[r] = Append(q, m) /\ queue[r] = q /\ q \in Seq(M)
    BY <1>1, <1>3
  <2>2. m \in M
    OBVIOUS
  <2> HIDE DEF M, q
  <2>3. (\E n \in DOMAIN Append(q, m) : Append(q, m)[n] = x) <=> (\E n \in DOMAIN q : q[n] = x) \/ m = x
    BY <2>1, <2>2, AppendHas
  <2> QED BY <1>3, <2>1, <2>3 DEF Queued
<1> QED BY <1>2, <1>3

\* It is announced, and somebody will look at it.
LEMMA ScheduleDrained ==
  ASSUME ServiceInv, Drained, NEW s \in Senders, NEW m \in Ids \X {"request", "cancel"}, Schedule(s, m),
         stop = "no", UNCHANGED <<stop, pending>>, \A i \in Ids : Taken(i) => Taken(i)',
         CancelsQueued(s)', cancelled \subseteq cancelled'
  PROVE  Drained'
<1>0. Resting
  BY ScheduleResting
<1>1. /\ \A u \in Threads : Busy(u)' <=> Busy(u)
      /\ \A u \in Threads : /\ ~Busy(u)' => thread'[u].what = Nil /\ thread'[u].id = Nil /\ thread'[u].at = Nil
                            /\ (thread[u].what = "cancel" => Taken(thread[u].id))'
                            /\ thread'[u].pc = "destroy" => thread'[u].at \in Ids
                            /\ thread'[u].pc = "exit" => stop' # "no"
      /\ \A r \in Senders : (\E u \in Threads : Busy(u) /\ thread[u].id[1] = r)
                            => \E u \in Threads : Busy(u)' /\ thread'[u].id[1] = r
  BY <1>0, RestingThreads
<1>2. ASSUME NEW r \in Senders PROVE CancelsQueued(r)'
  <2>1. CASE r # s
    <3>1. queue'[r] = queue[r]
      BY <2>1 DEF Schedule, ServiceInv, ServiceTypes
    <3>2. CancelsQueued(r)
      BY DEF Drained
    <3> QED BY <3>1, <3>2 DEF CancelsQueued
  <2> QED BY <2>1
<1>3. scheduled \in Seq(Senders)
  BY DEF ServiceInv, ServiceTypes
<1>4. \/ scheduled' = scheduled /\ (s \in pending \/ \E n \in DOMAIN scheduled : scheduled[n] = s)
      \/ scheduled' = Append(scheduled, s)
  <2>1. s \in ToSet(scheduled) <=> \E n \in DOMAIN scheduled : scheduled[n] = s
    BY DEF ToSet
  <2> QED BY <2>1 DEF Schedule
<1>5. ASSUME NEW r \in Senders, queue'[r] # <<>> PROVE r \in pending \/ \E n \in DOMAIN scheduled' : scheduled'[n] = r
  <2>1. \A n \in DOMAIN scheduled : n \in DOMAIN scheduled' /\ scheduled'[n] = scheduled[n]
    BY <1>3, <1>4
  <2>2. CASE r # s
    <3>1. queue'[r] = queue[r]
      BY <2>2 DEF Schedule, ServiceInv, ServiceTypes
    <3> QED BY <1>5, <2>1, <3>1 DEF Drained
  <2>3. CASE r = s
    <3>1. scheduled' = Append(scheduled, s) => Len(scheduled) + 1 \in DOMAIN scheduled' /\ scheduled'[Len(scheduled) + 1] = s
      BY <1>3
    <3> QED BY <1>4, <2>3, <3>1
  <2> QED BY <2>2, <2>3
<1>6. \E u \in Threads : thread'[u].pc # "exit"
  BY <1>1, ThreadsAssumption
<1>7. \A r \in Senders : r \in pending => \E u \in Threads : Busy(u)' /\ thread'[u].id[1] = r
  BY <1>1 DEF Drained
<1> QED BY <1>1, <1>2, <1>5, <1>6, <1>7 DEF Drained

\* A request is entered as a subscription before it is queued.
LEMMA ArrivedMessage ==
  ASSUME ServiceInv, SubscriptionInv, Resting, NEW id \in Ids, NEW kind \in {"put", "get", "watch"},
         msg[id] = NoMessage, msg'[id].kind = kind, msg'[id].subscribed = Subscribing(kind), msg'[id].exists,
         ~msg'[id].slot, ~msg'[id].held, msg'[id].watch = "none",
         subscriptions' = IF Subscribing(kind) THEN subscriptions \cup {id} ELSE subscriptions,
         Waiting(id)', UNCHANGED <<sent, cancelled>>
  PROVE  MessageInv(id)' /\ ~(id \in cancelled)
<1>1. MessageInv(id) /\ Drained
  BY DEF SubscriptionInv
<1>2. msg[id].kind = Nil /\ msg[id].watch = "none" /\ ~msg[id].subscribed
  BY DEF NoMessage
<1>3. sent[id] = <<>>
  BY <1>2 DEF ServiceInv, OrderInv, OrderOf, Arrived
<1>4. id \notin cancelled /\ id \notin subscriptions
  BY <1>1, <1>2, NilAssumption DEF MessageInv, CancelEnds, Listed
<1>5. \A u \in Threads : ~Ends(u, id) /\ ~Destroys(u, id)
  <2>1. \A u \in Threads : ~Ends(u, id)
    BY <1>2 DEF Ends, ServiceInv, SentInv, TokenOf, Firing
  <2>2. \A u \in Threads : ~Destroys(u, id)
    BY <1>1, <1>2 DEF MessageInv, Kept
  <2> QED BY <2>1, <2>2
<1>6. \A u \in Threads : ~Ends(u, id)' /\ ~Destroys(u, id)'
  <2>1. \A u \in Threads : SameLinks(u, id)
    BY <1>1, <1>2, NilAssumption, RestingLinks
  <2> QED BY <1>5, <2>1 DEF SameLinks
<1>7. ~Taken(id)' /\ ~LookedUp(id)'
  BY <1>4 DEF Taken, LookedUp
<1>8. Listed(id)'
  <2>1. CASE Subscribing(kind)
    BY <2>1 DEF Listed
  <2>2. CASE ~Subscribing(kind)
    BY <1>4, <2>2 DEF Listed
  <2> QED BY <2>1, <2>2
<1>9. Kept(id)'
  BY <1>6 DEF Kept
<1>10. Reclaimed(id)'
  BY DEF Reclaimed
<1>11. DestroyedOnce(id)'
  BY <1>6 DEF DestroyedOnce
<1>12. EndedBefore(id)'
  BY <1>3, <1>6 DEF EndedBefore
<1>13. Watched(id)'
  BY DEF Watched, Subscribing
<1>14. CancelEnds(id)'
  BY <1>4, <1>7 DEF CancelEnds
<1> QED BY <1>4, <1>8, <1>9, <1>10, <1>11, <1>12, <1>13, <1>14 DEF MessageInv

\* HandleRequest keeps what holds of the subscriptions.
LEMMA HandleRequestSubs ==
  ASSUME ServiceInv, SubscriptionInv, NEW id \in Ids, NEW kind \in {"put", "get", "watch"}, HandleRequest(id, kind)
  PROVE  SubscriptionInv'
<1> DEFINE m == [NoMessage EXCEPT !.kind = kind, !.subscribed = Subscribing(kind), !.exists = TRUE]
<1>1. m.kind = kind /\ m.subscribed = Subscribing(kind) /\ m.exists /\ ~m.slot /\ ~m.held /\ m.watch = "none"
  BY DEF NoMessage
<1>2. /\ msg' = [msg EXCEPT ![id] = m] /\ msg[id] = NoMessage
      /\ subscriptions' = IF Subscribing(kind) THEN subscriptions \cup {id} ELSE subscriptions
      /\ stop = "no" /\ UNCHANGED <<pending, stop, sent, cancelled, asserts>>
      /\ Schedule(id[1], <<id, "request">>)
  BY DEF HandleRequest
<1> HIDE DEF m
<1>3. msg'[id] = m /\ \A i \in Ids \ {id} : msg'[i] = msg[i]
  BY <1>2 DEF ServiceInv, ServiceTypes
<1>4. PICK e \in Ids \X {"request", "cancel"} : e = <<id, "request">>
  OBVIOUS
<1>5. /\ Schedule(id[1], e) /\ id[1] \in Senders /\ e[1] = id /\ e[2] = "request"
      /\ (\A i : e = <<i, "request">> <=> i = id) /\ \A i : e # <<i, "cancel">>
  BY <1>2, <1>4, IdShape
<1>6. Resting
  BY <1>2, <1>5, ScheduleResting
<1>7. ASSUME NEW i \in Ids PROVE (Waiting(i)' <=> Waiting(i) \/ i = id) /\ (Taken(i)' <=> Taken(i))
  <2>1. PICK r \in Senders : r = i[1]
    BY IdShape
  <2>2. ASSUME NEW x PROVE Queued(r, x)' <=> Queued(r, x) \/ (r = id[1] /\ e = x)
    <3>1. PICK s \in Senders : s = id[1]
      BY <1>5
    <3>2. Schedule(s, e)
      BY <1>5, <3>1
    <3> QED BY <3>1, <3>2, ScheduleHas
  <2>3. Waiting(i)' <=> Waiting(i) \/ i = id
    BY <1>5, <2>1, <2>2, ZenonT(40) DEF Queued, Waiting
  <2>4. Taken(i)' <=> Taken(i)
    BY <1>2, <1>5, <2>1, <2>2 DEF Queued, Taken
  <2> QED BY <2>3, <2>4
<1>8. MessageInv(id)' /\ id \notin cancelled
  BY <1>1, <1>2, <1>3, <1>6, <1>7, ArrivedMessage
<1>9. ASSUME NEW i \in Ids \ {id} PROVE MessageInv(i)'
  <2>1. SameMessage(i) /\ SameQueue(i)
    BY <1>2, <1>3, <1>7 DEF SameMessage, SameFields, SameQueue
  <2>2. \A u \in Threads : SameLinks(u, i)
    BY <1>3, <1>6, RestingLinks DEF SubscriptionInv
  <2> QED BY <2>1, <2>2, Untouched DEF SubscriptionInv
<1>10. CancelsQueued(id[1])'
  <2> DEFINE q == queue[id[1]]
  <2>1. queue'[id[1]] = Append(q, e) /\ q \in Seq(Ids \X {"request", "cancel"})
    BY <1>5 DEF Schedule, ServiceInv, ServiceTypes
  <2>2. \A n \in DOMAIN q : q[n][1] # id
    <3>1. msg[id].kind = Nil
      BY <1>2 DEF NoMessage
    <3> QED BY <1>5, <3>1 DEF ServiceInv, QueuesInv
  <2>3. CancelsQueued(id[1])
    BY <1>5 DEF SubscriptionInv, Drained
  <2>4. \A n \in DOMAIN q : q[n][2] = "cancel" =>
            /\ q[n][1] \in cancelled
            /\ \A k \in DOMAIN q : q[k][1] = q[n][1] => IF q[k][2] = "cancel" THEN k = n ELSE k < n
    BY <2>3 DEF CancelsQueued
  <2> HIDE DEF q
  <2>5. \A n \in DOMAIN Append(q, e) : (n \in DOMAIN q /\ Append(q, e)[n] = q[n]) \/ Append(q, e)[n] = e
    BY <2>1
  <2>6. \A n \in DOMAIN Append(q, e) : Append(q, e)[n][2] = "cancel" =>
            /\ Append(q, e)[n][1] \in cancelled
            /\ \A k \in DOMAIN Append(q, e) : Append(q, e)[k][1] = Append(q, e)[n][1] =>
                  IF Append(q, e)[k][2] = "cancel" THEN k = n ELSE k < n
    BY <1>5, <2>2, <2>4, <2>5
  <2> QED BY <1>2, <2>1, <2>6 DEF CancelsQueued
<1>11. Drained'
  BY <1>2, <1>5, <1>7, <1>10, ScheduleDrained DEF SubscriptionInv
<1>12. Excused'
  BY <1>2 DEF SubscriptionInv, Excused, Failed
<1> QED BY <1>8, <1>9, <1>11, <1>12 DEF SubscriptionInv

\* A cancel is queued behind its request, once.
LEMMA HandleCancelSubs ==
  ASSUME ServiceInv, SubscriptionInv, NEW id \in Ids, HandleCancel(id) PROVE SubscriptionInv'
<1>1. /\ stop = "no" /\ UNCHANGED <<pending, stop, msg, subscriptions, sent, asserts>>
      /\ msg[id].kind = "watch" /\ id \notin cancelled /\ cancelled' = cancelled \cup {id}
      /\ Schedule(id[1], <<id, "cancel">>)
  BY DEF HandleCancel
<1>2. PICK e \in Ids \X {"request", "cancel"} : e = <<id, "cancel">>
  OBVIOUS
<1>3. /\ Schedule(id[1], e) /\ id[1] \in Senders /\ e[1] = id /\ e[2] = "cancel"
      /\ (\A i : e = <<i, "cancel">> <=> i = id) /\ \A i : e # <<i, "request">>
  BY <1>1, <1>2, IdShape
<1>4. Resting
  BY <1>1, <1>3, ScheduleResting
<1>5. ASSUME NEW i \in Ids
      PROVE  (Waiting(i)' <=> Waiting(i)) /\ (i # id => (Taken(i)' <=> Taken(i))) /\ ~Taken(id) /\ (i = id => ~Taken(i)')
  <2>1. PICK r \in Senders : r = i[1]
    BY IdShape
  <2>2. ASSUME NEW x PROVE Queued(r, x)' <=> Queued(r, x) \/ (r = id[1] /\ e = x)
    <3>1. PICK s \in Senders : s = id[1]
      BY <1>3
    <3>2. Schedule(s, e)
      BY <1>3, <3>1
    <3> QED BY <3>1, <3>2, ScheduleHas
  <2>3. Waiting(i)' <=> Waiting(i)
    <3>1. e # <<i, "request">>
      BY <1>3
    <3> QED BY <2>1, <2>2, <3>1 DEF Queued, Waiting
  <2>4. i # id => (Taken(i)' <=> Taken(i))
    <3>1. i # id => e # <<i, "cancel">>
      BY <1>3
    <3> QED BY <1>1, <2>1, <2>2, <3>1 DEF Queued, Taken
  <2>5. ~Taken(id)
    BY <1>1 DEF Taken
  <2>6. i = id => ~Taken(i)'
    BY <1>3, <2>1, <2>2 DEF Queued, Taken
  <2> QED BY <2>3, <2>4, <2>5, <2>6
<1>6. ASSUME NEW i \in Ids PROVE SameMessage(i) /\ (\A u \in Threads : SameLinks(u, i)) /\ MessageInv(i)
  BY <1>1, <1>4, RestingLinks DEF SubscriptionInv, SameMessage, SameFields
<1>7. ASSUME NEW i \in Ids \ {id} PROVE MessageInv(i)'
  <2>1. SameQueue(i)
    BY <1>1, <1>5 DEF SameQueue
  <2> QED BY <1>6, <2>1, Untouched
<1>8. MessageInv(id)'
  <2>1. /\ MessageInv(id) /\ SameMessage(id) /\ \A u \in Threads : SameLinks(u, id)
        /\ Waiting(id)' <=> Waiting(id)
    BY <1>5, <1>6
  <2>2. \A u \in Threads : Cancels(u, id)' <=> Cancels(u, id)
    BY <2>1, SameCancels
  <2>3. ~LookedUp(id) /\ ~LookedUp(id)' /\ ~Taken(id)' /\ (Failed(id)' <=> Failed(id))
    BY <1>1, <1>5 DEF LookedUp, Failed
  <2>4. Listed(id)'
    BY <1>1, <2>1 DEF MessageInv, Listed
  <2>5. Kept(id)'
    BY <1>1, <2>1 DEF MessageInv, Kept, SameLinks
  <2>6. Reclaimed(id)'
    BY <1>1, <2>1, <2>2 DEF MessageInv, Reclaimed, SameLinks
  <2>7. DestroyedOnce(id)'
    BY <1>1, <2>1, <2>2, <2>3 DEF MessageInv, DestroyedOnce, SameLinks
  <2>8. EndedBefore(id)'
    BY <1>1, <2>1, <2>3 DEF MessageInv, EndedBefore, SameLinks
  <2>9. Watched(id)'
    BY <1>1, <2>1 DEF MessageInv, Watched, SameLinks
  <2>10. CancelEnds(id)'
    BY <1>1, <2>3 DEF CancelEnds
  <2> QED BY <2>4, <2>5, <2>6, <2>7, <2>8, <2>9, <2>10 DEF MessageInv
<1>9. CancelsQueued(id[1])'
  <2> DEFINE q == queue[id[1]]
  <2>1. queue'[id[1]] = Append(q, e) /\ q \in Seq(Ids \X {"request", "cancel"})
    BY <1>3 DEF Schedule, ServiceInv, ServiceTypes
  <2>2. CancelsQueued(id[1])
    BY <1>3 DEF SubscriptionInv, Drained
  <2>3. \A n \in DOMAIN q : q[n][2] = "cancel" =>
            /\ q[n][1] \in cancelled
            /\ \A k \in DOMAIN q : q[k][1] = q[n][1] => IF q[k][2] = "cancel" THEN k = n ELSE k < n
    BY <2>2 DEF CancelsQueued
  <2> HIDE DEF q
  <2>4. \A n \in DOMAIN q : q[n][2] = "cancel" => q[n][1] # id
    BY <1>1, <2>3
  <2>5. /\ \A n \in DOMAIN Append(q, e) : \/ n \in DOMAIN q /\ Append(q, e)[n] = q[n]
                                          \/ n = Len(q) + 1 /\ Append(q, e)[n] = e
        /\ \A n \in DOMAIN q : n < Len(q) + 1
    BY <2>1
  <2>6. ASSUME NEW n \in DOMAIN Append(q, e), Append(q, e)[n][2] = "cancel",
               NEW k \in DOMAIN Append(q, e), Append(q, e)[k][1] = Append(q, e)[n][1]
        PROVE  IF Append(q, e)[k][2] = "cancel" THEN k = n ELSE k < n
    <3>1. CASE n \in DOMAIN q /\ Append(q, e)[n] = q[n]
      <4>1. k \in DOMAIN q /\ Append(q, e)[k] = q[k]
        BY <1>3, <2>4, <2>5, <2>6, <3>1
      <4> QED BY <2>3, <2>6, <3>1, <4>1
    <3>2. CASE n = Len(q) + 1 /\ Append(q, e)[n] = e
      BY <1>3, <2>4, <2>5, <2>6, <3>2
    <3> QED BY <2>5, <3>1, <3>2
  <2>7. \A n \in DOMAIN Append(q, e) : Append(q, e)[n][2] = "cancel" => Append(q, e)[n][1] \in cancelled'
    BY <1>1, <1>3, <2>3, <2>5
  <2> QED BY <2>1, <2>6, <2>7 DEF CancelsQueued
<1>10. Drained'
  <2>1. \A i \in Ids : Taken(i) => Taken(i)'
    BY <1>5
  <2> QED BY <1>1, <1>3, <1>9, <2>1, ScheduleDrained DEF SubscriptionInv
<1>11. Excused'
  BY <1>1 DEF SubscriptionInv, Excused, Failed
<1> QED BY <1>7, <1>8, <1>10, <1>11 DEF SubscriptionInv

\* The subscriptions and the cancels are of messages.
Known == subscriptions \subseteq Ids /\ cancelled \subseteq Ids

\* close() of the service, when all threads have gone: whoever is still
\* subscribed has a Watcher that can be cancelled.
LEMMA CloseServiceSubs == ASSUME ServiceInv, SubscriptionInv, Known, CloseService PROVE SubscriptionInv'
<1>1. /\ UNCHANGED <<scheduled, pending, queue, thread, sent, cancelled, asserts>> /\ stop' = "closed"
      /\ \A u \in Threads : thread[u].pc = "exit" /\ ~Busy(u)
  BY DEF CloseService, Busy, AtRest
<1> DEFINE gone == {id \in subscriptions : msg[id].slot}
           off(id) == [msg[id] EXCEPT !.slot = FALSE, !.held = FALSE, !.watch = "off", !.subscribed = FALSE, !.exists = FALSE]
<1>2. /\ msg' = [id \in Ids |-> IF id \in gone THEN off(id) ELSE msg[id]]
      /\ subscriptions' = subscriptions \ gone
  BY DEF CloseService
<1>3. ASSUME NEW i \in Ids
      PROVE  /\ \A u \in Threads : /\ ~Does(u, i) /\ ~Reads(u, i) /\ ~Ends(u, i) /\ ~Sends(u, i) /\ ~Destroys(u, i)
                                   /\ ~Looks(u, i) /\ ~Fires(u, i) /\ ~Notifies(u, i) /\ ~Cancels(u, i)
             /\ ~Waiting(i)
  <2>1. scheduled = <<>> /\ pending = {}
    BY <1>1 DEF SubscriptionInv, Drained, ServiceInv, ServiceTypes
  <2>2. queue[i[1]] = <<>>
    BY <2>1, IdShape DEF SubscriptionInv, Drained
  <2> QED BY <1>1, <2>2, RestLinks DEF SubscriptionInv, Waiting
<1>4. subscriptions' = {}
  <2> SUFFICES ASSUME NEW i \in subscriptions PROVE i \in gone
    BY <1>2
  <2>1. i \in Ids /\ MessageInv(i)
    BY DEF Known, SubscriptionInv
  <2>2. msg[i].exists
    BY <2>1 DEF MessageInv, Listed
  <2>3. msg[i].held
    BY <1>3, <2>1, <2>2 DEF MessageInv, Reclaimed
  <2> QED BY <1>3, <2>1, <2>3 DEF MessageInv, Kept
<1>5. ASSUME NEW i \in gone, i \in Ids
      PROVE  /\ ~msg'[i].slot /\ ~msg'[i].held /\ ~msg'[i].subscribed /\ ~msg'[i].exists /\ msg'[i].watch = "off"
             /\ msg'[i].kind = msg[i].kind
  <2>1. msg[i] \in MessageRec
    BY <1>5 DEF ServiceInv, ServiceTypes
  <2>2. msg'[i] = off(i)
    BY <1>2, <1>5
  <2> QED BY <2>1, <2>2 DEF MessageRec
<1>6. \A i \in Ids : i \notin gone => msg'[i] = msg[i] /\ (i \in subscriptions' <=> i \in subscriptions)
  BY <1>2
<1> HIDE DEF gone, off
<1>7. \A i \in Ids : (Taken(i)' <=> Taken(i)) /\ (Waiting(i)' <=> Waiting(i))
  BY <1>1 DEF Taken, Waiting
<1>8. ASSUME NEW i \in Ids PROVE MessageInv(i)'
  <2>1. msg'[i].kind = msg[i].kind
    BY <1>5, <1>6
  <2>2. \A u \in Threads : SameLinks(u, i)
    BY <1>1, <2>1, OtherLinks
  <2>3. MessageInv(i) /\ SameQueue(i)
    BY <1>1, <1>7 DEF SubscriptionInv, SameQueue
  <2>4. CASE i \notin gone
    <3>1. SameMessage(i)
      BY <1>1, <1>6, <2>4 DEF SameMessage, SameFields
    <3> QED BY <2>2, <2>3, <3>1, Untouched
  <2>5. CASE i \in gone
    <3>1. \A u \in Threads : /\ ~Does(u, i)' /\ ~Sends(u, i)' /\ ~Ends(u, i)' /\ ~Destroys(u, i)' /\ ~Notifies(u, i)'
                             /\ ~Cancels(u, i)'
      <4>1. \A u \in Threads : Cancels(u, i)' <=> Cancels(u, i)
        BY <2>2, SameCancels
      <4> QED BY <1>3, <2>2, <4>1 DEF SameLinks
    <3>2. ~Waiting(i)'
      BY <1>3, <1>7
    <3>3. Listed(i)' /\ Kept(i)' /\ Reclaimed(i)'
      BY <1>4, <1>5, <2>5, <3>1, <3>2 DEF Listed, Kept, Reclaimed
    <3>4. DestroyedOnce(i)' /\ EndedBefore(i)'
      BY <1>5, <2>5, <3>1 DEF DestroyedOnce, EndedBefore
    <3>5. Watched(i)'
      BY <1>5, <2>5, <3>1 DEF Watched
    <3>6. CancelEnds(i)'
      BY <1>1, <1>5, <2>1, <2>3, <2>5, <3>1, <3>2 DEF CancelEnds, MessageInv
    <3> QED BY <3>3, <3>4, <3>5, <3>6 DEF MessageInv
  <2> QED BY <2>4, <2>5
<1>9. Drained'
  <2>1. Drained /\ (\A u \in Threads : Busy(u)' <=> Busy(u)) /\ \A r \in Senders : CancelsQueued(r)' <=> CancelsQueued(r)
    BY <1>1 DEF SubscriptionInv, Busy, CancelsQueued
  <2>2. \A u \in Threads : thread[u].what = Nil /\ Nil # "cancel"
    BY <1>1, <2>1, NilAssumption DEF Drained
  <2> QED BY <1>1, <1>4, <2>1, <2>2 DEF Drained
<1>10. Excused'
  BY <1>1 DEF SubscriptionInv, Excused, Failed
<1> QED BY <1>8, <1>9, <1>10 DEF SubscriptionInv

-----------------------------------------------------------------------------
(* Subscriptions end *)

\* Whoever is entered or removed is a message: the one that is served, whose
\* watch fires, or that is destroyed.
LEMMA ThreadKnown ==
  ASSUME ServiceInv, Drained, Known, NEW t \in Threads, ThreadStep(t)
  PROVE  Known'
<1> DEFINE Kin(id) == id \in Ids /\ cancelled' = cancelled
                      /\ subscriptions' \in {subscriptions, subscriptions \cup {id}, subscriptions \ {id}}
<1>1. ASSUME NEW id, Kin(id) PROVE Known'
  BY <1>1 DEF Known
<1>2. ASSUME UNCHANGED <<subscriptions, cancelled>> PROVE Known'
  BY <1>2 DEF Known
<1>3. ASSUME NEW id \in Ids, Register(id, Reply(id, msg[id])) \/ Register(id, Unsubscribed(id, msg[id])) \/ Register(id, msg[id])
      PROVE  subscriptions' \in {subscriptions, subscriptions \cup {id}, subscriptions \ {id}}
  <2>1. ASSUME NEW m, Register(id, m) PROVE subscriptions' \in {subscriptions, subscriptions \cup {id}, subscriptions \ {id}}
    BY <2>1, Zenon DEF Register
  <2> QED BY <1>3, <2>1
<1>4. ASSUME NEW id \in Ids, Destroyed(id) PROVE subscriptions' \in {subscriptions, subscriptions \cup {id}, subscriptions \ {id}}
  BY <1>4 DEF Destroyed
<1>5. Busy(t) => thread[t].id \in Ids
  BY DEF ServiceInv, QueuesInv
<1>6. thread[t].pc \in Firing => thread[t].at \in Ids
  BY DEF ServiceInv, SentInv, TokenOf
<1>7. thread[t].pc = "destroy" => thread[t].at \in Ids
  BY DEF Drained
<1>8. CASE Refuse(t)
  <2>1. Busy(t) /\ cancelled' = cancelled
    BY <1>8 DEF Refuse, Busy, AtRest
  <2>2. CASE Send(thread[t].id, "error")
    BY <1>1, <1>3, <1>5, <2>1, <2>2 DEF Send
  <2>3. CASE subscriptions' = subscriptions
    BY <1>2, <2>1, <2>3
  <2> QED BY <1>8, <2>2, <2>3 DEF Refuse
<1>9. CASE Answer(t)
  <2>1. Busy(t) /\ cancelled' = cancelled /\ Send(thread[t].id, "answer")
    BY <1>9 DEF Answer, Busy, AtRest
  <2> QED BY <1>1, <1>3, <1>5, <2>1 DEF Send
<1>10. CASE SendFired(t)
  <2>1. thread[t].at \in Ids /\ cancelled' = cancelled /\ Send(thread[t].at, "fired")
    BY <1>6, <1>10 DEF SendFired, Firing
  <2> QED BY <1>1, <1>3, <2>1 DEF Send
<1>11. CASE CancelSlot(t)
  <2>1. thread[t].at \in Ids /\ cancelled' = cancelled
    BY <1>6, <1>11 DEF CancelSlot, Firing
  <2>2. PICK m : Register(thread[t].at, m)
    BY <1>11 DEF CancelSlot
  <2>3. subscriptions' \in {subscriptions, subscriptions \cup {thread[t].at}, subscriptions \ {thread[t].at}}
    BY <2>2, Zenon DEF Register
  <2> QED BY <1>1, <2>1, <2>3
<1>12. CASE Destroy(t)
  BY <1>1, <1>4, <1>7, <1>12 DEF Destroy
<1>13. CASE Finish(t)
  <2>1. Busy(t) /\ cancelled' = cancelled
    BY <1>13 DEF Finish, Busy, AtRest
  <2>2. Destroyed(thread[t].id) \/ subscriptions' = subscriptions
    BY <1>13 DEF Finish
  <2> QED BY <1>1, <1>2, <1>4, <1>5, <2>1, <2>2
<1>14. CASE Dispatch(t) \/ Retry(t) \/ Commit(t) \/ Connect(t) \/ (\E r \in {"found", "read", "error"} : Visit(t, r))
            \/ Execute(t) \/ Close(t)
  BY <1>2, <1>14 DEF Dispatch, Retry, Commit, Connect, Visit, Execute, Close
<1>15. CASE Fire(t) \/ TakeMessage(t) \/ LookUp(t) \/ FireCancel(t) \/ WatcherCancel(t) \/ Release(t)
  BY <1>2, <1>15 DEF Fire, TakeMessage, LookUp, FireCancel, WatcherCancel, Release
<1> QED BY <1>8, <1>9, <1>10, <1>11, <1>12, <1>13, <1>14, <1>15 DEF ThreadStep, Serve, Notify, Cancel

\* Every step keeps what is known of the subscriptions.
LEMMA NextKnown == ServiceInv /\ Drained /\ Known /\ [Next]_vars => Known'
<1> SUFFICES ASSUME ServiceInv, Drained, Known, [Next]_vars PROVE Known'
  OBVIOUS
<1>1. ASSUME NEW id \in Ids, NEW kind \in {"put", "get", "watch"}, HandleRequest(id, kind) PROVE Known'
  BY <1>1 DEF HandleRequest, Known
<1>2. ASSUME NEW id \in Ids, HandleCancel(id) PROVE Known'
  BY <1>2 DEF HandleCancel, Known
<1>3. ASSUME NEW t \in Threads, ThreadStep(t) PROVE Known'
  BY <1>3, ThreadKnown
<1>4. CASE Stop \/ UNCHANGED vars
  BY <1>4 DEF Stop, vars, Known
<1>5. CASE CloseService
  BY <1>5 DEF CloseService, Known
<1> QED BY <1>1, <1>2, <1>3, <1>4, <1>5 DEF Next

\* It holds at the start.
LEMMA InitSubs == Init => SubscriptionInv /\ Known
<1> SUFFICES ASSUME Init PROVE SubscriptionInv /\ Known
  OBVIOUS
<1>1. Idle.pc = "check" /\ Idle.what = Nil /\ Idle.id = Nil /\ Idle.at = Nil
  BY DEF Idle
<1>2. /\ NoMessage.kind = Nil /\ ~NoMessage.subscribed /\ ~NoMessage.slot /\ ~NoMessage.exists /\ ~NoMessage.held
      /\ NoMessage.watch = "none"
  BY DEF NoMessage
<1>3. \A t \in Threads : thread[t] = Idle /\ ~Busy(t)
  BY <1>1 DEF Init, Busy, AtRest
<1>4. Drained
  BY <1>1, <1>3, NilAssumption DEF Init, Drained, CancelsQueued
<1>5. ASSUME NEW id \in Ids PROVE MessageInv(id)
  <2>1. msg[id] = NoMessage /\ sent[id] = <<>> /\ subscriptions = {} /\ cancelled = {} /\ queue[id[1]] = <<>>
    BY IdShape DEF Init
  <2>2. \A t \in Threads : /\ ~Does(t, id) /\ ~Sends(t, id) /\ ~Ends(t, id) /\ ~Destroys(t, id) /\ ~Notifies(t, id)
                           /\ ~Cancels(t, id)
    BY <1>3, <1>4, RestLinks
  <2>3. ~Waiting(id) /\ ~Taken(id) /\ ~LookedUp(id)
    BY <2>1 DEF Waiting, Taken, LookedUp
  <2>4. Nil # "watch"
    BY NilAssumption
  <2> QED BY <1>2, <2>1, <2>2, <2>3, <2>4
          DEF MessageInv, Listed, Kept, Reclaimed, DestroyedOnce, EndedBefore, Watched, CancelEnds
<1>6. Excused /\ Known
  BY DEF Init, Excused, Known
<1> QED BY <1>4, <1>5, <1>6 DEF SubscriptionInv

\* Every step keeps what holds of the subscriptions.
LEMMA NextSubs == ServiceInv /\ SubscriptionInv /\ Known /\ [Next]_vars => SubscriptionInv'
<1> SUFFICES ASSUME ServiceInv, SubscriptionInv, Known, [Next]_vars PROVE SubscriptionInv'
  OBVIOUS
<1>1. ASSUME NEW id \in Ids, NEW kind \in {"put", "get", "watch"}, HandleRequest(id, kind) PROVE SubscriptionInv'
  BY <1>1, HandleRequestSubs
<1>2. ASSUME NEW id \in Ids, HandleCancel(id) PROVE SubscriptionInv'
  BY <1>2, HandleCancelSubs
<1>3. ASSUME NEW t \in Threads, ThreadStep(t) PROVE SubscriptionInv'
  BY <1>3, DispatchSubs, StepSubs, FinishSubs DEF ThreadStep
<1>4. CASE Stop
  BY <1>4, StopSubs
<1>5. CASE CloseService
  BY <1>5, CloseServiceSubs
<1>6. CASE UNCHANGED vars
  <2>1. Resting
    BY <1>6 DEF vars, Resting, Busy
  <2> QED BY <1>6, <2>1, RestingSubs DEF vars
<1> QED BY <1>1, <1>2, <1>3, <1>4, <1>5, <1>6 DEF Next

\* Who holds a message, and what becomes of its subscription, whatever the
\* requests, the senders and the threads are.
THEOREM SubscriptionInvAlways == Spec => [](ServiceInv /\ SubscriptionInv /\ Known)
<1>1. Init => SubscriptionInv /\ Known
  BY InitSubs
<1>2. ServiceInv /\ SubscriptionInv /\ Known /\ [Next]_vars => (SubscriptionInv /\ Known)'
  BY NextSubs, NextKnown DEF SubscriptionInv
<1> QED BY <1>1, <1>2, ServiceInvAlways, PTL DEF Spec

\* The invariants say that a subscription ends once.
LEMMA SubscriptionsHold == ServiceInv /\ SubscriptionInv /\ Known => SubscriptionsEnd
<1> SUFFICES ASSUME ServiceInv, SubscriptionInv, Known PROVE SubscriptionsEnd
  OBVIOUS
<1>1. SubscriptionsSafe
  <2> SUFFICES ASSUME NEW a \in asserts PROVE "error" \in ToSet(sent[a[1]])
    BY DEF SubscriptionsSafe
  <2>1. Failed(a[1])
    BY DEF SubscriptionInv, Excused
  <2> QED BY <2>1 DEF Failed, ToSet
<1>2. ASSUME NEW id \in Ids, msg[id].watch = "active", msg[id].slot PROVE id \in subscriptions
  <2>1. MessageInv(id)
    BY DEF SubscriptionInv
  <2>2. msg[id].kind = "watch"
    BY <1>2 DEF ServiceInv, SentInv, SentOf
  <2>3. msg[id].subscribed
    BY <1>2, <2>1, <2>2 DEF MessageInv, Watched
  <2>4. msg[id].exists
    BY <1>2, <2>1 DEF MessageInv, Kept
  <2> QED BY <2>1, <2>3, <2>4 DEF MessageInv, Listed
<1>3. ASSUME NEW id \in cancelled, \A t \in Threads : thread[t].id # id /\ thread[t].at # id, queue[id[1]] = <<>>
      PROVE  msg[id].watch \notin {"pending", "active"}
  <2>1. id \in Ids /\ MessageInv(id)
    BY DEF Known, SubscriptionInv
  <2>2. Taken(id)
    BY <1>3 DEF Taken
  <2>3. \A t \in Threads : ~Looks(t, id) /\ ~Fires(t, id) /\ ~Notifies(t, id)
    BY <1>3 DEF Looks, Fires, Notifies
  <2> QED BY <2>1, <2>2, <2>3 DEF MessageInv, CancelEnds, LookedUp
<1>4. CloseEmpties
  BY DEF CloseEmpties, SubscriptionInv, Drained
<1> QED BY <1>1, <1>2, <1>3, <1>4 DEF SubscriptionsEnd, WatchReachable

\* A subscription ends once, with any number of clients, requests and
\* dispatcher threads: a watch that fires, is cancelled on the bus or dropped
\* when the service closes never meets a message that is gone, one that may
\* still fire can be cancelled, and the closed service has nobody subscribed:
\* MojService, the Watcher and MojDbWatcher together.
THEOREM SubscriptionsEndAlways == Spec => []SubscriptionsEnd
<1>1. ServiceInv /\ SubscriptionInv /\ Known => SubscriptionsEnd
  BY SubscriptionsHold
<1> QED BY <1>1, SubscriptionInvAlways, PTL
=============================================================================
