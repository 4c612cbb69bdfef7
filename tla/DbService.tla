----------------------------- MODULE DbService ------------------------------
(***************************************************************************)
(* Requests and watches of clients on the bus: the bus thread queues what  *)
(* arrives, one queue per sender; dispatcher threads take queues in turn,  *)
(* run the handler and answer; a commit fires the watches of others in the *)
(* writer's thread while the bus may cancel them in another.               *)
(*                                                                         *)
(* Every section under a mutex (the dispatcher's, the service's, a         *)
(* signal's) is one action.  m_subscriptions holds plain pointers: a       *)
(* message lives as long as a queue, a thread or a Watcher holds it, and   *)
(* its destructor takes it out of the map.                                 *)
(***************************************************************************)
EXTENDS Naturals, Sequences, SequencesExt

CONSTANTS Senders, Threads,
          Kinds,            \* Kinds[id]: what this request of a sender may ask for
          MaxDeadlockRetries,
          Calls,            \* bound: Calls[s] is how many requests sender s has
          MaxStops,         \* bound: 1 if the service may be stopped
          Nil

Ids == UNION {{s} \X (1 .. Calls[s]) : s \in Senders}   \* a message: its sender and token

ASSUME CallsAssumption == Calls \in [Senders -> Nat]
ASSUME ThreadsAssumption == Threads # {}
ASSUME NilAssumption == Nil \notin Ids /\ Nil \notin {"put", "get", "watch", "request", "cancel"}

VARIABLES
  scheduled, pending,   \* MojMessageDispatcher: the queues to take, and those being worked on
  queue,                \* their messages
  stop,                 \* m_stop, and how far the shutdown is
  thread,               \* the dispatcher threads
  msg,                  \* the messages, with the Watcher of each
  subscriptions,        \* MojService::m_subscriptions
  sent,                 \* what each client was sent
  cancelled,            \* the messages that the bus has cancelled
  asserts               \* assertions that failed, and uses of freed messages

vars == <<scheduled, pending, queue, stop, thread, msg, subscriptions, sent, cancelled, asserts>>

Idle == [pc |-> "check", id |-> Nil, what |-> Nil, todo |-> {}, at |-> Nil, back |-> Nil, tries |-> 0]

\* A MojServiceMessage: m_subscribed, the slot of its cancel signal, m_numReplies,
\* whether it exists; and of its Watcher: m_msg, and the state of the watch.
NoMessage == [kind |-> Nil, subscribed |-> FALSE, slot |-> FALSE, replies |-> 0, exists |-> FALSE,
              held |-> FALSE, watch |-> "none", changed |-> FALSE]

\* A put; a request that asks for a subscription in vain; and a query with a watch
\* (find with "watch", or watch, which may find something at once).
Subscribing(kind) == kind \in {"get", "watch"}

-----------------------------------------------------------------------------
(* Dispatcher *)

\* Faulty variant: only the scheduled queues are looked up, so a queue that is being
\* worked on gets a second one of its name.
ScheduleTwice(s, m) ==
    /\ queue' = [queue EXCEPT ![s] = Append(@, m)]
    /\ scheduled' = IF s \in ToSet(scheduled) THEN scheduled ELSE Append(scheduled, s)
    /\ UNCHANGED thread

\* Faulty variant: nobody is told of a new queue.
ScheduleSilent(s, m) ==
    /\ queue' = [queue EXCEPT ![s] = Append(@, m)]
    /\ scheduled' = IF s \in ToSet(scheduled) \cup pending THEN scheduled ELSE Append(scheduled, s)
    /\ UNCHANGED thread

\* schedule(): a message joins its sender's queue; a new queue is announced to one
\* of the threads that wait.
Schedule(s, m) ==
    /\ queue' = [queue EXCEPT ![s] = Append(@, m)]
    /\ IF s \in ToSet(scheduled) \cup pending
       THEN UNCHANGED <<scheduled, thread>>
       ELSE /\ scheduled' = Append(scheduled, s)
            /\ LET waiting == {t \in Threads : thread[t].pc = "wait"}
               IN  IF waiting = {} THEN UNCHANGED thread
                   ELSE \E t \in waiting : thread' = [thread EXCEPT ![t].pc = "check"]

\* dispatch(): takes the first queue and its first message.
Dispatch(t) ==
    /\ thread[t].pc = "check"
    /\ IF scheduled = <<>>
       THEN /\ thread' = [thread EXCEPT ![t].pc = IF stop = "no" THEN "wait" ELSE "exit"]
            /\ UNCHANGED <<scheduled, pending, queue>>
       ELSE LET s == Head(scheduled)
                m == Head(queue[s])
            IN  /\ scheduled' = Tail(scheduled)
                /\ pending' = pending \cup {s}
                /\ queue' = [queue EXCEPT ![s] = Tail(@)]
                /\ thread' = [thread EXCEPT ![t] = [@ EXCEPT !.pc = m[2], !.id = m[1], !.what = m[2]]]
    /\ UNCHANGED <<stop, msg, subscriptions, sent, cancelled, asserts>>

\* Who holds a reference to the message.
Holds(t, id) == \/ thread[t].id = id /\ (thread[t].what = "request" \/ thread[t].pc \in {"fire", "notify", "release"})
                \/ thread[t].at = id /\ thread[t].pc = "event"

Held(id) == \/ msg[id].held
            \/ \E t \in Threads : Holds(t, id)
            \/ \E n \in DOMAIN queue[id[1]] : queue[id[1]][n] = <<id, "request">>

\* ~MojLunaMessage(): close() removes the subscription that is left.
Destroyed(id) ==
    /\ msg' = [msg EXCEPT ![id].exists = FALSE]
    /\ subscriptions' = IF msg[id].subscribed THEN subscriptions \ {id} ELSE subscriptions
    /\ asserts' = IF msg[id].subscribed /\ id \notin subscriptions THEN asserts \cup {<<id, "removed twice">>} ELSE asserts

\* Thread t lets go of the message; the last one destroys it.
IsLast(t, id) ==
    /\ ~msg[id].held /\ \A u \in Threads \ {t} : ~Holds(u, id)
    /\ \A n \in DOMAIN queue[id[1]] : queue[id[1]][n] # <<id, "request">>

Destroy(t) ==
    /\ thread[t].pc = "destroy"
    /\ Destroyed(thread[t].at)
    /\ thread' = [thread EXCEPT ![t] = [@ EXCEPT !.pc = IF thread[t].what = "cancel" THEN "done" ELSE "firing", !.at = Nil]]
    /\ UNCHANGED <<scheduled, pending, queue, stop, sent, cancelled>>

\* The rest of dispatch(), under the mutex again.  The message is released there.
Finish(t) ==
    /\ thread[t].pc = "done"
    /\ LET s == thread[t].id[1]
       IN  /\ pending' = pending \ {s}
           /\ scheduled' = IF queue[s] = <<>> THEN scheduled ELSE Append(scheduled, s)
           /\ thread' = [thread EXCEPT ![t] = Idle]
           /\ IF thread[t].what = "request" /\ IsLast(t, thread[t].id)
              THEN Destroyed(thread[t].id)
              ELSE UNCHANGED <<msg, subscriptions, asserts>>
    /\ UNCHANGED <<queue, stop, sent, cancelled>>

-----------------------------------------------------------------------------
(* Bus thread *)

\* handleRequest(): a request with "watch" or "subscribe" is entered as a subscription
\* before it is queued.
HandleRequest(id, kind) ==
    /\ stop = "no"
    /\ kind \in Kinds[id]
    /\ msg[id] = NoMessage /\ \A i \in 1 .. id[2] - 1 : msg[<<id[1], i>>].kind # Nil
    /\ msg' = [msg EXCEPT ![id] = [NoMessage EXCEPT !.kind = kind, !.subscribed = Subscribing(kind), !.exists = TRUE]]
    /\ subscriptions' = IF Subscribing(kind) THEN subscriptions \cup {id} ELSE subscriptions
    /\ Schedule(id[1], <<id, "request">>)
    /\ UNCHANGED <<pending, stop, sent, cancelled, asserts>>

\* handleCancel(): the client is gone or has no more interest.  The bus keeps what was
\* subscribed once, so this may come for a watch that has fired.
HandleCancel(id) ==
    /\ stop = "no"
    /\ msg[id].kind = "watch" /\ id \notin cancelled
    /\ cancelled' = cancelled \cup {id}
    /\ Schedule(id[1], <<id, "cancel">>)
    /\ UNCHANGED <<pending, stop, msg, subscriptions, sent, asserts>>

-----------------------------------------------------------------------------
(* Requests *)

\* MojServiceMessage::handleCancel(), as a change of m: takes the subscription out.
Unsubscribed(id, m) == [m EXCEPT !.subscribed = FALSE]

\* reply(): the first one keeps the subscription of a message that has a Watcher
\* connected, and ends that of any other.
Reply(id, m) == IF m.replies = 0 /\ ~m.slot THEN [Unsubscribed(id, m) EXCEPT !.replies = @ + 1]
                ELSE [m EXCEPT !.subscribed = @ \/ m.replies = 0, !.replies = @ + 1]

\* What m_subscriptions is after the message has become m: addSubscription() and
\* removeSubscription(), with their assertions.
Register(id, m) ==
    /\ subscriptions' = IF m.subscribed = msg[id].subscribed THEN subscriptions
                        ELSE IF m.subscribed THEN subscriptions \cup {id} ELSE subscriptions \ {id}
    /\ asserts' = asserts \cup (IF m.subscribed /\ ~msg[id].subscribed /\ id \in subscriptions
                                THEN {<<id, "added twice">>} ELSE {})
                          \cup (IF ~m.subscribed /\ msg[id].subscribed /\ id \notin subscriptions
                                THEN {<<id, "removed twice">>} ELSE {})

Send(id, what) ==
    LET m == Reply(id, msg[id])
    IN  /\ msg' = [msg EXCEPT ![id] = m]
        /\ sent' = [sent EXCEPT ![id] = Append(@, what)]
        /\ Register(id, m)

\* dispatchRequest(): a payload, method or schema that does not fit, or a handler
\* that fails: an error, unless something was sent already.
Refuse(t) ==
    /\ thread[t].pc \in {"request", "refuse"}
    /\ IF msg[thread[t].id].replies = 0 THEN Send(thread[t].id, "error")
       ELSE UNCHANGED <<msg, subscriptions, sent, asserts>>
    /\ thread' = [thread EXCEPT ![t].pc = "done"]
    /\ UNCHANGED <<scheduled, pending, queue, stop, cancelled>>

\* The handler base's invoke(): a deadlock aborts the request, and it is tried again a number of times.
Retry(t) ==
    /\ thread[t].pc = "request" /\ msg[thread[t].id].kind = "put"
    /\ thread[t].tries + 1 < MaxDeadlockRetries
    /\ thread' = [thread EXCEPT ![t].tries = @ + 1]
    /\ UNCHANGED <<scheduled, pending, queue, stop, msg, subscriptions, sent, cancelled, asserts>>

\* A write that commits: it fires the active watches and marks the pending ones.
Commit(t) ==
    /\ thread[t].pc = "request" /\ msg[thread[t].id].kind = "put"
    /\ thread' = [thread EXCEPT ![t] = [@ EXCEPT !.pc = "firing", !.back = "answer",
                                                 !.todo = {i \in Ids : msg[i].watch = "active"}]]
    /\ msg' = [i \in Ids |-> [msg[i] EXCEPT !.changed = @ \/ msg[i].watch = "pending"]]
    /\ UNCHANGED <<scheduled, pending, queue, stop, subscriptions, sent, cancelled, asserts>>

\* find and watch: a new Watcher holds the message and waits for its cancel signal;
\* the query registers the watch, not yet active.
Connect(t) ==
    /\ thread[t].pc = "request" /\ msg[thread[t].id].kind = "watch"
    /\ msg' = [msg EXCEPT ![thread[t].id] = [@ EXCEPT !.slot = TRUE, !.held = TRUE, !.watch = "pending"]]
    /\ asserts' = IF msg[thread[t].id].replies # 0 THEN asserts \cup {<<thread[t].id, "replied">>} ELSE asserts
    /\ thread' = [thread EXCEPT ![t].pc = "visit"]
    /\ UNCHANGED <<scheduled, pending, queue, stop, subscriptions, sent, cancelled>>

\* The results are read.  What watch() finds is reported by its watch instead of an
\* answer; if reading fails, the cursor is closed before the error is reported.
Visit(t, result) ==
    /\ thread[t].pc = "visit"
    /\ thread' = [thread EXCEPT ![t] = [@ EXCEPT !.pc = IF result = "read" THEN "answer" ELSE "close",
                                                 !.back = IF result = "error" THEN "refuse" ELSE "done"]]
    /\ msg' = IF result = "found" THEN [msg EXCEPT ![thread[t].id].changed = TRUE] ELSE msg
    /\ UNCHANGED <<scheduled, pending, queue, stop, subscriptions, sent, cancelled, asserts>>

Answer(t) ==
    /\ thread[t].pc = "answer"
    /\ Send(thread[t].id, "answer")
    /\ thread' = [thread EXCEPT ![t].pc = IF msg[thread[t].id].kind = "watch" THEN "close" ELSE "done"]
    /\ UNCHANGED <<scheduled, pending, queue, stop, cancelled>>

\* Any other method.
Execute(t) ==
    /\ thread[t].pc = "request" /\ msg[thread[t].id].kind = "get"
    /\ thread' = [thread EXCEPT ![t].pc = "answer"]
    /\ UNCHANGED <<scheduled, pending, queue, stop, msg, subscriptions, sent, cancelled, asserts>>

\* cursor.close(): the watch becomes active, or fires if something has changed since.
Close(t) ==
    /\ thread[t].pc = "close"
    /\ LET id == thread[t].id
           fires == msg[id].watch = "pending" /\ msg[id].changed
       IN  /\ msg' = [msg EXCEPT ![id].watch = IF fires THEN "off" ELSE IF @ = "pending" THEN "active" ELSE @]
           /\ thread' = [thread EXCEPT ![t] = IF fires THEN [@ EXCEPT !.pc = "unslot", !.at = id]
                                              ELSE [@ EXCEPT !.pc = thread[t].back]]
    /\ UNCHANGED <<scheduled, pending, queue, stop, subscriptions, sent, cancelled, asserts>>

-----------------------------------------------------------------------------
(* Watches that fire *)

\* MojDbWatcher::fire(): once.  m_signal.fire() disconnects the slot and calls handleWatch().
Fire(t) ==
    /\ thread[t].pc = "firing"
    /\ IF thread[t].todo = {}
       THEN /\ thread' = [thread EXCEPT ![t].pc = thread[t].back]
            /\ UNCHANGED msg
       ELSE \E id \in thread[t].todo :
              IF msg[id].watch = "active"
              THEN /\ msg' = [msg EXCEPT ![id].watch = "off"]
                   /\ thread' = [thread EXCEPT ![t] = [@ EXCEPT !.pc = "unslot", !.at = id]]
              ELSE /\ thread' = [thread EXCEPT ![t].todo = @ \ {id}]
                   /\ UNCHANGED msg
    /\ UNCHANGED <<scheduled, pending, queue, stop, subscriptions, sent, cancelled, asserts>>

\* m_cancelSlot.cancel(): if it is connected, the message ends its subscription,
\* outside the signal's mutex ...
CancelSlot(t) ==
    /\ thread[t].pc = "unslot"
    /\ LET id == thread[t].at
           m == IF msg[id].slot THEN Unsubscribed(id, msg[id]) ELSE msg[id]
       IN  /\ msg' = [msg EXCEPT ![id] = m]
           /\ Register(id, m)
    /\ thread' = [thread EXCEPT ![t].pc = "unslotted"]
    /\ UNCHANGED <<scheduled, pending, queue, stop, sent, cancelled>>

\* ... and the slot is disconnected.  Then handleWatch() takes m_msg from the Watcher:
\* there is none, if a cancel was faster, and the process fails.
TakeMessage(t) ==
    /\ thread[t].pc = "unslotted"
    /\ LET id == thread[t].at
       IN  /\ msg' = [msg EXCEPT ![id] = [@ EXCEPT !.slot = FALSE, !.held = FALSE]]
           /\ IF msg[id].held THEN thread' = [thread EXCEPT ![t].pc = "event"]
              ELSE thread' = [thread EXCEPT ![t].pc = "crash"]
    /\ UNCHANGED <<scheduled, pending, queue, stop, subscriptions, sent, cancelled, asserts>>

SendFired(t) ==
    /\ thread[t].pc = "event"
    /\ Send(thread[t].at, "fired")
    /\ LET id == thread[t].at
           last == IsLast(t, id) /\ thread[t].id # id     \* not the request that this thread serves
       IN  thread' = [thread EXCEPT ![t] = [@ EXCEPT !.pc = IF last THEN "destroy" ELSE "firing",
                                                     !.at = IF last THEN id ELSE Nil,
                                                     !.todo = thread[t].todo \ {id}]]
    /\ UNCHANGED <<scheduled, pending, queue, stop, cancelled>>

-----------------------------------------------------------------------------
(* Watches that are cancelled *)

\* dispatchCancel(): looks the message up and retains it.
LookUp(t) ==
    /\ thread[t].pc = "cancel"
    /\ LET id == thread[t].id
       IN  /\ thread' = [thread EXCEPT ![t].pc = IF id \in subscriptions THEN "fire" ELSE "done"]
           /\ asserts' = IF id \in subscriptions /\ ~Held(id) THEN asserts \cup {<<id, "used when freed">>} ELSE asserts
    /\ UNCHANGED <<scheduled, pending, queue, stop, msg, subscriptions, sent, cancelled>>

\* m_cancelSignal.fire(): disconnects the slot ...
FireCancel(t) ==
    /\ thread[t].pc = "fire"
    /\ LET id == thread[t].id
       IN  /\ thread' = [thread EXCEPT ![t].pc = IF msg[id].slot THEN "notify" ELSE "release"]
           /\ msg' = [msg EXCEPT ![id].slot = FALSE]
    /\ UNCHANGED <<scheduled, pending, queue, stop, subscriptions, sent, cancelled, asserts>>

\* Faulty variant: the watch stays registered.
WatcherCancelKept(t) ==
    /\ thread[t].pc = "notify"
    /\ msg' = [msg EXCEPT ![thread[t].id] = [@ EXCEPT !.held = FALSE]]
    /\ thread' = [thread EXCEPT ![t].pc = "release"]
    /\ UNCHANGED <<scheduled, pending, queue, stop, subscriptions, sent, cancelled, asserts>>

\* ... and calls Watcher::handleCancel(), which cancels the watch and lets the message go.
WatcherCancel(t) ==
    /\ thread[t].pc = "notify"
    /\ msg' = [msg EXCEPT ![thread[t].id] = [@ EXCEPT !.held = FALSE, !.watch = "off"]]
    /\ thread' = [thread EXCEPT ![t].pc = "release"]
    /\ UNCHANGED <<scheduled, pending, queue, stop, subscriptions, sent, cancelled, asserts>>

Release(t) ==
    /\ thread[t].pc = "release"
    /\ thread' = [thread EXCEPT ![t] = IF IsLast(t, thread[t].id) THEN [@ EXCEPT !.pc = "destroy", !.at = thread[t].id]
                                       ELSE [@ EXCEPT !.pc = "done"]]
    /\ UNCHANGED <<scheduled, pending, queue, stop, msg, subscriptions, sent, cancelled, asserts>>

-----------------------------------------------------------------------------
(* Shutdown *)

\* The reactor has stopped (a signal, or a fatal error of the database): stop().
Stop ==
    /\ stop = "no" /\ MaxStops > 0
    /\ stop' = "stopping"
    /\ thread' = [t \in Threads |-> [thread[t] EXCEPT !.pc = IF @ = "wait" THEN "check" ELSE @]]
    /\ UNCHANGED <<scheduled, pending, queue, msg, subscriptions, sent, cancelled, asserts>>

\* After the threads were joined, the service's close() cancels what is subscribed.
CloseService ==
    /\ stop = "stopping"
    /\ \A t \in Threads : thread[t].pc = "exit"
    /\ stop' = "closed"
    /\ LET gone == {id \in subscriptions : msg[id].slot}
       IN  /\ msg' = [id \in Ids |-> IF id \in gone
                                     THEN [msg[id] EXCEPT !.slot = FALSE, !.held = FALSE, !.watch = "off",
                                                          !.subscribed = FALSE, !.exists = FALSE]
                                     ELSE msg[id]]
           /\ subscriptions' = subscriptions \ gone
    /\ UNCHANGED <<scheduled, pending, queue, thread, sent, cancelled, asserts>>

-----------------------------------------------------------------------------
Init ==
    /\ scheduled = <<>> /\ pending = {}
    /\ queue = [s \in Senders |-> <<>>]
    /\ stop = "no"
    /\ thread = [t \in Threads |-> Idle]
    /\ msg = [id \in Ids |-> NoMessage]
    /\ subscriptions = {} /\ cancelled = {} /\ asserts = {}
    /\ sent = [id \in Ids |-> <<>>]

Down == \E t \in Threads : thread[t].pc = "crash"

\* What a thread does for a request, for a watch or for a cancel.
Serve(t) == Refuse(t) \/ Retry(t) \/ Commit(t) \/ Connect(t) \/ (\E r \in {"found", "read", "error"} : Visit(t, r))
            \/ Execute(t) \/ Answer(t) \/ Close(t)

Notify(t) == Fire(t) \/ CancelSlot(t) \/ TakeMessage(t) \/ SendFired(t)

Cancel(t) == LookUp(t) \/ FireCancel(t) \/ WatcherCancel(t) \/ Release(t) \/ Destroy(t)

ThreadStep(t) == ~Down /\ (Dispatch(t) \/ Serve(t) \/ Notify(t) \/ Cancel(t) \/ Finish(t))

Next ==
    /\ ~Down
    /\ \/ \E id \in Ids, kind \in {"put", "get", "watch"} : HandleRequest(id, kind)
       \/ \E id \in Ids : HandleCancel(id)
       \/ \E t \in Threads : ThreadStep(t)
       \/ Stop \/ CloseService

Spec == Init /\ [][Next]_vars

\* The threads run whenever they can.
FairSpec == Spec /\ \A t \in Threads : WF_vars(ThreadStep(t))

-----------------------------------------------------------------------------
Count(id, what) == Cardinality({n \in DOMAIN sent[id] : sent[id][n] = what})

\* A client gets at most one answer or error for a request, at most one event for a
\* watch, and the event after the answer: Reply() of the service message, Watcher and
\* MojDbWatcher together.
OneReply ==
    \A id \in Ids : /\ Count(id, "answer") + Count(id, "error") <= 1
                    /\ Count(id, "fired") <= 1
                    /\ Len(sent[id]) > 1 => sent[id][1] # "fired"

\* First replies to a sender come in the order of its requests, whichever threads
\* served them: the dispatcher works on a sender's queue in one thread at a time.
SenderOrder ==
    \A id \in Ids : id[2] > 1 /\ sent[id] # <<>> => sent[<<id[1], id[2] - 1>>] # <<>>

\* A request gets at most one answer, a watch at most one event after it, and the
\* requests of a sender are answered in their order, through retries, cancels and
\* the stop of the service.
RepliesExact == OneReply /\ SenderOrder

\* The service finds a cancelled message in m_subscriptions only while somebody holds
\* it, and no subscription is entered or removed twice: MojService's assertions, and
\* the plain pointers of the map.  Excepted is a message whose query failed after its
\* watch was registered: the watch can fire beside the reply with the error.
SubscriptionsSafe == \A a \in asserts : "error" \in ToSet(sent[a[1]])

\* A watch that may still fire has its message subscribed, so a cancel can reach it;
\* and when a cancel has been carried out, the watch is off.
WatchReachable ==
    /\ \A id \in Ids : msg[id].watch = "active" /\ msg[id].slot => id \in subscriptions
    /\ \A id \in cancelled : 
         (\A t \in Threads : thread[t].id # id /\ thread[t].at # id) /\ queue[id[1]] = <<>>
            => msg[id].watch \notin {"pending", "active"}

\* Nobody is left in m_subscriptions when the service has closed: MojService::close().
CloseEmpties == stop = "closed" => subscriptions = {}

\* A subscription ends once: a watch that fires, is cancelled on the bus or dropped
\* at the end never meets a message that is gone, one that may still fire can be
\* cancelled, and the closed service has no subscription left.
SubscriptionsEnd == SubscriptionsSafe /\ WatchReachable /\ CloseEmpties

\* Every request is answered, also when the service is told to stop, unless the
\* process fails: the queues are drained and no wake-up is lost.
Answered == \A id \in Ids : (msg[id].kind # Nil) ~> (sent[id] # <<>> \/ Down)
=============================================================================
