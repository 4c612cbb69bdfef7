------------------------------ MODULE DbClient ------------------------------
(***************************************************************************)
(* Requests that a process sends to services on the bus, as a client of    *)
(* db8 does (MojDbServiceClient) and db8 itself does: a request is entered *)
(* in m_requests when it is sent, its replies are dispatched one after the *)
(* other to the slot of the caller, and it leaves the map when the last    *)
(* expected reply, an error or the caller's cancel comes, in any order.    *)
(***************************************************************************)
EXTENDS Naturals, Sequences, FiniteSets

CONSTANTS Requests,
          Expected,     \* Expected[r]: numRepliesExpected(); more than 1 keeps the call open on the bus
          MaxReplies,   \* bound: replies to one request
          NoRequest

\* A request expects at least one reply: MojServiceRequest::send() asserts it.
ExpectedAssumption == Expected \in [Requests -> Nat \ {0}]
NoRequestAssumption == NoRequest \notin Requests

ASSUME ExpectedAssumption
ASSUME NoRequestAssumption

VARIABLES requests,     \* m_requests
          request,      \* the state of each MojServiceRequest
          replies,      \* the "__reply__" queue
          user,         \* user[r]: where the caller's cancel is
          disp,         \* the thread that dispatches replies
          bus,          \* bus[r]: what the bus knows of the call
          handed        \* handed[r]: the replies handed to the caller

clientVars == <<requests, request, replies, user, disp, bus, handed>>

Free == [pc |-> "idle", r |-> NoRequest, n |-> 0, remove |-> FALSE, slot |-> FALSE]

NoCall == [open |-> FALSE, sent |-> 0, over |-> FALSE, cancels |-> 0]

Open(r) == Expected[r] > 1

-----------------------------------------------------------------------------
\* Faulty variant: the call is made before the map's mutex is taken; a reply may be
\* there before the request is.
SendUnlocked(r) ==
    /\ ~request[r].sent
    /\ \/ /\ bus[r] = NoCall
          /\ bus' = [bus EXCEPT ![r].open = TRUE]
          /\ UNCHANGED <<request, requests>>
       \/ /\ bus[r] # NoCall
          /\ request' = [request EXCEPT ![r] = [@ EXCEPT !.slot = TRUE, !.sent = TRUE]]
          /\ requests' = requests \cup {r}
          /\ UNCHANGED bus
    /\ UNCHANGED <<replies, user, disp, handed>>

\* send(): connects the caller's slot; the call and the entry are one step under m_mutex.
SendRequest(r) ==
    /\ bus[r] = NoCall /\ ~request[r].sent
    /\ request' = [request EXCEPT ![r] = [@ EXCEPT !.slot = TRUE, !.sent = TRUE]]
    /\ bus' = [bus EXCEPT ![r].open = TRUE]
    /\ requests' = requests \cup {r}
    /\ UNCHANGED <<replies, user, disp, handed>>

\* The service replies: a result, or an error that may leave the subscription in place.
BusReply(r, error, subscribed) ==
    /\ bus[r].open /\ ~bus[r].over
    /\ bus[r].sent < MaxReplies
    /\ subscribed => error
    /\ bus' = [bus EXCEPT ![r] = [@ EXCEPT !.sent = bus[r].sent + 1, !.open = Open(r), !.over = error /\ ~subscribed]]
    /\ replies' = Append(replies, [r |-> r, n |-> bus[r].sent + 1, ends |-> error /\ ~subscribed])
    /\ UNCHANGED <<requests, request, user, disp, handed>>

-----------------------------------------------------------------------------
\* removeRequest(): whether it was found decides who cancels the call.
Removed(r) == requests' = requests \ {r}

\* cancelImpl(): LSCallCancel, once, for a call that is still open.
CancelImpl(r) ==
    bus' = IF Open(r) /\ ~request[r].cancelled
           THEN [bus EXCEPT ![r] = [@ EXCEPT !.open = FALSE, !.cancels = bus[r].cancels + 1]]
           ELSE bus

\* The caller cancels its slot: handleCancel() of the request, outside the signal's mutex.
UserCancel(r) ==
    /\ user[r] = "waits" /\ request[r].slot
    /\ Removed(r)
    /\ user' = [user EXCEPT ![r] = IF r \in requests THEN "cancels" ELSE "leaves"]
    /\ UNCHANGED <<request, replies, disp, bus, handed>>

UserCancelImpl(r) ==
    /\ user[r] = "cancels"
    /\ CancelImpl(r)
    /\ request' = [request EXCEPT ![r].cancelled = @ \/ Open(r)]
    /\ user' = [user EXCEPT ![r] = "leaves"]
    /\ UNCHANGED <<requests, replies, disp, handed>>

\* Then the slot is disconnected.
UserLeave(r) ==
    /\ user[r] = "leaves"
    /\ request' = [request EXCEPT ![r].slot = FALSE]
    /\ user' = [user EXCEPT ![r] = "gone"]
    /\ UNCHANGED <<requests, replies, disp, bus, handed>>

-----------------------------------------------------------------------------
\* dispatchReply(), getRequest(): a reply to a request that is gone is dropped.
DispatchReply ==
    /\ disp.pc = "idle" /\ replies # <<>>
    /\ replies' = Tail(replies)
    /\ LET m == Head(replies)
       IN  disp' = IF m.r \in requests THEN [Free EXCEPT !.pc = "reply", !.r = m.r, !.n = m.n, !.remove = m.ends]
                   ELSE Free
    /\ UNCHANGED <<requests, request, user, bus, handed>>

\* The reply is the last one that the request expects.
IsLastReply(r) == request[r].replies + 1 >= Expected[r]

\* dispatchReplyImpl() decides whether the request ends with this reply; call() looks
\* for the slot under the signal's mutex ...
CallSlot ==
    /\ disp.pc = "reply"
    /\ request' = [request EXCEPT ![disp.r].replies = @ + 1]
    /\ disp' = [disp EXCEPT !.pc = "invoke", !.slot = request[disp.r].slot,
                            !.remove = @ \/ IsLastReply(disp.r)]
    /\ UNCHANGED <<requests, replies, user, bus, handed>>

\* ... and invokes it outside.  A caller that fails ends the request.
Invoke(fails) ==
    /\ disp.pc = "invoke"
    /\ fails => disp.slot
    /\ handed' = IF disp.slot THEN [handed EXCEPT ![disp.r] = Append(@, disp.n)] ELSE handed
    /\ disp' = IF disp.remove \/ fails THEN [disp EXCEPT !.pc = "remove"] ELSE Free
    /\ UNCHANGED <<requests, request, replies, user, bus>>

\* removeRequest() for a call with one reply; cancel() for one that is still open.
RemoveRequest ==
    /\ disp.pc = "remove"
    /\ Removed(disp.r)
    /\ disp' = IF Open(disp.r) /\ disp.r \in requests THEN [disp EXCEPT !.pc = "cancel"] ELSE Free
    /\ UNCHANGED <<request, replies, user, bus, handed>>

DispatchCancel ==
    /\ disp.pc = "cancel"
    /\ CancelImpl(disp.r)
    /\ request' = [request EXCEPT ![disp.r].cancelled = TRUE]
    /\ disp' = Free
    /\ UNCHANGED <<requests, replies, user, handed>>

-----------------------------------------------------------------------------
ClientInit ==
    /\ requests = {} /\ replies = <<>> /\ disp = Free
    /\ request = [r \in Requests |-> [sent |-> FALSE, slot |-> FALSE, replies |-> 0, cancelled |-> FALSE]]
    /\ user = [r \in Requests |-> "waits"]
    /\ bus = [r \in Requests |-> NoCall]
    /\ handed = [r \in Requests |-> <<>>]

ClientNext ==
    \/ \E r \in Requests : SendRequest(r) \/ UserCancel(r) \/ UserCancelImpl(r) \/ UserLeave(r)
    \/ \E r \in Requests, error \in BOOLEAN, sub \in BOOLEAN : BusReply(r, error, sub)
    \/ DispatchReply \/ CallSlot \/ (\E fails \in BOOLEAN : Invoke(fails)) \/ RemoveRequest \/ DispatchCancel

ClientSpec == ClientInit /\ [][ClientNext]_clientVars

-----------------------------------------------------------------------------
\* A caller that did not cancel gets every reply, in order, up to the number it
\* expects or to the first error: no reply is lost because it came before the request
\* was entered or after another request ended.
RepliesInOrder ==
    \A r \in Requests : /\ \A i \in 1 .. Len(handed[r]) : handed[r][i] = i
                        /\ Len(handed[r]) <= Expected[r]
                        /\ user[r] = "waits" /\ r \in requests /\ disp.r # r =>
                             \A n \in 1 .. bus[r].sent : n <= Len(handed[r])
                                \/ \E i \in DOMAIN replies : replies[i].r = r /\ replies[i].n = n
                        /\ handed[r] = <<>> /\ bus[r].sent > 0 /\ user[r] = "waits" =>
                             disp.r = r \/ \E i \in DOMAIN replies : replies[i].r = r

\* A call that stays open on the bus is cancelled there once its request has left the
\* map, and only once, whoever takes it out first.
CallsClosed ==
    \A r \in Requests : /\ bus[r].cancels <= 1
                        /\ request[r].sent /\ Open(r) /\ r \notin requests
                           /\ user[r] \in {"waits", "gone"} /\ disp.r # r => bus[r].cancels = 1

\* No request stays in the map when its last reply has been handled.
NoRequestLeft ==
    \A r \in Requests : r \in requests /\ disp.r # r => request[r].replies < Expected[r]

\* Replies are handed over in the order of the bus and none after the last, a call
\* that has ended is closed on the bus, and its request leaves the table, whatever
\* order replies, errors and cancels come in.
RequestsEnd == RepliesInOrder /\ CallsClosed /\ NoRequestLeft
=============================================================================
