-------------------------- MODULE DbClient_proofs --------------------------
(***************************************************************************)
(* Proofs about DbClient, for any number of requests, of replies expected  *)
(* and any order of replies, errors, cancels and departures.               *)
(*                                                                         *)
(* ClientInv follows a request: what the bus has sent of it is what was    *)
(* handed over, what the dispatching thread holds and what waits in the    *)
(* queue, in that order (HandedInv); replies are counted before they are   *)
(* handed over and the last one takes the request out of the map           *)
(* (CountInv); whoever took it out, the caller or the dispatcher, is the   *)
(* one that cancels the call (RemovedInv, CancelInv).                      *)
(*                                                                         *)
(* A step concerns one request: the others see the same replies in the     *)
(* queue (Apart), and OneRequest puts the two together.                    *)
(***************************************************************************)
EXTENDS DbClient, TLAPS

ReplyRec == [r : Requests, n : Nat, ends : BOOLEAN]

RequestRec == [sent : BOOLEAN, slot : BOOLEAN, replies : Nat, cancelled : BOOLEAN]

BusRec == [open : BOOLEAN, sent : Nat, over : BOOLEAN, cancels : Nat]

DispRec ==
  [pc : {"idle", "reply", "invoke", "remove", "cancel"}, r : Requests \cup {NoRequest}, n : Nat,
   remove : BOOLEAN, slot : BOOLEAN]

ClientTypes ==
  /\ requests \in SUBSET Requests /\ replies \in Seq(ReplyRec)
  /\ request \in [Requests -> RequestRec] /\ bus \in [Requests -> BusRec]
  /\ user \in [Requests -> {"waits", "cancels", "leaves", "gone"}]
  /\ disp \in DispRec /\ (disp.pc = "idle" <=> disp.r = NoRequest)
  /\ handed \in [Requests -> Seq(Nat)]

\* The reply to r that the dispatching thread is about to hand over, if any.
InHand(r) == disp.r = r /\ disp.pc \in {"reply", "invoke"}

\* How many replies to r have been taken from the queue and handed over, or are
\* about to be.
Through(r) == Len(handed[r]) + (IF InHand(r) THEN 1 ELSE 0)

\* The numbers of the replies to r that wait in the queue.
Waits(r) == {replies[i].n : i \in {i \in DOMAIN replies : replies[i].r = r}}

Ordered(r) ==
  \A i, j \in DOMAIN replies : i < j /\ replies[i].r = r /\ replies[j].r = r => replies[i].n < replies[j].n

\* As long as a request is in the map, what was sent is what came through and what
\* waits, in the order of the bus; the reply in hand is the next one.
HandedInv(r) ==
  /\ Ordered(r) /\ Waits(r) \subseteq 1 .. bus[r].sent /\ Through(r) <= bus[r].sent
  /\ \A i \in DOMAIN handed[r] : handed[r][i] = i
  /\ InHand(r) => disp.n = Len(handed[r]) + 1
  /\ r \in requests => Waits(r) = Through(r) + 1 .. bus[r].sent

\* Replies are counted before they are handed over, and the last one takes the
\* request out.
CountInv(r) ==
  /\ request[r].replies <= Expected[r]
  /\ Len(handed[r]) + (IF disp.r = r /\ disp.pc = "invoke" THEN 1 ELSE 0) <= request[r].replies
  /\ (r \in requests \/ InHand(r)) /\ request[r].replies >= Expected[r] =>
        disp.r = r /\ ((disp.pc = "invoke" /\ disp.remove) \/ disp.pc = "remove")

\* A request is in the map until its caller cancels or the dispatcher removes it;
\* whoever took it out cancels the call, once.
RemovedInv(r) ==
  /\ ~request[r].sent =>
       /\ bus[r] = NoCall /\ r \notin requests /\ user[r] = "waits" /\ disp.r # r
       /\ ~request[r].slot /\ ~request[r].cancelled /\ request[r].replies = 0
  /\ r \in requests => user[r] = "waits"
  /\ request[r].sent /\ user[r] # "gone" => request[r].slot
  /\ user[r] = "waits" /\ InHand(r) /\ disp.pc = "invoke" => disp.slot
  /\ disp.r = r /\ disp.pc \in {"reply", "invoke"} /\ user[r] = "waits" => r \in requests
  /\ disp.r = r /\ disp.pc \in {"remove", "cancel"} /\ user[r] = "waits" => handed[r] # <<>>
  /\ request[r].sent /\ user[r] = "waits" /\ r \notin requests => handed[r] # <<>>

CancelInv(r) ==
  /\ bus[r].cancels <= 1
  /\ r \in requests \/ user[r] = "cancels" \/ (disp.r = r /\ disp.pc = "cancel") =>
        bus[r].cancels = 0 /\ ~request[r].cancelled
  /\ disp.r = r /\ disp.pc = "cancel" => Open(r) /\ request[r].sent /\ r \notin requests /\ user[r] # "cancels"
  /\ Open(r) /\ request[r].sent /\ r \notin requests /\ user[r] # "cancels" /\ ~(disp.r = r /\ disp.pc = "cancel") =>
        bus[r].cancels = 1

RequestInv(r) == HandedInv(r) /\ CountInv(r) /\ RemovedInv(r) /\ CancelInv(r)

ClientInv == ClientTypes /\ \A r \in Requests : RequestInv(r)

-----------------------------------------------------------------------------
\* The replies to q in the queue are the same, in the same order.
SameQueue(q) ==
  \/ replies' = replies
  \/ \E m \in ReplyRec : m.r # q /\ replies' = Append(replies, m)
  \/ replies # <<>> /\ replies[1].r # q /\ replies' = Tail(replies)

\* A step that leaves the replies to q in the queue alone leaves their order alone.
LEMMA SameQueueKeeps ==
  ASSUME ClientTypes, NEW q \in Requests, SameQueue(q)
  PROVE  Waits(q)' = Waits(q) /\ (Ordered(q) => Ordered(q)')
<1>0. replies \in Seq(ReplyRec) /\ DOMAIN replies = 1 .. Len(replies) /\ Len(replies) \in Nat
  BY DEF ClientTypes
<1>1. CASE replies' = replies
  BY <1>1 DEF Waits, Ordered
<1>2. CASE \E m \in ReplyRec : m.r # q /\ replies' = Append(replies, m)
  <2>1. PICK m \in ReplyRec : m.r # q /\ replies' = Append(replies, m)
    BY <1>2
  <2>2. /\ DOMAIN replies' = 1 .. Len(replies) + 1
        /\ \A i \in DOMAIN replies : i \in DOMAIN replies' /\ replies'[i] = replies[i]
        /\ replies'[Len(replies) + 1] = m
    BY <1>0, <2>1
  <2>3. \A i \in DOMAIN replies' : replies'[i].r = q => i \in DOMAIN replies /\ replies'[i] = replies[i]
    BY <1>0, <2>1, <2>2
  <2> QED BY <2>2, <2>3 DEF Waits, Ordered
<1>3. CASE replies # <<>> /\ replies[1].r # q /\ replies' = Tail(replies)
  <2>1. /\ DOMAIN replies' = 1 .. Len(replies) - 1
        /\ \A i \in DOMAIN replies' : i + 1 \in DOMAIN replies /\ replies'[i] = replies[i + 1]
        /\ \A i \in DOMAIN replies : i # 1 => i - 1 \in DOMAIN replies' /\ replies'[i - 1] = replies[i]
    BY <1>0, <1>3
  <2>2. Waits(q)' \subseteq Waits(q)
    BY <2>1 DEF Waits
  <2>3. Waits(q) \subseteq Waits(q)'
    <3> SUFFICES ASSUME NEW i \in DOMAIN replies, replies[i].r = q PROVE replies[i].n \in Waits(q)'
      BY DEF Waits
    <3>1. i - 1 \in DOMAIN replies' /\ replies'[i - 1] = replies[i]
      BY <1>3, <2>1
    <3> QED BY <3>1 DEF Waits
  <2>4. ASSUME Ordered(q), NEW i \in DOMAIN replies', NEW j \in DOMAIN replies', i < j, replies'[i].r = q, replies'[j].r = q
        PROVE  replies'[i].n < replies'[j].n
    <3>1. i + 1 \in DOMAIN replies /\ j + 1 \in DOMAIN replies /\ i + 1 < j + 1
      BY <1>0, <2>1, <2>4
    <3>2. replies'[i] = replies[i + 1] /\ replies'[j] = replies[j + 1]
      BY <2>1
    <3> QED BY <2>4, <3>1, <3>2 DEF Ordered
  <2> QED BY <2>2, <2>3, <2>4 DEF Ordered
<1> QED BY <1>1, <1>2, <1>3 DEF SameQueue

\* Nothing happens to request q.
Apart(q) ==
  /\ SameQueue(q)
  /\ request'[q] = request[q] /\ bus'[q] = bus[q] /\ user'[q] = user[q] /\ handed'[q] = handed[q]
  /\ q \in requests' <=> q \in requests
  /\ disp' = disp \/ (disp.r # q /\ disp'.r # q)

\* What holds of a request still holds after a step that concerns another.
LEMMA ApartKeeps ==
  ASSUME ClientTypes, NEW q \in Requests, Apart(q), RequestInv(q)
  PROVE  RequestInv(q)'
<1>1. Waits(q)' = Waits(q) /\ (Ordered(q) => Ordered(q)')
  BY SameQueueKeeps DEF Apart
<1>2. Through(q)' = Through(q) /\ (InHand(q)' <=> InHand(q)) /\ (InHand(q) => disp' = disp)
  BY DEF Apart, Through, InHand
<1>3. HandedInv(q)'
  BY <1>1, <1>2 DEF RequestInv, Apart, HandedInv
<1> QED BY <1>2, <1>3 DEF RequestInv, Apart, CountInv, RemovedInv, CancelInv, Open, InHand

\* A step that concerns request r alone.
LEMMA OneRequest ==
  ASSUME ClientInv, ClientTypes', NEW r \in Requests, \A q \in Requests \ {r} : Apart(q), RequestInv(r)'
  PROVE  ClientInv'
<1>1. \A q \in Requests \ {r} : RequestInv(q)'
  BY ApartKeeps DEF ClientInv
<1> QED BY <1>1 DEF ClientInv

-----------------------------------------------------------------------------
(* The caller and the bus *)

\* What the types say of one request.
LEMMA RequestFields ==
  ASSUME ClientTypes, NEW r \in Requests
  PROVE  /\ request[r] \in RequestRec /\ request[r].replies \in Nat
         /\ bus[r] \in BusRec /\ bus[r].sent \in Nat /\ bus[r].cancels \in Nat
         /\ handed[r] \in Seq(Nat) /\ Len(handed[r]) \in Nat /\ DOMAIN handed[r] = 1 .. Len(handed[r])
         /\ Expected[r] \in Nat \ {0}
<1>1. request[r] \in RequestRec /\ bus[r] \in BusRec /\ handed[r] \in Seq(Nat)
  BY DEF ClientTypes
<1>3. Expected[r] \in Nat \ {0}
  BY ExpectedAssumption DEF ExpectedAssumption
<1>2. request[r].replies \in Nat /\ bus[r].sent \in Nat /\ bus[r].cancels \in Nat
  BY <1>1 DEF RequestRec, BusRec
<1> QED BY <1>1, <1>2, <1>3

\* Send keeps the invariant.
LEMMA SendKeeps == ASSUME ClientInv, NEW r \in Requests, SendRequest(r) PROVE ClientInv'
<1>1. /\ RequestInv(r) /\ ClientTypes /\ ~request[r].sent
      /\ bus[r] = NoCall /\ r \notin requests /\ user[r] = "waits" /\ disp.r # r
      /\ ~request[r].slot /\ ~request[r].cancelled /\ request[r].replies = 0
  BY DEF ClientInv, SendRequest, RequestInv, RemovedInv
<1> DEFINE q == [request[r] EXCEPT !.slot = TRUE, !.sent = TRUE]
           c == [bus[r] EXCEPT !.open = TRUE]
<1>2. request' = [request EXCEPT ![r] = q] /\ bus' = [bus EXCEPT ![r] = c]
  BY DEF SendRequest
<1>3. q \in RequestRec /\ c \in BusRec
  BY <1>1, RequestFields DEF RequestRec, BusRec
<1>4. q.sent /\ q.slot /\ q.replies = 0 /\ ~q.cancelled /\ c.sent = 0 /\ c.cancels = 0
  BY <1>1, RequestFields DEF RequestRec, BusRec, NoCall
<1> HIDE DEF q, c
<1>5. /\ request' \in [Requests -> RequestRec] /\ bus' \in [Requests -> BusRec]
      /\ request'[r] = q /\ bus'[r] = c
      /\ \A p \in Requests \ {r} : request'[p] = request[p] /\ bus'[p] = bus[p]
  BY <1>1, <1>2, <1>3 DEF ClientTypes
<1>6. requests' = requests \cup {r} /\ UNCHANGED <<replies, user, disp, handed>>
  BY DEF SendRequest
<1>7. ClientTypes'
  BY <1>1, <1>5, <1>6 DEF ClientTypes
<1>8. \A p \in Requests \ {r} : Apart(p)
  BY <1>5, <1>6 DEF Apart, SameQueue
<1>9. Len(handed[r]) = 0 /\ ~InHand(r) /\ ~InHand(r)' /\ bus[r].sent = 0 /\ Expected[r] \in Nat \ {0}
  <2>1. Len(handed[r]) \in Nat /\ Len(handed[r]) <= 0
    BY <1>1, RequestFields DEF RequestInv, CountInv
  <2> QED BY <1>1, <1>6, <2>1, RequestFields DEF InHand, NoCall
<1>10. HandedInv(r)'
  <2>1. Waits(r)' = Waits(r) /\ (Ordered(r) => Ordered(r)')
    BY <1>6 DEF Waits, Ordered
  <2>2. Ordered(r) /\ Waits(r) = {}
    BY <1>1, <1>9 DEF RequestInv, HandedInv
  <2>3. Through(r)' = 0
    BY <1>6, <1>9 DEF Through
  <2>4. \A i \in DOMAIN handed'[r] : handed'[r][i] = i
    BY <1>1, <1>6 DEF RequestInv, HandedInv
  <2>5. bus'[r].sent = 0 /\ Waits(r)' = {}
    BY <1>4, <1>5, <2>1, <2>2
  <2> QED BY <1>9, <2>1, <2>2, <2>3, <2>4, <2>5 DEF HandedInv
<1>11. CountInv(r)' /\ RemovedInv(r)' /\ CancelInv(r)'
  BY <1>1, <1>4, <1>5, <1>6, <1>9 DEF RequestInv, CountInv, RemovedInv, CancelInv, InHand
<1> QED BY <1>7, <1>8, <1>10, <1>11, OneRequest DEF RequestInv

\* BusReply keeps the invariant.
LEMMA BusReplyKeeps ==
  ASSUME ClientInv, NEW r \in Requests, NEW error \in BOOLEAN, NEW sub \in BOOLEAN, BusReply(r, error, sub)
  PROVE  ClientInv'
<1>1. RequestInv(r) /\ ClientTypes
  BY DEF ClientInv
<1> DEFINE n == bus[r].sent + 1
           m == [r |-> r, n |-> n, ends |-> error /\ ~sub]
           c == [bus[r] EXCEPT !.sent = bus[r].sent + 1, !.open = Open(r), !.over = error /\ ~sub]
<1>2. replies' = Append(replies, m) /\ bus' = [bus EXCEPT ![r] = c] /\ bus[r].open
  <2>1. replies' = Append(replies, m) /\ bus[r].open
    BY DEF BusReply
  <2>2. bus' = [bus EXCEPT ![r] = c]
    BY DEF BusReply
  <2> QED BY <2>1, <2>2
<1>3. m \in ReplyRec /\ m.r = r /\ m.n = n /\ n \in Nat
  BY <1>1, RequestFields DEF ReplyRec
<1>4. c \in BusRec /\ c.sent = n /\ c.cancels = bus[r].cancels
  <2>1. Open(r) \in BOOLEAN /\ n \in Nat /\ (error /\ ~sub) \in BOOLEAN /\ bus[r] \in BusRec
    BY <1>1, <1>3, RequestFields DEF Open
  <2> QED BY <2>1 DEF BusRec
<1> HIDE DEF m, c
<1>5. bus' \in [Requests -> BusRec] /\ bus'[r] = c /\ \A q \in Requests \ {r} : bus'[q] = bus[q]
  BY <1>1, <1>2, <1>4 DEF ClientTypes
<1>6. UNCHANGED <<requests, request, user, disp, handed>>
  BY DEF BusReply
<1>7. replies \in Seq(ReplyRec) /\ replies' \in Seq(ReplyRec)
  BY <1>1, <1>2, <1>3 DEF ClientTypes
<1>8. ClientTypes'
  BY <1>1, <1>5, <1>6, <1>7 DEF ClientTypes
<1>9. \A q \in Requests \ {r} : Apart(q)
  BY <1>2, <1>3, <1>5, <1>6 DEF Apart, SameQueue
<1>10. /\ DOMAIN replies = 1 .. Len(replies) /\ DOMAIN replies' = 1 .. Len(replies) + 1 /\ Len(replies) \in Nat
       /\ \A i \in DOMAIN replies : replies'[i] = replies[i]
       /\ replies'[Len(replies) + 1] = m
  BY <1>2, <1>7
<1>11. Waits(r)' = Waits(r) \cup {n}
  <2>1. \A i \in DOMAIN replies : i \in DOMAIN replies' /\ replies'[i] = replies[i]
    BY <1>10
  <2>2. Len(replies) + 1 \in DOMAIN replies' /\ replies'[Len(replies) + 1].n = n /\ replies'[Len(replies) + 1].r = r
    BY <1>3, <1>10
  <2>3. \A i \in DOMAIN replies' : i \in DOMAIN replies \/ i = Len(replies) + 1
    BY <1>10
  <2> QED BY <2>1, <2>2, <2>3 DEF Waits
<1>12. Waits(r) \subseteq 1 .. bus[r].sent /\ Ordered(r) /\ bus[r].sent \in Nat
  BY <1>1, RequestFields DEF RequestInv, HandedInv
<1>13. Ordered(r)'
  <2> SUFFICES ASSUME NEW i \in DOMAIN replies', NEW j \in DOMAIN replies', i < j, replies'[i].r = r, replies'[j].r = r
               PROVE  replies'[i].n < replies'[j].n
    BY DEF Ordered
  <2>1. i \in DOMAIN replies /\ replies'[i] = replies[i]
    BY <1>10
  <2>2. CASE j \in DOMAIN replies
    BY <1>10, <1>12, <2>1, <2>2 DEF Ordered
  <2>3. CASE j = Len(replies) + 1
    <3>1. replies[i].n \in Waits(r)
      BY <2>1 DEF Waits
    <3> QED BY <1>3, <1>10, <1>12, <2>1, <2>3, <3>1
  <2> QED BY <1>10, <2>2, <2>3
<1>14. HandedInv(r)'
  <2>1. Through(r)' = Through(r) /\ (InHand(r)' <=> InHand(r))
    BY <1>6 DEF Through, InHand
  <2>2. Through(r) \in Nat /\ Through(r) <= bus[r].sent
    <3>1. Len(handed[r]) \in Nat /\ Through(r) <= bus[r].sent
      BY <1>1, RequestFields DEF RequestInv, HandedInv
    <3>2. CASE InHand(r)
      <4>1. Through(r) = Len(handed[r]) + 1
        BY <3>2 DEF Through
      <4> QED BY <3>1, <4>1
    <3>3. CASE ~InHand(r)
      <4>1. Through(r) = Len(handed[r]) + 0
        BY <3>3 DEF Through
      <4> QED BY <3>1, <4>1
    <3> QED BY <3>2, <3>3
  <2> QED BY <1>1, <1>3, <1>4, <1>5, <1>6, <1>11, <1>12, <1>13, <2>1, <2>2 DEF RequestInv, HandedInv
<1>15. request[r].sent
  BY <1>1, <1>2 DEF RequestInv, RemovedInv, NoCall
<1>16. CountInv(r)' /\ RemovedInv(r)' /\ CancelInv(r)'
  BY <1>1, <1>4, <1>5, <1>6, <1>15 DEF RequestInv, CountInv, RemovedInv, CancelInv, InHand
<1> QED BY <1>8, <1>9, <1>14, <1>16, OneRequest DEF RequestInv

\* A step of the caller: the queue and what was handed over stay, the request may
\* leave the map.
LEMMA HandedStays ==
  ASSUME ClientTypes, NEW r \in Requests, HandedInv(r), UNCHANGED <<replies, disp, handed>>,
         bus'[r].sent = bus[r].sent, r \in requests' => r \in requests
  PROVE  HandedInv(r)'
<1>1. Waits(r)' = Waits(r) /\ (Ordered(r) => Ordered(r)') /\ Through(r)' = Through(r) /\ (InHand(r)' <=> InHand(r))
  BY DEF Waits, Ordered, Through, InHand
<1> QED BY <1>1 DEF HandedInv

\* UserCancel keeps the invariant.
LEMMA UserCancelKeeps == ASSUME ClientInv, NEW r \in Requests, UserCancel(r) PROVE ClientInv'
<1>1. RequestInv(r) /\ ClientTypes /\ user[r] = "waits" /\ request[r].slot
  BY DEF ClientInv, UserCancel
<1>2. /\ user' \in [Requests -> {"waits", "cancels", "leaves", "gone"}]
      /\ user'[r] = IF r \in requests THEN "cancels" ELSE "leaves"
      /\ \A q \in Requests \ {r} : user'[q] = user[q]
  BY <1>1 DEF UserCancel, ClientTypes
<1>3. requests' = requests \ {r} /\ UNCHANGED <<request, replies, disp, bus, handed>>
  BY DEF UserCancel, Removed
<1>4. ClientTypes'
  BY <1>1, <1>2, <1>3 DEF ClientTypes
<1>5. \A q \in Requests \ {r} : Apart(q)
  BY <1>2, <1>3 DEF Apart, SameQueue
<1>6. HandedInv(r)'
  BY <1>1, <1>3, HandedStays DEF RequestInv
<1>7. CountInv(r)'
  BY <1>1, <1>3 DEF RequestInv, CountInv, InHand
<1>8. RemovedInv(r)' /\ CancelInv(r)'
  BY <1>1, <1>2, <1>3 DEF RequestInv, RemovedInv, CancelInv, InHand, Open
<1> QED BY <1>4, <1>5, <1>6, <1>7, <1>8, OneRequest DEF RequestInv

\* cancelImpl() counts the call as closed once.
LEMMA CancelImplEffect ==
  ASSUME ClientTypes, NEW r \in Requests, CancelImpl(r)
  PROVE  /\ bus' \in [Requests -> BusRec] /\ \A q \in Requests \ {r} : bus'[q] = bus[q]
         /\ bus'[r].sent = bus[r].sent
         /\ bus'[r].cancels = bus[r].cancels + (IF Open(r) /\ ~request[r].cancelled THEN 1 ELSE 0)
<1>1. CASE Open(r) /\ ~request[r].cancelled
  <2> DEFINE n == bus[r].cancels + 1
             c == [bus[r] EXCEPT !.open = FALSE, !.cancels = bus[r].cancels + 1]
  <2>1. bus' = [bus EXCEPT ![r] = c]
    BY <1>1 DEF CancelImpl
  <2>2. c \in BusRec /\ c.sent = bus[r].sent /\ c.cancels = n
    <3>1. n \in Nat /\ bus[r] \in BusRec
      BY RequestFields
    <3> QED BY <3>1 DEF BusRec
  <2> HIDE DEF c
  <2> QED BY <1>1, <2>1, <2>2 DEF ClientTypes
<1>2. CASE ~(Open(r) /\ ~request[r].cancelled)
  BY <1>2, RequestFields DEF CancelImpl, ClientTypes
<1> QED BY <1>1, <1>2

\* UserCancelImpl keeps the invariant.
LEMMA UserCancelImplKeeps == ASSUME ClientInv, NEW r \in Requests, UserCancelImpl(r) PROVE ClientInv'
<1>1. RequestInv(r) /\ ClientTypes /\ user[r] = "cancels" /\ r \notin requests /\ request[r].sent
  BY DEF ClientInv, UserCancelImpl, RequestInv, RemovedInv
<1>2. user' \in [Requests -> {"waits", "cancels", "leaves", "gone"}] /\ user'[r] = "leaves"
      /\ \A q \in Requests \ {r} : user'[q] = user[q]
  BY <1>1 DEF UserCancelImpl, ClientTypes
<1> DEFINE q == [request[r] EXCEPT !.cancelled = @ \/ Open(r)]
<1>3. request' = [request EXCEPT ![r] = q]
  BY DEF UserCancelImpl
<1>4. q \in RequestRec /\ q.sent = request[r].sent /\ q.slot = request[r].slot /\ q.replies = request[r].replies
  <2>1. Open(r) \in BOOLEAN
    BY DEF Open
  <2> QED BY <1>1, <2>1, RequestFields DEF RequestRec
<1> HIDE DEF q
<1>5. request' \in [Requests -> RequestRec] /\ request'[r] = q /\ \A p \in Requests \ {r} : request'[p] = request[p]
  BY <1>1, <1>3, <1>4 DEF ClientTypes
<1>6. /\ bus' \in [Requests -> BusRec] /\ \A p \in Requests \ {r} : bus'[p] = bus[p]
      /\ bus'[r].sent = bus[r].sent
      /\ bus'[r].cancels = bus[r].cancels + (IF Open(r) /\ ~request[r].cancelled THEN 1 ELSE 0)
  BY <1>1, CancelImplEffect DEF UserCancelImpl
<1>7. UNCHANGED <<requests, replies, disp, handed>>
  BY DEF UserCancelImpl
<1>8. ClientTypes'
  BY <1>1, <1>2, <1>5, <1>6, <1>7 DEF ClientTypes
<1>9. \A p \in Requests \ {r} : Apart(p)
  BY <1>2, <1>5, <1>6, <1>7 DEF Apart, SameQueue
<1>10. HandedInv(r)'
  BY <1>1, <1>6, <1>7, HandedStays DEF RequestInv
<1>11. CountInv(r)'
  BY <1>1, <1>4, <1>5, <1>7 DEF RequestInv, CountInv, InHand
<1>12. RemovedInv(r)'
  BY <1>1, <1>2, <1>4, <1>5, <1>7 DEF RequestInv, RemovedInv, InHand
<1>13. CancelInv(r)'
  BY <1>1, <1>2, <1>4, <1>5, <1>6, <1>7 DEF RequestInv, CancelInv, Open
<1> QED BY <1>8, <1>9, <1>10, <1>11, <1>12, <1>13, OneRequest DEF RequestInv

\* UserLeave keeps the invariant.
LEMMA UserLeaveKeeps == ASSUME ClientInv, NEW r \in Requests, UserLeave(r) PROVE ClientInv'
<1>1. RequestInv(r) /\ ClientTypes /\ user[r] = "leaves" /\ r \notin requests /\ request[r].sent
  BY DEF ClientInv, UserLeave, RequestInv, RemovedInv
<1>2. user' \in [Requests -> {"waits", "cancels", "leaves", "gone"}] /\ user'[r] = "gone"
      /\ \A q \in Requests \ {r} : user'[q] = user[q]
  BY <1>1 DEF UserLeave, ClientTypes
<1> DEFINE q == [request[r] EXCEPT !.slot = FALSE]
<1>3. request' = [request EXCEPT ![r] = q]
  BY DEF UserLeave
<1>4. q \in RequestRec /\ q.sent = request[r].sent /\ q.cancelled = request[r].cancelled /\ q.replies = request[r].replies
  BY <1>1, RequestFields DEF RequestRec
<1> HIDE DEF q
<1>5. request' \in [Requests -> RequestRec] /\ request'[r] = q /\ \A p \in Requests \ {r} : request'[p] = request[p]
  BY <1>1, <1>3, <1>4 DEF ClientTypes
<1>6. UNCHANGED <<requests, replies, disp, bus, handed>>
  BY DEF UserLeave
<1>7. ClientTypes'
  BY <1>1, <1>2, <1>5, <1>6 DEF ClientTypes
<1>8. \A p \in Requests \ {r} : Apart(p)
  BY <1>2, <1>5, <1>6 DEF Apart, SameQueue
<1>9. HandedInv(r)'
  BY <1>1, <1>6, HandedStays DEF RequestInv
<1>10. CountInv(r)' /\ RemovedInv(r)' /\ CancelInv(r)'
  BY <1>1, <1>2, <1>4, <1>5, <1>6 DEF RequestInv, CountInv, RemovedInv, CancelInv, InHand, Open
<1> QED BY <1>7, <1>8, <1>9, <1>10, OneRequest DEF RequestInv

-----------------------------------------------------------------------------
(* The dispatcher *)

\* The first reply in the queue is the smallest one that waits for its request.
LEMMA HeadReply ==
  ASSUME ClientTypes, NEW r \in Requests, replies # <<>>, replies[1].r = r, replies' = Tail(replies), Ordered(r)
  PROVE  /\ Ordered(r)' /\ replies[1].n \in Waits(r) /\ Waits(r)' = Waits(r) \ {replies[1].n}
         /\ \A n \in Waits(r) : replies[1].n <= n
<1>0. replies \in Seq(ReplyRec) /\ DOMAIN replies = 1 .. Len(replies) /\ Len(replies) \in Nat /\ 1 \in DOMAIN replies
  BY DEF ClientTypes
<1>1. /\ DOMAIN replies' = 1 .. Len(replies) - 1
      /\ \A i \in DOMAIN replies' : i + 1 \in DOMAIN replies /\ replies'[i] = replies[i + 1]
      /\ \A i \in DOMAIN replies : i # 1 => i - 1 \in DOMAIN replies' /\ replies'[i - 1] = replies[i]
  BY <1>0
<1>2. \A i \in DOMAIN replies : replies[i].n \in Nat
  <2> SUFFICES ASSUME NEW i \in DOMAIN replies PROVE replies[i].n \in Nat
    OBVIOUS
  <2>1. replies[i] \in ReplyRec
    BY <1>0
  <2> QED BY <2>1 DEF ReplyRec
<1>3. \A i \in DOMAIN replies : i # 1 /\ replies[i].r = r => replies[1].n < replies[i].n
  BY <1>0 DEF Ordered
<1>4. replies[1].n \in Waits(r)
  BY <1>0 DEF Waits
<1>5. \A n \in Waits(r) : replies[1].n <= n
  BY <1>0, <1>2, <1>3 DEF Waits
<1>6. Waits(r)' \subseteq Waits(r) \ {replies[1].n}
  <2> SUFFICES ASSUME NEW i \in DOMAIN replies', replies'[i].r = r PROVE replies'[i].n \in Waits(r) \ {replies[1].n}
    BY DEF Waits
  <2>1. i + 1 \in DOMAIN replies /\ replies'[i] = replies[i + 1] /\ i + 1 # 1
    BY <1>0, <1>1
  <2> QED BY <1>0, <1>2, <1>3, <2>1 DEF Waits
<1>7. Waits(r) \ {replies[1].n} \subseteq Waits(r)'
  <2> SUFFICES ASSUME NEW i \in DOMAIN replies, replies[i].r = r, i # 1 PROVE replies[i].n \in Waits(r)'
    BY DEF Waits
  <2>1. i - 1 \in DOMAIN replies' /\ replies'[i - 1] = replies[i]
    BY <1>1
  <2> QED BY <2>1 DEF Waits
<1>8. ASSUME NEW i \in DOMAIN replies', NEW j \in DOMAIN replies', i < j, replies'[i].r = r, replies'[j].r = r
      PROVE  replies'[i].n < replies'[j].n
  <2>1. i + 1 \in DOMAIN replies /\ j + 1 \in DOMAIN replies /\ i + 1 < j + 1
    BY <1>0, <1>1, <1>8
  <2>2. replies'[i] = replies[i + 1] /\ replies'[j] = replies[j + 1]
    BY <1>1
  <2> QED BY <1>8, <2>1, <2>2 DEF Ordered
<1> QED BY <1>4, <1>5, <1>6, <1>7, <1>8 DEF Ordered

\* DispatchReply keeps the invariant.
LEMMA DispatchReplyKeeps ==
  ASSUME ClientInv, NEW r \in Requests, r = replies[1].r, DispatchReply
  PROVE  ClientInv'
<1>1. ClientTypes /\ disp.pc = "idle" /\ disp.r = NoRequest /\ replies # <<>> /\ replies' = Tail(replies)
  BY DEF ClientInv, ClientTypes, DispatchReply
<1> DEFINE m == replies[1]
           d == [pc |-> "reply", r |-> m.r, n |-> m.n, remove |-> m.ends, slot |-> FALSE]
<1>2. m \in ReplyRec /\ Head(replies) = m /\ replies' \in Seq(ReplyRec) /\ m.r = r
  BY <1>1 DEF ClientTypes
<1>3. r \in Requests /\ r # NoRequest
  BY NoRequestAssumption DEF NoRequestAssumption
<1>4. /\ r \in requests => disp' = d
      /\ r \notin requests => disp' = Free
  BY <1>2 DEF DispatchReply, Free
<1>5. Free \in DispRec /\ Free.pc = "idle" /\ Free.r = NoRequest
  BY DEF Free, DispRec
<1>6. d \in DispRec /\ d.pc = "reply" /\ d.r = r /\ d.n = m.n
  BY <1>2, <1>3 DEF DispRec, ReplyRec
<1> HIDE DEF d
<1>7. UNCHANGED <<requests, request, user, bus, handed>>
  BY DEF DispatchReply
<1>8. disp' \in DispRec /\ (disp'.pc = "idle" <=> disp'.r = NoRequest) /\ disp'.r \in {r, NoRequest}
  BY <1>3, <1>4, <1>5, <1>6
<1>9. ClientTypes'
  BY <1>1, <1>2, <1>7, <1>8 DEF ClientTypes
<1>10. ASSUME NEW q \in Requests \ {r} PROVE Apart(q)
  <2>1. q # NoRequest
    BY NoRequestAssumption DEF NoRequestAssumption
  <2> QED BY <1>1, <1>7, <1>8, <2>1 DEF Apart, SameQueue
<1>11. RequestInv(r)
  BY <1>3 DEF ClientInv
<1>12. /\ Ordered(r)' /\ m.n \in Waits(r) /\ Waits(r)' = Waits(r) \ {m.n}
       /\ \A n \in Waits(r) : m.n <= n
  BY <1>1, <1>3, <1>11, HeadReply DEF RequestInv, HandedInv
<1>13. Len(handed[r]) \in Nat /\ bus[r].sent \in Nat /\ request[r].replies \in Nat /\ Expected[r] \in Nat
  BY <1>1, <1>3, RequestFields
<1>14. ~InHand(r) /\ Through(r) = Len(handed[r])
  <2>1. ~InHand(r)
    BY <1>1 DEF InHand
  <2>2. Through(r) = Len(handed[r]) + 0
    BY <2>1 DEF Through
  <2> QED BY <1>13, <2>1, <2>2
<1> HIDE DEF m
<1>15. ASSUME r \in requests PROVE RequestInv(r)'
  <2>1. disp' = d /\ disp'.pc = "reply" /\ disp'.r = r /\ disp'.n = m.n /\ InHand(r)'
    BY <1>4, <1>6, <1>15 DEF InHand
  <2>2. Through(r)' = Len(handed[r]) + 1
    BY <1>7, <2>1 DEF Through
  <2>3. Waits(r) = Len(handed[r]) + 1 .. bus[r].sent
    BY <1>11, <1>14, <1>15 DEF RequestInv, HandedInv
  <2>4. m.n = Len(handed[r]) + 1 /\ Len(handed[r]) + 1 <= bus[r].sent
    BY <1>12, <1>13, <2>3
  <2>5. Waits(r)' = Len(handed[r]) + 2 .. bus[r].sent
    BY <1>12, <1>13, <2>3, <2>4
  <2>6. HandedInv(r)'
    <3>1. Waits(r)' \subseteq 1 .. bus'[r].sent /\ Through(r)' <= bus'[r].sent
      BY <1>7, <1>13, <2>2, <2>4, <2>5
    <3>2. Waits(r)' = Through(r)' + 1 .. bus'[r].sent
      BY <1>7, <1>13, <2>2, <2>5
    <3>3. disp'.n = Len(handed'[r]) + 1 /\ \A i \in DOMAIN handed'[r] : handed'[r][i] = i
      BY <1>7, <1>11, <2>1, <2>4 DEF RequestInv, HandedInv
    <3> QED BY <1>12, <3>1, <3>2, <3>3 DEF HandedInv
  <2>7. request[r].replies < Expected[r] /\ request[r].sent
    BY <1>1, <1>11, <1>13, <1>15 DEF RequestInv, CountInv, RemovedInv
  <2>8. CountInv(r)'
    BY <1>1, <1>7, <1>11, <1>13, <2>1, <2>7 DEF RequestInv, CountInv
  <2>9. RemovedInv(r)'
    BY <1>7, <1>11, <1>15, <2>1, <2>7 DEF RequestInv, RemovedInv, InHand
  <2>10. CancelInv(r)'
    BY <1>1, <1>7, <1>11, <2>1 DEF RequestInv, CancelInv, Open
  <2> QED BY <2>6, <2>8, <2>9, <2>10 DEF RequestInv
<1>16. ASSUME r \notin requests PROVE RequestInv(r)'
  <2>1. disp' = Free /\ disp'.pc = "idle" /\ disp'.r # r /\ ~InHand(r)'
    BY <1>3, <1>4, <1>5, <1>16 DEF InHand
  <2>2. Through(r)' = Through(r)
    BY <1>7, <1>14, <2>1 DEF Through
  <2>3. HandedInv(r)'
    BY <1>7, <1>11, <1>12, <1>16, <2>1, <2>2 DEF RequestInv, HandedInv
  <2>4. CountInv(r)' /\ RemovedInv(r)' /\ CancelInv(r)'
    BY <1>1, <1>3, <1>7, <1>11, <1>16, <2>1 DEF RequestInv, CountInv, RemovedInv, CancelInv, Open, InHand
  <2> QED BY <2>3, <2>4 DEF RequestInv
<1> QED BY <1>3, <1>9, <1>10, <1>15, <1>16, OneRequest

\* A request that the dispatcher works on is a request.
LEMMA AtWork ==
  ASSUME ClientInv, disp.pc # "idle"
  PROVE  disp.r \in Requests /\ RequestInv(disp.r) /\ ClientTypes /\ disp.n \in Nat /\ request[disp.r].sent
<1>1. disp.r \in Requests /\ disp.n \in Nat
  BY DEF ClientInv, ClientTypes, DispRec
<1> QED BY <1>1 DEF ClientInv, RequestInv, RemovedInv

\* CallSlot keeps the invariant.
LEMMA CallSlotKeeps == ASSUME ClientInv, NEW r \in Requests, r = disp.r, CallSlot PROVE ClientInv'
<1> DEFINE q == [request[r] EXCEPT !.replies = request[r].replies + 1]
           d == [disp EXCEPT !.pc = "invoke", !.slot = request[r].slot, !.remove = disp.remove \/ IsLastReply(r)]
<1>1. r \in Requests /\ RequestInv(r) /\ ClientTypes /\ disp.pc = "reply" /\ request[r].sent
  BY AtWork DEF CallSlot
<1>2. r # NoRequest
  BY <1>1, NoRequestAssumption DEF NoRequestAssumption
<1>3. request' = [request EXCEPT ![r] = q]
  BY DEF CallSlot
<1>4. disp' = d
  BY DEF CallSlot
<1>5. request[r] \in RequestRec /\ request[r].replies \in Nat /\ Expected[r] \in Nat /\ Len(handed[r]) \in Nat
  BY <1>1, RequestFields
<1>6. q \in RequestRec /\ q.replies = request[r].replies + 1 /\ q.sent /\ q.slot = request[r].slot
      /\ q.cancelled = request[r].cancelled
  BY <1>1, <1>5 DEF RequestRec
<1>7. d \in DispRec /\ d.pc = "invoke" /\ d.r = r /\ d.n = disp.n /\ d.slot = request[r].slot
      /\ (IsLastReply(r) => d.remove)
  <2>1. disp \in DispRec /\ IsLastReply(r) \in BOOLEAN /\ request[r].slot \in BOOLEAN
    BY <1>1, <1>5 DEF ClientTypes, IsLastReply, RequestRec
  <2> QED BY <2>1 DEF DispRec
<1> HIDE DEF q, d
<1>8. request' \in [Requests -> RequestRec] /\ request'[r] = q /\ \A p \in Requests \ {r} : request'[p] = request[p]
  BY <1>1, <1>3, <1>6 DEF ClientTypes
<1>9. UNCHANGED <<requests, replies, user, bus, handed>>
  BY DEF CallSlot
<1>10. ClientTypes'
  BY <1>1, <1>2, <1>4, <1>7, <1>8, <1>9 DEF ClientTypes
<1>11. \A p \in Requests \ {r} : Apart(p)
  BY <1>4, <1>7, <1>8, <1>9 DEF Apart, SameQueue
<1>12. InHand(r) /\ InHand(r)' /\ disp'.pc = "invoke" /\ disp'.r = r /\ disp'.n = disp.n
  BY <1>1, <1>4, <1>7 DEF InHand
<1>13. HandedInv(r)'
  <2>1. Waits(r)' = Waits(r) /\ (Ordered(r) => Ordered(r)')
    BY <1>9 DEF Waits, Ordered
  <2>2. Through(r)' = Through(r)
    BY <1>9, <1>12 DEF Through
  <2> QED BY <1>1, <1>9, <1>12, <2>1, <2>2 DEF RequestInv, HandedInv
<1>14. request[r].replies < Expected[r] /\ Len(handed[r]) <= request[r].replies
  BY <1>1, <1>5, <1>12 DEF RequestInv, CountInv
<1>15. CountInv(r)'
  <2>1. request'[r].replies = request[r].replies + 1
    BY <1>6, <1>8
  <2>2. request'[r].replies >= Expected[r] => disp'.remove
    BY <1>4, <1>7, <2>1 DEF IsLastReply
  <2> QED BY <1>5, <1>9, <1>12, <1>14, <2>1, <2>2 DEF CountInv
<1>16. disp'.slot = request[r].slot
  BY <1>4, <1>7
<1>17. RemovedInv(r)'
  BY <1>1, <1>6, <1>8, <1>9, <1>12, <1>16 DEF RequestInv, RemovedInv, InHand
<1>18. CancelInv(r)'
  BY <1>1, <1>6, <1>8, <1>9, <1>12 DEF RequestInv, CancelInv, Open
<1> QED BY <1>1, <1>10, <1>11, <1>13, <1>15, <1>17, <1>18, OneRequest DEF RequestInv

\* Invoke keeps the invariant.
LEMMA InvokeKeeps ==
  ASSUME ClientInv, NEW r \in Requests, r = disp.r, NEW fails \in BOOLEAN, Invoke(fails)
  PROVE  ClientInv'
<1> DEFINE h == Append(handed[r], disp.n)
           d == [disp EXCEPT !.pc = "remove"]
<1>1. r \in Requests /\ RequestInv(r) /\ ClientTypes /\ disp.pc = "invoke" /\ request[r].sent /\ disp.n \in Nat
  BY AtWork DEF Invoke
<1>2. r # NoRequest
  BY <1>1, NoRequestAssumption DEF NoRequestAssumption
<1>3. /\ Len(handed[r]) \in Nat /\ request[r].replies \in Nat /\ Expected[r] \in Nat
      /\ handed[r] \in Seq(Nat) /\ DOMAIN handed[r] = 1 .. Len(handed[r]) /\ bus[r].sent \in Nat
  BY <1>1, RequestFields
<1>4. d \in DispRec /\ d.pc = "remove" /\ d.r = r
  BY <1>1 DEF ClientTypes, DispRec
<1>5. Free \in DispRec /\ Free.pc = "idle" /\ Free.r = NoRequest
  BY DEF Free, DispRec
<1>6. disp' = d \/ (disp' = Free /\ ~disp.remove)
  BY DEF Invoke
<1>7. /\ h \in Seq(Nat) /\ Len(h) = Len(handed[r]) + 1 /\ h # <<>>
      /\ \A i \in DOMAIN handed[r] : h[i] = handed[r][i]
      /\ h[Len(handed[r]) + 1] = disp.n
      /\ \A i \in DOMAIN h : i \in DOMAIN handed[r] \/ i = Len(handed[r]) + 1
  <2>1. h \in Seq(Nat) /\ Len(h) = Len(handed[r]) + 1 /\ DOMAIN h = 1 .. Len(handed[r]) + 1
    BY <1>1, <1>3
  <2>2. /\ \A i \in 1 .. Len(handed[r]) : h[i] = handed[r][i]
        /\ h[Len(handed[r]) + 1] = disp.n
    BY <1>1, <1>3
  <2> HIDE DEF h
  <2>3. h # <<>>
    <3>1. Len(h) # 0
      BY <1>3, <2>1
    <3> QED BY <3>1
  <2>4. \A i \in DOMAIN h : i \in DOMAIN handed[r] \/ i = Len(handed[r]) + 1
    BY <1>3, <2>1
  <2>5. \A i \in DOMAIN handed[r] : h[i] = handed[r][i]
    BY <1>3, <2>2
  <2> QED BY <2>1, <2>2, <2>3, <2>4, <2>5
<1>8. /\ disp.slot => handed' = [handed EXCEPT ![r] = h]
      /\ ~disp.slot => handed' = handed
  BY DEF Invoke
<1> HIDE DEF d, h
<1>9. /\ disp' \in DispRec /\ (disp'.pc = "idle" <=> disp'.r = NoRequest)
      /\ disp'.r \in {r, NoRequest} /\ disp'.pc \in {"remove", "idle"}
      /\ disp.remove => disp'.pc = "remove" /\ disp'.r = r
  BY <1>2, <1>4, <1>5, <1>6
<1>10. /\ handed' \in [Requests -> Seq(Nat)] /\ \A p \in Requests \ {r} : handed'[p] = handed[p]
       /\ disp.slot => handed'[r] = h
       /\ ~disp.slot => handed'[r] = handed[r]
  <2>1. handed \in [Requests -> Seq(Nat)] /\ h \in Seq(Nat) /\ (disp.slot \/ ~disp.slot)
    BY <1>1, <1>7 DEF ClientTypes
  <2> QED BY <1>8, <2>1
<1>11. UNCHANGED <<requests, request, replies, user, bus>>
  BY DEF Invoke
<1>12. ClientTypes'
  BY <1>1, <1>9, <1>10, <1>11 DEF ClientTypes
<1>13. ASSUME NEW p \in Requests \ {r} PROVE Apart(p)
  <2>1. p # NoRequest
    BY NoRequestAssumption DEF NoRequestAssumption
  <2> QED BY <1>9, <1>10, <1>11, <2>1 DEF Apart, SameQueue
<1>14. InHand(r) /\ ~InHand(r)' /\ disp.n = Len(handed[r]) + 1
  <2>1. InHand(r) /\ ~InHand(r)'
    BY <1>1, <1>9 DEF InHand
  <2> QED BY <1>1, <2>1 DEF RequestInv, HandedInv
<1>15. Through(r) = Len(handed[r]) + 1 /\ Through(r)' = Len(handed'[r]) + 0
  BY <1>14 DEF Through
<1>16. r \in requests => disp.slot
  BY <1>1, <1>14 DEF RequestInv, RemovedInv
<1>17. /\ Len(handed'[r]) \in Nat /\ Len(handed'[r]) <= Len(handed[r]) + 1
       /\ disp.slot => Len(handed'[r]) = Len(handed[r]) + 1 /\ handed'[r] # <<>>
       /\ handed[r] # <<>> => handed'[r] # <<>>
  BY <1>3, <1>7, <1>10, SMTT(40)
<1>18. \A i \in DOMAIN handed[r] : handed[r][i] = i
  BY <1>1 DEF RequestInv, HandedInv
<1>19. \A i \in DOMAIN handed'[r] : handed'[r][i] = i
  <2>1. \A i \in DOMAIN h : h[i] = i
    BY <1>7, <1>14, <1>18
  <2> QED BY <1>10, <1>18, <2>1
<1>20. HandedInv(r)'
  <2>1. Waits(r)' = Waits(r) /\ (Ordered(r) => Ordered(r)')
    BY <1>11 DEF Waits, Ordered
  <2>2. Ordered(r) /\ Waits(r) \subseteq 1 .. bus[r].sent /\ Through(r) <= bus[r].sent
        /\ (r \in requests => Waits(r) = Through(r) + 1 .. bus[r].sent)
    BY <1>1 DEF RequestInv, HandedInv
  <2>3. Through(r)' <= bus[r].sent /\ (r \in requests => Through(r)' = Through(r))
    BY <1>3, <1>15, <1>16, <1>17, <2>2
  <2> QED BY <1>11, <1>14, <1>19, <2>1, <2>2, <2>3 DEF HandedInv
<1>21. CountInv(r)'
  <2>1. Len(handed[r]) + 1 <= request[r].replies /\ request[r].replies <= Expected[r]
        /\ (r \in requests /\ request[r].replies >= Expected[r] => disp.remove)
    BY <1>1 DEF RequestInv, CountInv
  <2>2. Len(handed'[r]) + 0 <= request'[r].replies /\ request'[r].replies <= Expected[r]
    BY <1>3, <1>11, <1>17, <2>1
  <2>3. r \in requests' /\ request'[r].replies >= Expected[r] => disp'.r = r /\ disp'.pc = "remove"
    BY <1>9, <1>11, <2>1
  <2>4. disp'.pc # "invoke"
    BY <1>9
  <2> QED BY <1>14, <2>2, <2>3, <2>4 DEF CountInv
<1>22. RemovedInv(r)'
  <2>1. user[r] = "waits" => handed'[r] # <<>>
    BY <1>1, <1>14, <1>17 DEF RequestInv, RemovedInv
  <2> QED BY <1>1, <1>9, <1>11, <1>14, <2>1 DEF RequestInv, RemovedInv
<1>23. CancelInv(r)'
  BY <1>1, <1>9, <1>11 DEF RequestInv, CancelInv, Open
<1> QED BY <1>1, <1>12, <1>13, <1>20, <1>21, <1>22, <1>23, OneRequest DEF RequestInv

\* RemoveRequest keeps the invariant.
LEMMA RemoveRequestKeeps == ASSUME ClientInv, NEW r \in Requests, r = disp.r, RemoveRequest PROVE ClientInv'
<1> DEFINE d == [disp EXCEPT !.pc = "cancel"]
<1>1. r \in Requests /\ RequestInv(r) /\ ClientTypes /\ disp.pc = "remove" /\ request[r].sent
  BY AtWork DEF RemoveRequest
<1>2. r # NoRequest
  BY <1>1, NoRequestAssumption DEF NoRequestAssumption
<1>3. d \in DispRec /\ d.pc = "cancel" /\ d.r = r
  BY <1>1 DEF ClientTypes, DispRec
<1>4. Free \in DispRec /\ Free.pc = "idle" /\ Free.r = NoRequest
  BY DEF Free, DispRec
<1>5. (Open(r) /\ r \in requests /\ disp' = d) \/ (~(Open(r) /\ r \in requests) /\ disp' = Free)
  BY DEF RemoveRequest
<1> HIDE DEF d
<1>6. /\ disp' \in DispRec /\ (disp'.pc = "idle" <=> disp'.r = NoRequest)
      /\ disp'.r \in {r, NoRequest} /\ disp'.pc \in {"cancel", "idle"}
      /\ (disp'.r = r /\ disp'.pc = "cancel") <=> (Open(r) /\ r \in requests)
  BY <1>2, <1>3, <1>4, <1>5
<1>7. requests' = requests \ {r} /\ UNCHANGED <<request, replies, user, bus, handed>>
  BY DEF RemoveRequest, Removed
<1>8. ClientTypes'
  BY <1>1, <1>6, <1>7 DEF ClientTypes
<1>9. ASSUME NEW p \in Requests \ {r} PROVE Apart(p)
  <2>1. p # NoRequest
    BY NoRequestAssumption DEF NoRequestAssumption
  <2> QED BY <1>6, <1>7, <2>1 DEF Apart, SameQueue
<1>10. ~InHand(r) /\ ~InHand(r)' /\ r \notin requests' /\ disp'.pc # "invoke"
  BY <1>1, <1>6, <1>7 DEF InHand
<1>11. HandedInv(r)'
  <2>1. Waits(r)' = Waits(r) /\ (Ordered(r) => Ordered(r)')
    BY <1>7 DEF Waits, Ordered
  <2>2. Through(r)' = Through(r)
    BY <1>7, <1>10 DEF Through
  <2> QED BY <1>1, <1>7, <1>10, <2>1, <2>2 DEF RequestInv, HandedInv
<1>12. CountInv(r)'
  BY <1>1, <1>7, <1>10 DEF RequestInv, CountInv
<1>13. RemovedInv(r)'
  BY <1>1, <1>6, <1>7, <1>10 DEF RequestInv, RemovedInv
<1>14. CancelInv(r)'
  <2>1. r \in requests => user[r] = "waits"
    BY <1>1 DEF RequestInv, RemovedInv
  <2> QED BY <1>1, <1>6, <1>7, <1>10, <2>1 DEF RequestInv, CancelInv, Open
<1> QED BY <1>1, <1>8, <1>9, <1>11, <1>12, <1>13, <1>14, OneRequest DEF RequestInv

\* DispatchCancel keeps the invariant.
LEMMA DispatchCancelKeeps == ASSUME ClientInv, NEW r \in Requests, r = disp.r, DispatchCancel PROVE ClientInv'
<1> DEFINE q == [request[r] EXCEPT !.cancelled = TRUE]
<1>1. r \in Requests /\ RequestInv(r) /\ ClientTypes /\ disp.pc = "cancel" /\ request[r].sent
  BY AtWork DEF DispatchCancel
<1>2. r # NoRequest
  BY <1>1, NoRequestAssumption DEF NoRequestAssumption
<1>3. request' = [request EXCEPT ![r] = q]
  BY DEF DispatchCancel
<1>4. q \in RequestRec /\ q.sent /\ q.slot = request[r].slot /\ q.replies = request[r].replies
  BY <1>1, RequestFields DEF RequestRec
<1> HIDE DEF q
<1>5. request' \in [Requests -> RequestRec] /\ request'[r] = q /\ \A p \in Requests \ {r} : request'[p] = request[p]
  BY <1>1, <1>3, <1>4 DEF ClientTypes
<1>6. Free \in DispRec /\ Free.pc = "idle" /\ Free.r = NoRequest
  BY DEF Free, DispRec
<1>7. /\ disp' \in DispRec /\ (disp'.pc = "idle" <=> disp'.r = NoRequest)
      /\ disp'.r = NoRequest /\ disp'.pc = "idle"
  BY <1>6 DEF DispatchCancel
<1>8. UNCHANGED <<requests, replies, user, handed>>
  BY DEF DispatchCancel
<1>9. /\ Open(r) /\ ~request[r].cancelled /\ bus[r].cancels = 0 /\ r \notin requests /\ user[r] # "cancels"
  BY <1>1 DEF RequestInv, CancelInv
<1>10. /\ bus' \in [Requests -> BusRec] /\ \A p \in Requests \ {r} : bus'[p] = bus[p]
       /\ bus'[r].sent = bus[r].sent /\ bus'[r].cancels = 1
  <2>1. CancelImpl(r)
    BY DEF DispatchCancel
  <2> QED BY <1>1, <1>9, <2>1, CancelImplEffect
<1>11. ClientTypes'
  BY <1>1, <1>5, <1>7, <1>8, <1>10 DEF ClientTypes
<1>12. ASSUME NEW p \in Requests \ {r} PROVE Apart(p)
  <2>1. p # NoRequest
    BY NoRequestAssumption DEF NoRequestAssumption
  <2> QED BY <1>5, <1>7, <1>8, <1>10, <2>1 DEF Apart, SameQueue
<1>13. ~InHand(r) /\ ~InHand(r)' /\ disp'.r # r
  BY <1>1, <1>2, <1>7 DEF InHand
<1>14. HandedInv(r)'
  <2>1. Waits(r)' = Waits(r) /\ (Ordered(r) => Ordered(r)')
    BY <1>8 DEF Waits, Ordered
  <2>2. Through(r)' = Through(r)
    BY <1>8, <1>13 DEF Through
  <2> QED BY <1>1, <1>8, <1>10, <1>13, <2>1, <2>2 DEF RequestInv, HandedInv
<1>15. CountInv(r)'
  BY <1>1, <1>4, <1>5, <1>8, <1>9, <1>13 DEF RequestInv, CountInv
<1>16. RemovedInv(r)'
  BY <1>1, <1>4, <1>5, <1>8, <1>9, <1>13 DEF RequestInv, RemovedInv
<1>17. CancelInv(r)'
  BY <1>8, <1>9, <1>10, <1>13 DEF CancelInv
<1> QED BY <1>1, <1>11, <1>12, <1>14, <1>15, <1>16, <1>17, OneRequest DEF RequestInv

-----------------------------------------------------------------------------
(* The theorems *)

\* Every step keeps the invariant.
LEMMA ClientStep == ClientInv /\ [ClientNext]_clientVars => ClientInv'
<1> SUFFICES ASSUME ClientInv, [ClientNext]_clientVars PROVE ClientInv'
  OBVIOUS
<1>1. CASE UNCHANGED clientVars
  <2>1. ClientTypes'
    BY <1>1 DEF clientVars, ClientInv, ClientTypes
  <2>2. \A q \in Requests : Apart(q)
    BY <1>1 DEF clientVars, Apart, SameQueue
  <2> QED BY <2>1, <2>2, ApartKeeps DEF ClientInv
<1>2. CASE \E r \in Requests : SendRequest(r) \/ UserCancel(r) \/ UserCancelImpl(r) \/ UserLeave(r)
  BY <1>2, SendKeeps, UserCancelKeeps, UserCancelImplKeeps, UserLeaveKeeps
<1>3. CASE \E r \in Requests, error \in BOOLEAN, sub \in BOOLEAN : BusReply(r, error, sub)
  BY <1>3, BusReplyKeeps
<1>4. CASE DispatchReply
  <2>1. replies[1] \in ReplyRec
    BY <1>4 DEF ClientInv, ClientTypes, DispatchReply
  <2>2. PICK r \in Requests : r = replies[1].r
    BY <2>1 DEF ReplyRec
  <2> QED BY <1>4, <2>2, DispatchReplyKeeps
<1>5. ASSUME disp.pc # "idle", CallSlot \/ (\E fails \in BOOLEAN : Invoke(fails)) \/ RemoveRequest \/ DispatchCancel
      PROVE  ClientInv'
  <2>1. PICK r \in Requests : r = disp.r
    BY <1>5, AtWork
  <2> QED BY <1>5, <2>1, CallSlotKeeps, InvokeKeeps, RemoveRequestKeeps, DispatchCancelKeeps
<1>6. CallSlot \/ (\E fails \in BOOLEAN : Invoke(fails)) \/ RemoveRequest \/ DispatchCancel => disp.pc # "idle"
  BY DEF CallSlot, Invoke, RemoveRequest, DispatchCancel
<1> QED BY <1>1, <1>2, <1>3, <1>4, <1>5, <1>6 DEF ClientNext

\* It holds at the start.
LEMMA ClientStart == ClientInit => ClientInv
<1> SUFFICES ASSUME ClientInit PROVE ClientInv
  OBVIOUS
<1>1. requests = {} /\ replies = <<>> /\ disp = Free
  BY DEF ClientInit
<1>2. Free \in DispRec /\ Free.pc = "idle" /\ Free.r = NoRequest
  BY DEF Free, DispRec
<1>3. NoCall \in BusRec /\ NoCall.sent = 0 /\ NoCall.cancels = 0
  BY DEF NoCall, BusRec
<1>4. ClientTypes
  BY <1>1, <1>2, <1>3 DEF ClientInit, ClientTypes, RequestRec
<1>5. ASSUME NEW r \in Requests PROVE RequestInv(r)
  <2>1. /\ request[r] = [sent |-> FALSE, slot |-> FALSE, replies |-> 0, cancelled |-> FALSE]
        /\ user[r] = "waits" /\ bus[r] = NoCall /\ handed[r] = <<>> /\ disp.r # r /\ ~InHand(r)
    BY <1>1, <1>2, NoRequestAssumption DEF ClientInit, NoRequestAssumption, InHand
  <2>2. Len(handed[r]) = 0 /\ DOMAIN handed[r] = {} /\ DOMAIN replies = {} /\ Expected[r] \in Nat \ {0}
    BY <1>1, <1>4, <2>1, RequestFields
  <2>3. Waits(r) = {} /\ Through(r) = 0 /\ Ordered(r)
    BY <2>1, <2>2 DEF Waits, Through, Ordered
  <2>4. HandedInv(r)
    BY <1>1, <1>3, <2>1, <2>2, <2>3 DEF HandedInv
  <2>5. CountInv(r) /\ RemovedInv(r) /\ CancelInv(r)
    BY <1>1, <1>3, <2>1, <2>2 DEF CountInv, RemovedInv, CancelInv
  <2> QED BY <2>4, <2>5 DEF RequestInv
<1> QED BY <1>4, <1>5 DEF ClientInv

\* The invariant behind the client's requests: what a service sent to a request in
\* m_requests is what the caller got, what is in hand and what waits in the queue, in
\* that order, and each way out of the map cancels an open call once
\* (dispatchReply(), removeRequest() and cancelImpl() of MojLunaService).
THEOREM ClientInvAlways == ClientSpec => []ClientInv
<1> QED BY ClientStart, ClientStep, PTL DEF ClientSpec

\* The invariant says that a request ends the way its caller expects.
LEMMA ClientInvEnds == ClientInv => RequestsEnd
<1> SUFFICES ASSUME ClientInv, NEW r \in Requests
             PROVE  /\ \A i \in 1 .. Len(handed[r]) : handed[r][i] = i
                    /\ Len(handed[r]) <= Expected[r]
                    /\ user[r] = "waits" /\ r \in requests /\ disp.r # r =>
                         \A n \in 1 .. bus[r].sent : n <= Len(handed[r])
                            \/ \E i \in DOMAIN replies : replies[i].r = r /\ replies[i].n = n
                    /\ handed[r] = <<>> /\ bus[r].sent > 0 /\ user[r] = "waits" =>
                         disp.r = r \/ \E i \in DOMAIN replies : replies[i].r = r
                    /\ bus[r].cancels <= 1
                    /\ request[r].sent /\ Open(r) /\ r \notin requests
                       /\ user[r] \in {"waits", "gone"} /\ disp.r # r => bus[r].cancels = 1
                    /\ r \in requests /\ disp.r # r => request[r].replies < Expected[r]
  BY DEF RequestsEnd, RepliesInOrder, CallsClosed, NoRequestLeft
<1>1. ClientTypes /\ HandedInv(r) /\ CountInv(r) /\ RemovedInv(r) /\ CancelInv(r)
  BY DEF ClientInv, RequestInv
<1>2. /\ request[r].replies \in Nat /\ bus[r].sent \in Nat /\ Expected[r] \in Nat
      /\ Len(handed[r]) \in Nat /\ DOMAIN handed[r] = 1 .. Len(handed[r])
  BY <1>1, RequestFields
<1>3. \A i \in 1 .. Len(handed[r]) : handed[r][i] = i
  BY <1>1, <1>2 DEF HandedInv
<1>4. Len(handed[r]) <= Expected[r]
  <2>1. CASE disp.r = r /\ disp.pc = "invoke"
    <3>1. Len(handed[r]) + 1 <= request[r].replies /\ request[r].replies <= Expected[r]
      BY <1>1, <2>1 DEF CountInv
    <3> QED BY <1>2, <3>1
  <2>2. CASE ~(disp.r = r /\ disp.pc = "invoke")
    <3>1. Len(handed[r]) + 0 <= request[r].replies /\ request[r].replies <= Expected[r]
      BY <1>1, <2>2 DEF CountInv
    <3> QED BY <1>2, <3>1
  <2> QED BY <2>1, <2>2
<1>5. ASSUME r \in requests, disp.r # r PROVE Waits(r) = Len(handed[r]) + 1 .. bus[r].sent
  <2>1. Through(r) = Len(handed[r]) + 0
    BY <1>5 DEF Through, InHand
  <2> QED BY <1>1, <1>2, <1>5, <2>1 DEF HandedInv
<1>6. ASSUME r \in requests, disp.r # r, NEW n \in 1 .. bus[r].sent, ~(n <= Len(handed[r]))
      PROVE  \E i \in DOMAIN replies : replies[i].r = r /\ replies[i].n = n
  <2>1. n \in Waits(r)
    BY <1>2, <1>5, <1>6
  <2> QED BY <2>1 DEF Waits
<1>7. ASSUME handed[r] = <<>>, bus[r].sent > 0, user[r] = "waits", disp.r # r
      PROVE  \E i \in DOMAIN replies : replies[i].r = r
  <2>1. request[r].sent
    BY <1>1, <1>2, <1>7 DEF RemovedInv, NoCall
  <2>2. r \in requests /\ Len(handed[r]) = 0
    BY <1>1, <1>7, <2>1 DEF RemovedInv
  <2>3. 1 \in 1 .. bus[r].sent /\ ~(1 <= Len(handed[r]))
    BY <1>2, <1>7, <2>2
  <2> QED BY <1>6, <1>7, <2>2, <2>3
<1>8. bus[r].cancels <= 1
  BY <1>1 DEF CancelInv
<1>9. request[r].sent /\ Open(r) /\ r \notin requests /\ user[r] \in {"waits", "gone"} /\ disp.r # r => bus[r].cancels = 1
  BY <1>1 DEF CancelInv
<1>10. r \in requests /\ disp.r # r => request[r].replies < Expected[r]
  BY <1>1, <1>2 DEF CountInv
<1> QED BY <1>3, <1>4, <1>6, <1>7, <1>8, <1>9, <1>10

\* For every set of requests, number of expected replies and number of replies sent: a
\* caller that stays gets every reply of its request, in order; a call that stays open
\* on the bus is cancelled there once; and no request is left in m_requests after its
\* last reply (MojLunaService::dispatchReply(), removeRequest(), cancelImpl()).
THEOREM RequestsEndAlways == ClientSpec => []RequestsEnd
<1> QED BY ClientInvAlways, ClientInvEnds, PTL
=============================================================================
