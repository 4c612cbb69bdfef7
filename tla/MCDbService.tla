---------------------------- MODULE MCDbService -----------------------------
(***************************************************************************)
(* The service on small instances.  part picks the machine a behaviour is  *)
(* about: a service with two senders, one that watches and one that        *)
(* writes, or a client with a single call and a subscription.              *)
(***************************************************************************)
EXTENDS DbService, DbClient

CONSTANTS s1, s2, q1, q2

VARIABLE part

MCKinds == [id \in Ids |-> IF id[1] = s2 THEN {"put"} ELSE IF id[2] = 1 THEN {"watch"} ELSE {"watch", "get"}]
MCCalls == [s \in Senders |-> IF s = s1 THEN 2 ELSE 1]
MCExpected == [r \in {q1, q2} |-> IF r = q1 THEN 1 ELSE 3]

MCInit == part \in {"service", "client"} /\ Init /\ ClientInit

ServiceStep == part = "service" /\ Next /\ UNCHANGED <<clientVars, part>>
ClientStep == part = "client" /\ ClientNext /\ UNCHANGED <<vars, part>>

MCNext == ServiceStep \/ ClientStep

\* The dispatcher's threads run whenever they can.
MCSpec == /\ MCInit /\ [][MCNext]_<<vars, clientVars, part>>
          /\ \A t \in Threads : WF_<<vars, clientVars, part>>(part = "service" /\ ThreadStep(t) /\ UNCHANGED <<clientVars, part>>)
=============================================================================
