------------------------------ MODULE MCDbKind ------------------------------
(***************************************************************************)
(* The kind machinery on small instances.  part picks the machine a        *)
(* behaviour is about: the kind registry and its indexes (kinds A and B, K *)
(* that may extend either, C that extends K), the quotas of two kinds of   *)
(* one owner, or the property tokens of one kind.                          *)
(***************************************************************************)
EXTENDS DbKind, DbQuota, DbKindState

CONSTANTS A, B, K, C, own1, own2, adm, t1, t2, w1, w2, p1, p2, p3

VARIABLE part

P(incDel) == [name |-> "p", incDel |-> incDel]

Conf(owner, extends, indexes) == [owner |-> owner, extends |-> extends, indexes |-> indexes]

MCKindObjects == [k \in {A, B, K, C} |->
    CASE k = A -> {Conf(own1, <<>>, {P(TRUE)})}
      [] k = B -> {Conf(own1, <<>>, {})}
      [] k = K -> {Conf(own1, <<>>, {P(FALSE)}), Conf(own1, <<>>, {P(TRUE)}),
                   Conf(own1, <<A>>, {}), Conf(own2, <<B>>, {})}
      [] k = C -> {Conf(own1, <<K>>, {})}]

MCLoadOrder == <<A, C, K, B>>

\* A machine that a behaviour is not about stays in one initial state.
MCInit ==
    /\ part \in {"kinds", "quota", "tokens"}
    /\ Init /\ QuotaInit /\ TokensInit
    /\ part # "kinds" => ~rootKind
    /\ part # "quota" => ~locking /\ size = 1

KindStep  == part = "kinds"  /\ Next /\ UNCHANGED <<quotaVars, tokenVars, part>>
QuotaStep == part = "quota"  /\ QuotaNext /\ UNCHANGED <<kindVars, tokenVars, part>>
TokenStep == part = "tokens" /\ TokensNext /\ UNCHANGED <<kindVars, quotaVars, part>>

MCNext == KindStep \/ QuotaStep \/ TokenStep

MCSpec == MCInit /\ [][MCNext]_<<kindVars, quotaVars, tokenVars, part>>
=============================================================================
