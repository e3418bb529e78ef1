------------------------------ MODULE LogFeed ------------------------------
(***************************************************************************)
(* What LogBroadcast promises, without its INSERTs and its bookkeeping of  *)
(* sockets: an entry is published once, under one tenant, and whoever      *)
(* follows that tenant or all of them at that moment has it.               *)
(***************************************************************************)
CONSTANTS Tenant, Entry, Follower, None

VARIABLES
    published,  \* the tenant an entry was published under, None before
    stage,      \* whether a follower is there
    follows,    \* the tenant it follows, None for all
    seen        \* what it was shown

vars == <<published, stage, follows, seen>>

Init ==
    /\ published = [e \in Entry |-> None]
    /\ stage = [f \in Follower |-> "absent"]
    /\ follows = [f \in Follower |-> None]
    /\ seen = [f \in Follower |-> {}]

\* Nobody who should have the entry misses it, and nobody else is shown it.
Publish(e, t) ==
    /\ published[e] = None
    /\ published' = [published EXCEPT ![e] = t]
    /\ seen' = [f \in Follower |-> IF stage[f] = "following" /\ follows[f] \in {None, t}
                                     THEN seen[f] \cup {e} ELSE seen[f]]
    /\ UNCHANGED <<stage, follows>>

Follow(f, t) ==
    /\ stage[f] = "absent"
    /\ stage' = [stage EXCEPT ![f] = "following"]
    /\ follows' = [follows EXCEPT ![f] = t]
    /\ UNCHANGED <<published, seen>>

Leave(f) ==
    /\ stage[f] = "following"
    /\ stage' = [stage EXCEPT ![f] = "gone"]
    /\ UNCHANGED <<published, follows, seen>>

Next ==
    \/ \E e \in Entry, t \in Tenant : Publish(e, t)
    \/ \E f \in Follower : Leave(f) \/ \E t \in Tenant \cup {None} : Follow(f, t)

Spec == Init /\ [][Next]_vars

=============================================================================
