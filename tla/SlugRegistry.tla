---------------------------- MODULE SlugRegistry ----------------------------
(***************************************************************************)
(* What TenantRegistry promises, without its SELECT and its races: a       *)
(* registration is one atomic claim of a slug.  It is refused only if      *)
(* another holds the slug, and nothing that operators do frees a slug.     *)
(***************************************************************************)
CONSTANTS Owner, Slug, None

VARIABLES
    holders,  \* who holds a slug
    claim,    \* the slug a registration was answered about, None before
    answer    \* what it was answered

vars == <<holders, claim, answer>>

Init ==
    /\ holders = [s \in Slug |-> {}]
    /\ claim = [o \in Owner |-> None]
    /\ answer = [o \in Owner |-> "none"]

Reply(o, s, a) ==
    /\ answer[o] = "none"
    /\ answer' = [answer EXCEPT ![o] = a]
    /\ claim' = [claim EXCEPT ![o] = s]

Take(o, s) == holders[s] = {} /\ holders' = [holders EXCEPT ![s] = {o}]

Claim(o, s) == Reply(o, s, "claimed") /\ Take(o, s)

Refuse(o, s) == Reply(o, s, "refused") /\ holders[s] # {} /\ UNCHANGED holders

\* A registration that fails may have claimed the slug all the same.
Fail(o, s) == Reply(o, s, "failed") /\ (Take(o, s) \/ UNCHANGED holders)

Next == \E o \in Owner, s \in Slug : Claim(o, s) \/ Refuse(o, s) \/ Fail(o, s)

Spec == Init /\ [][Next]_vars

=============================================================================
