---------------------------- MODULE ApprovalGate ----------------------------
(***************************************************************************)
(* What the write path promises, without its stores: a proposal is open    *)
(* for a while, an approval is granted only while it is open, and each     *)
(* granted approval executes the proposal at most once.                    *)
(***************************************************************************)
CONSTANTS Proposal, Approval, None

VARIABLES state, holder, executed

vars == <<state, holder, executed>>

TypeOK ==
    /\ state \in [Proposal -> {"fresh", "open", "closed"}]
    /\ holder \in [Approval -> Proposal \cup {None}]
    /\ executed \in SUBSET Approval

Init ==
    /\ state = [p \in Proposal |-> "fresh"]
    /\ holder = [a \in Approval |-> None]
    /\ executed = {}

\* A proposal is made under an id nobody used before.
Propose(p) ==
    /\ state[p] = "fresh"
    /\ state' = [state EXCEPT ![p] = "open"]
    /\ UNCHANGED <<holder, executed>>

\* An operator's approval finds the proposal open.
Grant(a, p) ==
    /\ state[p] = "open"
    /\ holder[a] = None
    /\ holder' = [holder EXCEPT ![a] = p]
    /\ UNCHANGED <<state, executed>>

\* The engine executes on behalf of a granted approval.
Execute(a) ==
    /\ holder[a] # None
    /\ a \notin executed
    /\ executed' = executed \cup {a}
    /\ UNCHANGED <<state, holder>>

\* The proposal is decided, or its time runs out; it never opens again.
Close(p) ==
    /\ state[p] = "open"
    /\ state' = [state EXCEPT ![p] = "closed"]
    /\ UNCHANGED <<holder, executed>>

Next ==
    \/ \E p \in Proposal : Propose(p) \/ Close(p)
    \/ \E a \in Approval : Execute(a) \/ \E p \in Proposal : Grant(a, p)

Spec == Init /\ [][Next]_vars

=============================================================================
