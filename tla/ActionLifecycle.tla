-------------------------- MODULE ActionLifecycle --------------------------
(***************************************************************************)
(* The governed write path of one tenant: a caller or an agent proposes an *)
(* action, an operator approves or rejects it, the engine executes it.     *)
(*                                                                         *)
(* Three stores are touched and no transaction spans them: the proposals   *)
(* are Redis keys with a TTL, the audit trail is a PostgreSQL table and    *)
(* the events are Redis publications.  Every awaited call of a handler is  *)
(* one step here (its effect on the store), merged with the synchronous    *)
(* code that leads to it; the steps of different requests interleave       *)
(* freely.  A request may die between any two of its steps (Abort): a      *)
(* store fails, the process restarts, the client's connection is cut.      *)
(***************************************************************************)
EXTENDS Naturals, FiniteSets

CONSTANTS
    Proposal,       \* the ids randomUUID() hands out, each of them once
    Request,        \* the approve, reject and execute requests that arrive
    Content,        \* the (actionTypeId, payload) pairs a caller may send
    Allowlist,      \* the contents whose action type the agent's list names
    AgentRegistry,  \* the contents valid under the agent process's schema
    None

ASSUME ContentAssumption == Allowlist \subseteq Content /\ AgentRegistry \subseteq Content
ASSUME NoneAssumption == None \notin Proposal \cup Request \cup Content

VARIABLES
    registry,    \* the contents the API's in-memory schema accepts
    pending,     \* the proposal:<tenant>:<id> keys that exist in Redis
    content,     \* what a proposal asks for
    proposer,    \* how far the request or tool call that makes a proposal is
    auditRow,    \* the action_audit_log row whose id is the proposal's
    executions,  \* the requests whose record() row is in action_audit_log
    events,      \* the requests whose <actionTypeId>.executed was published
    kind,        \* which route a request called
    pc,          \* the last step a request completed
    target,      \* the proposal in the request's URL
    body,        \* the content a request executes
    contended    \* history: proposals looked up while another request on
                 \* them was under way, or had died after executing

requestVars == <<kind, pc, target, body>>
vars == <<registry, pending, content, proposer, auditRow, executions, events,
          requestVars, contended>>

AuditStatus == {"none", "proposed", "approved", "rejected", "executed"}
NoRow == [status |-> "none", decidedBy |-> None]

ProposerState == {"unused", "stored", "answered", "failed", "agent"}
Running == {"read", "validated", "recorded", "published", "approved", "marked", "deleted"}
Ended == {"done", "notfound", "failed"}
Step == {"idle"} \cup Running \cup Ended

TypeOK ==
    /\ registry \in SUBSET Content
    /\ pending \in SUBSET Proposal
    /\ content \in [Proposal -> Content \cup {None}]
    /\ proposer \in [Proposal -> ProposerState]
    /\ auditRow \in [Proposal -> [status : AuditStatus, decidedBy : Request \cup {None}]]
    /\ executions \in SUBSET Request
    /\ events \in SUBSET Request
    /\ kind \in [Request -> {"none", "approve", "reject", "execute"}]
    /\ pc \in [Request -> Step]
    /\ target \in [Request -> Proposal \cup {None}]
    /\ body \in [Request -> Content \cup {None}]
    /\ contended \in SUBSET Proposal

Init ==
    /\ registry \in SUBSET Content
    /\ pending = {}
    /\ content = [p \in Proposal |-> None]
    /\ proposer = [p \in Proposal |-> "unused"]
    /\ auditRow = [p \in Proposal |-> NoRow]
    /\ executions = {}
    /\ events = {}
    /\ kind = [r \in Request |-> "none"]
    /\ pc = [r \in Request |-> "idle"]
    /\ target = [r \in Request |-> None]
    /\ body = [r \in Request |-> None]
    /\ contended = {}

-----------------------------------------------------------------------------
(* Proposing.                                                              *)

\* validateActionPayload finds no error: the action type is known and the
\* payload has what it requires.
ValidAction(c) == c \in registry

\* ActionProposer.propose: one SET with an expiry under a fresh id.
Propose(p, c) ==
    /\ proposer[p] = "unused"
    /\ pending' = pending \cup {p}
    /\ content' = [content EXCEPT ![p] = c]

\* POST /actions/propose up to the SET: an invalid content is answered 400.
ApiPropose(p, c) ==
    /\ ValidAction(c)
    /\ Propose(p, c)
    /\ proposer' = [proposer EXCEPT ![p] = "stored"]
    /\ UNCHANGED <<registry, auditRow, executions, events, requestVars, contended>>

\* The same request goes on: it inserts the audit row and answers 202.
RecordProposal(p) ==
    /\ proposer[p] = "stored"
    /\ auditRow' = [auditRow EXCEPT ![p] = [status |-> "proposed", decidedBy |-> None]]
    /\ proposer' = [proposer EXCEPT ![p] = "answered"]
    /\ UNCHANGED <<registry, pending, content, executions, events, requestVars, contended>>

\* The propose request dies between its SET and its INSERT.
AbortPropose(p) ==
    /\ proposer[p] = "stored"
    /\ proposer' = [proposer EXCEPT ![p] = "failed"]
    /\ UNCHANGED <<registry, pending, content, auditRow, executions, events,
                   requestVars, contended>>

IsActionAllowed(c) == c \in Allowlist

\* The agent's propose_action tool checks the allowlist, if there is one, and
\* its own process's schema, and stores the proposal; it writes no audit row.
AgentPropose(p, c) ==
    /\ Allowlist # {} => IsActionAllowed(c)
    /\ c \in AgentRegistry
    /\ Propose(p, c)
    /\ proposer' = [proposer EXCEPT ![p] = "agent"]
    /\ UNCHANGED <<registry, auditRow, executions, events, requestVars, contended>>

\* Redis drops a proposal when its TTL runs out.
Expire(p) ==
    /\ p \in pending
    /\ pending' = pending \ {p}
    /\ UNCHANGED <<registry, content, proposer, auditRow, executions, events,
                   requestVars, contended>>

-----------------------------------------------------------------------------
(* Deciding.                                                               *)

Goto(r, s) == pc' = [pc EXCEPT ![r] = s]

\* r found proposal p, and may still act on it or has acted on it.
Engaged(r, p) ==
    /\ target[r] = p
    /\ pc[r] \in Running \cup {"done"} \/ (pc[r] = "failed" /\ r \in executions)

\* r or the proposing request is in the middle of its work on p, or died
\* after it had executed p.
Unsettled(p) ==
    \/ proposer[p] = "stored"
    \/ \E r \in Request : Engaged(r, p) /\ pc[r] # "done"

\* Mutant: the route goes on without a proposal.
LookupNo404(r, k, p) ==
    /\ pc[r] = "idle"
    /\ kind' = [kind EXCEPT ![r] = k]
    /\ target' = [target EXCEPT ![r] = p]
    /\ Goto(r, "read")
    /\ body' = [body EXCEPT ![r] = content[p]]
    /\ UNCHANGED <<registry, pending, content, proposer, auditRow, executions, events,
                   contended>>

\* getProposal of the approve and the reject route: the GET, and the 404 when
\* there is no such key.
Lookup(r, k, p) ==
    /\ pc[r] = "idle"
    /\ kind' = [kind EXCEPT ![r] = k]
    /\ target' = [target EXCEPT ![r] = p]
    /\ \/ /\ p \in pending
          /\ Goto(r, "read")
          /\ body' = [body EXCEPT ![r] = content[p]]
          /\ contended' = IF Unsettled(p) THEN contended \cup {p} ELSE contended
       \/ /\ p \notin pending
          /\ Goto(r, "notfound")
          /\ UNCHANGED <<body, contended>>
    /\ UNCHANGED <<registry, pending, content, proposer, auditRow, executions, events>>

\* Mutant: an approval that fails validation drops the proposal.
ValidateDrops(r) ==
    /\ kind[r] = "approve" /\ pc[r] = "read"
    /\ Goto(r, IF ValidAction(body[r]) THEN "validated" ELSE "failed")
    /\ pending' = IF ValidAction(body[r]) THEN pending ELSE pending \ {target[r]}
    /\ UNCHANGED <<registry, content, proposer, auditRow, executions, events,
                   kind, target, body, contended>>

\* Mutant: an approval waits until the schema accepts its content.
ValidateWaits(r) ==
    /\ kind[r] = "approve" /\ pc[r] = "read"
    /\ ValidAction(body[r])
    /\ Goto(r, "validated")
    /\ UNCHANGED <<registry, pending, content, proposer, auditRow, executions, events,
                   kind, target, body, contended>>

\* executeAction of an approval: validate against the schema in memory when
\* the GET's answer is handled, then look the target object up.
Validate(r) ==
    /\ kind[r] = "approve" /\ pc[r] = "read"
    /\ Goto(r, IF ValidAction(body[r]) THEN "validated" ELSE "failed")
    /\ UNCHANGED <<registry, pending, content, proposer, auditRow, executions, events,
                   kind, target, body, contended>>

\* POST /actions/internal/execute: executeAction with no proposal before it.
ExecuteDirectly(r, c) ==
    /\ pc[r] = "idle"
    /\ kind' = [kind EXCEPT ![r] = "execute"]
    /\ body' = [body EXCEPT ![r] = c]
    /\ Goto(r, IF ValidAction(c) THEN "validated" ELSE "failed")
    /\ UNCHANGED <<registry, pending, content, proposer, auditRow, executions, events,
                   target, contended>>

\* audit.record: INSERT of an 'executed' row with an id of its own.
Record(r) ==
    /\ pc[r] = "validated"
    /\ executions' = executions \cup {r}
    /\ Goto(r, "recorded")
    /\ UNCHANGED <<registry, pending, content, proposer, auditRow, events,
                   kind, target, body, contended>>

\* Mutant: the event goes out before the record is written.
PublishFirst(r) ==
    /\ pc[r] \in {"validated", "recorded"}
    /\ events' = events \cup {r}
    /\ Goto(r, IF kind[r] = "execute" THEN "done" ELSE "published")
    /\ UNCHANGED <<registry, pending, content, proposer, auditRow, executions,
                   kind, target, body, contended>>

\* events.publish; it ends executeAction, and with it the internal route.
Publish(r) ==
    /\ pc[r] = "recorded"
    /\ events' = events \cup {r}
    /\ Goto(r, IF kind[r] = "execute" THEN "done" ELSE "published")
    /\ UNCHANGED <<registry, pending, content, proposer, auditRow, executions,
                   kind, target, body, contended>>

\* Mutant: the approval is written before executeAction.
RecordDecisionFirst(r) ==
    LET p == target[r]
        decision == IF kind[r] = "approve" THEN "approved" ELSE "rejected"
    IN  /\ pc[r] \in {"read", "published", "deleted"}
        /\ auditRow' = IF auditRow[p].status = "none" THEN auditRow
                       ELSE [auditRow EXCEPT ![p] = [status |-> decision, decidedBy |-> r]]
        /\ Goto(r, IF pc[r] = "read" THEN "read"
                   ELSE IF kind[r] = "approve" THEN "approved" ELSE "done")
        /\ UNCHANGED <<registry, pending, content, proposer, executions, events,
                       kind, target, body, contended>>

\* recordDecision: an UPDATE by id, which matches no row when none is there.
\* An approval decides after it executed, a rejection after it deleted.
RecordDecision(r) ==
    LET p == target[r]
        decision == IF kind[r] = "approve" THEN "approved" ELSE "rejected"
    IN  /\ pc[r] \in {"published", "deleted"}
        /\ auditRow' = IF auditRow[p].status = "none" THEN auditRow
                       ELSE [auditRow EXCEPT ![p] = [status |-> decision, decidedBy |-> r]]
        /\ Goto(r, IF kind[r] = "approve" THEN "approved" ELSE "done")
        /\ UNCHANGED <<registry, pending, content, proposer, executions, events,
                       kind, target, body, contended>>

\* Mutant: a status the table's CHECK does not know.
RecordExecutionDone(r) ==
    /\ pc[r] = "approved"
    /\ auditRow' = IF auditRow[target[r]].status = "none" THEN auditRow
                   ELSE [auditRow EXCEPT ![target[r]].status = "done"]
    /\ Goto(r, "marked")
    /\ UNCHANGED <<registry, pending, content, proposer, executions, events,
                   kind, target, body, contended>>

\* Mutant: recordExecution is forgotten.
RecordExecutionSkipped(r) ==
    /\ pc[r] = "approved"
    /\ Goto(r, "marked")
    /\ UNCHANGED <<registry, pending, content, proposer, auditRow, executions, events,
                   kind, target, body, contended>>

\* recordExecution: the same row becomes 'executed', whatever it said.
RecordExecution(r) ==
    LET p == target[r]
    IN  /\ pc[r] = "approved"
        /\ auditRow' = IF auditRow[p].status = "none" THEN auditRow
                       ELSE [auditRow EXCEPT ![p].status = "executed"]
        /\ Goto(r, "marked")
        /\ UNCHANGED <<registry, pending, content, proposer, executions, events,
                       kind, target, body, contended>>

\* Mutant: the DEL goes to another key, as without the tenant's prefix.
DeleteProposalMisses(r) ==
    /\ \/ kind[r] = "approve" /\ pc[r] = "marked" /\ Goto(r, "done")
       \/ kind[r] = "reject" /\ pc[r] = "read" /\ Goto(r, "deleted")
    /\ UNCHANGED <<registry, pending, content, proposer, auditRow, executions, events,
                   kind, target, body, contended>>

\* Mutant: the approve route leaves the proposal to its TTL.
DeleteProposalRejectOnly(r) ==
    /\ \/ kind[r] = "approve" /\ pc[r] = "marked" /\ Goto(r, "done") /\ UNCHANGED pending
       \/ /\ kind[r] = "reject" /\ pc[r] = "read" /\ Goto(r, "deleted")
          /\ pending' = pending \ {target[r]}
    /\ UNCHANGED <<registry, content, proposer, auditRow, executions, events,
                   kind, target, body, contended>>

\* deleteProposal: last in the approve route, first in the reject route.
DeleteProposal(r) ==
    /\ \/ kind[r] = "approve" /\ pc[r] = "marked" /\ Goto(r, "done")
       \/ kind[r] = "reject" /\ pc[r] = "read" /\ Goto(r, "deleted")
    /\ pending' = pending \ {target[r]}
    /\ UNCHANGED <<registry, content, proposer, auditRow, executions, events,
                   kind, target, body, contended>>

\* A store call of r throws, or the process dies, before r's next step.
Abort(r) ==
    /\ pc[r] \in Running
    /\ Goto(r, "failed")
    /\ UNCHANGED <<registry, pending, content, proposer, auditRow, executions, events,
                   kind, target, body, contended>>

\* A schema upload replaces the API's registry while requests are under way.
Reload ==
    /\ registry' \in SUBSET Content
    /\ UNCHANGED <<pending, content, proposer, auditRow, executions, events,
                   requestVars, contended>>

-----------------------------------------------------------------------------
\* executeAction, for an approval or the internal route.
ExecuteAction(r) == Validate(r) \/ Record(r) \/ Publish(r)

\* The approve route: execute, decide, mark, delete.
Approve(r) ==
    /\ kind[r] = "approve"
    /\ ExecuteAction(r) \/ RecordDecision(r) \/ RecordExecution(r) \/ DeleteProposal(r)

\* The reject route: delete, decide.
Reject(r) == kind[r] = "reject" /\ (DeleteProposal(r) \/ RecordDecision(r))

\* The internal execute route: nothing but executeAction.
Execute(r) == kind[r] = "execute" /\ ExecuteAction(r)

Continue(r) == Approve(r) \/ Reject(r) \/ Execute(r)

Next ==
    \/ Reload
    \/ \E p \in Proposal :
          \/ \E c \in Content : ApiPropose(p, c) \/ AgentPropose(p, c)
          \/ RecordProposal(p) \/ AbortPropose(p) \/ Expire(p)
    \/ \E r \in Request :
          \/ \E p \in Proposal, k \in {"approve", "reject"} : Lookup(r, k, p)
          \/ \E c \in Content : ExecuteDirectly(r, c)
          \/ Continue(r) \/ Abort(r)

Spec == Init /\ [][Next]_vars

\* Every awaited call settles, so a handler that has begun goes on.
Fairness == \A r \in Request : WF_vars(Continue(r))
FairSpec == Spec /\ Fairness

-----------------------------------------------------------------------------
(* Properties.                                                             *)

\* A proposal an operator has settled, one way or the other, is gone: nobody
\* finds it any more.  (The approve route deletes last and the reject route
\* first; both must have deleted when they answer.)
SettledNotPending ==
    \A r \in Request :
        pc[r] = "done" /\ kind[r] # "execute" => target[r] \notin pending

\* A proposal on which no two requests overlapped is executed at most once,
\* however often approvals of it are sent, retried or cut off, and never once
\* its rejection has been answered.
ExecutedOnceUnlessContended ==
    \A p \in Proposal \ contended : \A s \in executions : target[s] = p =>
        /\ \A r \in executions : target[r] = p => r = s
        /\ \A r \in Request :
              kind[r] = "reject" /\ pc[r] = "done" => target[r] # p

\* The proposal's own audit row says 'approved' or 'executed' only when an
\* approval of that proposal has really executed it and has its own row.
AuditedExecution ==
    \A p \in Proposal : auditRow[p].status \in {"approved", "executed"} =>
        \E r \in executions : kind[r] = "approve" /\ target[r] = p

\* Nothing is published that was not recorded first, and a caller that is
\* told of an execution can rely on both.
PublishedAfterRecorded ==
    /\ events \subseteq executions
    /\ \A r \in Request : pc[r] = "done" /\ kind[r] # "reject" => r \in events

\* When the only request that acted on an API proposal has been answered, the
\* proposal's audit row holds that decision and names the one who took it.
SoleDecisionRecorded ==
    \A r \in Request : \A p \in Proposal \ contended :
        /\ pc[r] = "done" /\ kind[r] # "execute"
        /\ target[r] = p /\ proposer[p] = "answered"
        => auditRow[p] = [status |-> IF kind[r] = "approve" THEN "executed" ELSE "rejected",
                          decidedBy |-> r]

\* A proposal disappears because its TTL ran out, because a rejection removes
\* it, or because an approval has executed it and told the world; an approval
\* that fails half-way never takes an unexecuted proposal with it.
LeavesByDecision ==
    [][\A p \in pending \ pending' :
          \/ Expire(p)
          \/ \E r \in Request : /\ target[r] = p /\ pc'[r] # pc[r]
                                /\ \/ kind[r] = "reject"
                                   \/ kind[r] = "approve" /\ r \in executions \cap events]_vars

\* A request that has begun comes to an end: it is answered or it fails.
RequestsEnd ==
    \A r \in Request : pc[r] \in Running ~> pc[r] \in Ended

\* documentation/02-ontology-language/action-types.md: "human approves; runtime
\* calls executeAction once".
ExecutedOnce ==
    \A r, s \in executions :
        kind[r] = "approve" /\ kind[s] = "approve" /\ target[r] = target[s] => r = s

\* action.audit.ts: recordProposal is "called when agent proposes an action",
\* recordDecision "when operator approves or rejects": so the decision on an
\* agent's proposal stands in that proposal's audit row.
AgentDecisionsAudited ==
    \A r \in Request : \A p \in Proposal \ contended :
        /\ pc[r] = "done" /\ kind[r] # "execute"
        /\ target[r] = p /\ proposer[p] = "agent"
        => auditRow[p].decidedBy = r

-----------------------------------------------------------------------------
(* The gate the stores and the steps above implement.  An approval holds a *)
(* proposal from its lookup on; a proposal is open while its key exists.   *)

GateState ==
    [p \in Proposal |-> IF p \in pending THEN "open"
                        ELSE IF proposer[p] = "unused" THEN "fresh" ELSE "closed"]
GateHolder ==
    [r \in Request |-> IF kind[r] = "approve" /\ pc[r] # "notfound" THEN target[r] ELSE None]
GateExecuted == {r \in executions : kind[r] = "approve"}

Gate == INSTANCE ApprovalGate WITH
            Approval <- Request,
            state <- GateState, holder <- GateHolder, executed <- GateExecuted

\* Approvals are granted only on open proposals, each executes at most once,
\* and a proposal that was decided or ran out never opens again.
ImplementsGate == Gate!Spec

-----------------------------------------------------------------------------
(* The inductive invariant behind the safety properties.                   *)

\* Which routes take which steps, and what they carry.
StepsOfKind ==
    \A r \in Request :
        /\ pc[r] = "idle" <=> kind[r] = "none"
        /\ pc[r] \in {"read", "notfound"} => kind[r] \in {"approve", "reject"}
        /\ pc[r] \in {"validated", "recorded"} => kind[r] \in {"approve", "execute"}
        /\ pc[r] \in {"published", "approved", "marked"} => kind[r] = "approve"
        /\ pc[r] = "deleted" => kind[r] = "reject"
        /\ IF kind[r] \in {"approve", "reject"} THEN target[r] \in Proposal
                                               ELSE target[r] = None

\* An execution row and an event exist from their own step on.
ExecutionsOfStep ==
    \A r \in Request :
        /\ r \in executions => /\ kind[r] \in {"approve", "execute"}
                              /\ pc[r] \notin {"idle", "read", "validated", "notfound"}
        /\ pc[r] \in {"recorded", "published", "approved", "marked"} => r \in executions
        /\ pc[r] \in {"published", "approved", "marked"} => r \in events
        /\ pc[r] = "done" /\ kind[r] # "reject" => r \in executions \cap events
        /\ r \in events => r \in executions

\* An id nobody proposed yet is nowhere; a request that found a proposal has
\* an id that was proposed.
UnusedIsFresh ==
    \A p \in Proposal : proposer[p] = "unused" =>
        /\ p \notin pending
        /\ \A r \in Request : target[r] = p => pc[r] = "notfound"

\* A request that is past its DEL leaves no key behind.
DeletedIsGone ==
    \A r \in Request :
        pc[r] = "deleted" \/ (pc[r] = "done" /\ kind[r] # "execute")
            => target[r] \notin pending

\* The proposal's row exists exactly when its proposer was answered.
RowIfAnswered ==
    \A p \in Proposal : auditRow[p].status # "none" <=> proposer[p] = "answered"

\* A proposal that is not contended belongs to one request at a time.
Exclusive ==
    \A p \in Proposal \ contended :
        /\ \A r, s \in Request : Engaged(r, p) /\ Engaged(s, p) => r = s
        /\ \A r \in Request : Engaged(r, p) => proposer[p] # "stored"

\* What that request has written of its decision is what the row says.
WrittenBy(r, row) ==
    /\ pc[r] = "approved" => row = [status |-> "approved", decidedBy |-> r]
    /\ pc[r] = "marked" \/ (pc[r] = "done" /\ kind[r] = "approve") =>
           row = [status |-> "executed", decidedBy |-> r]
    /\ pc[r] = "done" /\ kind[r] = "reject" =>
           row = [status |-> "rejected", decidedBy |-> r]

RowOfDecision ==
    \A r \in Request : \A p \in Proposal \ contended :
        target[r] = p /\ proposer[p] = "answered" => WrittenBy(r, auditRow[p])

IInv ==
    /\ TypeOK
    /\ StepsOfKind
    /\ ExecutionsOfStep
    /\ UnusedIsFresh
    /\ DeletedIsGone
    /\ RowIfAnswered
    /\ Exclusive
    /\ RowOfDecision
    /\ AuditedExecution

=============================================================================
