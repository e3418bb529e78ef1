----------------------- MODULE ActionLifecycleProofs -----------------------
(***************************************************************************)
(* Proofs about ActionLifecycle, for every set of proposals, requests and  *)
(* contents, any allowlist and any schema of the agent process.            *)
(***************************************************************************)
EXTENDS ActionLifecycle, TLAPS

USE DEF AuditStatus, ProposerState, Running, Ended, Step, Goto

\* Every step keeps the types.
LEMMA TypeStep == TypeOK /\ [Next]_vars => TypeOK'
<1> SUFFICES ASSUME TypeOK, [Next]_vars PROVE TypeOK'
  OBVIOUS
<1> USE DEF TypeOK
<1>1. CASE Reload
  BY <1>1 DEF Reload, requestVars
<1>2. ASSUME NEW p \in Proposal, NEW c \in Content, ApiPropose(p, c) \/ AgentPropose(p, c)
      PROVE  TypeOK'
  BY <1>2 DEF ApiPropose, AgentPropose, Propose, requestVars
<1>3. ASSUME NEW p \in Proposal, RecordProposal(p)
      PROVE  TypeOK'
  <2>1. auditRow' \in [Proposal -> [status : AuditStatus, decidedBy : Request \cup {None}]]
    BY <1>3 DEF RecordProposal
  <2>2. QED
    BY <1>3, <2>1 DEF RecordProposal, requestVars
<1>10. ASSUME NEW p \in Proposal, AbortPropose(p) \/ Expire(p)
      PROVE  TypeOK'
  BY <1>10 DEF AbortPropose, Expire, requestVars
<1>4. ASSUME NEW r \in Request, NEW p \in Proposal, NEW k \in {"approve", "reject"},
             Lookup(r, k, p)
      PROVE  TypeOK'
  <2>1. /\ pc' \in [Request -> Step] /\ body' \in [Request -> Content \cup {None}]
        /\ contended' \subseteq Proposal
    BY <1>4, SMTT(30) DEF Lookup
  <2>2. /\ kind' \in [Request -> {"none", "approve", "reject", "execute"}]
        /\ target' \in [Request -> Proposal \cup {None}]
    BY <1>4 DEF Lookup
  <2> QED
    BY <1>4, <2>1, <2>2 DEF Lookup
<1>5. ASSUME NEW r \in Request, NEW c \in Content, ExecuteDirectly(r, c)
      PROVE  TypeOK'
  BY <1>5 DEF ExecuteDirectly
<1>6. ASSUME NEW r \in Request, Validate(r) \/ Record(r) \/ Publish(r) \/ DeleteProposal(r) \/ Abort(r)
      PROVE  TypeOK'
  BY <1>6 DEF Validate, Record, Publish, DeleteProposal, Abort
<1>7. ASSUME NEW r \in Request, RecordDecision(r)
      PROVE  TypeOK'
  BY <1>7 DEF RecordDecision
<1>8. ASSUME NEW r \in Request, RecordExecution(r)
      PROVE  TypeOK'
  BY <1>8, ZenonT(30) DEF RecordExecution
<1>9. CASE UNCHANGED vars
  BY <1>9 DEF vars, requestVars
<1> QED
  BY <1>1, <1>2, <1>3, <1>4, <1>5, <1>6, <1>7, <1>8, <1>9, <1>10 DEF Next, Continue, Approve, Reject, Execute, ExecuteAction

\* The invariant does not read the registry or the contents.
LEMMA IInvFrame ==
    ASSUME IInv, TypeOK',
           UNCHANGED <<pending, proposer, auditRow, executions, events,
                       kind, pc, target, contended>>
    PROVE  IInv'
BY DEF IInv, StepsOfKind, ExecutionsOfStep, UnusedIsFresh, DeletedIsGone, RowIfAnswered,
       Exclusive, Engaged, RowOfDecision, WrittenBy, AuditedExecution

\* A new proposal: its id is in no request and in no row yet.
LEMMA IInvPropose ==
    ASSUME IInv, TypeOK', NEW p \in Proposal, NEW c \in Content,
           ApiPropose(p, c) \/ AgentPropose(p, c)
    PROVE  IInv'
<1> USE DEF IInv, TypeOK
<1>1. /\ proposer[p] = "unused"
      /\ proposer' \in {[proposer EXCEPT ![p] = "stored"], [proposer EXCEPT ![p] = "agent"]}
      /\ pending' = pending \cup {p}
      /\ UNCHANGED <<auditRow, executions, events, kind, pc, target, contended>>
  BY DEF ApiPropose, AgentPropose, Propose, requestVars
<1>2. \A r \in Request : target[r] = p => pc[r] = "notfound"
  BY <1>1 DEF UnusedIsFresh
<1>3. StepsOfKind' /\ ExecutionsOfStep' /\ AuditedExecution'
  BY <1>1 DEF StepsOfKind, ExecutionsOfStep, AuditedExecution
<1>4. UnusedIsFresh'
  BY <1>1 DEF UnusedIsFresh
<1>5. DeletedIsGone'
  BY <1>1, <1>2 DEF DeletedIsGone
<1>6. RowIfAnswered'
  BY <1>1 DEF RowIfAnswered
<1>7. Exclusive'
  BY <1>1, <1>2 DEF Exclusive, Engaged, ExecutionsOfStep
<1>8. RowOfDecision'
  BY <1>1 DEF RowOfDecision, WrittenBy
<1> QED
  BY <1>3, <1>4, <1>5, <1>6, <1>7, <1>8

\* The row of a proposal appears while no request that matters is under way.
LEMMA IInvRecordProposal ==
    ASSUME IInv, TypeOK', NEW p \in Proposal, RecordProposal(p)
    PROVE  IInv'
<1> USE DEF IInv, TypeOK
<1>1. /\ proposer[p] = "stored"
      /\ auditRow' = [auditRow EXCEPT ![p] = [status |-> "proposed", decidedBy |-> None]]
      /\ proposer' = [proposer EXCEPT ![p] = "answered"]
      /\ UNCHANGED <<pending, executions, events, kind, pc, target, contended>>
  BY DEF RecordProposal, requestVars
<1>2. StepsOfKind' /\ ExecutionsOfStep' /\ UnusedIsFresh' /\ DeletedIsGone'
  BY <1>1 DEF StepsOfKind, ExecutionsOfStep, UnusedIsFresh, DeletedIsGone
<1>3. RowIfAnswered' /\ AuditedExecution'
  BY <1>1 DEF RowIfAnswered, AuditedExecution
<1>4. Exclusive'
  BY <1>1 DEF Exclusive, Engaged
<1>5. RowOfDecision'
  BY <1>1 DEF RowOfDecision, WrittenBy, Exclusive, Engaged
<1> QED
  BY <1>2, <1>3, <1>4, <1>5

\* A propose request that dies leaves its key behind and writes no row.
LEMMA IInvAbortPropose ==
    ASSUME IInv, TypeOK', NEW p \in Proposal, AbortPropose(p)
    PROVE  IInv'
<1> USE DEF IInv, TypeOK
<1>1. /\ proposer[p] = "stored"
      /\ proposer' = [proposer EXCEPT ![p] = "failed"]
      /\ UNCHANGED <<pending, auditRow, executions, events, kind, pc, target, contended>>
  BY DEF AbortPropose, requestVars
<1>2. StepsOfKind' /\ ExecutionsOfStep' /\ UnusedIsFresh' /\ DeletedIsGone' /\ RowIfAnswered'
  BY <1>1 DEF StepsOfKind, ExecutionsOfStep, UnusedIsFresh, DeletedIsGone, RowIfAnswered
<1>3. Exclusive' /\ RowOfDecision' /\ AuditedExecution'
  BY <1>1 DEF Exclusive, Engaged, RowOfDecision, WrittenBy, AuditedExecution
<1> QED
  BY <1>2, <1>3

\* A key that expires leaves its proposal's requests and row as they were.
LEMMA IInvExpire ==
    ASSUME IInv, TypeOK', NEW p \in Proposal, Expire(p)
    PROVE  IInv'
<1> USE DEF IInv, TypeOK
<1>1. /\ pending' = pending \ {p}
      /\ UNCHANGED <<proposer, auditRow, executions, events, kind, pc, target, contended>>
  BY DEF Expire, requestVars
<1>2. StepsOfKind' /\ ExecutionsOfStep' /\ UnusedIsFresh' /\ DeletedIsGone' /\ RowIfAnswered'
  BY <1>1 DEF StepsOfKind, ExecutionsOfStep, UnusedIsFresh, DeletedIsGone, RowIfAnswered
<1>3. Exclusive' /\ RowOfDecision' /\ AuditedExecution'
  BY <1>1 DEF Exclusive, Engaged, RowOfDecision, WrittenBy, AuditedExecution
<1> QED
  BY <1>2, <1>3

\* The only step by which a request comes to hold a proposal: if nobody else
\* is at work on it, nobody has settled it either, for then it would be gone.
LEMMA IInvLookup ==
    ASSUME IInv, TypeOK', NEW r \in Request, NEW p \in Proposal,
           NEW k \in {"approve", "reject"}, Lookup(r, k, p)
    PROVE  IInv'
<1> USE DEF IInv, TypeOK
<1>1. /\ pc[r] = "idle" /\ kind[r] = "none" /\ target[r] = None
      /\ r \notin executions /\ r \notin events
      /\ kind' = [kind EXCEPT ![r] = k]
      /\ target' = [target EXCEPT ![r] = p]
      /\ UNCHANGED <<pending, proposer, auditRow, executions, events>>
  BY DEF Lookup, StepsOfKind, ExecutionsOfStep
<1>2. CASE /\ p \in pending
           /\ pc' = [pc EXCEPT ![r] = "read"]
           /\ contended' = IF Unsettled(p) THEN contended \cup {p} ELSE contended
  <2>1. StepsOfKind' /\ ExecutionsOfStep' /\ RowIfAnswered'
    BY <1>1, <1>2 DEF StepsOfKind, ExecutionsOfStep, RowIfAnswered
  <2>2. UnusedIsFresh' /\ DeletedIsGone'
    BY <1>1, <1>2 DEF UnusedIsFresh, DeletedIsGone
  <2>3. ~Unsettled(p) => \A s \in Request : ~Engaged(s, p)
    BY <1>2, NoneAssumption, SMTT(30) DEF Unsettled, Engaged, DeletedIsGone, StepsOfKind
  <2>4. \A s \in Request, q \in Proposal :
            Engaged(s, q)' => (s = r /\ q = p) \/ (s # r /\ Engaged(s, q))
    BY <1>1, <1>2 DEF Engaged
  <2>5. ASSUME NEW q \in Proposal \ contended',
               NEW s \in Request, Engaged(s, q)'
        PROVE  proposer'[q] # "stored" /\ \A t \in Request : Engaged(t, q)' => s = t
    <3>1. q \notin contended /\ (q = p => ~Unsettled(p))
      BY <1>2, <2>5
    <3>2. CASE q = p
      BY <1>1, <2>3, <2>4, <2>5, <3>1, <3>2 DEF Unsettled
    <3>3. CASE q # p
      BY <1>1, <2>4, <2>5, <3>1, <3>3 DEF Exclusive
    <3> QED
      BY <3>2, <3>3
  <2>6. Exclusive'
    BY <2>5 DEF Exclusive
  <2>7. RowOfDecision' /\ AuditedExecution'
    BY <1>1, <1>2 DEF RowOfDecision, WrittenBy, AuditedExecution
  <2> QED
    BY <2>1, <2>2, <2>6, <2>7
<1>3. CASE /\ p \notin pending
           /\ pc' = [pc EXCEPT ![r] = "notfound"]
           /\ contended' = contended
  <2>1. StepsOfKind' /\ ExecutionsOfStep' /\ RowIfAnswered'
    BY <1>1, <1>3 DEF StepsOfKind, ExecutionsOfStep, RowIfAnswered
  <2>2. UnusedIsFresh' /\ DeletedIsGone'
    BY <1>1, <1>3 DEF UnusedIsFresh, DeletedIsGone
  <2>3. Exclusive'
    BY <1>1, <1>3 DEF Exclusive, Engaged
  <2>4. RowOfDecision' /\ AuditedExecution'
    BY <1>1, <1>3 DEF RowOfDecision, WrittenBy, AuditedExecution
  <2> QED
    BY <2>1, <2>2, <2>3, <2>4
<1> QED
  BY <1>2, <1>3 DEF Lookup

\* Steps that change nothing but how far a request is, and end it or leave it
\* engaged as it was.
LEMMA IInvValidate ==
    ASSUME IInv, TypeOK', NEW r \in Request, Validate(r) \/ Abort(r)
    PROVE  IInv'
<1> USE DEF IInv, TypeOK
<1>1. /\ pc[r] \in Running
      /\ pc' \in {[pc EXCEPT ![r] = "validated"], [pc EXCEPT ![r] = "failed"]}
      /\ pc'[r] = "validated" => kind[r] = "approve" /\ pc[r] = "read"
      /\ UNCHANGED <<pending, proposer, auditRow, executions, events, kind, target, contended>>
  BY DEF Validate, Abort
<1>2. StepsOfKind' /\ ExecutionsOfStep' /\ RowIfAnswered'
  BY <1>1 DEF StepsOfKind, ExecutionsOfStep, RowIfAnswered
<1>3. UnusedIsFresh' /\ DeletedIsGone'
  BY <1>1 DEF UnusedIsFresh, DeletedIsGone
<1>4. Exclusive'
  BY <1>1 DEF Exclusive, Engaged
<1>5. RowOfDecision' /\ AuditedExecution'
  BY <1>1 DEF RowOfDecision, WrittenBy, AuditedExecution
<1> QED
  BY <1>2, <1>3, <1>4, <1>5

\* A direct execution holds no proposal.
LEMMA IInvExecuteDirectly ==
    ASSUME IInv, TypeOK', NEW r \in Request, NEW c \in Content, ExecuteDirectly(r, c)
    PROVE  IInv'
<1> USE DEF IInv, TypeOK
<1>1. /\ pc[r] = "idle" /\ kind[r] = "none" /\ target[r] = None
      /\ r \notin executions /\ r \notin events
      /\ kind' = [kind EXCEPT ![r] = "execute"]
      /\ pc' \in {[pc EXCEPT ![r] = "validated"], [pc EXCEPT ![r] = "failed"]}
      /\ UNCHANGED <<pending, proposer, auditRow, executions, events, target, contended>>
  BY DEF ExecuteDirectly, StepsOfKind, ExecutionsOfStep
<1>2. StepsOfKind' /\ ExecutionsOfStep' /\ RowIfAnswered'
  BY <1>1 DEF StepsOfKind, ExecutionsOfStep, RowIfAnswered
<1>3. UnusedIsFresh' /\ DeletedIsGone'
  BY <1>1, NoneAssumption DEF UnusedIsFresh, DeletedIsGone
<1>4. Exclusive'
  <2>1. \A s \in Request, q \in Proposal : Engaged(s, q)' => Engaged(s, q)
    BY <1>1, NoneAssumption DEF Engaged
  <2> QED
    BY <1>1, <2>1 DEF Exclusive
<1>5. RowOfDecision' /\ AuditedExecution'
  BY <1>1, NoneAssumption DEF RowOfDecision, WrittenBy, AuditedExecution
<1> QED
  BY <1>2, <1>3, <1>4, <1>5

\* The row of an execution is the first trace it leaves.
LEMMA IInvRecord ==
    ASSUME IInv, TypeOK', NEW r \in Request, Record(r)
    PROVE  IInv'
<1> USE DEF IInv, TypeOK
<1>1. /\ pc[r] = "validated"
      /\ pc' = [pc EXCEPT ![r] = "recorded"]
      /\ executions' = executions \cup {r}
      /\ UNCHANGED <<pending, proposer, auditRow, events, kind, target, contended>>
  BY DEF Record
<1>2. StepsOfKind' /\ ExecutionsOfStep' /\ RowIfAnswered'
  BY <1>1 DEF StepsOfKind, ExecutionsOfStep, RowIfAnswered
<1>3. UnusedIsFresh' /\ DeletedIsGone'
  BY <1>1 DEF UnusedIsFresh, DeletedIsGone
<1>4. Exclusive'
  BY <1>1 DEF Exclusive, Engaged
<1>5. RowOfDecision' /\ AuditedExecution'
  BY <1>1 DEF RowOfDecision, WrittenBy, AuditedExecution
<1> QED
  BY <1>2, <1>3, <1>4, <1>5

\* The event follows the row.
LEMMA IInvPublish ==
    ASSUME IInv, TypeOK', NEW r \in Request, Publish(r)
    PROVE  IInv'
<1> USE DEF IInv, TypeOK
<1>1. /\ pc[r] = "recorded"
      /\ pc' = [pc EXCEPT ![r] = IF kind[r] = "execute" THEN "done" ELSE "published"]
      /\ events' = events \cup {r}
      /\ kind[r] \in {"approve", "execute"}
      /\ UNCHANGED <<pending, proposer, auditRow, executions, kind, target, contended>>
  BY DEF Publish, StepsOfKind
<1>2. StepsOfKind' /\ ExecutionsOfStep' /\ RowIfAnswered'
  BY <1>1 DEF StepsOfKind, ExecutionsOfStep, RowIfAnswered
<1>3. UnusedIsFresh' /\ DeletedIsGone'
  BY <1>1 DEF UnusedIsFresh, DeletedIsGone
<1>4. Exclusive'
  BY <1>1 DEF Exclusive, Engaged
<1>5. RowOfDecision' /\ AuditedExecution'
  BY <1>1 DEF RowOfDecision, WrittenBy, AuditedExecution
<1> QED
  BY <1>2, <1>3, <1>4, <1>5

\* The decision reaches the row; the row is the request's own if the proposal
\* is not contended.
LEMMA IInvRecordDecision ==
    ASSUME IInv, TypeOK', NEW r \in Request, RecordDecision(r)
    PROVE  IInv'
<1> USE DEF IInv, TypeOK
<1> DEFINE p == target[r]
           decision == IF kind[r] = "approve" THEN "approved" ELSE "rejected"
           row == [status |-> decision, decidedBy |-> r]
<1>1. /\ \/ pc[r] = "published" /\ kind[r] = "approve"
         \/ pc[r] = "deleted" /\ kind[r] = "reject"
      /\ p \in Proposal
      /\ pc' = [pc EXCEPT ![r] = IF kind[r] = "approve" THEN "approved" ELSE "done"]
      /\ UNCHANGED <<pending, proposer, executions, events, kind, target, contended>>
  BY DEF RecordDecision, StepsOfKind
<1>2. auditRow' = IF auditRow[p].status = "none" THEN auditRow
                  ELSE [auditRow EXCEPT ![p] = row]
  BY DEF RecordDecision
<1>3. \A q \in Proposal : q # p => auditRow'[q] = auditRow[q]
  BY <1>2
<1>4. auditRow'[p] = IF auditRow[p].status = "none" THEN auditRow[p] ELSE row
  BY <1>1, <1>2
<1> HIDE DEF p, decision, row
<1>5. StepsOfKind' /\ ExecutionsOfStep'
  BY <1>1 DEF StepsOfKind, ExecutionsOfStep, p
<1>6. RowIfAnswered'
  BY <1>1, <1>3, <1>4 DEF RowIfAnswered, row, decision
<1>7. UnusedIsFresh' /\ DeletedIsGone'
  BY <1>1 DEF UnusedIsFresh, DeletedIsGone
<1>8. Exclusive'
  BY <1>1 DEF Exclusive, Engaged
<1>9. RowOfDecision'
  <2> SUFFICES ASSUME NEW s \in Request, NEW q \in Proposal \ contended,
                      target[s] = q, proposer[q] = "answered"
               PROVE  WrittenBy(s, auditRow[q])'
    BY <1>1 DEF RowOfDecision, WrittenBy
  <2>1. CASE s = r
    BY <1>1, <1>4, <2>1 DEF WrittenBy, RowIfAnswered, row, decision, p
  <2>2. CASE s # r /\ q # p
    BY <1>1, <1>3, <2>2 DEF WrittenBy, RowOfDecision
  <2>3. CASE s # r /\ q = p
    <3>1. Engaged(r, q) /\ ~Engaged(s, q)
      BY <1>1, <2>3 DEF Exclusive, Engaged, p
    <3> QED
      BY <1>1, <2>3, <3>1 DEF WrittenBy, Engaged
  <2> QED
    BY <2>1, <2>2, <2>3
<1>10. AuditedExecution'
  BY <1>1, <1>3, <1>4 DEF AuditedExecution, ExecutionsOfStep, row, decision, p
<1> QED
  BY <1>5, <1>6, <1>7, <1>8, <1>9, <1>10

\* recordExecution finds the row as recordDecision left it.
LEMMA IInvRecordExecution ==
    ASSUME IInv, TypeOK', NEW r \in Request, RecordExecution(r)
    PROVE  IInv'
<1> USE DEF IInv, TypeOK
<1> DEFINE p == target[r]
           row == [auditRow[p] EXCEPT !.status = "executed"]
<1>1. /\ pc[r] = "approved" /\ kind[r] = "approve"
      /\ r \in executions /\ p \in Proposal
      /\ pc' = [pc EXCEPT ![r] = "marked"]
      /\ UNCHANGED <<pending, proposer, executions, events, kind, target, contended>>
  BY DEF RecordExecution, StepsOfKind, ExecutionsOfStep
<1>2. auditRow' = IF auditRow[p].status = "none" THEN auditRow
                  ELSE [auditRow EXCEPT ![p] = row]
  BY DEF RecordExecution
<1>3. \A q \in Proposal : q # p => auditRow'[q] = auditRow[q]
  BY <1>2
<1>4. auditRow'[p] = IF auditRow[p].status = "none" THEN auditRow[p] ELSE row
  BY <1>1, <1>2
<1>5. row = [status |-> "executed", decidedBy |-> auditRow[p].decidedBy]
  BY <1>1
<1> HIDE DEF p, row
<1>6. StepsOfKind' /\ ExecutionsOfStep'
  BY <1>1 DEF StepsOfKind, ExecutionsOfStep, p
<1>7. RowIfAnswered'
  BY <1>1, <1>3, <1>4, <1>5 DEF RowIfAnswered
<1>8. UnusedIsFresh' /\ DeletedIsGone'
  BY <1>1 DEF UnusedIsFresh, DeletedIsGone
<1>9. Exclusive'
  BY <1>1 DEF Exclusive, Engaged
<1>10. RowOfDecision'
  <2> SUFFICES ASSUME NEW s \in Request, NEW q \in Proposal \ contended,
                      target[s] = q, proposer[q] = "answered"
               PROVE  WrittenBy(s, auditRow[q])'
    BY <1>1 DEF RowOfDecision
  <2>1. CASE s = r
    <3>1. WrittenBy(r, auditRow[p]) /\ auditRow[p].status # "none" /\ q = p
      BY <2>1 DEF RowOfDecision, RowIfAnswered, p
    <3> QED
      BY <1>1, <1>4, <1>5, <2>1, <3>1 DEF WrittenBy
  <2>2. CASE s # r /\ q # p
    BY <1>1, <1>3, <2>2 DEF WrittenBy, RowOfDecision
  <2>3. CASE s # r /\ q = p
    <3>1. Engaged(r, q) /\ ~Engaged(s, q)
      BY <1>1, <2>3 DEF Exclusive, Engaged, p
    <3> QED
      BY <1>1, <2>3, <3>1 DEF WrittenBy, Engaged
  <2> QED
    BY <2>1, <2>2, <2>3
<1>11. AuditedExecution'
  BY <1>1, <1>3, <1>4, <1>5 DEF AuditedExecution, p
<1> QED
  BY <1>6, <1>7, <1>8, <1>9, <1>10, <1>11

\* The DEL of an approval ends it; that of a rejection comes before its UPDATE.
LEMMA IInvDeleteProposal ==
    ASSUME IInv, TypeOK', NEW r \in Request, DeleteProposal(r)
    PROVE  IInv'
<1> USE DEF IInv, TypeOK
<1>1. /\ \/ kind[r] = "approve" /\ pc[r] = "marked" /\ pc' = [pc EXCEPT ![r] = "done"]
         \/ kind[r] = "reject" /\ pc[r] = "read" /\ pc' = [pc EXCEPT ![r] = "deleted"]
      /\ pending' = pending \ {target[r]}
      /\ UNCHANGED <<proposer, auditRow, executions, events, kind, target, contended>>
  BY DEF DeleteProposal
<1>2. StepsOfKind' /\ ExecutionsOfStep' /\ RowIfAnswered'
  BY <1>1 DEF StepsOfKind, ExecutionsOfStep, RowIfAnswered
<1>3. UnusedIsFresh' /\ DeletedIsGone'
  BY <1>1 DEF UnusedIsFresh, DeletedIsGone
<1>4. Exclusive'
  BY <1>1 DEF Exclusive, Engaged
<1>5. RowOfDecision' /\ AuditedExecution'
  BY <1>1 DEF RowOfDecision, WrittenBy, AuditedExecution
<1> QED
  BY <1>2, <1>3, <1>4, <1>5

\* Every step keeps the invariant.
LEMMA IInvStep == IInv /\ [Next]_vars => IInv'
<1> SUFFICES ASSUME IInv, [Next]_vars PROVE IInv'
  OBVIOUS
<1>1. TypeOK'
  BY TypeStep DEF IInv
<1>2. CASE Reload \/ UNCHANGED vars
  BY <1>1, <1>2, IInvFrame DEF Reload, vars, requestVars
<1>3. ASSUME NEW p \in Proposal, NEW c \in Content, ApiPropose(p, c) \/ AgentPropose(p, c)
      PROVE  IInv'
  BY <1>1, <1>3, IInvPropose
<1>4. ASSUME NEW p \in Proposal, RecordProposal(p) \/ AbortPropose(p) \/ Expire(p)
      PROVE  IInv'
  BY <1>1, <1>4, IInvRecordProposal, IInvAbortPropose, IInvExpire
<1>5. ASSUME NEW r \in Request, NEW p \in Proposal, NEW k \in {"approve", "reject"},
             Lookup(r, k, p)
      PROVE  IInv'
  BY <1>1, <1>5, IInvLookup
<1>6. ASSUME NEW r \in Request, NEW c \in Content, ExecuteDirectly(r, c)
      PROVE  IInv'
  BY <1>1, <1>6, IInvExecuteDirectly
<1>7. ASSUME NEW r \in Request, Continue(r) \/ Abort(r)
      PROVE  IInv'
  BY <1>1, <1>7, IInvValidate, IInvRecord, IInvPublish, IInvRecordDecision,
     IInvRecordExecution, IInvDeleteProposal DEF Continue, Approve, Reject, Execute, ExecuteAction
<1> QED
  BY <1>2, <1>3, <1>4, <1>5, <1>6, <1>7 DEF Next

\* Nothing has been proposed or requested at first.
LEMMA IInvInit == Init => IInv
BY NoneAssumption DEF Init, IInv, TypeOK, StepsOfKind, ExecutionsOfStep, UnusedIsFresh,
   DeletedIsGone, RowIfAnswered, Exclusive, Engaged, RowOfDecision, AuditedExecution, NoRow

\* The inductive invariant holds in every reachable state.
THEOREM Invariance == Spec => []IInv
<1>1. Init => IInv
  BY IInvInit
<1>2. IInv /\ [Next]_vars => IInv'
  BY IInvStep
<1> QED
  BY <1>1, <1>2, PTL DEF Spec

\* Every variable keeps its type.
THEOREM TypeCorrect == Spec => []TypeOK
<1>1. IInv => TypeOK
  BY DEF IInv
<1> QED
  BY <1>1, Invariance, PTL

\* A proposal whose approval or rejection was answered is never pending again.
THEOREM SettledIsGone == Spec => []SettledNotPending
<1>1. IInv => SettledNotPending
  BY DEF IInv, DeletedIsGone, SettledNotPending
<1> QED
  BY <1>1, Invariance, PTL

\* A proposal whose requests never overlapped is executed at most once, and
\* never after its rejection was answered.
THEOREM UncontendedDecision ==
    Spec => []ExecutedOnceUnlessContended
<1>1. IInv => ExecutedOnceUnlessContended
  <2> SUFFICES ASSUME IInv PROVE ExecutedOnceUnlessContended
    OBVIOUS
  <2> USE DEF IInv, TypeOK
  <2>1. ASSUME NEW p \in Proposal, NEW r \in executions, target[r] = p
        PROVE  Engaged(r, p) /\ kind[r] = "approve"
    BY <2>1, NoneAssumption DEF ExecutionsOfStep, StepsOfKind, Engaged
  <2>2. ASSUME NEW p \in Proposal \ contended, NEW r \in executions, NEW s \in executions,
               target[r] = p, target[s] = p
        PROVE  r = s
    BY <2>1, <2>2 DEF Exclusive
  <2>3. ASSUME NEW p \in Proposal \ contended, NEW r \in Request, NEW s \in executions,
               kind[r] = "reject", pc[r] = "done", target[r] = p
        PROVE  target[s] # p
    <3> SUFFICES ASSUME target[s] = p PROVE FALSE
      OBVIOUS
    <3>1. Engaged(r, p) /\ Engaged(s, p) /\ kind[s] = "approve"
      BY <2>1, <2>3 DEF Engaged
    <3> QED
      BY <2>3, <3>1 DEF Exclusive
  <2> QED
    BY <2>2, <2>3 DEF ExecutedOnceUnlessContended
<1> QED
  BY <1>1, Invariance, PTL

\* An audit row that speaks of an execution has one behind it.
THEOREM AuditIsHonest == Spec => []AuditedExecution
<1>1. IInv => AuditedExecution
  BY DEF IInv
<1> QED
  BY <1>1, Invariance, PTL

\* Events follow their records, and answers follow both.
THEOREM EventsAreRecorded == Spec => []PublishedAfterRecorded
<1>1. IInv => PublishedAfterRecorded
  BY DEF IInv, TypeOK, ExecutionsOfStep, PublishedAfterRecorded
<1> QED
  BY <1>1, Invariance, PTL

\* The one answered decision on an API proposal is what its row says.
THEOREM DecisionIsOnRecord == Spec => []SoleDecisionRecorded
<1>1. IInv => SoleDecisionRecorded
  BY NoneAssumption DEF IInv, TypeOK, StepsOfKind, RowOfDecision, WrittenBy, SoleDecisionRecorded
<1> QED
  BY <1>1, Invariance, PTL

\* A pending proposal leaves by its TTL, by a rejection, or after an approval
\* has executed it.
THEOREM LeavesOnlyByDecision == Spec => LeavesByDecision
<1> DEFINE Leaves(p) ==
              \/ Expire(p)
              \/ \E r \in Request : /\ target[r] = p /\ pc'[r] # pc[r]
                                    /\ \/ kind[r] = "reject"
                                       \/ kind[r] = "approve" /\ r \in executions \cap events
<1>1. ASSUME IInv, [Next]_vars, NEW p \in pending \ pending'
      PROVE  Leaves(p)
  <2> USE DEF IInv, TypeOK
  <2>1. CASE \E q \in Proposal : Expire(q)
    <3>1. PICK q \in Proposal : Expire(q)
      BY <2>1
    <3>2. p = q
      BY <1>1, <3>1 DEF Expire
    <3> QED
      BY <3>1, <3>2
  <2>2. CASE \E r \in Request : DeleteProposal(r)
    <3>1. PICK r \in Request : DeleteProposal(r)
      BY <2>2
    <3>2. target[r] = p /\ pc'[r] # pc[r]
      BY <1>1, <3>1 DEF DeleteProposal
    <3>3. kind[r] = "reject" \/ (kind[r] = "approve" /\ r \in executions \cap events)
      BY <1>1, <3>1 DEF DeleteProposal, ExecutionsOfStep
    <3> QED
      BY <3>2, <3>3
  <2>3. CASE ~(\E q \in Proposal : Expire(q)) /\ ~(\E r \in Request : DeleteProposal(r))
    <3>1. CASE \E r \in Request : Continue(r)
      BY <1>1, <2>3, <3>1, SMTT(30) DEF Continue, Approve, Reject, Execute, ExecuteAction, Validate, Record,
         Publish, RecordDecision, RecordExecution, Abort
    <3>2. CASE ~\E r \in Request : Continue(r)
      BY <1>1, <2>3, <3>2, SMTT(30) DEF Next, vars, requestVars, Reload, ApiPropose, AgentPropose,
         Propose, RecordProposal, AbortPropose, Lookup, ExecuteDirectly, Abort
    <3> QED
      BY <3>1, <3>2
  <2> QED
    BY <2>1, <2>2, <2>3
<1>2. IInv /\ [Next]_vars => [\A p \in pending \ pending' : Leaves(p)]_vars
  BY <1>1
<1> QED
  BY <1>2, Invariance, PTL DEF Spec, LeavesByDecision

-----------------------------------------------------------------------------
(* The write path implements the approval gate.                            *)

\* Every proposal is fresh at first and no approval holds one.
LEMMA GateInit == Init => Gate!Init
BY DEF Init, Gate!Init, GateState, GateHolder, GateExecuted

\* A step that touches none of what the gate is made of is a stutter of it.
LEMMA GateFrame ==
    ASSUME UNCHANGED <<pending, proposer, executions, kind, target>>,
           TypeOK, NEW r \in Request, NEW s \in Step,
           pc[r] # "notfound" /\ s # "notfound",
           pc' \in {pc, [pc EXCEPT ![r] = s]}
    PROVE  UNCHANGED Gate!vars
<1>1. UNCHANGED <<GateState, GateExecuted>>
  BY DEF GateState, GateExecuted
<1>2. \A t \in Request : pc'[t] = "notfound" <=> pc[t] = "notfound"
  BY DEF TypeOK
<1>3. UNCHANGED GateHolder
  BY <1>2 DEF GateHolder
<1> QED
  BY <1>1, <1>3 DEF Gate!vars

\* Every step of the write path is a step of the gate or leaves it alone.
LEMMA GateStep == IInv /\ [Next]_vars => [Gate!Next]_Gate!vars
<1> SUFFICES ASSUME IInv, [Next]_vars PROVE [Gate!Next]_Gate!vars
  OBVIOUS
<1> USE DEF IInv, TypeOK
<1>1. CASE Reload \/ UNCHANGED vars
  BY <1>1 DEF Reload, vars, requestVars, Gate!vars, GateState, GateHolder, GateExecuted
<1>2. ASSUME NEW p \in Proposal, NEW c \in Content, ApiPropose(p, c) \/ AgentPropose(p, c)
      PROVE  Gate!Propose(p)
  <2>1. /\ proposer[p] = "unused" /\ p \notin pending
        /\ pending' = pending \cup {p}
        /\ proposer' \in {[proposer EXCEPT ![p] = "stored"], [proposer EXCEPT ![p] = "agent"]}
        /\ UNCHANGED <<executions, kind, pc, target>>
    BY <1>2 DEF ApiPropose, AgentPropose, Propose, UnusedIsFresh, requestVars
  <2>2. GateState[p] = "fresh"
    BY <2>1 DEF GateState
  <2>3. GateState' = [GateState EXCEPT ![p] = "open"]
    BY <2>1 DEF GateState
  <2> QED
    BY <2>1, <2>2, <2>3 DEF Gate!Propose, GateHolder, GateExecuted
<1>3. ASSUME NEW p \in Proposal, RecordProposal(p) \/ AbortPropose(p)
      PROVE  UNCHANGED Gate!vars
  <2>1. /\ proposer[p] # "unused" /\ proposer'[p] # "unused"
        /\ \A q \in Proposal : q # p => proposer'[q] = proposer[q]
        /\ UNCHANGED <<pending, executions, kind, pc, target>>
    BY <1>3 DEF RecordProposal, AbortPropose, requestVars
  <2> QED
    BY <2>1 DEF Gate!vars, GateState, GateHolder, GateExecuted
<1>4. ASSUME NEW p \in Proposal, Expire(p)
      PROVE  Gate!Close(p)
  <2>1. /\ p \in pending /\ proposer[p] # "unused"
        /\ pending' = pending \ {p}
        /\ UNCHANGED <<proposer, executions, kind, pc, target>>
    BY <1>4 DEF Expire, UnusedIsFresh, requestVars
  <2>2. GateState[p] = "open" /\ GateState' = [GateState EXCEPT ![p] = "closed"]
    BY <2>1 DEF GateState
  <2> QED
    BY <2>1, <2>2 DEF Gate!Close, GateHolder, GateExecuted
<1>5. ASSUME NEW r \in Request, NEW p \in Proposal, NEW k \in {"approve", "reject"},
             Lookup(r, k, p)
      PROVE  Gate!Grant(r, p) \/ UNCHANGED Gate!vars
  <2>1. /\ kind[r] = "none" /\ target[r] = None /\ r \notin executions
        /\ kind' = [kind EXCEPT ![r] = k]
        /\ target' = [target EXCEPT ![r] = p]
        /\ UNCHANGED <<pending, proposer, executions>>
    BY <1>5 DEF Lookup, StepsOfKind, ExecutionsOfStep
  <2>2. UNCHANGED <<GateState, GateExecuted>>
    BY <2>1 DEF GateState, GateExecuted
  <2>3. GateHolder[r] = None
    BY <2>1 DEF GateHolder
  <2>4. CASE k = "approve" /\ p \in pending /\ pc' = [pc EXCEPT ![r] = "read"]
    <3>1. GateState[p] = "open"
      BY <2>4 DEF GateState
    <3>2. GateHolder' = [GateHolder EXCEPT ![r] = p]
      BY <2>1, <2>4 DEF GateHolder
    <3> QED
      BY <2>2, <2>3, <3>1, <3>2 DEF Gate!Grant
  <2>5. CASE k = "reject" /\ pc' \in {[pc EXCEPT ![r] = "read"], [pc EXCEPT ![r] = "notfound"]}
    BY <2>1, <2>2, <2>5 DEF GateHolder, Gate!vars
  <2>6. CASE k = "approve" /\ pc' = [pc EXCEPT ![r] = "notfound"]
    BY <2>1, <2>2, <2>6 DEF GateHolder, Gate!vars
  <2> QED
    BY <1>5, <2>4, <2>5, <2>6 DEF Lookup
<1>6. ASSUME NEW r \in Request, NEW c \in Content, ExecuteDirectly(r, c)
      PROVE  UNCHANGED Gate!vars
  <2>1. /\ pc[r] = "idle" /\ kind[r] = "none" /\ r \notin executions
        /\ kind' = [kind EXCEPT ![r] = "execute"]
        /\ pc' \in {[pc EXCEPT ![r] = "validated"], [pc EXCEPT ![r] = "failed"]}
        /\ UNCHANGED <<pending, proposer, executions, target>>
    BY <1>6 DEF ExecuteDirectly, StepsOfKind, ExecutionsOfStep
  <2> QED
    BY <2>1 DEF Gate!vars, GateState, GateHolder, GateExecuted
<1>7. ASSUME NEW r \in Request, Record(r)
      PROVE  Gate!Execute(r) \/ UNCHANGED Gate!vars
  <2>1. /\ pc[r] = "validated" /\ r \notin executions
        /\ kind[r] \in {"approve", "execute"}
        /\ executions' = executions \cup {r}
        /\ pc' = [pc EXCEPT ![r] = "recorded"]
        /\ UNCHANGED <<pending, proposer, kind, target>>
    BY <1>7 DEF Record, StepsOfKind, ExecutionsOfStep
  <2>2. UNCHANGED <<GateState, GateHolder>>
    BY <2>1 DEF GateState, GateHolder
  <2>3. CASE kind[r] = "approve"
    <3>1. GateHolder[r] # None
      BY <2>1, <2>3, NoneAssumption DEF GateHolder, StepsOfKind
    <3>2. r \notin GateExecuted /\ GateExecuted' = GateExecuted \cup {r}
      BY <2>1, <2>3 DEF GateExecuted
    <3> QED
      BY <2>2, <3>1, <3>2 DEF Gate!Execute
  <2>4. CASE kind[r] = "execute"
    BY <2>1, <2>2, <2>4 DEF GateExecuted, Gate!vars
  <2> QED
    BY <2>1, <2>3, <2>4
<1>8. ASSUME NEW r \in Request,
             Validate(r) \/ Publish(r) \/ RecordDecision(r) \/ RecordExecution(r) \/ Abort(r)
      PROVE  UNCHANGED Gate!vars
  <2>1. /\ UNCHANGED <<pending, proposer, executions, kind, target>>
        /\ pc[r] # "notfound"
        /\ \E s \in Step \ {"notfound"} : pc' = [pc EXCEPT ![r] = s]
    BY <1>8 DEF Validate, Publish, RecordDecision, RecordExecution, Abort
  <2> QED
    BY <2>1, GateFrame
<1>9. ASSUME NEW r \in Request, DeleteProposal(r)
      PROVE  (\E p \in Proposal : Gate!Close(p)) \/ UNCHANGED Gate!vars
  <2> DEFINE p == target[r]
  <2>1. /\ p \in Proposal
        /\ pending' = pending \ {p}
        /\ pc[r] # "notfound"
        /\ \E s \in Step \ {"notfound"} : pc' = [pc EXCEPT ![r] = s]
        /\ UNCHANGED <<proposer, executions, kind, target>>
    BY <1>9 DEF DeleteProposal, StepsOfKind
  <2>2. \A t \in Request : pc'[t] = "notfound" <=> pc[t] = "notfound"
    BY <2>1
  <2>3. UNCHANGED <<GateHolder, GateExecuted>>
    BY <2>1, <2>2 DEF GateHolder, GateExecuted
  <2>4. CASE p \in pending
    <3>1. proposer[p] # "unused"
      BY <2>1, <2>4 DEF UnusedIsFresh
    <3>2. GateState[p] = "open" /\ GateState' = [GateState EXCEPT ![p] = "closed"]
      BY <2>1, <2>4, <3>1, ZenonT(30) DEF GateState
    <3> QED
      BY <2>1, <2>3, <3>2 DEF Gate!Close
  <2>5. CASE p \notin pending
    BY <2>1, <2>3, <2>5 DEF GateState, Gate!vars
  <2> QED
    BY <2>4, <2>5
<1> QED
  BY <1>1, <1>2, <1>3, <1>4, <1>5, <1>6, <1>7, <1>8, <1>9 DEF Next, Continue, Approve, Reject, Execute, ExecuteAction, Gate!Next

\* The three stores, with all their interleavings and failures, never let an
\* approval execute what was not open to it, nor execute it twice for one grant.
THEOREM Refinement == Spec => ImplementsGate
<1>1. Init => Gate!Init
  BY GateInit
<1>2. IInv /\ [Next]_vars => [Gate!Next]_Gate!vars
  BY GateStep
<1> QED
  BY <1>1, <1>2, Invariance, PTL DEF Spec, ImplementsGate, Gate!Spec

=============================================================================
