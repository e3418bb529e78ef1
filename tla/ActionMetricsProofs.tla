------------------------ MODULE ActionMetricsProofs ------------------------
(***************************************************************************)
(* The counts of GET /metrics beside any number of proposals and requests. *)
(***************************************************************************)
EXTENDS ActionMetrics, ActionLifecycleProofs

USE DEF AuditStatus, ProposerState, Running, Ended, Step, Goto

\* A row that speaks of a decision has a request that took it, and if nothing
\* overlapped that request is still engaged with the proposal.
DecidedBySomeone ==
    \A p \in Proposal \ contended :
        auditRow[p].status \in {"approved", "rejected", "executed"} =>
            \E s \in Request :
                /\ target[s] = p
                /\ pc[s] \in {"approved", "marked", "done"} \/ (pc[s] = "failed" /\ s \in executions)

\* Outside contention a decision finds the row as the proposer left it.
LEMMA DecisionIsFirst ==
    ASSUME IInv, DecidedBySomeone, NEW r \in Request, RecordDecision(r),
           target[r] \in Proposal \ contended
    PROVE  auditRow[target[r]].status \in {"none", "proposed"}
<1> DEFINE p == target[r]
<1>1. pc[r] \in {"published", "deleted"}
  BY DEF RecordDecision
<1>2. Engaged(r, p)
  BY <1>1 DEF Engaged
<1>3. ASSUME auditRow[p].status \in {"approved", "rejected", "executed"}
      PROVE  FALSE
  <2>1. PICK s \in Request :
            /\ target[s] = p
            /\ pc[s] \in {"approved", "marked", "done"} \/ (pc[s] = "failed" /\ s \in executions)
    BY <1>3 DEF DecidedBySomeone
  <2>2. Engaged(s, p) /\ s # r
    BY <1>1, <2>1 DEF Engaged
  <2> QED
    BY <1>2, <2>2 DEF IInv, Exclusive
<1>4. auditRow[p].status \in AuditStatus
  BY DEF IInv, TypeOK
<1> QED
  BY <1>3, <1>4

\* What one step of the write path does to the rows: outside contention a
\* status only moves on.
RowMovesOn(p) ==
    \/ auditRow'[p].status = auditRow[p].status
    \/ auditRow[p].status = "none"
    \/ auditRow[p].status = "proposed" /\ auditRow'[p].status \in {"approved", "rejected", "executed"}
    \/ auditRow'[p].status = "executed"

LEMMA RowsMoveOn ==
    ASSUME IInv, DecidedBySomeone, [Next]_vars, NEW p \in Proposal \ contended
    PROVE  RowMovesOn(p)
<1> USE DEF RowMovesOn
<1>1. CASE UNCHANGED auditRow
  BY <1>1
<1>2. ASSUME NEW q \in Proposal, RecordProposal(q)
      PROVE  RowMovesOn(p)
  BY <1>2 DEF RecordProposal, IInv, TypeOK, RowIfAnswered
<1>3. ASSUME NEW r \in Request, RecordDecision(r)
      PROVE  RowMovesOn(p)
  <2>1. CASE target[r] = p
    <3>1. auditRow[p].status \in {"none", "proposed"}
      BY <1>3, <2>1, DecisionIsFirst
    <3> QED
      BY <1>3, <2>1, <3>1 DEF RecordDecision, IInv, TypeOK
  <2>2. CASE target[r] # p
    BY <1>3, <2>2 DEF RecordDecision, IInv, TypeOK
  <2> QED
    BY <2>1, <2>2
<1>4. ASSUME NEW r \in Request, RecordExecution(r)
      PROVE  RowMovesOn(p)
  BY <1>4 DEF RecordExecution, IInv, TypeOK
<1> QED
  BY <1>1, <1>2, <1>3, <1>4
     DEF Next, vars, Reload, ApiPropose, AgentPropose, AbortPropose, Expire, Lookup, ExecuteDirectly,
         Continue, Approve, Reject, Execute, ExecuteAction, Validate, Record, Publish,
         DeleteProposal, Abort

\* Executions and contention only grow.
LEMMA HistoryGrows ==
    ASSUME [Next]_vars
    PROVE  executions \subseteq executions' /\ contended \subseteq contended'
BY ZenonT(30) DEF Next, vars, Reload, ApiPropose, AgentPropose, RecordProposal, AbortPropose, Expire, Lookup,
       ExecuteDirectly, Continue, Approve, Reject, Execute, ExecuteAction, Validate, Record,
       Publish, RecordDecision, RecordExecution, DeleteProposal, Abort

\* A request that has decided stays one that has.
LEMMA DecidedStep == IInv /\ DecidedBySomeone /\ [Next]_vars => DecidedBySomeone'
<1> SUFFICES ASSUME IInv, DecidedBySomeone, [Next]_vars,
                    NEW p \in Proposal \ contended',
                    auditRow'[p].status \in {"approved", "rejected", "executed"}
             PROVE  \E s \in Request :
                       /\ target'[s] = p
                       /\ \/ pc'[s] \in {"approved", "marked", "done"}
                          \/ pc'[s] = "failed" /\ s \in executions'
  BY DEF DecidedBySomeone
<1> DEFINE Decided(s) == pc[s] \in {"approved", "marked", "done"} \/ (pc[s] = "failed" /\ s \in executions)
<1>1. p \notin contended /\ executions \subseteq executions'
  BY HistoryGrows
<1>2. CASE auditRow[p].status \in {"approved", "rejected", "executed"}
  <2>1. PICK s \in Request : target[s] = p /\ Decided(s)
    BY <1>1, <1>2 DEF DecidedBySomeone
  <2>2. pc[s] \in {"approved", "marked"} => s \in executions
    BY DEF IInv, ExecutionsOfStep
  <2>3. target'[s] = target[s] /\ (pc'[s] = pc[s] \/ pc'[s] \in {"marked", "done"}
                                   \/ (pc'[s] = "failed" /\ pc[s] \in {"approved", "marked"}))
    <3> pc \in [Request -> Step] /\ target \in [Request -> Proposal \cup {None}]
      BY DEF IInv, TypeOK
    <3>1. CASE UNCHANGED <<pc, target>>
      BY <2>1, <3>1
    <3>2. ASSUME NEW r \in Request,
                 (\E q \in Proposal, k \in {"approve", "reject"} : Lookup(r, k, q))
                    \/ (\E c \in Content : ExecuteDirectly(r, c))
          PROVE  pc'[s] = pc[s] /\ target'[s] = target[s]
      BY <2>1, <3>2 DEF Lookup, ExecuteDirectly
    <3>3. ASSUME NEW r \in Request, Validate(r) \/ Record(r) \/ Publish(r)
          PROVE  pc'[s] = pc[s] /\ target'[s] = target[s]
      BY <2>1, <3>3 DEF Validate, Record, Publish
    <3>4. ASSUME NEW r \in Request, RecordDecision(r) \/ RecordExecution(r)
          PROVE  pc'[s] \in {pc[s], "marked"} /\ target'[s] = target[s]
      BY <2>1, <3>4 DEF RecordDecision, RecordExecution
    <3>5. ASSUME NEW r \in Request, DeleteProposal(r)
          PROVE  pc'[s] \in {pc[s], "done"} /\ target'[s] = target[s]
      BY <2>1, <3>5 DEF DeleteProposal
    <3>6. ASSUME NEW r \in Request, Abort(r)
          PROVE  /\ target'[s] = target[s]
                 /\ pc'[s] = pc[s] \/ (pc'[s] = "failed" /\ pc[s] \in {"approved", "marked"})
      BY <2>1, <3>6 DEF Abort
    <3> QED
      BY <3>1, <3>2, <3>3, <3>4, <3>5, <3>6
         DEF Next, vars, requestVars, Reload, ApiPropose, AgentPropose, RecordProposal, AbortPropose,
             Expire, Continue, Approve, Reject, Execute, ExecuteAction
  <2> QED
    BY <1>1, <2>1, <2>2, <2>3
<1>3. CASE auditRow[p].status \notin {"approved", "rejected", "executed"}
  <2>1. PICK r \in Request : RecordDecision(r) \/ RecordExecution(r)
    BY <1>3 DEF Next, vars, Reload, ApiPropose, AgentPropose, RecordProposal, AbortPropose, Expire,
       Lookup, ExecuteDirectly, Continue, Approve, Reject, Execute, ExecuteAction, Validate,
       Record, Publish, DeleteProposal, Abort, IInv, TypeOK
  <2>2. target[r] = p /\ target' = target
    BY <1>3, <2>1 DEF RecordDecision, RecordExecution, IInv, TypeOK
  <2>3. pc'[r] \in {"approved", "marked", "done"}
    BY <2>1 DEF RecordDecision, RecordExecution, IInv, TypeOK
  <2> QED
    BY <2>2, <2>3
<1> QED
  BY <1>2, <1>3

\* The statuses a row can have that no count has found so far.
StillToCome ==
    [proposed |-> {"proposed", "approved", "rejected", "executed"},
     approved |-> {"approved", "rejected", "executed"},
     rejected |-> {"rejected", "executed"},
     executed |-> {"executed"}]

\* A row that was there and has not been counted is of an overlap, or the
\* counts that would find it are still to come.
UncountedWaits ==
    /\ collector \in {"idle", "proposed", "approved", "rejected", "executed", "answered", "failed"}
    /\ collector \in {"idle", "failed"} => uncounted = {}
    /\ collector = "answered" => uncounted \subseteq contended
    /\ collector \in {"proposed", "approved", "rejected", "executed"} =>
          \A x \in uncounted :
              \/ x \in contended \/ x \in executions
              \/ x \in Proposal /\ auditRow[x].status \in StillToCome[collector]

MetricsInv == IInv /\ DecidedBySomeone /\ UncountedWaits

\* The write path lets no uncounted row fall behind the counts.
LEMMA RowsWait ==
    ASSUME MetricsInv, [Next]_vars, UNCHANGED metricsVars
    PROVE  UncountedWaits'
<1>1. executions \subseteq executions' /\ contended \subseteq contended'
  BY HistoryGrows
<1>2. collector' = collector /\ uncounted' = uncounted
  BY DEF metricsVars
<1>3. ASSUME NEW x \in uncounted, x \in Proposal, x \notin contended,
             collector \in {"proposed", "approved", "rejected", "executed"},
             auditRow[x].status \in StillToCome[collector]
      PROVE  auditRow'[x].status \in StillToCome[collector]
  <2>1. RowMovesOn(x)
    BY <1>3, RowsMoveOn DEF MetricsInv
  <2> QED
    BY <1>3, <2>1 DEF RowMovesOn, StillToCome
<1> QED
  BY <1>1, <1>2, <1>3 DEF MetricsInv, UncountedWaits

\* A count takes the rows it finds; the others are further on.
LEMMA CountsAdvance ==
    ASSUME MetricsInv, Collect \/ Count \/ FailCount
    PROVE  UncountedWaits'
<1>1. UNCHANGED <<auditRow, executions, contended>>
  BY DEF Collect, Count, FailCount, vars
<1>2. CASE Collect
  <2>1. collector' = "proposed" /\ uncounted' = UNION {Rows(s) : s \in AuditStatus \ {"none"}}
    BY <1>2 DEF Collect, Order
  <2>2. ASSUME NEW x \in uncounted'
        PROVE  x \in executions \/ (x \in Proposal /\ auditRow[x].status \in StillToCome["proposed"])
    <3>1. PICK s \in AuditStatus \ {"none"} : x \in Rows(s)
      BY <2>1
    <3> QED
      BY <3>1 DEF Rows, StillToCome
  <2> QED
    BY <1>1, <2>1, <2>2 DEF UncountedWaits
<1>3. CASE Count
  <2>1. collector \in {"proposed", "approved", "rejected", "executed"}
    BY <1>3 DEF Count, MetricsInv, UncountedWaits
  <2>2. collector' = Order[collector] /\ uncounted' = uncounted \ Rows(collector)
    BY <1>3 DEF Count
  <2>3. ASSUME NEW x \in uncounted', x \notin contended
        PROVE  \/ collector # "executed" /\ x \in executions
               \/ x \in Proposal /\ auditRow[x].status \in StillToCome[collector] \ {collector}
    BY <2>1, <2>2, <2>3 DEF Rows, MetricsInv, UncountedWaits
  <2> QED
    BY <1>1, <2>1, <2>2, <2>3 DEF UncountedWaits, Order, StillToCome
<1>4. CASE FailCount
  BY <1>4 DEF FailCount, UncountedWaits
<1> QED
  BY <1>2, <1>3, <1>4

\* Whatever is decided and executed meanwhile, an answer of GET /metrics has
\* counted every row the table held when it was asked for, but for rows whose
\* requests overlapped.
THEOREM NothingMissed == MetricsSpec => []CountsMissNothing
<1>1. MetricsInit => MetricsInv
  <2> SUFFICES ASSUME MetricsInit PROVE MetricsInv
    OBVIOUS
  <2>1. IInv
    BY IInvInit DEF MetricsInit
  <2> QED
    BY <2>1 DEF MetricsInit, MetricsInv, Init, NoRow, DecidedBySomeone, UncountedWaits
<1>2. MetricsInv /\ [MetricsNext]_<<vars, metricsVars>> => MetricsInv'
  <2> SUFFICES ASSUME MetricsInv, [MetricsNext]_<<vars, metricsVars>> PROVE MetricsInv'
    OBVIOUS
  <2>1. [Next]_vars
    BY DEF MetricsNext, Collect, Count, FailCount
  <2>2. IInv' /\ DecidedBySomeone'
    BY <2>1, IInvStep, DecidedStep DEF MetricsInv
  <2>3. UncountedWaits'
    BY <2>1, RowsWait, CountsAdvance DEF MetricsNext
  <2> QED
    BY <2>2, <2>3 DEF MetricsInv
<1>3. MetricsInv => CountsMissNothing
  BY DEF MetricsInv, UncountedWaits, CountsMissNothing
<1> QED
  BY <1>1, <1>2, <1>3, PTL DEF MetricsSpec

=============================================================================
