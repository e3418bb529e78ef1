--------------------------- MODULE ActionMetrics ---------------------------
(***************************************************************************)
(* GET /metrics beside the action lifecycle: MetricsService.collect counts *)
(* the audit rows of each status with one SELECT after another, and no     *)
(* transaction spans them, so the rows change status between two counts.   *)
(* The count of the objects, which comes first, touches none of this; it   *)
(* is the time between the request's arrival and the first count.          *)
(***************************************************************************)
EXTENDS ActionLifecycle

VARIABLES
    collector,   \* the status a collection counts next, or where it stands
    uncounted    \* history: the rows in the table when the collection began
                 \* that no count has found so far

metricsVars == <<collector, uncounted>>

\* Rows of action_audit_log: a proposal's own, and those record() inserts,
\* which are 'executed' from the start.
Rows(status) ==
    {p \in Proposal : auditRow[p].status = status}
        \cup (IF status = "executed" THEN executions ELSE {})

\* Mutant: the executed rows are counted first.
OrderExecutedFirst ==
    [idle |-> "executed", executed |-> "proposed", proposed |-> "approved",
     approved |-> "rejected", rejected |-> "answered"]

\* The four queries on the audit table, each awaited after the one before it.
Order ==
    [idle |-> "proposed", proposed |-> "approved", approved |-> "rejected",
     rejected |-> "executed", executed |-> "answered"]

MetricsInit ==
    /\ Init
    /\ collector = "idle"
    /\ uncounted = {}

\* GET /metrics arrives.
Collect ==
    /\ collector = "idle"
    /\ collector' = Order["idle"]
    /\ uncounted' = UNION {Rows(s) : s \in AuditStatus \ {"none"}}
    /\ UNCHANGED vars

\* One count is answered; after the last the response is sent.
Count ==
    /\ collector \in AuditStatus
    /\ uncounted' = uncounted \ Rows(collector)
    /\ collector' = Order[collector]
    /\ UNCHANGED vars

\* A query fails: the route answers 500 with no count at all.
FailCount ==
    /\ collector \in AuditStatus
    /\ collector' = "failed"
    /\ uncounted' = {}
    /\ UNCHANGED vars

MetricsNext == (Next /\ UNCHANGED metricsVars) \/ Collect \/ Count \/ FailCount

MetricsSpec == MetricsInit /\ [][MetricsNext]_<<vars, metricsVars>> /\ Fairness

-----------------------------------------------------------------------------
\* Whatever is approved, rejected or executed while the counts run, the answer
\* counts every row the table held when it was asked for at least once (a row
\* may be counted under two statuses).  Only a proposal two requests decided
\* at once can slip through: its row may go back from executed to rejected.
CountsMissNothing == collector = "answered" => uncounted \subseteq contended

=============================================================================
