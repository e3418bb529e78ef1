------------------------ MODULE InternalAgentProofs ------------------------
(***************************************************************************)
(* The internal agent under any policy and any model, and the logs with    *)
(* any number of entries and sockets: invariants, how long a run can be,   *)
(* and that receipts and subscriptions implement LogFeed.                  *)
(***************************************************************************)
EXTENDS InternalAgent, FiniteSetTheorems, TLAPS

(* The logs.                                                               *)

\* An entry that got past its INSERT is stored, and one that has not arrived
\* is not.
StoredOnReceipt ==
    \A e \in Entry : /\ receipt[e] \in {"inserted", "202"} => e \in stored
                     /\ receipt[e] = "none" => e \notin stored

\* What was sent was answered since the socket came, and is for it.
SentIsAnswered ==
    \A s \in Socket :
        /\ before[s] \subseteq Answered
        /\ sent[s] \subseteq {e \in Answered : Matches(s, e)} \ before[s]
        /\ socket[s] = "none" => sent[s] = {}

\* An open socket is a subscriber that has seen what was answered since.
OpenListens ==
    \A s \in Socket :
        /\ socket[s] = "open" => /\ s \in subscribers
                                 /\ {e \in Answered : Matches(s, e)} \ before[s] \subseteq sent[s]
        /\ socket[s] \in {"none", "closed"} => s \notin subscribers

LogInv == LogTypeOK /\ StoredOnReceipt /\ SentIsAnswered /\ OpenListens

\* Nothing has arrived and nobody listens.
LEMMA LogInvInit == LogInit => LogInv
BY DEF LogInit, LogInv, LogTypeOK, StoredOnReceipt, SentIsAnswered, OpenListens, Answered, Matches

\* The steps of an entry before it is answered touch nothing that was sent.
LEMMA EntrySteps ==
    ASSUME LogInv, NEW e \in Entry,
           (\E t \in Tenant : Receive(e, t)) \/ InsertLog(e) \/ FailInsertLog(e)
    PROVE  LogInv'
<1> USE DEF LogInv
<1>1. LogTypeOK' /\ StoredOnReceipt'
  BY DEF LogTypeOK, StoredOnReceipt, Receive, InsertLog, FailInsertLog
<1>2. /\ Answered' = Answered
      /\ \A x \in Answered : about'[x] = about[x]
      /\ UNCHANGED <<socket, filter, subscribers, sent, before>>
  BY DEF LogTypeOK, Answered, Receive, InsertLog, FailInsertLog
<1>3. SentIsAnswered' /\ OpenListens'
  BY <1>2 DEF SentIsAnswered, OpenListens, Matches, Answered
<1> QED
  BY <1>1, <1>3

\* A broadcast reaches every open socket it is for.
LEMMA BroadcastStep ==
    ASSUME LogInv, NEW e \in Entry, Broadcast(e)
    PROVE  LogInv'
<1> USE DEF LogInv
<1>1. LogTypeOK' /\ StoredOnReceipt'
  BY DEF LogTypeOK, StoredOnReceipt, Broadcast
<1>2. Answered' = Answered \cup {e} /\ e \notin Answered
  BY DEF LogTypeOK, Answered, Broadcast
<1>3. \A s \in Socket :
         /\ sent'[s] = IF s \in subscribers /\ Matches(s, e) /\ socket[s] = "open"
                         THEN sent[s] \cup {e} ELSE sent[s]
         /\ s \in subscribers' => s \in subscribers
         /\ socket[s] = "open" /\ s \in subscribers => s \in subscribers'
  BY DEF Broadcast
<1>4. UNCHANGED <<about, socket, filter, before>>
  BY DEF Broadcast
<1>5. \A s \in Socket : \A x \in Entry : Matches(s, x)' <=> Matches(s, x)
  BY <1>4 DEF Matches
<1>6. Answered \subseteq Entry /\ Answered' \subseteq Entry
  BY DEF Answered
<1>7. SentIsAnswered'
  <2> SUFFICES ASSUME NEW s \in Socket
               PROVE  /\ before'[s] \subseteq Answered'
                      /\ sent'[s] \subseteq {x \in Answered' : Matches(s, x)'} \ before'[s]
                      /\ socket'[s] = "none" => sent'[s] = {}
    BY DEF SentIsAnswered
  <2>1. /\ before[s] \subseteq Answered
        /\ sent[s] \subseteq {x \in Answered : Matches(s, x)} \ before[s]
        /\ socket[s] = "none" => sent[s] = {}
    BY DEF SentIsAnswered
  <2> QED
    BY <1>2, <1>3, <1>4, <1>5, <1>6, <2>1
<1>8. OpenListens'
  <2> SUFFICES ASSUME NEW s \in Socket
               PROVE  /\ socket'[s] = "open" =>
                            /\ s \in subscribers'
                            /\ {x \in Answered' : Matches(s, x)'} \ before'[s] \subseteq sent'[s]
                      /\ socket'[s] \in {"none", "closed"} => s \notin subscribers'
    BY DEF OpenListens
  <2>1. /\ socket[s] = "open" =>
              /\ s \in subscribers
              /\ {x \in Answered : Matches(s, x)} \ before[s] \subseteq sent[s]
        /\ socket[s] \in {"none", "closed"} => s \notin subscribers
    BY DEF OpenListens
  <2> QED
    BY <1>2, <1>3, <1>4, <1>5, <1>6, <2>1
<1> QED
  BY <1>1, <1>7, <1>8

\* A socket comes with nothing sent to it, and goes from the subscribers.
LEMMA SocketSteps ==
    ASSUME LogInv, NEW s \in Socket,
           (\E f \in Tenant \cup {None} : Subscribe(s, f)) \/ Decline(s) \/ Close(s)
    PROVE  LogInv'
<1> USE DEF LogInv
<1>1. Answered' = Answered /\ UNCHANGED <<receipt, about, stored, sent>>
  BY DEF Subscribe, Decline, Close, Answered
<1>2. LogTypeOK'
  BY DEF LogTypeOK, Subscribe, Decline, Close, Answered
<1>3. StoredOnReceipt'
  BY <1>1 DEF StoredOnReceipt
<1>4. SentIsAnswered'
  BY <1>1 DEF SentIsAnswered, Matches, LogTypeOK, Subscribe, Decline, Close
<1>5. OpenListens'
  BY <1>1 DEF OpenListens, Matches, LogTypeOK, Subscribe, Decline, Close
<1> QED
  BY <1>2, <1>3, <1>4, <1>5

\* Every step of the logs, and every step that leaves them alone.
LEMMA LogInvStep == LogInv /\ (Logs \/ UNCHANGED logVars) => LogInv'
<1>1. LogInv /\ Logs => LogInv'
  BY EntrySteps, BroadcastStep, SocketSteps DEF Logs
<1>2. LogInv /\ UNCHANGED logVars => LogInv'
  BY DEF logVars, LogInv, LogTypeOK, StoredOnReceipt, SentIsAnswered, OpenListens, Answered, Matches
<1> QED
  BY <1>1, <1>2

-----------------------------------------------------------------------------
(* The logs implement LogFeed.                                             *)

\* An entry that has arrived names a tenant.
NamesATenant == \A e \in Entry : receipt[e] # "none" => about[e] \in Tenant

LEMMA NamesATenantStep == LogInv /\ NamesATenant /\ (Logs \/ UNCHANGED logVars) => NamesATenant'
<1> SUFFICES ASSUME LogInv, NamesATenant, Logs \/ UNCHANGED logVars PROVE NamesATenant'
  OBVIOUS
<1>1. ASSUME NEW e \in Entry, NEW t \in Tenant, Receive(e, t)
      PROVE  NamesATenant'
  BY <1>1 DEF Receive, NamesATenant, LogInv, LogTypeOK
<1>2. ASSUME NEW e \in Entry, InsertLog(e) \/ FailInsertLog(e) \/ Broadcast(e)
      PROVE  NamesATenant'
  BY <1>2 DEF InsertLog, FailInsertLog, Broadcast, NamesATenant, LogInv, LogTypeOK
<1>3. CASE UNCHANGED <<receipt, about>>
  BY <1>3 DEF NamesATenant
<1> QED
  BY <1>1, <1>2, <1>3 DEF Logs, logVars, Subscribe, Decline, Close

\* An entry that is answered is published, to every open socket at once: each
\* is a subscriber.
LEMMA Publishes ==
    ASSUME LogInv, NamesATenant, NEW e \in Entry, Broadcast(e)
    PROVE  Feed!Publish(e, about[e])
<1> USE DEF LogInv, LogTypeOK
<1>1. /\ receipt[e] = "inserted" /\ about[e] \in Tenant
      /\ receipt' = [receipt EXCEPT ![e] = "202"]
      /\ UNCHANGED <<about, socket, filter>>
  BY DEF Broadcast, NamesATenant
<1>2. Published[e] = None /\ Published' = [Published EXCEPT ![e] = about[e]]
  BY <1>1 DEF Published
<1>3. UNCHANGED <<Stage, filter>>
  BY <1>1 DEF Stage
<1>4. \A s \in Socket : Stage[s] = "following" <=> socket[s] = "open"
  BY DEF Stage
<1>5. sent' = [s \in Socket |-> IF Stage[s] = "following" /\ filter[s] \in {None, about[e]}
                                  THEN sent[s] \cup {e} ELSE sent[s]]
  BY <1>4 DEF Broadcast, OpenListens, Matches
<1> QED
  BY <1>2, <1>3, <1>5 DEF Feed!Publish

\* What happens to an entry otherwise, and to a socket that no longer follows,
\* is none of the feed's business.
LEMMA FeedStep ==
    LogInv /\ NamesATenant /\ (Logs \/ UNCHANGED logVars) => [Feed!Next]_Feed!vars
<1> SUFFICES ASSUME LogInv, NamesATenant, Logs \/ UNCHANGED logVars PROVE [Feed!Next]_Feed!vars
  OBVIOUS
<1> USE DEF LogInv, LogTypeOK
<1>1. ASSUME NEW e \in Entry,
             (\E t \in Tenant : Receive(e, t)) \/ InsertLog(e) \/ FailInsertLog(e)
      PROVE  UNCHANGED Feed!vars
  <2>1. /\ \A x \in Entry : /\ receipt'[x] = "202" <=> receipt[x] = "202"
                            /\ receipt[x] = "202" => about'[x] = about[x]
        /\ UNCHANGED <<socket, filter, sent>>
    BY <1>1 DEF Receive, InsertLog, FailInsertLog
  <2> QED
    BY <2>1 DEF Feed!vars, Published, Stage
<1>2. ASSUME NEW e \in Entry, Broadcast(e)
      PROVE  Feed!Next
  <2>1. about[e] \in Tenant
    BY <1>2 DEF Broadcast, NamesATenant
  <2> QED
    BY <1>2, <2>1, Publishes DEF Feed!Next
<1>3. ASSUME NEW s \in Socket, NEW f \in Tenant \cup {None}, Subscribe(s, f)
      PROVE  Feed!Next
  <2>1. Stage[s] = "absent" /\ Stage' = [Stage EXCEPT ![s] = "following"]
    BY <1>3 DEF Subscribe, Stage
  <2>2. Feed!Follow(s, f)
    BY <1>3, <2>1 DEF Feed!Follow, Subscribe, Published
  <2> QED
    BY <2>2 DEF Feed!Next
<1>4. ASSUME NEW s \in Socket, Decline(s) \/ Close(s)
      PROVE  Feed!Next \/ UNCHANGED Feed!vars
  <2>1. UNCHANGED <<Published, filter, sent>>
    BY <1>4 DEF Decline, Close, Published
  <2>2. CASE socket[s] = "open"
    <3>1. Stage[s] = "following" /\ Stage' = [Stage EXCEPT ![s] = "gone"]
      BY <1>4, <2>2 DEF Decline, Close, Stage
    <3>2. Feed!Leave(s)
      BY <2>1, <3>1 DEF Feed!Leave
    <3> QED
      BY <3>2 DEF Feed!Next
  <2>3. CASE socket[s] # "open"
    <3>1. Stage' = Stage
      BY <1>4, <2>3 DEF Decline, Close, Stage
    <3> QED
      BY <2>1, <3>1 DEF Feed!vars
  <2> QED
    BY <2>2, <2>3
<1>5. CASE UNCHANGED logVars
  BY <1>5 DEF logVars, Feed!vars, Published, Stage
<1> QED
  BY <1>1, <1>2, <1>3, <1>4, <1>5 DEF Logs

-----------------------------------------------------------------------------
(* The audit's counts.                                                     *)

Counted(s, A) == Cardinality({i \in DOMAIN s : s[i] \in A})

LEMMA CountedEmpty == \A A : Counted(<<>>, A) = 0
BY FS_EmptySet DEF Counted

LEMMA CountedFinite ==
    ASSUME NEW s \in Seq(Entries), NEW A
    PROVE  /\ IsFiniteSet({i \in DOMAIN s : s[i] \in A})
           /\ Counted(s, A) \in Nat
<1>1. DOMAIN s = 1..Len(s) /\ Len(s) \in Nat
  OBVIOUS
<1>2. IsFiniteSet(1..Len(s))
  BY <1>1, FS_Interval
<1>3. IsFiniteSet({i \in DOMAIN s : s[i] \in A})
  BY <1>1, <1>2, FS_Subset
<1> QED
  BY <1>3, FS_CardinalityType DEF Counted

\* An entry at the end counts for the sets it is in.
LEMMA CountedAppend ==
    ASSUME NEW s \in Seq(Entries), NEW x \in Entries, NEW A
    PROVE  Counted(Append(s, x), A) = IF x \in A THEN Counted(s, A) + 1 ELSE Counted(s, A)
<1> DEFINE Hits == {i \in DOMAIN s : s[i] \in A}
           t == Append(s, x)
<1>1. /\ DOMAIN s = 1..Len(s) /\ DOMAIN t = 1..(Len(s) + 1) /\ Len(s) \in Nat
      /\ t[Len(s) + 1] = x
      /\ \A i \in DOMAIN s : t[i] = s[i]
  OBVIOUS
<1>2. Len(s) + 1 \notin Hits
  BY <1>1
<1>3. CASE x \in A
  <2>1. {i \in DOMAIN t : t[i] \in A} = Hits \cup {Len(s) + 1}
    BY <1>1, <1>3
  <2>2. IsFiniteSet(Hits)
    BY CountedFinite
  <2>3. Cardinality(Hits \cup {Len(s) + 1}) = Cardinality(Hits) + 1
    BY ONLY <1>2, <2>2, FS_AddElement
  <2> QED
    BY <1>3, <2>1, <2>3 DEF Counted
<1>4. CASE x \notin A
  <2>1. {i \in DOMAIN t : t[i] \in A} = Hits
    BY <1>1, <1>4
  <2> QED
    BY <1>4, <2>1 DEF Counted
<1> QED
  BY <1>3, <1>4

-----------------------------------------------------------------------------
(* The run.                                                                *)

\* The policy is made before anything is called, and nothing was read before.
PolicyIsMade ==
    IF phase \in {"arrived", "refused"}
      THEN read = {} /\ results = [n \in Name |-> None]
      ELSE scope = Scope(request) /\ tools = AllowedTools(request.toolNames)

\* A call that is reading was allowed by the policy and by the scope.
CallIsAllowed ==
    phase = "reading" =>
        /\ call.name \in tools
        /\ call.name \in Scoped /\ call.tenant # None => None \in scope \/ call.tenant \in scope

\* The runner counts a call when it is over, the governance when it is allowed;
\* only a call that ends the run is never over.
UsedIsBelow == phase # "answered" => used <= calls + Reading

\* No turn begins past a limit.
TurnsAreLeft ==
    phase \in {"invoking", "calling", "called", "reading"} =>
        round < MaxToolCalls /\ round < MaxRounds

\* Before the policy is made no turn was counted.
RoundBegins == phase = "arrived" => round = 0

RunInv == TypeOK /\ PolicyIsMade /\ CallIsAllowed /\ UsedIsBelow /\ TurnsAreLeft /\ RoundBegins
          /\ BudgetsAgree /\ AuditIsComplete /\ ScopeHolds

IInv == LogInv /\ RunInv

\* No denial is mistaken for a permission.
LEMMA DenialType ==
    ASSUME NEW c
    PROVE  Denial(c) \in Reason \cup {None} /\ None \notin Reason
BY AgentAssumption DEF Denial, Reason

\* The governance asks about the number only when the runner would not.
LEMMA NoBudgetDenial ==
    ASSUME NEW c, used \in Nat, used < MaxToolCalls
    PROVE  Denial(c) # "budget"
<1>1. ~(used >= MaxToolCalls)
  BY AgentAssumption
<1> QED
  BY <1>1, AgentAssumption DEF Denial, Reason

\* Before the operator is known nothing has happened.
LEMMA RunInvInit == Init => IInv
<1> SUFFICES ASSUME Init PROVE IInv
  OBVIOUS
<1>1. LogInv
  BY LogInvInit DEF Init
<1>2. TypeOK
  BY <1>1, AgentAssumption DEF Init, TypeOK, LogInv, Phase
<1>3. PolicyIsMade /\ CallIsAllowed /\ TurnsAreLeft /\ RoundBegins /\ ScopeHolds
  BY DEF Init, RoundBegins, PolicyIsMade, CallIsAllowed, TurnsAreLeft,
     ScopeHolds, ToolsKeepToScope, EvidenceWasRead, LogsAreTheirs
<1>4. UsedIsBelow /\ BudgetsAgree /\ AuditIsComplete
  BY CountedEmpty, AgentAssumption
     DEF Init, UsedIsBelow, BudgetsAgree, AuditIsComplete, Reading, Count, Counted
<1> QED
  BY <1>1, <1>2, <1>3, <1>4 DEF IInv, RunInv

\* The steps that neither call nor read: they leave counters and audit alone.
LEMMA TurnSteps ==
    ASSUME IInv, LogInv', UNCHANGED logVars,
           Authenticate \/ Invoke \/ Conclude \/ MakeBrokenCall \/ EndTurn
    PROVE  RunInv'
<1> USE DEF IInv, RunInv
<1>1. /\ phase # "reading" /\ phase' # "reading" /\ phase # "answered"
      /\ phase' \in Phase
      /\ UNCHANGED <<request, tooling, call, calls, used, audit, evidence, results,
                     unknown, read, about, stored>>
  BY AgentAssumption
     DEF Authenticate, Invoke, Conclude, MakeBrokenCall, EndTurn, Turn, Phase, TypeOK, logVars
<1>2. /\ round' \in Nat
      /\ tools' \subseteq Tool
      /\ scope' \subseteq Limit(Tenant)
  BY AgentAssumption DEF Authenticate, Invoke, Conclude, MakeBrokenCall, EndTurn, TypeOK, Scope,
     AllowedTools, Request, Limit
<1>3. TypeOK'
  BY <1>1, <1>2 DEF TypeOK, LogInv
<1>4. PolicyIsMade'
  BY <1>1 DEF PolicyIsMade, Authenticate, Invoke, Conclude, MakeBrokenCall, EndTurn, Turn, Scope
<1>5. CallIsAllowed' /\ UsedIsBelow' /\ RoundBegins'
  BY <1>1 DEF CallIsAllowed, UsedIsBelow, Reading, RoundBegins, Authenticate, Invoke, Conclude,
     MakeBrokenCall, EndTurn, Turn
<1>6. /\ TurnsAreLeft'
      /\ round' <= MaxToolCalls /\ round' <= MaxRounds
  <2> MaxToolCalls \in Nat /\ MaxRounds \in Nat /\ round \in Nat
    BY AgentAssumption DEF TypeOK
  <2>1. CASE EndTurn
    <3>1. round < MaxToolCalls /\ round < MaxRounds /\ round' = round + 1 /\ phase' = Turn(round')
      BY <2>1 DEF EndTurn, TurnsAreLeft
    <3> QED
      BY <3>1 DEF TurnsAreLeft, Turn
  <2>2. CASE Authenticate
    <3>1. round' = round /\ (phase' = "refused" \/ (phase' = Turn(0) /\ round = 0))
      BY <2>2 DEF Authenticate, RoundBegins
    <3> QED
      BY <3>1 DEF TurnsAreLeft, Turn, BudgetsAgree
  <2>3. CASE Invoke \/ Conclude \/ MakeBrokenCall
    BY <2>3 DEF Invoke, Conclude, MakeBrokenCall, TurnsAreLeft, BudgetsAgree
  <2> QED
    BY <2>1, <2>2, <2>3
<1>7. BudgetsAgree'
  BY <1>1, <1>6 DEF BudgetsAgree, Reading, Count
<1>8. AuditIsComplete'
  BY <1>1 DEF AuditIsComplete, Reading, Count
<1>9. ScopeHolds'
  BY <1>1 DEF ScopeHolds, ToolsKeepToScope, EvidenceWasRead, LogsAreTheirs, Theirs
<1> QED
  BY <1>3, <1>4, <1>5, <1>6, <1>7, <1>8, <1>9

\* A call is refused or begins to read, and the governance notes which.
LEMMA CallStep ==
    ASSUME IInv, LogInv', UNCHANGED logVars, NEW c \in Calls, MakeCall(c)
    PROVE  RunInv'
<1> USE DEF IInv, RunInv
<1>1. /\ phase \in {"calling", "called"} /\ calls < MaxToolCalls
      /\ c \in Call /\ c.name \in Name
      /\ Reading = 0 /\ used <= calls
      /\ calls \in Nat /\ used \in Nat /\ unknown \in Nat /\ audit \in Seq(Entries)
      /\ UNCHANGED <<request, tooling, tools, scope, round, evidence, read, about, stored>>
      /\ MaxToolCalls \in Nat
      /\ phase' # "arrived"
  BY AgentAssumption DEF MakeCall, Refuse, Reading, UsedIsBelow, TypeOK, Call, logVars
<1>2. \A i \in DOMAIN audit : audit[i] # "error"
  BY <1>1 DEF AuditIsComplete
<1>3. \A A : Count(A) \in Nat /\ Count(A) = Counted(audit, A) /\ Count(A)' = Counted(audit', A)
  BY <1>1, CountedFinite DEF Count, Counted
<1>7. /\ Count({"allowed"} \cup Reason) \in Nat /\ Count({"error"}) \in Nat
      /\ Count({"allowed"}) \in Nat /\ Count({"budget"}) \in Nat
  BY <1>3
<1>6. RoundBegins'
  BY <1>1 DEF RoundBegins
<1>4. CASE c.name = Unknown
  <2>1. /\ results' = [results EXCEPT ![c.name] = Nothing]
        /\ calls' = calls + 1 /\ used' = used /\ unknown' = unknown + 1
        /\ phase' = "called" /\ call' = call /\ audit' = audit
    BY <1>4 DEF MakeCall, Refuse
  <2>2. TypeOK'
    BY <1>1, <2>1 DEF TypeOK, LogInv, Phase, Nothing, Result
  <2>3. PolicyIsMade' /\ CallIsAllowed' /\ UsedIsBelow' /\ TurnsAreLeft'
    BY <1>1, <2>1 DEF PolicyIsMade, CallIsAllowed, UsedIsBelow, TurnsAreLeft, Reading, Scope
  <2>4. Reading' = 0 /\ \A A : Count(A)' = Count(A)
    BY <1>3, <2>1 DEF Reading
  <2>6. BudgetsAgree'
    BY <1>1, <2>1, <2>4 DEF BudgetsAgree
  <2>7. AuditIsComplete'
    BY <1>1, <1>2, <1>3, <2>1, <2>4, SMTT(30) DEF AuditIsComplete
  <2>5. ScopeHolds'
    BY <1>1, <2>1 DEF ScopeHolds, ToolsKeepToScope, EvidenceWasRead, LogsAreTheirs, Theirs,
         Nothing, TypeOK
  <2> QED
    BY <1>6, <2>2, <2>3, <2>5, <2>6, <2>7
<1>5. CASE c.name # Unknown
  <2> DEFINE entry == IF Denial(c) = None THEN "allowed" ELSE Denial(c)
  <2>1. /\ unknown' = unknown
        /\ audit' = Append(audit, entry)
    BY <1>5 DEF MakeCall
  <2>2. entry \in {"allowed"} \cup Reason /\ entry # "budget"
    <3>1. Denial(c) # "budget"
      BY <1>1, NoBudgetDenial
    <3> QED
      BY <3>1, DenialType DEF Reason
  <2>3. /\ entry \in Entries /\ entry # "error"
        /\ audit' \in Seq(Entries)
    <3>1. entry \in Entries /\ entry # "error"
      BY <2>2 DEF Entries, Reason
    <3> QED
      BY <1>1, <2>1, <3>1
  <2>4. /\ Count({"budget"})' = Count({"budget"})
        /\ Count({"error"})' = Count({"error"})
        /\ Count({"allowed"} \cup Reason)' = Count({"allowed"} \cup Reason) + 1
        /\ Count({"allowed"})' = IF entry = "allowed" THEN Count({"allowed"}) + 1
                                                     ELSE Count({"allowed"})
    <3>1. \A A : Count(A)' = IF entry \in A THEN Count(A) + 1 ELSE Count(A)
      BY <1>1, <1>3, <2>1, <2>3, CountedAppend
    <3> QED
      BY <2>2, <2>3, <3>1 DEF Reason
  <2>5. \A i \in DOMAIN audit' : audit'[i] # "error"
    BY <1>1, <1>2, <2>1, <2>3
  <2>6. CASE Denial(c) # None
    <3>1. /\ results' = [results EXCEPT ![c.name] = Nothing]
          /\ calls' = calls + 1 /\ used' = used
          /\ phase' = "called" /\ call' = call /\ entry # "allowed"
      BY <1>5, <2>6, DenialType DEF MakeCall, Refuse, Reason
    <3>2. TypeOK'
      BY <1>1, <2>1, <2>3, <3>1 DEF TypeOK, LogInv, Phase, Nothing, Result
    <3>3. PolicyIsMade' /\ CallIsAllowed' /\ UsedIsBelow' /\ TurnsAreLeft'
      BY <1>1, <3>1 DEF PolicyIsMade, CallIsAllowed, UsedIsBelow, TurnsAreLeft, Reading, Scope
    <3>7. Reading' = 0
      BY <3>1 DEF Reading
    <3>4. BudgetsAgree'
      BY <1>1, <2>4, <3>1, <3>7 DEF BudgetsAgree
    <3>8. AuditIsComplete'
      <4>1. Count({"allowed"})' = Count({"allowed"})
        BY <2>4, <3>1
      <4>2. /\ Count({"allowed"} \cup Reason) + unknown = calls + Count({"error"})
            /\ Count({"allowed"}) = used
        BY <1>1, <1>3 DEF AuditIsComplete
      <4>3. Count({"allowed"} \cup Reason)' + unknown' = calls' + Reading' + Count({"error"})'
        <5>1. /\ Count({"allowed"} \cup Reason)' = Count({"allowed"} \cup Reason) + 1
              /\ Count({"error"})' = Count({"error"})
          BY <2>4
        <5>2. calls' = calls + 1 /\ unknown' = unknown /\ calls \in Nat /\ unknown \in Nat
          BY <1>1, <2>1, <3>1
        <5> HIDE DEF entry
        <5> QED
          BY <1>7, <3>7, <4>2, <5>1, <5>2
      <4> QED
        BY <2>5, <3>1, <4>1, <4>2, <4>3 DEF AuditIsComplete
    <3>5. ScopeHolds'
      BY <1>1, <3>1 DEF ScopeHolds, ToolsKeepToScope, EvidenceWasRead, LogsAreTheirs, Theirs,
         Nothing, TypeOK
    <3> QED
      BY <1>6, <3>2, <3>3, <3>4, <3>5, <3>8
  <2>7. CASE Denial(c) = None
    <3>1. /\ results' = results /\ calls' = calls /\ used' = used + 1
          /\ phase' = "reading" /\ call' = c /\ entry = "allowed"
      BY <1>5, <2>7 DEF MakeCall
    <3>2. TypeOK'
      BY <1>1, <1>5, <2>1, <2>3, <3>1 DEF TypeOK, LogInv, Phase, Name
    <3>3. CallIsAllowed'
      BY <1>1, <2>7, <3>1, DenialType DEF CallIsAllowed, Denial, Reason
    <3>4. PolicyIsMade' /\ UsedIsBelow' /\ TurnsAreLeft'
      BY <1>1, <3>1 DEF PolicyIsMade, UsedIsBelow, TurnsAreLeft, Reading, Scope
    <3>7. Reading' = 1
      BY <3>1 DEF Reading
    <3>5. BudgetsAgree'
      BY <1>1, <2>4, <3>1, <3>7 DEF BudgetsAgree
    <3>8. AuditIsComplete'
      BY <1>1, <1>3, <2>1, <2>4, <2>5, <3>1, <3>7, SMTT(30) DEF AuditIsComplete
    <3>6. ScopeHolds'
      BY <1>1, <3>1 DEF ScopeHolds, ToolsKeepToScope, EvidenceWasRead, LogsAreTheirs, Theirs
    <3> QED
      BY <1>6, <3>2, <3>3, <3>4, <3>5, <3>6, <3>8
  <2> QED
    BY <2>6, <2>7
<1> QED
  BY <1>4, <1>5

\* The tool that was allowed has its result, or ends the run.
LEMMA ReadStep ==
    ASSUME IInv, LogInv', UNCHANGED logVars, Read
    PROVE  RunInv'
<1> USE DEF IInv, RunInv
<1>1. /\ phase = "reading" /\ Reading = 1 /\ call \in Call /\ call.name \in Tool
      /\ calls + 1 <= MaxToolCalls /\ used <= calls + 1 /\ calls \in Nat /\ used \in Nat
      /\ unknown \in Nat /\ MaxToolCalls \in Nat /\ audit \in Seq(Entries)
      /\ UNCHANGED <<request, tooling, tools, scope, round, used, unknown, about, stored>>
      /\ call' = None
  BY AgentAssumption DEF Read, Reading, TypeOK, BudgetsAgree, UsedIsBelow, logVars
<1>2. \A i \in DOMAIN audit : audit[i] # "error"
  BY <1>1 DEF AuditIsComplete
<1>3. \A A : Count(A) \in Nat /\ Count(A) = Counted(audit, A) /\ Count(A)' = Counted(audit', A)
  BY <1>1, CountedFinite DEF Count, Counted
<1>10. /\ Count({"allowed"} \cup Reason) \in Nat /\ Count({"error"}) \in Nat
       /\ Count({"allowed"}) \in Nat /\ Count({"budget"}) \in Nat
  BY <1>3
<1>4. phase' \in {"called", "answered"} /\ Reading' = 0
  BY DEF Read, Return, Find, ListTenants, GetTenant, GetTenantHealth, GetTenantMetrics,
     QueryTenantLogs, SummarizeTenantIncidents, Reading
<1>5. call.name \in Scoped /\ call.tenant # None => call.tenant \in Theirs
  <2>1. request \in Request /\ scope = Scope(request)
    BY <1>1, AgentAssumption DEF TypeOK, PolicyIsMade
  <2>2. call.tenant # None => call.tenant \in Tenant
    BY <1>1 DEF Call
  <2>3. request.own \subseteq Tenant /\ request.role \in {"admin", "operator"}
    BY <2>1 DEF Request
  <2> QED
    BY <1>1, <2>1, <2>2, <2>3, LogAssumption DEF CallIsAllowed, Scope, Theirs
<1>12. None \in request.toolNames \/ call.name \in request.toolNames
  BY <1>1 DEF CallIsAllowed, PolicyIsMade, AllowedTools
<1>13. \/ read' = read
       \/ /\ read' = read \cup ({call.name} \X Rows(call))
          /\ call.name \in Scoped => call.tenant # None
  BY DEF Read
<1>6. \A p \in read' : \/ p \in read
                       \/ /\ p = <<call.name, p[2]>> /\ p[2] \in Tenant
                          /\ call.name \in Scoped => call.tenant # None /\ p[2] = call.tenant
  <2>1. call.tenant # None => call.tenant \in Tenant
    BY <1>1 DEF Call
  <2>2. Rows(call) \subseteq Tenant \/ (call.name \in Scoped /\ call.tenant = None)
    BY <2>1 DEF Rows
  <2> QED
    BY <1>13, <2>2 DEF Rows
<1>11. read' \subseteq Tool \X Tenant
  BY <1>1, <1>6 DEF TypeOK
<1>14. read \subseteq read'
  BY <1>13
<1>7. PolicyIsMade' /\ CallIsAllowed' /\ TurnsAreLeft' /\ RoundBegins'
  BY <1>1, <1>4 DEF PolicyIsMade, CallIsAllowed, TurnsAreLeft, RoundBegins, Scope
<1>8. CASE audit' = audit
  <2> DEFINE Fits(result) ==
          result.logs # {} => /\ call.name \in Scoped /\ call.tenant # None
                              /\ result.tenant = call.tenant
                              /\ \A e \in result.logs : e \in stored /\ about[e] = call.tenant
  <2> DEFINE Shown(tenants) == \A t \in tenants : <<call.name, t>> \in read'
  <2>1. \E result \in Result, tenants \in SUBSET Tenant :
           Return(result, tenants) /\ Fits(result) /\ Shown(tenants)
    <3> DEFINE Reads == read' = read \cup ({call.name} \X Rows(call))
    <3>1. /\ call.tenant \in Tenant \cup {None} /\ stored \subseteq Entry
          /\ call.name \in Scoped /\ call.tenant # None => {call.tenant} \in SUBSET Tenant
      BY <1>1 DEF Call, TypeOK, LogTypeOK
    <3>2. Nothing \in Result /\ Fits(Nothing)
      BY DEF Nothing, Result
    <3>3. Own \in Result /\ Fits(Own)
      BY <3>1 DEF Own, Result
    <3>4. CASE Return(Nothing, {})
      BY <3>2, <3>4
    <3>5. CASE ListTenants /\ Reads
      <4>1. LET r == [Nothing EXCEPT !.ok = TRUE] IN r \in Result /\ Fits(r)
        BY DEF Nothing, Result
      <4> QED
        BY <3>5, <4>1 DEF ListTenants, Scoped, Rows
    <3>6. CASE Find /\ Reads /\ call.name \in Scoped /\ call.tenant # None /\ call.name # "query_tenant_logs"
      <4>1. Return(Own, {call.tenant}) \/ Return(Nothing, {call.tenant}) \/ Return(Nothing, {})
        BY <3>6 DEF Find, ListTenants, GetTenant, GetTenantHealth, GetTenantMetrics,
           QueryTenantLogs, SummarizeTenantIncidents, Scoped
      <4> QED
        BY <3>1, <3>2, <3>3, <3>6, <4>1 DEF Rows
    <3>7. CASE QueryTenantLogs /\ Reads /\ call.name \in Scoped /\ call.tenant # None
      <4> DEFINE r == [Own EXCEPT !.logs = {e \in stored : about[e] = call.tenant}]
      <4>1. r \in Result /\ Fits(r)
        BY <3>1, <3>7 DEF Own, Result
      <4>2. Return(r, {call.tenant})
        BY <3>7 DEF QueryTenantLogs
      <4> QED
        BY <3>1, <3>7, <4>1, <4>2 DEF Rows
    <3>8. audit' # Append(audit, "error")
      BY <1>1, <1>8
    <3>9. call.name \notin Scoped => call.name = "list_tenants"
      BY <1>1 DEF Tool
    <3>10. call.name = "list_tenants" /\ Find => ListTenants
      BY DEF Find, ListTenants, GetTenant, GetTenantHealth, GetTenantMetrics,
         QueryTenantLogs, SummarizeTenantIncidents
    <3>11. call.name = "query_tenant_logs" /\ Find => QueryTenantLogs
      BY DEF Find, ListTenants, GetTenant, GetTenantHealth, GetTenantMetrics,
         QueryTenantLogs, SummarizeTenantIncidents
    <3>12. Return(Nothing, {}) \/ (Find /\ Reads /\ ~(call.name \in Scoped /\ call.tenant = None))
      BY <3>8 DEF Read
    <3> QED
      BY <3>4, <3>5, <3>6, <3>7, <3>9, <3>10, <3>11, <3>12
  <2>2. PICK result \in Result, tenants \in SUBSET Tenant :
           Return(result, tenants) /\ Fits(result) /\ Shown(tenants)
    BY <2>1
  <2>7. /\ results' = [results EXCEPT ![call.name] = result]
        /\ evidence' = evidence \cup tenants
        /\ calls' = calls + 1 /\ phase' = "called"
    BY <2>2 DEF Return
  <2>3. TypeOK'
    BY <1>1, <1>4, <1>11, <1>8, <2>2, <2>7 DEF TypeOK, LogInv, Phase, Name, Call
  <2>4. UsedIsBelow' /\ BudgetsAgree'
    BY <1>1, <1>3, <1>4, <1>8, <2>7 DEF UsedIsBelow, BudgetsAgree
  <2>5. AuditIsComplete'
    BY <1>1, <1>2, <1>3, <1>4, <1>8, <2>7 DEF AuditIsComplete
  <2>6. ScopeHolds'
    <3>1. Theirs' = Theirs
      BY <1>1 DEF Theirs
    <3>2. ToolsKeepToScope'
      <4>1. call.name # "list_tenants" => call.name \in Scoped
        BY <1>1 DEF Tool
      <4>2. ToolsKeepToScope
        BY DEF ScopeHolds
      <4> QED
        BY <1>1, <1>5, <1>6, <1>12, <3>1, <4>1, <4>2 DEF ToolsKeepToScope
    <3>3. EvidenceWasRead'
      BY <1>14, <2>2, <2>7 DEF ScopeHolds, EvidenceWasRead
    <3>4. LogsAreTheirs'
      BY <1>1, <1>5, <2>2, <2>7, <3>1 DEF ScopeHolds, LogsAreTheirs, TypeOK
    <3> QED
      BY <3>2, <3>3, <3>4 DEF ScopeHolds
  <2> QED
    BY <1>7, <2>3, <2>4, <2>5, <2>6
<1>9. CASE audit' # audit
  <2>1. /\ audit' = Append(audit, "error") /\ phase' = "answered"
        /\ UNCHANGED <<results, evidence, calls, read>>
    BY <1>9 DEF Read, Return, Find, ListTenants, GetTenant, GetTenantHealth, GetTenantMetrics,
       QueryTenantLogs, SummarizeTenantIncidents
  <2>2. \A A : Count(A)' = IF "error" \in A THEN Count(A) + 1 ELSE Count(A)
    <3>1. "error" \in Entries
      BY DEF Entries
    <3> QED
      BY <1>1, <1>3, <2>1, <3>1, CountedAppend
  <2>3. /\ Count({"allowed"} \cup Reason)' = Count({"allowed"} \cup Reason)
        /\ Count({"error"})' = Count({"error"}) + 1
        /\ Count({"allowed"})' = Count({"allowed"})
        /\ Count({"budget"})' = Count({"budget"})
    BY <2>2 DEF Reason
  <2>4. audit' \in Seq(Entries)
    BY <1>1, <2>1 DEF Entries
  <2>5. TypeOK'
    BY <1>1, <2>1, <2>4 DEF TypeOK, LogInv, Phase
  <2>6. UsedIsBelow' /\ BudgetsAgree'
    <3> used \in Nat /\ round' = round /\ used' = used /\ calls' = calls
      BY <1>1, <2>1
    <3>1. used <= MaxToolCalls /\ round <= MaxToolCalls /\ round <= MaxRounds /\ Count({"budget"}) = 0
      BY DEF BudgetsAgree
    <3> QED
      BY <1>1, <1>4, <2>1, <2>3, <3>1 DEF UsedIsBelow, BudgetsAgree
  <2>7. AuditIsComplete'
    <3>1. Count({"allowed"} \cup Reason)' + unknown' = calls' + Reading' + Count({"error"})'
      <4>1. Count({"allowed"} \cup Reason) + unknown = calls + 1 + Count({"error"})
        BY <1>1 DEF AuditIsComplete
      <4> QED
        BY <1>1, <1>4, <1>10, <2>1, <2>3, <4>1
    <3>2. Count({"allowed"})' = used'
      BY <1>1, <2>3 DEF AuditIsComplete
    <3>3. \A i \in DOMAIN audit' : audit'[i] = "error" => i = Len(audit')
      BY <1>1, <1>2, <2>1
    <3> QED
      BY <2>1, <3>1, <3>2, <3>3 DEF AuditIsComplete
  <2>8. ScopeHolds'
    BY <1>1, <2>1 DEF ScopeHolds, ToolsKeepToScope, EvidenceWasRead, LogsAreTheirs, Theirs
  <2> QED
    BY <1>7, <2>5, <2>6, <2>7, <2>8
<1> QED
  BY <1>8, <1>9

\* The logs only grow, and no entry that is stored changes its tenant.
LEMMA LogsBeside ==
    ASSUME IInv, LogInv', Logs \/ UNCHANGED logVars, UNCHANGED runVars
    PROVE  RunInv'
<1> USE DEF IInv, RunInv
<1>1. UNCHANGED <<request, tooling, tools, scope, phase, call, round, calls, used, audit,
                  evidence, results, unknown, read>>
  BY DEF runVars
<1>2. TypeOK'
  BY <1>1 DEF TypeOK, LogInv
<1>3. PolicyIsMade' /\ CallIsAllowed' /\ UsedIsBelow' /\ TurnsAreLeft' /\ RoundBegins'
  BY <1>1 DEF PolicyIsMade, CallIsAllowed, UsedIsBelow, TurnsAreLeft, RoundBegins, Reading, Scope
<1>4. BudgetsAgree' /\ AuditIsComplete'
  BY <1>1 DEF BudgetsAgree, AuditIsComplete, Reading, Count
<1>5. \A e \in stored : e \in stored' /\ about'[e] = about[e]
  BY DEF LogInv, LogTypeOK, StoredOnReceipt, Logs, logVars, Receive, InsertLog, FailInsertLog,
     Broadcast, Subscribe, Decline, Close
<1>6. ScopeHolds'
  BY <1>1, <1>5 DEF ScopeHolds, ToolsKeepToScope, EvidenceWasRead, LogsAreTheirs, Theirs
<1> QED
  BY <1>2, <1>3, <1>4, <1>6

LEMMA IInvStep == IInv /\ [Next]_vars => IInv'
<1> SUFFICES ASSUME IInv, [Next]_vars PROVE IInv'
  OBVIOUS
<1>1. LogInv'
  BY LogInvStep DEF IInv, Next, vars
<1>2. CASE Run /\ UNCHANGED logVars
  BY <1>1, <1>2, TurnSteps, CallStep, ReadStep DEF Run, IInv
<1>3. CASE (Logs \/ UNCHANGED logVars) /\ UNCHANGED runVars
  BY <1>1, <1>3, LogsBeside DEF IInv
<1> QED
  BY <1>2, <1>3 DEF Next, vars

-----------------------------------------------------------------------------
(* A run ends: the part of RunEnds that needs no fairness.                 *)

\* What a run has left: the turns and the calls within the limits, and how far
\* it is within a turn.
Left ==
    LET within == CASE phase = "arrived" -> 4
                    [] phase = "invoking" -> 3
                    [] phase \in {"calling", "called"} -> 2
                    [] OTHER -> 1
    IN  IF phase \in {"answered", "refused"} THEN 0
        ELSE 4 * (MaxRounds - round) + 3 * (MaxToolCalls - calls) + within

\* No run has more left than one that begins.
LEMMA LeftBounded == IInv => Left \in 0 .. 4 * MaxRounds + 3 * MaxToolCalls + 4
<1> SUFFICES ASSUME IInv PROVE Left \in 0 .. 4 * MaxRounds + 3 * MaxToolCalls + 4
  OBVIOUS
<1>1. /\ MaxRounds \in Nat /\ MaxToolCalls \in Nat /\ round \in Nat /\ calls \in Nat
      /\ round <= MaxRounds /\ calls <= MaxToolCalls
  BY AgentAssumption DEF IInv, RunInv, TypeOK, BudgetsAgree, Reading
<1> QED
  BY <1>1 DEF Left

\* Each step of a run leaves less than there was.
LEMMA LeftDecreases ==
    ASSUME IInv, IInv', Run
    PROVE  Left' < Left
<1>1. /\ MaxRounds \in Nat /\ MaxToolCalls \in Nat /\ round \in Nat /\ calls \in Nat
      /\ round <= MaxRounds /\ calls <= MaxToolCalls
  BY AgentAssumption DEF IInv, RunInv, TypeOK, BudgetsAgree, Reading
<1>2. CASE Authenticate
  <2>1. phase = "arrived" /\ phase' \in {"invoking", "final", "refused"} /\ UNCHANGED <<round, calls>>
    BY <1>2 DEF Authenticate, Turn
  <2> QED
    BY <1>1, <2>1 DEF Left
<1>3. CASE Invoke \/ Conclude
  BY <1>1, <1>3 DEF Invoke, Conclude, Left
<1>4. ASSUME NEW c \in Calls, MakeCall(c)
      PROVE  Left' < Left
  <2>1. /\ phase \in {"calling", "called"} /\ round' = round
        /\ \/ phase' = "called" /\ calls' = calls + 1
           \/ phase' = "reading" /\ calls' = calls
    BY <1>4 DEF MakeCall, Refuse
  <2> QED
    BY <1>1, <2>1 DEF Left
<1>5. CASE MakeBrokenCall
  BY <1>1, <1>5 DEF MakeBrokenCall, Left
<1>6. CASE Read
  <2>1. /\ phase = "reading" /\ round' = round
        /\ \/ phase' = "called" /\ calls' = calls + 1
           \/ phase' = "answered"
    BY <1>6 DEF Read, Return, Find, ListTenants, GetTenant, GetTenantHealth, GetTenantMetrics,
       QueryTenantLogs, SummarizeTenantIncidents
  <2> QED
    BY <1>1, <2>1 DEF Left
<1>7. CASE EndTurn
  <2>1. /\ phase \in {"calling", "called"} /\ phase' \in {"invoking", "final"}
        /\ round' = round + 1 /\ calls' = calls
    BY <1>7 DEF EndTurn, Turn
  <2> QED
    BY <1>1, <2>1 DEF Left
<1> QED
  BY <1>2, <1>3, <1>4, <1>5, <1>6, <1>7 DEF Run

-----------------------------------------------------------------------------
\* What the properties rest on: how the logs and the run stand to each other.
THEOREM Invariance == Spec => []IInv
BY RunInvInit, IInvStep, PTL DEF Spec

\* Every variable keeps its type.
THEOREM TypeCorrect == Spec => []TypeOK
<1>1. IInv => TypeOK
  BY DEF IInv, RunInv
<1> QED
  BY <1>1, Invariance, PTL

\* Whatever the limits are and whatever the model asks for, the runner stops
\* before the governance would have to deny a call for its number.
THEOREM BudgetsAlwaysAgree == Spec => []BudgetsAgree
<1>1. IInv => BudgetsAgree
  BY DEF IInv, RunInv
<1> QED
  BY <1>1, Invariance, PTL

\* Every call is in the audit but those of names that are no tool's, and an
\* error ends it.
THEOREM AuditComplete == Spec => []AuditIsComplete
<1>1. IInv => AuditIsComplete
  BY DEF IInv, RunInv
<1> QED
  BY <1>1, Invariance, PTL

\* For any operator, any policy and any tenants, tools read within the scope.
THEOREM ScopeAlwaysHolds == Spec => []ScopeHolds
<1>1. IInv => ScopeHolds
  BY DEF IInv, RunInv
<1> QED
  BY <1>1, Invariance, PTL

\* However many entries and sockets come and go, an open socket has been sent
\* what was answered for its tenant since it came, and nothing else.
THEOREM SubscribersSee == Spec => []SubscribersSeeTheLogs
<1>1. IInv => SubscribersSeeTheLogs
  BY DEF IInv, LogInv, StoredOnReceipt, SentIsAnswered, OpenListens, SubscribersSeeTheLogs, Answered
<1> QED
  BY <1>1, Invariance, PTL

\* Whatever the model asks for, every step of the run brings it nearer to its
\* end, and none of them leaves more than the limits allow: a run takes at most
\* 4 * MaxRounds + 3 * MaxToolCalls + 4 steps, so that it ends if its model and
\* its database answer or fail.
THEOREM RunIsBounded ==
    Spec => /\ [](Left \in 0 .. 4 * MaxRounds + 3 * MaxToolCalls + 4)
            /\ [][(Run => Left' < Left) /\ (~Run => Left' = Left)]_vars
<1>1. ASSUME IInv, IInv', [Next]_vars
      PROVE  [(Run => Left' < Left) /\ (~Run => Left' = Left)]_vars
  <2>1. CASE Run
    BY <1>1, <2>1, LeftDecreases
  <2>2. CASE ~Run
    <3>1. UNCHANGED <<phase, round, calls>>
      BY <1>1, <2>2 DEF Next, vars, runVars
    <3>2. Left' = Left
      BY <3>1 DEF Left
    <3> QED
      BY <2>2, <3>2
  <2> QED
    BY <2>1, <2>2
<1> QED
  BY <1>1, LeftBounded, Invariance, PTL DEF Spec

\* However its INSERT fails or is late and however sockets break and close, a
\* log entry is published once and at once to all who follow its tenant.
THEOREM FeedRefinement == Spec => ImplementsFeed
<1>1. Init => NamesATenant /\ Feed!Init
  BY DEF Init, LogInit, NamesATenant, Feed!Init, Published, Stage
<1>2. [Next]_vars => Logs \/ UNCHANGED logVars
  BY DEF Next, vars
<1> QED
  BY <1>1, <1>2, NamesATenantStep, FeedStep, Invariance, PTL
     DEF Spec, IInv, ImplementsFeed, Feed!Spec

=============================================================================
