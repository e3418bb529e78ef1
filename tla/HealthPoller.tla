---------------------------- MODULE HealthPoller ----------------------------
(***************************************************************************)
(* The control plane's health poller, over the table of tenants that       *)
(* operators change meanwhile.  A poll reads the tenants that are not      *)
(* offboarded and, for all of them at once, asks the API and the agent for *)
(* their health and the API for its metrics.  Nothing keeps polls apart,   *)
(* and a health row is stamped when it is inserted.                        *)
(***************************************************************************)
EXTENDS TenantRegistry

CONSTANTS
    MaxPoll,  \* bound: polls in a behaviour
    Probes    \* the parts of a tenant's check that are followed; they run apart

Poll == 1..MaxPoll
Service == {"api", "agent"}
Kind == Service \cup {"metrics"}

ASSUME PollerAssumption == MaxPoll \in Nat /\ Probes \in [Tenant -> SUBSET Kind]

VARIABLES
    timer,   \* the interval is active
    poll,    \* how far each poll is
    listed,  \* the tenants its SELECT found, and which of them have an agent
    check,   \* how far its check of a tenant is, per probe
    health,  \* health_checks, each row with the poll that inserted it
    latest,  \* the row inserted last, per tenant and service
    metrics, \* metrics_snapshots and server_info_snapshots
    faulty,  \* history: the checks one of whose INSERTs failed
    crossed  \* history: the services whose check began before an older poll was done with them

pollerVars == <<timer, poll, listed, check, health, latest, metrics, faulty, crossed>>
vars == <<registryVars, pollerVars, failures>>

HealthRow == [poll : Poll, tenant : Tenant, service : Service, status : {"up", "down"}]
MetricsRow == [poll : Poll, tenant : Tenant, table : {"metrics_snapshots", "server_info_snapshots"}]
Probe == Poll \X Tenant \X Kind
\* A check is none, asks its service, writes the row of an answer or of a
\* failure, or is over.  "information" is the second INSERT of the metrics.
Underway == {"asking", "answered", "failing", "information"}
Step == {"none", "ended", "lost"} \cup Underway

TypeOK ==
    /\ RegistryTypeOK
    /\ timer \in BOOLEAN
    /\ poll \in [Poll -> {"idle", "listing", "listed", "checking", "dead"}]
    /\ listed \in [Poll -> SUBSET (Tenant \X BOOLEAN)]
    /\ check \in [Probe -> Step]
    /\ health \subseteq HealthRow
    /\ latest \in [Tenant \X Service -> HealthRow \cup {None}]
    /\ metrics \subseteq MetricsRow
    /\ faulty \subseteq Probe
    /\ crossed \subseteq Tenant \X Service

Init ==
    /\ RegistryInit
    /\ timer = FALSE
    /\ poll = [p \in Poll |-> "idle"]
    /\ listed = [p \in Poll |-> {}]
    /\ check = [c \in Probe |-> "none"]
    /\ health = {}
    /\ latest = [x \in Tenant \X Service |-> None]
    /\ metrics = {}
    /\ faulty = {}
    /\ crossed = {}

Begin(p) ==
    /\ poll[p] = "idle" /\ \A q \in Poll : q < p => poll[q] # "idle"
    /\ poll' = [poll EXCEPT ![p] = "listing"]

\* onReady: the interval starts, and the first poll at once.
Start(p) ==
    /\ ~timer
    /\ timer' = TRUE
    /\ Begin(p)
    /\ UNCHANGED <<registryVars, failures, listed, check, health, latest, metrics, faulty, crossed>>

\* The interval calls poll again, however far the last one is.
Tick(p) ==
    /\ timer
    /\ Begin(p)
    /\ UNCHANGED <<registryVars, failures, timer, listed, check, health, latest, metrics, faulty, crossed>>

\* onClose; polls under way go on.
Stop ==
    /\ timer
    /\ timer' = FALSE
    /\ UNCHANGED <<registryVars, failures, poll, listed, check, health, latest, metrics, faulty, crossed>>

\* Mutant: the poller asks for all tenants.
FindAllEver(p) ==
    /\ poll[p] = "listing"
    /\ poll' = [poll EXCEPT ![p] = "listed"]
    /\ listed' = [listed EXCEPT ![p] = {<<t, row[t].agent>> : t \in {u \in Tenant : Exists(u)}}]
    /\ UNCHANGED <<registryVars, failures, timer, check, health, latest, metrics, faulty, crossed>>

\* The SELECT of findAll runs.
FindAll(p) ==
    /\ poll[p] = "listing"
    /\ poll' = [poll EXCEPT ![p] = "listed"]
    /\ listed' = [listed EXCEPT ![p] = {<<t, row[t].agent>> : t \in Listed}]
    /\ UNCHANGED <<registryVars, failures, timer, check, health, latest, metrics, faulty, crossed>>

\* The process is gone: what was asked is lost, INSERTs it sent may still run.
Die ==
    /\ timer' = FALSE
    /\ poll' = [p \in Poll |-> IF poll[p] = "idle" THEN "idle" ELSE "dead"]
    /\ check' = [c \in Probe |-> IF check[c] = "asking" THEN "lost" ELSE check[c]]

\* findAll rejects and nothing catches it: an unhandled rejection.
FailFindAll(p) ==
    /\ poll[p] = "listing" /\ failures < MaxFailures
    /\ failures' = failures + 1
    /\ Die
    /\ UNCHANGED <<registryVars, listed, health, latest, metrics, faulty, crossed>>

\* checkTenant asks an agent only if the row it was given has its URL.
Asks(p, t, kind) ==
    /\ kind \in Probes[t]
    /\ \E a \in BOOLEAN : <<t, a>> \in listed[p] /\ (kind = "agent" => a)

\* Its answer arrives: every tenant on the list is asked at once.
CheckTenants(p) ==
    /\ poll[p] = "listed"
    /\ poll' = [poll EXCEPT ![p] = "checking"]
    /\ check' = [c \in Probe |->
                   IF c[1] = p /\ Asks(p, c[2], c[3]) THEN "asking" ELSE check[c]]
    /\ crossed' = crossed \cup {x \in Tenant \X Service :
                     /\ Asks(p, x[1], x[2])
                     /\ \E q \in 1..(p - 1) : \/ poll[q] \in {"listing", "listed"}
                                            \/ check[<<q, x[1], x[2]>>] \in Underway}
    /\ UNCHANGED <<registryVars, failures, timer, listed, health, latest, metrics, faulty>>

Goto(c, s) == check' = [check EXCEPT ![c] = s]
Alive(c) == poll[c[1]] # "dead"

\* The fetch is answered, with whatever HTTP status, or it throws, by the
\* timeout at the latest.  Metrics are only kept of a good answer.
Hear(c) ==
    /\ check[c] = "asking"
    /\ \/ Goto(c, "answered")
       \/ Goto(c, IF c[3] = "metrics" THEN "ended" ELSE "failing")
    /\ UNCHANGED <<registryVars, failures, timer, poll, listed, health, latest, metrics, faulty, crossed>>

Insert(c, status) ==
    LET r == [poll |-> c[1], tenant |-> c[2], service |-> c[3], status |-> status]
    IN  /\ health' = health \cup {r}
        /\ latest' = [latest EXCEPT ![<<c[2], c[3]>>] = r]

Says(c) == IF check[c] = "answered" THEN "up" ELSE "down"

\* Mutant: what asks for the metrics ends as a check of a service.
RecordHealthOfAny(c) ==
    /\ check[c] \in {"answered", "failing"}
    /\ Insert(c, Says(c))
    /\ Goto(c, "ended")
    /\ UNCHANGED <<registryVars, failures, timer, poll, listed, metrics, faulty, crossed>>

\* Mutant: a service that was recorded as down is asked again at once.
RecordHealthRetries(c) ==
    /\ c[3] \in Service /\ check[c] \in {"answered", "failing"}
    /\ Insert(c, Says(c))
    /\ Goto(c, IF check[c] = "answered" THEN "ended" ELSE "asking")
    /\ UNCHANGED <<registryVars, failures, timer, poll, listed, metrics, faulty, crossed>>

\* recordHealth.
RecordHealth(c) ==
    /\ c[3] \in Service /\ check[c] \in {"answered", "failing"}
    /\ Insert(c, Says(c))
    /\ Goto(c, "ended")
    /\ UNCHANGED <<registryVars, failures, timer, poll, listed, metrics, faulty, crossed>>

\* recordHealth throws, before or after its INSERT took effect.  That of an
\* answer is inside the try block, so the service is recorded as down; that
\* of the catch block ends the check, and allSettled hides it.
FailRecordHealth(c) ==
    /\ c[3] \in Service /\ check[c] \in {"answered", "failing"}
    /\ failures < MaxFailures
    /\ failures' = failures + 1
    /\ faulty' = faulty \cup {c}
    /\ Insert(c, Says(c)) \/ UNCHANGED <<health, latest>>
    /\ Goto(c, IF check[c] = "answered" /\ Alive(c) THEN "failing" ELSE "ended")
    /\ UNCHANGED <<registryVars, timer, poll, listed, metrics, crossed>>

InsertMetrics(c, table) ==
    metrics' = metrics \cup {[poll |-> c[1], tenant |-> c[2], table |-> table]}

\* collectMetrics: recordMetrics, then recordServerInfo if the answer had a
\* system part.
RecordMetrics(c) ==
    /\ c[3] = "metrics"
    /\ \/ /\ check[c] = "answered"
          /\ InsertMetrics(c, "metrics_snapshots")
          /\ Goto(c, "ended") \/ (Alive(c) /\ Goto(c, "information"))
       \/ /\ check[c] = "information"
          /\ InsertMetrics(c, "server_info_snapshots")
          /\ Goto(c, "ended")
    /\ UNCHANGED <<registryVars, failures, timer, poll, listed, health, latest, faulty, crossed>>

\* Either INSERT throws and is swallowed, with what would have followed it.
FailRecordMetrics(c) ==
    /\ c[3] = "metrics" /\ check[c] \in {"answered", "information"}
    /\ failures < MaxFailures
    /\ failures' = failures + 1
    /\ faulty' = faulty \cup {c}
    /\ \/ UNCHANGED metrics
       \/ InsertMetrics(c, IF check[c] = "answered" THEN "metrics_snapshots"
                                                   ELSE "server_info_snapshots")
    /\ Goto(c, "ended")
    /\ UNCHANGED <<registryVars, timer, poll, listed, health, latest, crossed>>

Continue(c) ==
    \/ Hear(c)
    \/ RecordHealth(c) \/ FailRecordHealth(c)
    \/ RecordMetrics(c) \/ FailRecordMetrics(c)

Next ==
    \/ \E t \in Tenant : Registry(t) /\ UNCHANGED pollerVars
    \/ Stop
    \/ \E p \in Poll : Start(p) \/ Tick(p) \/ FindAll(p) \/ FailFindAll(p) \/ CheckTenants(p)
    \/ \E c \in Probe : Continue(c)

Spec == Init /\ [][Next]_vars

-----------------------------------------------------------------------------
(* Properties.                                                             *)

RowsOf(t) == {r \in health : r.tenant = t}

\* A check none of whose INSERTs failed leaves exactly one row.  The row that
\* GET /tenants shows is the newest poll's, unless its check began before
\* an older poll was done with the service, and of an answer that could not be recorded and
\* the failure recorded instead it is the failure.
HealthFollowsChecks ==
    /\ \A c \in Poll \X Tenant \X Service :
          check[c] = "ended" /\ c \notin faulty =>
              \E s \in {"up", "down"} :
                  {r \in RowsOf(c[2]) : r.poll = c[1] /\ r.service = c[3]}
                    = {[poll |-> c[1], tenant |-> c[2], service |-> c[3], status |-> s]}
    /\ \A x \in (Tenant \X Service) \ crossed :
          \A r \in {h \in RowsOf(x[1]) : h.service = x[2]} :
              /\ r.poll <= latest[x].poll
              /\ r.poll = latest[x].poll /\ r # latest[x] => latest[x].status = "down"

\* Whether a poll still deals with a tenant.
Polled(t) ==
    \/ \E p \in Poll : poll[p] = "listed" /\ \E a \in BOOLEAN : <<t, a>> \in listed[p]
    \/ \E c \in Probe : c[2] = t /\ check[c] \in Underway

\* Once a tenant is offboarded it stays so, and when the polls that had read it
\* before are over, no poll asks its services and no row of its health is
\* written again, whatever operators do to it.
OffboardedIsLeftAlone ==
    [][\A t \in Tenant : Offboarded(t) =>
          /\ Offboarded(t)'
          /\ ~Polled(t) => ~Polled(t)' /\ RowsOf(t)' = RowsOf(t)]_vars

=============================================================================
