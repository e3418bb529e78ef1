------------------------ MODULE MonitoringScheduler ------------------------
(***************************************************************************)
(* The agent service's monitoring loop for one tenant.  An interval timer  *)
(* and POST /agent/monitor/run both call runOnce; nothing keeps two runs   *)
(* apart.  A run reads the tenant's config, builds an agent, lets it work, *)
(* and stores its result in memory and then under monitor:last-run:<t>.    *)
(* The service's Redis commands share one connection and run in the order  *)
(* they were issued.  A run that throws rejects its promise: on an HTTP    *)
(* call that is a 500, on a tick (void this.runOnce()) an unhandled        *)
(* rejection, which ends the process.                                      *)
(***************************************************************************)
EXTENDS Sequences

CONSTANTS
    Run,      \* the calls of runOnce
    Enabled,  \* MONITORING_ENABLED
    None

ASSUME EnabledAssumption == Enabled \in BOOLEAN
Result == [run : Run, status : {"success", "error"}]

ASSUME NoneAssumption == None \notin Run \cup Result

VARIABLES
    alive,       \* the process runs
    timer,       \* setInterval is active
    running,     \* the status flag
    lastRunAt,   \* the run whose start the status shows
    lastResult,  \* the status's result: which run and how it ended
    lastError,   \* the status's error: the run whose message it is
    sets,        \* SETs of monitor:last-run that were issued and have not run
    key,         \* the value of monitor:last-run
    pc,          \* how far each run is
    origin       \* who called it

vars == <<alive, timer, running, lastRunAt, lastResult, lastError, sets, key, pc, origin>>

Active == {"reading", "building", "invoking", "storing", "storingError", "pushing"}
Ended == {"ended", "thrown", "lost"}

TypeOK ==
    /\ alive \in BOOLEAN
    /\ timer \in BOOLEAN
    /\ running \in BOOLEAN
    /\ lastRunAt \in Run \cup {None}
    /\ lastResult \in Result \cup {None}
    /\ lastError \in Run \cup {None}
    /\ sets \in Seq(Result)
    /\ key \in Result \cup {None}
    /\ pc \in [Run -> {"idle"} \cup Active \cup Ended]
    /\ origin \in [Run -> {"tick", "http", None}]

Init ==
    /\ alive = FALSE
    /\ timer = FALSE
    /\ running = FALSE
    /\ lastRunAt = None
    /\ lastResult = None
    /\ lastError = None
    /\ sets = <<>>
    /\ key = None
    /\ pc = [r \in Run |-> "idle"]
    /\ origin = [r \in Run |-> None]

Goto(r, s) == pc' = [pc EXCEPT ![r] = s]

\* The server becomes ready: a fresh scheduler, started if it is enabled.
Ready ==
    /\ ~alive
    /\ alive' = TRUE
    /\ timer' = Enabled
    /\ running' = FALSE
    /\ lastResult' = None
    /\ lastError' = None
    /\ lastRunAt' = None
    /\ UNCHANGED <<sets, key, pc, origin>>

\* onClose stops the timer; runs under way go on.
Stop ==
    /\ timer
    /\ timer' = FALSE
    /\ UNCHANGED <<alive, running, lastRunAt, lastResult, lastError, sets, key, pc, origin>>

\* runOnce up to its first await.
Begin(r, o) ==
    /\ pc[r] = "idle"
    /\ alive /\ (o = "tick" => timer)
    /\ running' = TRUE
    /\ lastRunAt' = r
    /\ origin' = [origin EXCEPT ![r] = o]
    /\ Goto(r, "reading")
    /\ UNCHANGED <<alive, timer, lastResult, lastError, sets, key>>

\* The config was read, or the agent was built: on to the next await.
Advance(r) ==
    /\ \/ pc[r] = "reading" /\ Goto(r, "building")
       \/ pc[r] = "building" /\ Goto(r, "invoking")
    /\ UNCHANGED <<alive, timer, running, lastRunAt, lastResult, lastError, sets, key, origin>>

\* Mutant: the error is stored as a word and not as the run's.
StoreWord(r, status) ==
    /\ lastResult' = [run |-> r, status |-> status]
    /\ lastError' = IF status = "error" THEN "error" ELSE None
    /\ Goto(r, IF status = "error" THEN "storingError" ELSE "storing")

\* Mutant: a success leaves the error of an earlier run in place.
StoreKeepsError(r, status) ==
    /\ lastResult' = [run |-> r, status |-> status]
    /\ lastError' = IF status = "error" THEN r ELSE lastError
    /\ Goto(r, IF status = "error" THEN "storingError" ELSE "storing")

\* A run has its outcome: in memory at once, and a SET is issued.
Store(r, status) ==
    /\ lastResult' = [run |-> r, status |-> status]
    /\ lastError' = IF status = "error" THEN r ELSE None
    /\ Goto(r, IF status = "error" THEN "storingError" ELSE "storing")

\* The agent answered.
Succeed(r) ==
    /\ pc[r] = "invoking"
    /\ Store(r, "success")
    /\ sets' = Append(sets, [run |-> r, status |-> "success"])
    /\ UNCHANGED <<alive, timer, running, lastRunAt, key, origin>>

\* The config, the model factory, a plugin or the model threw: the catch block.
Throw(r) ==
    /\ pc[r] \in {"reading", "building", "invoking"}
    /\ Store(r, "error")
    /\ sets' = Append(sets, [run |-> r, status |-> "error"])
    /\ UNCHANGED <<alive, timer, running, lastRunAt, key, origin>>

\* The oldest SET runs, its reply arrives, and the run pushes its log line.
RunSet ==
    /\ sets # <<>>
    /\ key' = Head(sets)
    /\ sets' = Tail(sets)
    /\ Goto(Head(sets).run, "pushing")
    /\ UNCHANGED <<alive, timer, running, lastRunAt, lastResult, lastError, origin>>

\* Mutant: the catch block of a failed SET only logs.
FailSetLogs ==
    /\ sets # <<>> /\ Head(sets).status = "success"
    /\ LET r == Head(sets).run
       IN  /\ lastResult' = [run |-> r, status |-> "error"]
           /\ lastError' = r
           /\ Goto(r, "pushing")
    /\ sets' = Tail(sets)
    /\ key' \in {key, Head(sets)}
    /\ UNCHANGED <<alive, timer, running, lastRunAt, origin>>

\* The oldest SET of a successful run fails, before or after it took effect:
\* the catch block turns the run into a failed one and tries again.
FailSet ==
    /\ sets # <<>> /\ Head(sets).status = "success"
    /\ LET r == Head(sets).run
       IN  /\ Store(r, "error")
           /\ sets' = Append(Tail(sets), [run |-> r, status |-> "error"])
    /\ key' \in {key, Head(sets)}
    /\ UNCHANGED <<alive, timer, running, lastRunAt, origin>>

\* Mutant: running is cleared after the last await instead of in a finally.
FailErrorSetNoFinally ==
    /\ sets # <<>> /\ Head(sets).status = "error"
    /\ key' \in {key, Head(sets)}
    /\ sets' = Tail(sets)
    /\ Goto(Head(sets).run, "thrown")
    /\ UNCHANGED <<alive, timer, running, lastRunAt, lastResult, lastError, origin>>

\* The SET of the catch block fails, and nothing catches that: only the
\* finally block runs.  A tick's rejection takes the process with it.
FailErrorSet ==
    /\ sets # <<>> /\ Head(sets).status = "error"
    /\ running' = FALSE
    /\ key' \in {key, Head(sets)}
    /\ LET r == Head(sets).run
       IN  IF origin[r] = "tick"
             THEN /\ alive' = FALSE /\ timer' = FALSE
                  /\ sets' = <<>>
                  /\ pc' = [q \in Run |-> IF q = r THEN "thrown"
                                          ELSE IF pc[q] \in Active THEN "lost" ELSE pc[q]]
             ELSE /\ sets' = Tail(sets)
                  /\ Goto(r, "thrown")
                  /\ UNCHANGED <<alive, timer>>
    /\ UNCHANGED <<lastRunAt, lastResult, lastError, origin>>

\* Mutant: a run that ends forgets the flag.
EndStaysRunning(r) ==
    /\ pc[r] = "pushing"
    /\ Goto(r, "ended")
    /\ UNCHANGED <<alive, timer, running, lastRunAt, lastResult, lastError, sets, key, origin>>

\* The log push came back, delivered or not; the finally block ends the run.
End(r) ==
    /\ pc[r] = "pushing"
    /\ running' = FALSE
    /\ Goto(r, "ended")
    /\ UNCHANGED <<alive, timer, lastRunAt, lastResult, lastError, sets, key, origin>>

\* The process is killed; what it had in memory is gone.
Crash ==
    /\ alive
    /\ alive' = FALSE /\ timer' = FALSE
    /\ running' = FALSE
    /\ sets' = <<>>
    /\ pc' = [r \in Run |-> IF pc[r] \in Active THEN "lost" ELSE pc[r]]
    /\ UNCHANGED <<lastRunAt, lastResult, lastError, key, origin>>

Continue(r) == Advance(r) \/ Succeed(r) \/ Throw(r) \/ End(r)
Redis == RunSet \/ FailSet \/ FailErrorSet

Next ==
    \/ Ready \/ Stop \/ Crash \/ Redis
    \/ \E r \in Run : Continue(r) \/ \E o \in {"tick", "http"} : Begin(r, o)

Spec == Init /\ [][Next]_vars

\* Every call a run awaits settles: Redis answers or fails, and so do the
\* model, the plugins and the control plane.
FairSpec == Spec /\ WF_vars(Redis) /\ \A r \in Run : WF_vars(Continue(r))

-----------------------------------------------------------------------------
(* Properties.                                                             *)

\* A service with no run under way never reports one, whatever failed.
IdleIsNotRunning ==
    (\A r \in Run : pc[r] \notin Active) => ~running

\* The error the status shows is the error of the result it shows.
ErrorOfResult ==
    lastError = IF lastResult # None /\ lastResult.status = "error"
                  THEN lastResult.run ELSE None

\* Once the issued SETs have run, Redis and the status agree on the last
\* result, in whatever order overlapping runs ended; only a run that could
\* not store even its failure, or a restart, leaves them apart.
KeyFollowsLastResult ==
    sets = <<>> /\ alive /\ lastResult # None /\ pc[lastResult.run] # "thrown"
        => key = lastResult

\* "running" is cleared after every run.
RunningClears == running ~> ~running

\* 2026-05-19-client-monitoring-agent-design.md: the scheduler must "never
\* throw from background interval ticks".
TicksNeverThrow ==
    \A r \in Run : origin[r] = "tick" => pc[r] # "thrown"

=============================================================================
