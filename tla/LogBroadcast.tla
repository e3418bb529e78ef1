---------------------------- MODULE LogBroadcast ----------------------------
(***************************************************************************)
(* The control plane's logs.  POST /logs/receive inserts an entry and then *)
(* sends it to the WebSockets that subscribed to its tenant or to all.     *)
(* The set of subscribers is shared by every request; sockets connect,     *)
(* break and close between any two steps of it.                            *)
(***************************************************************************)
CONSTANTS
    Tenant,
    Entry,   \* the entries that are received
    Socket,
    None

ASSUME LogAssumption == None \notin Tenant

VARIABLES
    receipt,      \* how far the request with an entry is, or its answer
    about,        \* the tenant an entry names
    stored,       \* server_logs
    socket,       \* the readyState; a broken socket is open and its send throws
    filter,       \* the tenant a socket subscribed to, None for all
    subscribers,
    sent,         \* what a socket was sent
    before        \* history: the entries that were answered when it connected

logVars == <<receipt, about, stored, socket, filter, subscribers, sent, before>>

LogTypeOK ==
    /\ receipt \in [Entry -> {"none", "inserting", "inserted", "202", "500"}]
    /\ about \in [Entry -> Tenant \cup {None}]
    /\ stored \subseteq Entry
    /\ socket \in [Socket -> {"none", "open", "broken", "closing", "closed"}]
    /\ filter \in [Socket -> Tenant \cup {None}]
    /\ subscribers \subseteq Socket
    /\ sent \in [Socket -> SUBSET Entry]
    /\ before \in [Socket -> SUBSET Entry]

LogInit ==
    /\ receipt = [e \in Entry |-> "none"]
    /\ about = [e \in Entry |-> None]
    /\ stored = {}
    /\ socket = [s \in Socket |-> "none"]
    /\ filter = [s \in Socket |-> None]
    /\ subscribers = {}
    /\ sent = [s \in Socket |-> {}]
    /\ before = [s \in Socket |-> {}]

Answered == {e \in Entry : receipt[e] = "202"}
Matches(s, e) == filter[s] \in {None, about[e]}

\* A valid entry arrives; its INSERT is sent.
Receive(e, t) ==
    /\ receipt[e] = "none"
    /\ receipt' = [receipt EXCEPT ![e] = "inserting"]
    /\ about' = [about EXCEPT ![e] = t]
    /\ UNCHANGED <<stored, socket, filter, subscribers, sent, before>>

InsertLog(e) ==
    /\ receipt[e] = "inserting"
    /\ receipt' = [receipt EXCEPT ![e] = "inserted"]
    /\ stored' = stored \cup {e}
    /\ UNCHANGED <<about, socket, filter, subscribers, sent, before>>

\* Mutant: an entry that cannot be stored is still worth showing.
FailInsertLogShows(e) ==
    /\ receipt[e] = "inserting"
    /\ receipt' = [receipt EXCEPT ![e] = "inserted"]
    /\ stored' \in {stored, stored \cup {e}}
    /\ UNCHANGED <<about, socket, filter, subscribers, sent, before>>

\* The INSERT throws, on a tenant that has no row or with a database that
\* fails, before or after it took effect: a 500, and nothing is broadcast.
FailInsertLog(e) ==
    /\ receipt[e] = "inserting"
    /\ receipt' = [receipt EXCEPT ![e] = "500"]
    /\ stored' \in {stored, stored \cup {e}}
    /\ UNCHANGED <<about, socket, filter, subscribers, sent, before>>

\* Mutant: the state of a socket is not asked before it is sent to.
BroadcastUnasked(e) ==
    /\ receipt[e] = "inserted"
    /\ receipt' = [receipt EXCEPT ![e] = "202"]
    /\ LET addressed == {s \in subscribers : Matches(s, e)}
       IN  /\ subscribers' = subscribers \ {s \in addressed : socket[s] = "broken"}
           /\ sent' = [s \in Socket |-> IF s \in addressed /\ socket[s] # "broken"
                                          THEN sent[s] \cup {e} ELSE sent[s]]
    /\ UNCHANGED <<about, stored, socket, filter, before>>

\* The reply of the INSERT arrives: broadcast, and the 202.  A subscriber that
\* is not open, or whose send throws, is dropped.
Broadcast(e) ==
    /\ receipt[e] = "inserted"
    /\ receipt' = [receipt EXCEPT ![e] = "202"]
    /\ LET addressed == {s \in subscribers : Matches(s, e)}
       IN  /\ subscribers' = subscribers \ {s \in addressed : socket[s] # "open"}
           /\ sent' = [s \in Socket |-> IF s \in addressed /\ socket[s] = "open"
                                          THEN sent[s] \cup {e} ELSE sent[s]]
    /\ UNCHANGED <<about, stored, socket, filter, before>>

\* GET /ws/logs and /ws/logs/:tenantId: subscribe, and listen for its end.
Subscribe(s, f) ==
    /\ socket[s] = "none"
    /\ socket' = [socket EXCEPT ![s] = "open"]
    /\ filter' = [filter EXCEPT ![s] = f]
    /\ subscribers' = subscribers \cup {s}
    /\ before' = [before EXCEPT ![s] = Answered]
    /\ UNCHANGED <<receipt, about, stored, sent>>

\* The connection breaks unnoticed, or either side begins to close it.
Decline(s) ==
    /\ \/ socket[s] = "open" /\ socket' = [socket EXCEPT ![s] = "broken"]
       \/ socket[s] \in {"open", "broken"} /\ socket' = [socket EXCEPT ![s] = "closing"]
    /\ UNCHANGED <<receipt, about, stored, filter, subscribers, sent, before>>

\* The close event.
Close(s) ==
    /\ socket[s] = "closing"
    /\ socket' = [socket EXCEPT ![s] = "closed"]
    /\ subscribers' = subscribers \ {s}
    /\ UNCHANGED <<receipt, about, stored, filter, sent, before>>

Logs ==
    \/ \E e \in Entry : \/ \E t \in Tenant : Receive(e, t)
                        \/ InsertLog(e) \/ FailInsertLog(e) \/ Broadcast(e)
    \/ \E s \in Socket : \/ \E f \in Tenant \cup {None} : Subscribe(s, f)
                         \/ Decline(s) \/ Close(s)

-----------------------------------------------------------------------------

\* An open socket has been sent every entry for its tenant that was answered
\* since it connected; no socket was sent an entry of another tenant, one that
\* is not stored, or one that was answered before it came; and of a socket
\* that closed nothing is kept.
SubscribersSeeTheLogs ==
    \A s \in Socket :
        /\ sent[s] \subseteq {e \in stored : Matches(s, e)} \ before[s]
        /\ socket[s] = "open" =>
              {e \in Answered : Matches(s, e)} \ before[s] \subseteq sent[s]
        /\ socket[s] \in {"none", "closed"} => s \notin subscribers

-----------------------------------------------------------------------------
(* The feed that receipts and subscriptions implement.                     *)

Published == [e \in Entry |-> IF receipt[e] = "202" THEN about[e] ELSE None]
Stage == [s \in Socket |-> CASE socket[s] = "none" -> "absent"
                             [] socket[s] = "open" -> "following"
                             [] OTHER -> "gone"]

Feed == INSTANCE LogFeed WITH
            Follower <- Socket,
            published <- Published, stage <- Stage, follows <- filter, seen <- sent

\* Publishing an entry and showing it to all who follow it is one step, for all
\* the steps that a request and a socket take, and however they fail.
ImplementsFeed == Feed!Spec

=============================================================================
