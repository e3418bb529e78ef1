---------------------------- MODULE SchemaReload ----------------------------
(***************************************************************************)
(* The active schema of a tenant lives in four places: the YAML directory  *)
(* a process boots from, the registry in that process's memory, the row in *)
(* tenant_schemas and the Redis key schema:<tenant>.  reloadSchema writes  *)
(* the last three, one after the other and with no transaction; boot reads *)
(* only the first.                                                         *)
(*                                                                         *)
(* Writes to PostgreSQL go through a pool and reach the server in any      *)
(* order.  Redis commands of one process share a connection: the server    *)
(* runs them in the order they were issued and answers in that order.      *)
(***************************************************************************)
EXTENDS Sequences

CONSTANTS
    Node,        \* processes that create an OntologyEngine (API, agent service)
    Uploader,    \* those of them that serve POST /schema/upload
    Schema,      \* schemas that parse and validate
    BootSchema,  \* the schema in a process's directory
    Upload,      \* upload requests that get past validation
    None

ASSUME UploaderAssumption == Uploader \subseteq Node
ASSUME BootAssumption == BootSchema \in [Node -> Schema]
ASSUME NoneAssumption == None \notin Schema \cup Node \cup Upload

VARIABLES
    stored,    \* the tenant_schemas row, or None
    cache,     \* the Redis key, or None
    memory,    \* the registry of each process; None while it is down
    commands,  \* Redis commands a process issued that have not run yet
    replies,   \* uploads whose DEL has run and whose handler has not gone on
    pc,        \* how far each upload is
    node,      \* the process that serves it
    schema,    \* what it carries
    keeper,    \* history: the process that last SET the key
    given,     \* history: the uploads whose upsert has run
    latest,    \* history: the upload that began last
    calm       \* history: nothing overlapped with it and no process booted since

vars == <<stored, cache, memory, commands, replies, pc, node, schema, keeper, given,
          latest, calm>>

InFlight == {"begun", "saved", "deleting", "deleted", "setting"}
Step == {"idle"} \cup InFlight \cup {"done", "failed", "cut"}

Command == [op : {"DEL", "SET"}, upload : Upload]

TypeOK ==
    /\ stored \in Schema \cup {None}
    /\ cache \in Schema \cup {None}
    /\ memory \in [Node -> Schema \cup {None}]
    /\ commands \in [Node -> Seq(Command)]
    /\ replies \in [Node -> Seq(Upload)]
    /\ pc \in [Upload -> Step]
    /\ node \in [Upload -> Uploader \cup {None}]
    /\ schema \in [Upload -> Schema \cup {None}]
    /\ keeper \in Node \cup {None}
    /\ given \in SUBSET Upload
    /\ latest \in Upload \cup {None}
    /\ calm \in BOOLEAN

\* The database may already hold the row of an earlier deployment.
Init ==
    /\ stored \in Schema \cup {None}
    /\ cache = None
    /\ memory = [n \in Node |-> None]
    /\ commands = [n \in Node |-> <<>>]
    /\ replies = [n \in Node |-> <<>>]
    /\ pc = [u \in Upload |-> "idle"]
    /\ node = [u \in Upload |-> None]
    /\ schema = [u \in Upload |-> None]
    /\ keeper = None
    /\ given = {}
    /\ latest = None
    /\ calm = FALSE

\* OntologyEngine.create: the directory's schema becomes the registry and
\* overwrites the cache; the stored row is not read.
Boot(n) ==
    /\ memory[n] = None
    /\ memory' = [memory EXCEPT ![n] = BootSchema[n]]
    /\ cache' = BootSchema[n]
    /\ keeper' = n
    /\ calm' = FALSE
    /\ UNCHANGED <<stored, commands, replies, pc, node, schema, given, latest>>

\* A process stops: its uploads die with it.  A command it had sent has run, or
\* never does: the connection is drained long before the process is up again.
Crash(n) ==
    /\ memory[n] # None
    /\ memory' = [memory EXCEPT ![n] = None]
    /\ commands' = [commands EXCEPT ![n] = <<>>]
    /\ replies' = [replies EXCEPT ![n] = <<>>]
    /\ pc' = [u \in Upload |-> IF node[u] = n /\ pc[u] \in InFlight THEN "failed" ELSE pc[u]]
    /\ calm' = FALSE
    /\ UNCHANGED <<stored, cache, node, schema, keeper, given, latest>>

\* Mutant: the registry is replaced before the schema is saved.
BeginActivates(u, n, s) ==
    /\ pc[u] = "idle" /\ memory[n] # None
    /\ pc' = [pc EXCEPT ![u] = "begun"]
    /\ node' = [node EXCEPT ![u] = n]
    /\ schema' = [schema EXCEPT ![u] = s]
    /\ memory' = [memory EXCEPT ![n] = s]
    /\ latest' = u
    /\ calm' = (\A v \in Upload : pc[v] \notin InFlight)
    /\ UNCHANGED <<stored, cache, commands, replies, keeper, given>>

\* The route validates the upload and calls reloadSchema, which issues the
\* upsert.
Begin(u, n, s) ==
    /\ pc[u] = "idle" /\ memory[n] # None
    /\ pc' = [pc EXCEPT ![u] = "begun"]
    /\ node' = [node EXCEPT ![u] = n]
    /\ schema' = [schema EXCEPT ![u] = s]
    /\ latest' = u
    /\ calm' = (\A v \in Upload : pc[v] \notin InFlight)
    /\ UNCHANGED <<stored, cache, memory, commands, replies, keeper, given>>

\* schemaRepo.save runs in the database.
Save(u) ==
    /\ pc[u] = "begun"
    /\ stored' = schema[u]
    /\ given' = given \cup {u}
    /\ pc' = [pc EXCEPT ![u] = "saved"]
    /\ UNCHANGED <<cache, memory, commands, replies, node, schema, keeper, latest, calm>>

\* The upsert throws, before or after it took effect: the answer is 422.
FailSave(u) ==
    /\ pc[u] \in {"begun", "saved"}
    /\ pc' = [pc EXCEPT ![u] = "failed"]
    /\ UNCHANGED <<stored, cache, memory, commands, replies, node, schema, keeper, given, latest, calm>>

\* Mutant: registry.reload is forgotten.
ActivateNoReload(u) ==
    LET n == node[u]
    IN  /\ pc[u] = "saved"
        /\ commands' = [commands EXCEPT ![n] = Append(@, [op |-> "DEL", upload |-> u])]
        /\ pc' = [pc EXCEPT ![u] = "deleting"]
        /\ UNCHANGED <<stored, cache, memory, replies, node, schema, keeper, given, latest, calm>>

\* The handler goes on: registry.reload, and the DEL is issued.
Activate(u) ==
    LET n == node[u]
    IN  /\ pc[u] = "saved"
        /\ memory' = [memory EXCEPT ![n] = schema[u]]
        /\ commands' = [commands EXCEPT ![n] = Append(@, [op |-> "DEL", upload |-> u])]
        /\ pc' = [pc EXCEPT ![u] = "deleting"]
        /\ UNCHANGED <<stored, cache, replies, node, schema, keeper, given, latest, calm>>

\* Mutant: the reply carries the command instead of its upload.
RunDelWholeCommand(n) ==
    /\ commands[n] # <<>> /\ Head(commands[n]).op = "DEL"
    /\ pc' = [pc EXCEPT ![Head(commands[n]).upload] = "deleted"]
    /\ replies' = [replies EXCEPT ![n] = Append(@, Head(commands[n]))]
    /\ cache' = None
    /\ commands' = [commands EXCEPT ![n] = Tail(@)]
    /\ UNCHANGED <<stored, memory, node, schema, keeper, given, latest, calm>>

\* cache.invalidate runs in Redis.
RunDel(n) ==
    /\ commands[n] # <<>> /\ Head(commands[n]).op = "DEL"
    /\ LET u == Head(commands[n]).upload
       IN  /\ pc' = [pc EXCEPT ![u] = "deleted"]
           /\ replies' = [replies EXCEPT ![n] = Append(@, u)]
    /\ cache' = None
    /\ commands' = [commands EXCEPT ![n] = Tail(@)]
    /\ UNCHANGED <<stored, memory, node, schema, keeper, given, latest, calm>>

\* Redis fails the oldest command, before or after it took effect: the upload
\* is answered 422, although its schema is stored and active.
FailCommand(n) ==
    /\ commands[n] # <<>>
    /\ LET command == Head(commands[n])
           u == command.upload
       IN  /\ pc' = [pc EXCEPT ![u] = "cut"]
           /\ \/ UNCHANGED <<cache, keeper>>
              \/ command.op = "DEL" /\ cache' = None /\ UNCHANGED keeper
              \/ command.op = "SET" /\ cache' = schema[u] /\ keeper' = n
    /\ commands' = [commands EXCEPT ![n] = Tail(@)]
    /\ UNCHANGED <<stored, memory, replies, node, schema, given, latest, calm>>

\* The DEL's reply is handled: the SET is issued.
IssueSet(n) ==
    /\ replies[n] # <<>>
    /\ LET u == Head(replies[n])
       IN  /\ pc' = [pc EXCEPT ![u] = "setting"]
           /\ commands' = [commands EXCEPT ![n] = Append(@, [op |-> "SET", upload |-> u])]
    /\ replies' = [replies EXCEPT ![n] = Tail(@)]
    /\ UNCHANGED <<stored, cache, memory, node, schema, keeper, given, latest, calm>>

\* Mutant: the cache is filled from the stored row.
RunSetStored(n) ==
    /\ commands[n] # <<>> /\ Head(commands[n]).op = "SET"
    /\ pc' = [pc EXCEPT ![Head(commands[n]).upload] = "done"]
    /\ cache' = stored
    /\ keeper' = n
    /\ commands' = [commands EXCEPT ![n] = Tail(@)]
    /\ UNCHANGED <<stored, memory, replies, node, schema, given, latest, calm>>

\* cache.setRegistry runs in Redis, and the upload is answered.
RunSet(n) ==
    /\ commands[n] # <<>> /\ Head(commands[n]).op = "SET"
    /\ LET u == Head(commands[n]).upload
       IN  /\ pc' = [pc EXCEPT ![u] = "done"]
           /\ cache' = schema[u]
    /\ keeper' = n
    /\ commands' = [commands EXCEPT ![n] = Tail(@)]
    /\ UNCHANGED <<stored, memory, replies, node, schema, given, latest, calm>>

\* The cached schema's TTL runs out.
ExpireCache ==
    /\ cache # None
    /\ cache' = None
    /\ UNCHANGED <<stored, memory, commands, replies, pc, node, schema, keeper, given, latest, calm>>

Next ==
    \/ ExpireCache
    \/ \E n \in Node : Boot(n) \/ Crash(n) \/ RunDel(n) \/ IssueSet(n) \/ RunSet(n)
                        \/ FailCommand(n)
    \/ \E u \in Upload :
          \/ \E n \in Uploader, s \in Schema : Begin(u, n, s)
          \/ Save(u) \/ FailSave(u) \/ Activate(u)

Spec == Init /\ [][Next]_vars

-----------------------------------------------------------------------------
(* Properties.                                                             *)

Quiet == \A u \in Upload : pc[u] \notin InFlight

\* The key never holds another schema than the one served by the process that
\* wrote it last, in whatever order that process's uploads finish, as long as
\* Redis fails none of them: the order in which the registry is replaced is the
\* order in which the SETs run.
CacheFollowsMemory ==
    /\ Quiet /\ keeper # None
    /\ \A u \in Upload : ~(node[u] = keeper /\ pc[u] = "cut")
    => memory[keeper] = None \/ cache \in {memory[keeper], None}

\* No process serves an uploaded schema that the database was not given first:
\* a crash cannot lose a schema that was in use before it was stored.
PersistedBeforeActive ==
    \A n \in Node : memory[n] # None =>
        \/ memory[n] = BootSchema[n]
        \/ \E u \in given : node[u] = n /\ schema[u] = memory[n]

\* An upload that overlapped with no other and is answered is what the row,
\* the registry of its process and the cache all say, until a process boots.
SerialUploadTakesEffect ==
    latest # None /\ calm =>
        (pc[latest] = "done" =>
            /\ stored = schema[latest]
            /\ memory[node[latest]] = schema[latest]
            /\ cache \in {schema[latest], None})

\* db/schema.ts: tenant_schemas "stores the active schema per tenant"; engine.ts:
\* the key is dropped "so other instances pick up the change".  So once no
\* upload is under way every process serves the stored schema.
StoredSchemaIsActive ==
    Quiet /\ stored # None => \A n \in Node : memory[n] \in {stored, None}

=============================================================================
