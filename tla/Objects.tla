------------------------------ MODULE Objects ------------------------------
(***************************************************************************)
(* The object store of a tenant: the routes under /objects, ObjectService  *)
(* and ObjectRepository.  A handler validates against the registry of its  *)
(* process and then awaits one SQL statement; a bulk import does so for    *)
(* one item after the other and reports each.  Nothing is ever deleted     *)
(* from the table: a delete sets deletedAt, and the other statements look  *)
(* only at rows without it.                                                *)
(*                                                                         *)
(* Statements of different requests reach the database in any order, and a *)
(* statement that was sent may still run after its process has stopped.    *)
(* An UPDATE re-reads its WHERE under the row's lock, so each statement is *)
(* one step.                                                               *)
(***************************************************************************)
EXTENDS Naturals, Sequences

CONSTANTS
    Request,     \* requests under /objects
    Object,      \* ids the database hands out
    Schema,      \* schemas: a set of property definitions per known object type
    BootSchema,  \* the one a process starts with
    Content,     \* property maps clients send
    Batch,       \* bodies of bulk imports
    Asked,       \* the operations clients ask for, some of Operation
    None

ObjectType == UNION {DOMAIN s : s \in Schema}

ASSUME BootAssumption == BootSchema \in Schema
ASSUME BatchAssumption == Batch \subseteq Seq(Content) \ {<<>>}

VARIABLES
    registry,  \* the schema the process validates against
    rows,      \* the objects table; None where an id is not handed out
    request,   \* what each request asks for, or None before it arrives
    step,      \* how far it is
    results,   \* what became of its items so far
    found,     \* the ids a read returned
    origin,    \* history: the request and the item an object was created for
    route,     \* history: the types under whose path an object was updated
    regimes,   \* history: the schemas that were active so far
    view       \* history: what was live and what was deleted when a request arrived

vars == <<registry, rows, request, step, results, found, origin, route, regimes, view>>

Entity(c) == IF "legalEntityId" \in DOMAIN c THEN c["legalEntityId"] ELSE None
Filter == {None} \cup {Entity(c) : c \in Content}

Row == [type : ObjectType, properties : Content, entity : Filter, deleted : BOOLEAN]

\* Items is what a create, an update or a bulk import carries.
Operation ==
         [kind : {"create"}, type : ObjectType, items : {<<c>> : c \in Content}]
    \cup [kind : {"bulk"}, type : ObjectType, items : Batch]
    \cup [kind : {"update"}, type : ObjectType, items : {<<c>> : c \in Content}, object : Object]
    \cup [kind : {"delete", "get"}, object : Object]
    \cup [kind : {"query"}, type : ObjectType, filter : Filter]

ASSUME AskedAssumption == Asked \subseteq Operation
ASSUME NoneAssumption ==
    None \notin Row /\ None \notin Operation /\ None \notin Request \X Nat

Outcome == {"ok", "invalid", "notFound", "failed"}

TypeOK ==
    /\ registry \in Schema
    /\ rows \in [Object -> Row \cup {None}]
    /\ request \in [Request -> Operation \cup {None}]
    /\ step \in [Request -> {"idle", "next", "sent", "answered", "orphaned", "lost"}]
    /\ results \in [Request -> Seq(Outcome)]
    /\ found \in [Request -> SUBSET Object]
    /\ origin \in [Object -> (Request \X Nat) \cup {None}]
    /\ route \in [Object -> SUBSET ObjectType]
    /\ regimes \in SUBSET Schema
    /\ view \in [Request -> [live : SUBSET Object, gone : SUBSET Object]]

Stored(o) == rows[o] # None
Live(o) == Stored(o) /\ ~rows[o].deleted
Gone(o) == Stored(o) /\ rows[o].deleted

\* ObjectService.validateProperties, for a type the registry knows.
Accepts(s, type, c) ==
    /\ type \in DOMAIN s
    /\ \A p \in s[type] :
          /\ p.required => p.name \in DOMAIN c
          /\ p.enum /\ p.name \in DOMAIN c => c[p.name] \in p.values

\* Mutant: a missing entity is not turned into null.
NewRowAsSent(type, c) ==
    [type |-> type, properties |-> c, deleted |-> FALSE,
     entity |-> IF "legalEntityId" \in DOMAIN c THEN c["legalEntityId"] ELSE "undefined"]

NewRow(type, c) ==
    [type |-> type, properties |-> c, entity |-> Entity(c), deleted |-> FALSE]

\* The table may already hold objects.
Init ==
    /\ registry = BootSchema
    /\ \E old \in SUBSET Object, type \in ObjectType, c \in Content :
          /\ Accepts(BootSchema, type, c)
          /\ rows = [o \in Object |-> IF o \in old THEN NewRow(type, c) ELSE None]
    /\ request = [r \in Request |-> None]
    /\ step = [r \in Request |-> "idle"]
    /\ results = [r \in Request |-> <<>>]
    /\ found = [r \in Request |-> {}]
    /\ origin = [o \in Object |-> None]
    /\ route = [o \in Object |-> {}]
    /\ regimes = {BootSchema}
    /\ view = [r \in Request |-> [live |-> {}, gone |-> {}]]

\* A request arrives; a client names only objects it was told of.
Arrive(r, q) ==
    /\ step[r] = "idle"
    /\ q.kind \in {"update", "delete", "get"} => Stored(q.object)
    /\ request' = [request EXCEPT ![r] = q]
    /\ step' = [step EXCEPT ![r] = "next"]
    /\ view' = [view EXCEPT ![r] = [live |-> {o \in Object : Live(o)},
                                    gone |-> {o \in Object : Gone(o)}]]
    /\ UNCHANGED <<registry, rows, results, found, origin, route, regimes>>

\* The items of a bulk import are dealt with one after the other; every other
\* request is one item.
Items(q) == IF q.kind = "bulk" THEN Len(q.items) ELSE 1
Item(r) == request[r].items[Len(results[r]) + 1]

\* The handler learns what became of an item and goes on, or answers; a process
\* that is gone learns nothing.
Settle(r, outcome) ==
    IF step[r] = "orphaned"
    THEN step' = [step EXCEPT ![r] = "lost"] /\ UNCHANGED results
    ELSE /\ results' = [results EXCEPT ![r] = Append(@, outcome)]
         /\ step' = [step EXCEPT ![r] =
               IF Len(results[r]) + 1 = Items(request[r]) THEN "answered" ELSE "next"]

\* Mutant: an update is not validated, as if it only added properties.
PassesUpdateUnseen(r) ==
    LET q == request[r]
    IN  CASE q.kind \in {"create", "bulk"} -> Accepts(registry, q.type, Item(r))
          [] q.kind = "query" -> q.type \in DOMAIN registry
          [] OTHER -> TRUE

\* What the handler checks before it sends its statement.
Passes(r) ==
    LET q == request[r]
    IN  CASE q.kind \in {"create", "bulk", "update"} -> Accepts(registry, q.type, Item(r))
          [] q.kind = "query" -> q.type \in DOMAIN registry
          [] OTHER -> TRUE

\* The handler turns to the next item: it is sent, or refused and reported.
Send(r) ==
    /\ step[r] = "next"
    /\ \/ Passes(r) /\ step' = [step EXCEPT ![r] = "sent"] /\ UNCHANGED results
       \/ ~Passes(r) /\ Settle(r, "invalid")
    /\ UNCHANGED <<registry, rows, request, found, origin, route, regimes, view>>

Sent(r, kinds) == step[r] \in {"sent", "orphaned"} /\ request[r].kind \in kinds

\* A statement that took effect is known to have, or its reply is an error.
Effective == {"ok", "failed"}

\* Mutant: a bulk import tries again when a statement throws.
RunInsertRetried(r, o) ==
    /\ Sent(r, {"create", "bulk"})
    /\ ~Stored(o)
    /\ rows' = [rows EXCEPT ![o] = NewRow(request[r].type, Item(r))]
    /\ origin' = [origin EXCEPT ![o] = <<r, Len(results[r]) + 1>>]
    /\ \/ Settle(r, "ok")
       \/ IF step[r] = "sent" /\ request[r].kind = "bulk"
          THEN step' = [step EXCEPT ![r] = "next"] /\ UNCHANGED results
          ELSE Settle(r, "failed")
    /\ UNCHANGED <<registry, request, found, route, regimes, view>>

\* ObjectRepository.create.
RunInsert(r, o) ==
    /\ Sent(r, {"create", "bulk"})
    /\ ~Stored(o)
    /\ rows' = [rows EXCEPT ![o] = NewRow(request[r].type, Item(r))]
    /\ origin' = [origin EXCEPT ![o] = <<r, Len(results[r]) + 1>>]
    /\ \E outcome \in Effective : Settle(r, outcome)
    /\ UNCHANGED <<registry, request, found, route, regimes, view>>

\* Mutant: the UPDATE does not look at deletedAt.
RunUpdateDeleted(r) ==
    LET o == request[r].object
    IN  /\ Sent(r, {"update"})
        /\ rows' = [rows EXCEPT ![o].properties = Item(r)]
        /\ route' = [route EXCEPT ![o] = @ \cup {request[r].type}]
        /\ \E outcome \in Effective : Settle(r, outcome)
        /\ UNCHANGED <<registry, request, found, origin, regimes, view>>

\* ObjectRepository.update: all properties are replaced; neither the type of the
\* path nor the entity column plays a part.
RunUpdate(r) ==
    LET o == request[r].object
    IN  /\ Sent(r, {"update"})
        /\ \/ /\ Live(o)
              /\ rows' = [rows EXCEPT ![o].properties = Item(r)]
              /\ route' = [route EXCEPT ![o] = @ \cup {request[r].type}]
              /\ \E outcome \in Effective : Settle(r, outcome)
           \/ ~Live(o) /\ Settle(r, "notFound") /\ UNCHANGED <<rows, route>>
        /\ UNCHANGED <<registry, request, found, origin, regimes, view>>

\* Mutant: a second delete finds the row again.
RunDeleteAgain(r) ==
    LET o == request[r].object
    IN  /\ Sent(r, {"delete"})
        /\ rows' = [rows EXCEPT ![o].deleted = TRUE]
        /\ \E outcome \in Effective : Settle(r, outcome)
        /\ UNCHANGED <<registry, request, found, origin, route, regimes, view>>

\* ObjectRepository.softDelete.
RunDelete(r) ==
    LET o == request[r].object
    IN  /\ Sent(r, {"delete"})
        /\ \/ /\ Live(o)
              /\ rows' = [rows EXCEPT ![o].deleted = TRUE]
              /\ \E outcome \in Effective : Settle(r, outcome)
           \/ ~Live(o) /\ Settle(r, "notFound") /\ UNCHANGED rows
        /\ UNCHANGED <<registry, request, found, origin, route, regimes, view>>

\* Mutant: the SELECT does not look at deletedAt.
SelectsDeleted(q, o) ==
    /\ Stored(o)
    /\ \/ q.kind = "get" /\ q.object = o
       \/ /\ q.kind = "query" /\ rows[o].type = q.type
          /\ q.filter \in {None, Entity(rows[o].properties)}

\* findById, and findByType with its filter in memory.
Selects(q, o) ==
    /\ Live(o)
    /\ \/ q.kind = "get" /\ q.object = o
       \/ /\ q.kind = "query" /\ rows[o].type = q.type
          /\ q.filter \in {None, Entity(rows[o].properties)}

RunSelect(r) ==
    LET ids == {o \in Object : Selects(request[r], o)}
    IN  /\ Sent(r, {"get", "query"})
        /\ found' = [found EXCEPT ![r] = ids]
        /\ Settle(r, IF request[r].kind = "get" /\ ids = {} THEN "notFound" ELSE "ok")
        /\ UNCHANGED <<registry, rows, request, origin, route, regimes, view>>

\* The statement throws without effect.
Fail(r) ==
    /\ step[r] \in {"sent", "orphaned"}
    /\ Settle(r, "failed")
    /\ UNCHANGED <<registry, rows, request, found, origin, route, regimes, view>>

\* An upload replaces the registry.
Reload(s) ==
    /\ registry # s
    /\ registry' = s
    /\ regimes' = regimes \cup {s}
    /\ UNCHANGED <<rows, request, step, results, found, origin, route, view>>

\* The process stops and another starts; what was sent may still run.
Crash ==
    /\ \E r \in Request : step[r] \in {"next", "sent"}
    /\ registry' = BootSchema
    /\ step' = [r \in Request |-> CASE step[r] = "next" -> "lost"
                                    [] step[r] = "sent" -> "orphaned"
                                    [] OTHER -> step[r]]
    /\ UNCHANGED <<rows, request, results, found, origin, route, regimes, view>>

Handle(r) ==
    \/ Send(r) \/ RunUpdate(r) \/ RunDelete(r) \/ RunSelect(r) \/ Fail(r)
    \/ \E o \in Object : RunInsert(r, o)

Next ==
    \/ \E r \in Request : Handle(r) \/ \E q \in Asked : Arrive(r, q)
    \/ \E s \in Schema : Reload(s)
    \/ Crash

Spec == Init /\ [][Next]_vars

-----------------------------------------------------------------------------
(* Properties.                                                             *)

\* A deleted object stays as it was, whatever updates, deletes and orphaned
\* statements reach the database after it; no row is ever taken back, and an
\* object's type and entity column are those it was created with.
DeletedIsFinal ==
    [][\A o \in Object : Stored(o) =>
          /\ Stored(o)'
          /\ Gone(o) => rows'[o] = rows[o]
          /\ rows'[o].type = rows[o].type /\ rows'[o].entity = rows[o].entity]_vars

Told(r, outcome) ==
    request[r] # None /\ request[r].kind = "delete" /\ results[r] = <<outcome>>

\* Of the deletes of one object at most one is told that it deleted it, and one
\* that is told there is nothing to delete is right for good.
OneDeleteSucceeds ==
    /\ \A r, q \in Request :
          /\ Told(r, "ok") /\ Told(q, "ok") /\ request[r].object = request[q].object
          => r = q
    /\ \A r \in Request : Told(r, "notFound") => Gone(request[r].object)

\* What a create or a bulk import reports of its items is what the table holds:
\* an item reported as created is exactly one object, one reported as invalid is
\* none, and an object nobody was told of belongs to an item whose statement
\* failed or whose process stopped.
ReportMatchesRows ==
    \A r \in {x \in Request : request[x] # None /\ request[x].kind \in {"create", "bulk"}} :
        \A i \in 1 .. Items(request[r]) :
            LET made == {o \in Object : origin[o] = <<r, i>>}
                told == i \in DOMAIN results[r]
            IN  /\ \A o, p \in made : o = p
                /\ told /\ results[r][i] = "ok" => made # {}
                /\ told /\ results[r][i] = "invalid" => made = {}
                /\ ~told /\ step[r] # "lost" => made = {}

\* The properties of an object that was updated only under the path of its own
\* type were accepted for that type by a schema that was active.
RowsAreValid ==
    \A o \in Object : Stored(o) /\ route[o] \subseteq {rows[o].type} =>
        \E s \in regimes : Accepts(s, rows[o].type, rows[o].properties)

\* A read returns nothing that was deleted before it arrived, and everything it
\* asks for that was there when it arrived, is still there and never changed.
ReadsAreRegular ==
    \A r \in Request :
        step[r] = "answered" /\ request[r].kind \in {"get", "query"} /\ results[r] = <<"ok">> =>
            /\ found[r] \cap view[r].gone = {}
            /\ \A o \in view[r].live :
                  Selects(request[r], o) /\ route[o] = {} => o \in found[r]

=============================================================================
