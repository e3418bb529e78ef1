---------------------------- MODULE ObjectsProofs ----------------------------
(***************************************************************************)
(* What Objects keeps for any number of requests, objects, contents and    *)
(* schemas: its types, that a deleted object never changes again and is    *)
(* deleted once, that rows were valid when they were written, that what is *)
(* reported of an import is what the table holds, and what reads return.   *)
(***************************************************************************)
EXTENDS Objects, TLAPS

Creating == {"create", "bulk"}

\* Nothing became of a request before it arrived, and one that is under way has
\* an item to deal with.
ItemsLeft ==
    \A r \in Request :
        /\ step[r] = "idle" => results[r] = <<>>
        /\ step[r] \in {"next", "sent", "orphaned"} =>
              /\ request[r] \in Operation
              /\ Len(results[r]) < Items(request[r])

\* What each kind of operation carries.
LEMMA Carried ==
    ASSUME NEW q \in Operation
    PROVE  /\ q.kind \in {"create", "bulk", "update"} =>
                  q.type \in ObjectType /\ q.items \in Seq(Content) /\ Items(q) = Len(q.items)
           /\ q.kind \in {"update", "delete", "get"} => q.object \in Object
           /\ Items(q) \in Nat
<1>1. CASE q \in [kind : {"create"}, type : ObjectType, items : {<<c>> : c \in Content}]
  BY <1>1 DEF Items
<1>2. CASE q \in [kind : {"bulk"}, type : ObjectType, items : Batch]
  BY <1>2, BatchAssumption DEF Items
<1>3. CASE q \in [kind : {"update"}, type : ObjectType, items : {<<c>> : c \in Content}, object : Object]
  <2>1. PICK c \in Content : q.items = <<c>>
    BY <1>3
  <2>2. q.items \in Seq(Content) /\ Len(q.items) = 1
    BY <2>1
  <2> QED
    BY <1>3, <2>2 DEF Items
<1>4. CASE q \in [kind : {"delete", "get"}, object : Object]
  BY <1>4 DEF Items
<1>5. CASE q \in [kind : {"query"}, type : ObjectType, filter : Filter]
  BY <1>5 DEF Items
<1> QED
  BY <1>1, <1>2, <1>3, <1>4, <1>5 DEF Operation

\* The next item of a request that carries contents is one.
LEMMA NextItem ==
    ASSUME TypeOK, ItemsLeft, NEW r \in Request,
           step[r] \in {"next", "sent", "orphaned"},
           request[r].kind \in {"create", "bulk", "update"}
    PROVE  Item(r) \in Content
<1>1. /\ request[r] \in Operation
      /\ Len(results[r]) < Items(request[r])
  BY DEF ItemsLeft
<1>2. /\ request[r].items \in Seq(Content)
      /\ Items(request[r]) = Len(request[r].items)
  BY <1>1, Carried
<1>3. Len(results[r]) \in Nat
  BY DEF TypeOK
<1>4. Len(results[r]) + 1 \in 1 .. Len(request[r].items)
  BY <1>1, <1>2, <1>3
<1> QED
  BY <1>2, <1>4 DEF Item

\* A new row is a row.
LEMMA NewRowType ==
    ASSUME NEW type \in ObjectType, NEW c \in Content
    PROVE  NewRow(type, c) \in Row
BY DEF NewRow, Row, Filter

\* An update leaves a row, with its type, its entity column and its deletedAt.
LEMMA UpdatedRow ==
    ASSUME TypeOK, NEW o \in Object, Stored(o), NEW c \in Content
    PROVE  LET new == [rows EXCEPT ![o].properties = c]
           IN  /\ new \in [Object -> Row \cup {None}]
               /\ new[o] \in Row
               /\ new[o].type = rows[o].type /\ new[o].entity = rows[o].entity
               /\ \A x \in Object : x # o => new[x] = rows[x]
<1>1. rows[o] \in Row
  BY DEF TypeOK, Stored
<1>2. [rows[o] EXCEPT !.properties = c] \in Row
  BY <1>1 DEF Row
<1> QED
  BY <1>1, <1>2 DEF TypeOK, Row

\* So does a delete.
LEMMA DeletedRow ==
    ASSUME TypeOK, NEW o \in Object, Stored(o)
    PROVE  LET new == [rows EXCEPT ![o].deleted = TRUE]
           IN  /\ new \in [Object -> Row \cup {None}]
               /\ new[o] \in Row
               /\ new[o].type = rows[o].type /\ new[o].entity = rows[o].entity
               /\ \A x \in Object : x # o => new[x] = rows[x]
<1>1. rows[o] \in Row
  BY DEF TypeOK, Stored
<1>2. [rows[o] EXCEPT !.deleted = TRUE] \in Row
  BY <1>1 DEF Row
<1> QED
  BY <1>1, <1>2 DEF TypeOK, Row

\* Before its first item nothing became of a request.
LEMMA NothingDone ==
    /\ <<>> \in Seq(Outcome)
    /\ \A q \in Operation : Items(q) > 0
<1>1. <<>> \in Seq(Outcome)
  OBVIOUS
<1>2. ASSUME NEW q \in Operation, q.kind = "bulk"
      PROVE  Len(q.items) > 0
  <2>1. q \in [kind : {"bulk"}, type : ObjectType, items : Batch]
    BY <1>2 DEF Operation
  <2> QED
    BY <2>1, BatchAssumption
<1> QED
  BY <1>1, <1>2 DEF Items

\* Settling an item keeps the types of step and results, and either leaves an
\* item or ends the request.
LEMMA Settled ==
    ASSUME TypeOK, ItemsLeft, NEW r \in Request, NEW outcome \in Outcome,
           step[r] \in {"next", "sent", "orphaned"}, Settle(r, outcome), UNCHANGED request
    PROVE  /\ step' \in [Request -> {"idle", "next", "sent", "answered", "orphaned", "lost"}]
           /\ results' \in [Request -> Seq(Outcome)]
           /\ ItemsLeft'
<1>1. /\ request[r] \in Operation
      /\ Len(results[r]) < Items(request[r])
      /\ Len(results[r]) \in Nat
      /\ Items(request[r]) \in Nat
  BY Carried DEF ItemsLeft, TypeOK
<1>2. CASE step[r] = "orphaned"
  BY <1>2 DEF Settle, TypeOK, ItemsLeft, Items
<1>3. CASE step[r] # "orphaned"
  <2>1. Append(results[r], outcome) \in Seq(Outcome)
    BY DEF TypeOK
  <2>2. Len(Append(results[r], outcome)) = Len(results[r]) + 1
    BY DEF TypeOK
  <2>3. results' = [results EXCEPT ![r] = Append(results[r], outcome)]
    BY <1>3 DEF Settle
  <2>4. step' = [step EXCEPT ![r] =
                    IF Len(results[r]) + 1 = Items(request[r]) THEN "answered" ELSE "next"]
    BY <1>3 DEF Settle
  <2>5. step' \in [Request -> {"idle", "next", "sent", "answered", "orphaned", "lost"}]
    BY <2>4 DEF TypeOK
  <2>6. results' \in [Request -> Seq(Outcome)]
    BY <2>1, <2>3 DEF TypeOK
  <2>7. ASSUME NEW x \in Request, step'[x] \in {"next", "sent", "orphaned"}
        PROVE  request'[x] \in Operation /\ Len(results'[x]) < Items(request'[x])
    <3>1. CASE x = r
      <4>1. Len(results[r]) + 1 # Items(request[r])
        BY <2>4, <2>7, <3>1 DEF TypeOK
      <4>2. Len(results'[r]) = Len(results[r]) + 1
        BY <2>2, <2>3 DEF TypeOK
      <4> QED
        BY <1>1, <3>1, <4>1, <4>2
    <3>2. CASE x # r
      BY <2>3, <2>4, <2>7, <3>2 DEF TypeOK, ItemsLeft
    <3> QED
      BY <3>1, <3>2
  <2>8. ASSUME NEW x \in Request, step'[x] = "idle"
        PROVE  results'[x] = <<>>
    BY <2>3, <2>4, <2>8 DEF TypeOK, ItemsLeft
  <2>9. ItemsLeft'
    BY <2>7, <2>8 DEF ItemsLeft, Items
  <2> QED
    BY <2>5, <2>6, <2>9
<1> QED
  BY <1>2, <1>3

\* Every step keeps the types and leaves items to whoever still has to deal
\* with one.
LEMMA TypeStep == TypeOK /\ ItemsLeft /\ [Next]_vars => TypeOK' /\ ItemsLeft'
<1> SUFFICES ASSUME TypeOK, ItemsLeft, [Next]_vars
             PROVE  TypeOK' /\ ItemsLeft'
  OBVIOUS
<1>1. ASSUME NEW r \in Request, NEW q \in Asked, Arrive(r, q)
      PROVE  TypeOK' /\ ItemsLeft'
  <2>1. q \in Operation
    BY AskedAssumption
  <2>2. TypeOK'
    BY <1>1, <2>1 DEF Arrive, TypeOK
  <2>3. ItemsLeft'
    BY <1>1, <2>1, NothingDone DEF Arrive, TypeOK, ItemsLeft, Items
  <2> QED
    BY <2>2, <2>3
<1>2. ASSUME NEW r \in Request, Send(r)
      PROVE  TypeOK' /\ ItemsLeft'
  <2>1. CASE Passes(r) /\ step' = [step EXCEPT ![r] = "sent"] /\ UNCHANGED results
    BY <1>2, <2>1 DEF Send, TypeOK, ItemsLeft, Items
  <2>2. CASE Settle(r, "invalid")
    <3>1. /\ step' \in [Request -> {"idle", "next", "sent", "answered", "orphaned", "lost"}]
          /\ results' \in [Request -> Seq(Outcome)]
          /\ ItemsLeft'
      BY <1>2, <2>2, Settled DEF Send, Outcome
    <3> QED
      BY <1>2, <3>1 DEF Send, TypeOK
  <2> QED
    BY <1>2, <2>1, <2>2 DEF Send
<1>3. ASSUME NEW r \in Request, NEW o \in Object, RunInsert(r, o)
      PROVE  TypeOK' /\ ItemsLeft'
  <2>1. /\ step' \in [Request -> {"idle", "next", "sent", "answered", "orphaned", "lost"}]
        /\ results' \in [Request -> Seq(Outcome)]
        /\ ItemsLeft'
    BY <1>3, Settled DEF RunInsert, Sent, Effective, Outcome
  <2>2. Item(r) \in Content /\ request[r].type \in ObjectType
    BY <1>3, NextItem, Carried DEF RunInsert, Sent, ItemsLeft
  <2>3. rows' \in [Object -> Row \cup {None}]
    BY <1>3, <2>2, NewRowType DEF RunInsert, TypeOK
  <2>4. origin' \in [Object -> (Request \X Nat) \cup {None}]
    BY <1>3 DEF RunInsert, TypeOK
  <2> QED
    BY <1>3, <2>1, <2>3, <2>4 DEF RunInsert, TypeOK
<1>4. ASSUME NEW r \in Request, RunUpdate(r)
      PROVE  TypeOK' /\ ItemsLeft'
  <2>1. /\ step' \in [Request -> {"idle", "next", "sent", "answered", "orphaned", "lost"}]
        /\ results' \in [Request -> Seq(Outcome)]
        /\ ItemsLeft'
    BY <1>4, Settled DEF RunUpdate, Sent, Effective, Outcome
  <2>2. Item(r) \in Content /\ request[r].object \in Object /\ request[r].type \in ObjectType
    BY <1>4, NextItem, Carried DEF RunUpdate, Sent, ItemsLeft
  <2>3. rows' \in [Object -> Row \cup {None}]
    <3> DEFINE o == request[r].object
    <3>1. CASE Live(o)
      <4>1. rows' = [rows EXCEPT ![o].properties = Item(r)]
        BY <1>4, <3>1 DEF RunUpdate
      <4> QED
        BY <2>2, <3>1, <4>1, UpdatedRow DEF Live
    <3>2. CASE ~Live(o)
      BY <1>4, <3>2 DEF RunUpdate, TypeOK
    <3> QED
      BY <3>1, <3>2
  <2>4. route' \in [Object -> SUBSET ObjectType]
    BY <1>4, <2>2 DEF RunUpdate, TypeOK
  <2> QED
    BY <1>4, <2>1, <2>3, <2>4 DEF RunUpdate, TypeOK
<1>5. ASSUME NEW r \in Request, RunDelete(r)
      PROVE  TypeOK' /\ ItemsLeft'
  <2>1. /\ step' \in [Request -> {"idle", "next", "sent", "answered", "orphaned", "lost"}]
        /\ results' \in [Request -> Seq(Outcome)]
        /\ ItemsLeft'
    BY <1>5, Settled DEF RunDelete, Sent, Effective, Outcome
  <2>2. request[r].object \in Object
    BY <1>5, Carried DEF RunDelete, Sent, ItemsLeft
  <2>3. rows' \in [Object -> Row \cup {None}]
    BY <1>5, <2>2, DeletedRow, ZenonT(30) DEF RunDelete, Live, TypeOK
  <2> QED
    BY <1>5, <2>1, <2>3 DEF RunDelete, TypeOK
<1>6. ASSUME NEW r \in Request, RunSelect(r)
      PROVE  TypeOK' /\ ItemsLeft'
  <2>1. /\ step' \in [Request -> {"idle", "next", "sent", "answered", "orphaned", "lost"}]
        /\ results' \in [Request -> Seq(Outcome)]
        /\ ItemsLeft'
    <3>1. PICK outcome \in Outcome : Settle(r, outcome)
      BY <1>6 DEF RunSelect, Outcome
    <3> QED
      BY <1>6, <3>1, Settled DEF RunSelect, Sent
  <2> QED
    BY <1>6, <2>1 DEF RunSelect, TypeOK
<1>7. ASSUME NEW r \in Request, Fail(r)
      PROVE  TypeOK' /\ ItemsLeft'
  <2>1. /\ step' \in [Request -> {"idle", "next", "sent", "answered", "orphaned", "lost"}]
        /\ results' \in [Request -> Seq(Outcome)]
        /\ ItemsLeft'
    BY <1>7, Settled DEF Fail, Outcome
  <2> QED
    BY <1>7, <2>1 DEF Fail, TypeOK
<1>8. ASSUME NEW s \in Schema, Reload(s)
      PROVE  TypeOK' /\ ItemsLeft'
  BY <1>8 DEF Reload, TypeOK, ItemsLeft, Items
<1>9. CASE Crash
  BY <1>9, BootAssumption DEF Crash, TypeOK, ItemsLeft, Items
<1>10. CASE UNCHANGED vars
  BY <1>10 DEF vars, TypeOK, ItemsLeft, Items
<1> QED
  BY <1>1, <1>2, <1>3, <1>4, <1>5, <1>6, <1>7, <1>8, <1>9, <1>10 DEF Next, Handle

\* Every variable keeps its type.
THEOREM TypeCorrect == Spec => [](TypeOK /\ ItemsLeft)
<1>1. Init => TypeOK /\ ItemsLeft
  BY BootAssumption, NothingDone, NewRowType DEF Init, TypeOK, ItemsLeft, ObjectType
<1> QED
  BY <1>1, TypeStep, PTL DEF Spec

\* What a step keeps of an object: a deleted one stays as it is, no row is taken
\* back, and type and entity column stay.
Kept(o) ==
    Stored(o) =>
        /\ Stored(o)'
        /\ Gone(o) => rows'[o] = rows[o]
        /\ rows'[o].type = rows[o].type /\ rows'[o].entity = rows[o].entity

\* Every step does so: the UPDATEs look at deletedAt and write nothing else.
LEMMA KeptStep == TypeOK /\ ItemsLeft /\ [Next]_vars => \A o \in Object : Kept(o)
<1> SUFFICES ASSUME TypeOK, ItemsLeft, [Next]_vars, NEW o \in Object
             PROVE  Kept(o)
  OBVIOUS
<1>1. CASE UNCHANGED rows
  BY <1>1 DEF Stored, Kept
<1>2. ASSUME NEW r \in Request, NEW n \in Object, RunInsert(r, n)
      PROVE  Kept(o)
  BY <1>2 DEF RunInsert, Stored, TypeOK, Kept
<1>3. ASSUME NEW r \in Request, RunUpdate(r), Live(request[r].object)
      PROVE  Kept(o)
  <2> DEFINE u == request[r].object
  <2>1. u \in Object /\ Stored(u) /\ Item(r) \in Content
    BY <1>3, Carried, NextItem DEF RunUpdate, Sent, Live, ItemsLeft
  <2>2. rows' = [rows EXCEPT ![u].properties = Item(r)]
    BY <1>3 DEF RunUpdate
  <2>3. /\ rows'[u] \in Row
        /\ rows'[u].type = rows[u].type /\ rows'[u].entity = rows[u].entity
        /\ \A x \in Object : x # u => rows'[x] = rows[x]
    BY <2>1, <2>2, UpdatedRow
  <2>4. rows'[u] # None
    BY <2>3, NoneAssumption
  <2> QED
    BY <1>3, <2>1, <2>3, <2>4 DEF Live, Gone, Stored, Kept
<1>4. ASSUME NEW r \in Request, RunDelete(r), Live(request[r].object)
      PROVE  Kept(o)
  <2> DEFINE u == request[r].object
  <2>1. u \in Object /\ Stored(u)
    BY <1>4, Carried DEF RunDelete, Sent, Live, ItemsLeft
  <2>2. rows' = [rows EXCEPT ![u].deleted = TRUE]
    BY <1>4 DEF RunDelete
  <2>3. /\ rows'[u] \in Row
        /\ rows'[u].type = rows[u].type /\ rows'[u].entity = rows[u].entity
        /\ \A x \in Object : x # u => rows'[x] = rows[x]
    BY <2>1, <2>2, DeletedRow
  <2>4. rows'[u] # None
    BY <2>3, NoneAssumption
  <2> QED
    BY <1>4, <2>1, <2>3, <2>4 DEF Live, Gone, Stored, Kept
<1> QED
  BY <1>1, <1>2, <1>3, <1>4
     DEF Next, Handle, Arrive, Send, RunUpdate, RunDelete, RunSelect, Fail, Reload, Crash, vars

\* Whatever updates, deletes and orphaned statements reach the database, a
\* deleted object never changes again.
THEOREM Deleted == Spec => DeletedIsFinal
<1>1. TypeOK /\ ItemsLeft /\ [Next]_vars => [\A o \in Object : Kept(o)]_vars
  BY KeptStep
<1> QED
  BY <1>1, TypeCorrect, PTL DEF Spec, DeletedIsFinal, Kept

\* Settling an item concerns no other request, and ends its statement.
LEMMA SettleAlone ==
    ASSUME TypeOK, NEW r \in Request, NEW outcome \in Outcome, Settle(r, outcome)
    PROVE  /\ step'[r] \in {"lost", "answered", "next"}
           /\ \A x \in Request \ {r} : step'[x] = step[x] /\ results'[x] = results[x]
           /\ results'[r] \in {results[r], Append(results[r], outcome)}
BY DEF Settle, TypeOK

\* What was sent with properties was accepted by a schema that was active, and
\* the active one is among those.
SentIsValid ==
    /\ {registry, BootSchema} \subseteq regimes
    /\ \A r \in Request :
          step[r] \in {"sent", "orphaned"} /\ request[r].kind \in {"create", "bulk", "update"} =>
              \E s \in regimes : Accepts(s, request[r].type, Item(r))

\* A statement that settles leaves the others as they were sent.
LEMMA OthersStay ==
    ASSUME TypeOK, SentIsValid, NEW r \in Request, NEW outcome \in Outcome,
           Settle(r, outcome), UNCHANGED <<registry, request, regimes>>
    PROVE  SentIsValid'
<1>1. ASSUME NEW x \in Request, step'[x] \in {"sent", "orphaned"}
      PROVE  step[x] = step'[x] /\ Item(x)' = Item(x)
  BY <1>1, SettleAlone DEF Item
<1> QED
  BY <1>1 DEF SentIsValid, Accepts

\* Every step keeps both: a row gets its properties from what was sent.
LEMMA ValidStep ==
    TypeOK /\ ItemsLeft /\ SentIsValid /\ RowsAreValid /\ [Next]_vars
        => SentIsValid' /\ RowsAreValid'
<1> SUFFICES ASSUME TypeOK, ItemsLeft, SentIsValid, RowsAreValid, [Next]_vars
             PROVE  SentIsValid' /\ RowsAreValid'
  OBVIOUS
<1>1. ASSUME NEW r \in Request, NEW q \in Asked, Arrive(r, q)
      PROVE  SentIsValid' /\ RowsAreValid'
  <2>1. RowsAreValid'
    BY <1>1 DEF Arrive, RowsAreValid, Stored, Accepts
  <2>2. ASSUME NEW x \in Request, step'[x] \in {"sent", "orphaned"}
        PROVE  step[x] = step'[x] /\ request'[x] = request[x] /\ Item(x)' = Item(x)
    BY <1>1, <2>2 DEF Arrive, Item, TypeOK
  <2>3. SentIsValid'
    BY <1>1, <2>2 DEF Arrive, SentIsValid, Accepts
  <2> QED
    BY <2>1, <2>3
<1>2. ASSUME NEW r \in Request, Send(r)
      PROVE  SentIsValid' /\ RowsAreValid'
  <2>1. RowsAreValid'
    BY <1>2 DEF Send, RowsAreValid, Stored, Accepts
  <2>2. CASE Passes(r) /\ step' = [step EXCEPT ![r] = "sent"] /\ UNCHANGED results
    <3>1. ASSUME request[r].kind \in {"create", "bulk", "update"}
          PROVE  Accepts(registry, request[r].type, Item(r))
      BY <2>2, <3>1 DEF Passes
    <3>2. \A x \in Request : Item(x)' = Item(x)
      BY <1>2, <2>2 DEF Send, Item
    <3> QED
      BY <1>2, <2>1, <2>2, <3>1, <3>2 DEF Send, SentIsValid, Accepts, TypeOK
  <2>3. CASE Settle(r, "invalid")
    BY <1>2, <2>1, <2>3, OthersStay DEF Send, Outcome
  <2> QED
    BY <1>2, <2>2, <2>3 DEF Send
<1>3. ASSUME NEW r \in Request, NEW o \in Object, RunInsert(r, o)
      PROVE  SentIsValid' /\ RowsAreValid'
  <2>1. SentIsValid'
    BY <1>3, OthersStay DEF RunInsert, Effective, Outcome
  <2>2. PICK s \in regimes : Accepts(s, request[r].type, Item(r))
    BY <1>3 DEF RunInsert, Sent, SentIsValid
  <2>3. /\ rows'[o].type = request[r].type
        /\ rows'[o].properties = Item(r)
    BY <1>3 DEF RunInsert, NewRow, TypeOK
  <2>4. \A x \in Object : x # o => rows'[x] = rows[x]
    BY <1>3 DEF RunInsert, TypeOK
  <2>5. regimes' = regimes /\ route' = route
    BY <1>3 DEF RunInsert
  <2>6. Accepts(s, rows'[o].type, rows'[o].properties)
    BY <2>2, <2>3
  <2> QED
    BY <2>1, <2>4, <2>5, <2>6 DEF RowsAreValid, Stored
<1>4. ASSUME NEW r \in Request, RunUpdate(r)
      PROVE  SentIsValid' /\ RowsAreValid'
  <2> DEFINE o == request[r].object
  <2>1. SentIsValid'
    BY <1>4, OthersStay DEF RunUpdate, Effective, Outcome
  <2>2. CASE UNCHANGED <<rows, route>>
    BY <1>4, <2>1, <2>2 DEF RunUpdate, RowsAreValid, Stored
  <2>3. CASE Live(o) /\ rows' = [rows EXCEPT ![o].properties = Item(r)]
             /\ route' = [route EXCEPT ![o] = @ \cup {request[r].type}]
    <3>1. /\ o \in Object /\ Stored(o)
          /\ Item(r) \in Content /\ request[r].type \in ObjectType
      BY <1>4, <2>3, Carried, NextItem DEF RunUpdate, Sent, Live, ItemsLeft
    <3>2. PICK s \in regimes : Accepts(s, request[r].type, Item(r))
      BY <1>4 DEF RunUpdate, Sent, SentIsValid
    <3>3. /\ rows'[o].type = rows[o].type
          /\ \A x \in Object : x # o => rows'[x] = rows[x]
      BY <2>3, <3>1, UpdatedRow
    <3>4. rows'[o].properties = Item(r)
      BY <2>3, <3>1 DEF TypeOK, Stored, Row
    <3>5. /\ request[r].type \in route'[o]
          /\ \A x \in Object : x # o => route'[x] = route[x]
      BY <2>3, <3>1 DEF TypeOK
    <3>6. regimes' = regimes
      BY <1>4 DEF RunUpdate
    <3>7. ASSUME route'[o] \subseteq {rows'[o].type}
          PROVE  Accepts(s, rows'[o].type, rows'[o].properties)
      BY <3>2, <3>4, <3>5, <3>7
    <3> QED
      BY <2>1, <3>3, <3>5, <3>6, <3>7 DEF RowsAreValid, Stored
  <2> QED
    BY <1>4, <2>2, <2>3 DEF RunUpdate
<1>5. ASSUME NEW r \in Request, RunDelete(r)
      PROVE  SentIsValid' /\ RowsAreValid'
  <2> DEFINE o == request[r].object
  <2>1. SentIsValid'
    BY <1>5, OthersStay DEF RunDelete, Effective, Outcome
  <2>2. CASE UNCHANGED rows
    BY <1>5, <2>1, <2>2 DEF RunDelete, RowsAreValid, Stored
  <2>3. CASE Live(o) /\ rows' = [rows EXCEPT ![o].deleted = TRUE]
    <3>1. o \in Object /\ Stored(o)
      BY <1>5, <2>3, Carried DEF RunDelete, Sent, Live, ItemsLeft
    <3>2. /\ rows'[o].type = rows[o].type
          /\ \A x \in Object : x # o => rows'[x] = rows[x]
      BY <2>3, <3>1, DeletedRow
    <3>3. rows'[o].properties = rows[o].properties
      BY <2>3, <3>1 DEF TypeOK, Stored, Row
    <3>4. regimes' = regimes /\ route' = route
      BY <1>5 DEF RunDelete
    <3> QED
      BY <2>1, <3>1, <3>2, <3>3, <3>4 DEF RowsAreValid, Stored
  <2> QED
    BY <1>5, <2>2, <2>3 DEF RunDelete
<1>6. ASSUME NEW r \in Request, RunSelect(r) \/ Fail(r)
      PROVE  SentIsValid' /\ RowsAreValid'
  <2>1. PICK outcome \in Outcome : Settle(r, outcome)
    BY <1>6 DEF RunSelect, Fail, Outcome
  <2>2. UNCHANGED <<registry, rows, request, route, regimes>>
    BY <1>6 DEF RunSelect, Fail
  <2> QED
    BY <2>1, <2>2, OthersStay DEF RowsAreValid, Stored
<1>7. ASSUME NEW s \in Schema, Reload(s)
      PROVE  SentIsValid' /\ RowsAreValid'
  BY <1>7 DEF Reload, SentIsValid, RowsAreValid, Stored, Item
<1>8. CASE Crash
  <2>1. ASSUME NEW x \in Request, step'[x] \in {"sent", "orphaned"}
        PROVE  step[x] \in {"sent", "orphaned"}
    BY <1>8, <2>1 DEF Crash, TypeOK
  <2>2. registry' \in regimes
    BY <1>8 DEF Crash, SentIsValid
  <2> QED
    BY <1>8, <2>1, <2>2 DEF Crash, SentIsValid, RowsAreValid, Stored, Item
<1>9. CASE UNCHANGED vars
  BY <1>9 DEF vars, SentIsValid, RowsAreValid, Stored, Item
<1> QED
  BY <1>1, <1>2, <1>3, <1>4, <1>5, <1>6, <1>7, <1>8, <1>9 DEF Next, Handle

\* The properties of an object that was updated only under the path of its own
\* type were accepted for that type by a schema that was active.
THEOREM ValidRows == Spec => []RowsAreValid
<1>1. Init => SentIsValid /\ RowsAreValid
  BY DEF Init, SentIsValid, RowsAreValid, Stored, NewRow
<1> QED
  BY <1>1, ValidStep, TypeCorrect, PTL DEF Spec

\* A delete names an object there is or was; and one that was told that it
\* deleted it, or that there was nothing to delete, left it deleted.
ToldIsGone ==
    \A r \in Request :
        /\ request[r] # None => request[r] \in Operation
        /\ request[r] # None /\ request[r].kind = "delete" => Stored(request[r].object)
        /\ Told(r, "ok") \/ Told(r, "notFound") => Gone(request[r].object)

\* Only the statement of a delete makes it be told either.
LEMMA ToldByDelete ==
    ASSUME TypeOK, ItemsLeft, [Next]_vars, NEW r \in Request,
           NEW outcome \in {"ok", "notFound"}, Told(r, outcome)'
    PROVE  Told(r, outcome) \/ RunDelete(r)
<1>1. ASSUME NEW x \in Request, NEW o \in {"invalid", "failed"}, Settle(x, o), UNCHANGED request
      PROVE  Told(r, outcome)
  <2>1. results'[r] # Append(results[r], o)
    BY <1>1 DEF Told, TypeOK
  <2> QED
    BY <1>1, <2>1, SettleAlone DEF Told, Outcome
<1>2. ASSUME NEW x \in Request, NEW o \in Outcome, Settle(x, o), UNCHANGED request,
             request[x].kind # "delete"
      PROVE  Told(r, outcome)
  <2>1. r # x
    BY <1>2 DEF Told
  <2>2. results'[r] = results[r]
    BY <1>2, <2>1, SettleAlone
  <2> QED
    BY <1>2, <2>2 DEF Told
<1>3. ASSUME NEW x \in Request, NEW q \in Asked, Arrive(x, q)
      PROVE  Told(r, outcome)
  <2>1. results' = results /\ results[x] = <<>>
    BY <1>3 DEF Arrive, ItemsLeft
  <2>2. r # x
    <3>1. results'[r] = <<outcome>>
      BY DEF Told
    <3>2. <<outcome>> # <<>>
      OBVIOUS
    <3> QED
      BY <2>1, <3>1, <3>2
  <2>3. request'[r] = request[r]
    BY <1>3, <2>2 DEF Arrive, TypeOK
  <2> QED
    BY <2>1, <2>3 DEF Told
<1>4. ASSUME NEW x \in Request, Handle(x), ~RunDelete(x)
      PROVE  Told(r, outcome)
  <2>1. ASSUME UNCHANGED <<request, results>>
        PROVE  Told(r, outcome)
    BY <2>1 DEF Told
  <2>2. CASE Send(x)
    BY <1>1, <2>1, <2>2 DEF Send
  <2>3. CASE RunUpdate(x) \/ RunSelect(x) \/ \E o \in Object : RunInsert(x, o)
    BY <1>2, <2>3 DEF RunUpdate, RunSelect, RunInsert, Sent, Effective, Outcome
  <2>4. CASE Fail(x)
    BY <1>1, <2>4 DEF Fail
  <2> QED
    BY <1>4, <2>2, <2>3, <2>4 DEF Handle
<1>5. ASSUME NEW x \in Request, RunDelete(x)
      PROVE  Told(r, outcome) \/ RunDelete(r)
  <2>1. PICK o \in Outcome : Settle(x, o)
    BY <1>5 DEF RunDelete, Effective, Outcome
  <2> QED
    BY <1>5, <2>1, SettleAlone DEF RunDelete, Told
<1>6. CASE Crash \/ (\E s \in Schema : Reload(s)) \/ UNCHANGED vars
  BY <1>6 DEF Crash, Reload, vars, Told
<1> QED
  BY <1>3, <1>4, <1>5, <1>6 DEF Next

\* A delete is told ok if its object was live and then is deleted, and that
\* there is nothing to delete if it was not.
LEMMA ToldRightly ==
    ASSUME TypeOK, ItemsLeft, NEW r \in Request, RunDelete(r)
    PROVE  /\ Told(r, "ok")' => Live(request[r].object) /\ Gone(request[r].object)'
           /\ Told(r, "notFound")' => ~Live(request[r].object)
           /\ \A q \in Request \ {r} : results'[q] = results[q]
<1> DEFINE o == request[r].object
<1>1. o \in Object /\ Items(request[r]) = 1
  BY Carried DEF RunDelete, Sent, ItemsLeft, Items
<1>2. results[r] = <<>>
  <2>1. Len(results[r]) < 1 /\ results[r] \in Seq(Outcome)
    BY <1>1 DEF RunDelete, Sent, ItemsLeft, TypeOK
  <2> QED
    BY <2>1
<1>3. ASSUME NEW out \in Outcome, Settle(r, out)
      PROVE  /\ results'[r] \in {<<>>, <<out>>}
             /\ \A q \in Request \ {r} : results'[q] = results[q]
  <2>1. Append(<<>>, out) = <<out>>
    OBVIOUS
  <2> QED
    BY <1>2, <1>3, <2>1, SettleAlone
<1>4. CASE Live(o)
  <2>1. /\ rows' = [rows EXCEPT ![o].deleted = TRUE]
        /\ \E out \in Effective : Settle(r, out)
    BY <1>4 DEF RunDelete
  <2>2. rows'[o] # None /\ rows'[o].deleted
    <3>1. rows[o] \in Row
      BY <1>1, <1>4 DEF Live, Stored, TypeOK
    <3>2. rows'[o] \in Row
      BY <1>1, <1>4, <2>1, DeletedRow DEF Live
    <3> QED
      BY <1>1, <2>1, <3>1, <3>2, NoneAssumption DEF TypeOK, Row
  <2>3. Gone(o)'
    BY <2>2 DEF RunDelete, Gone, Stored
  <2>4. \E out \in {"ok", "failed"} : results'[r] \in {<<>>, <<out>>}
             /\ \A q \in Request \ {r} : results'[q] = results[q]
    BY <1>3, <2>1 DEF Effective, Outcome
  <2> QED
    BY <1>4, <2>3, <2>4 DEF Told, RunDelete
<1>5. CASE ~Live(o)
  <2>1. Settle(r, "notFound")
    BY <1>5 DEF RunDelete
  <2> QED
    BY <1>3, <1>5, <2>1 DEF Told, Outcome
<1> QED
  BY <1>4, <1>5

\* Every step keeps both: a delete is told ok only of an object that was live,
\* so no other was told ok of it before.
LEMMA DeleteStep ==
    TypeOK /\ ItemsLeft /\ ToldIsGone /\ OneDeleteSucceeds /\ [Next]_vars
        => ToldIsGone' /\ OneDeleteSucceeds'
<1> SUFFICES ASSUME TypeOK, ItemsLeft, ToldIsGone, OneDeleteSucceeds, [Next]_vars
             PROVE  ToldIsGone' /\ OneDeleteSucceeds'
  OBVIOUS
<1>1. \A o \in Object : (Stored(o) => Stored(o)') /\ (Gone(o) => Gone(o)')
  BY KeptStep DEF Kept, Gone, Stored
<1>2. ASSUME NEW r \in Request, request'[r] # None
      PROVE  /\ request'[r] \in Operation
             /\ request'[r].kind = "delete" => Stored(request[r].object)'
             /\ results'[r] # <<>> => request'[r] = request[r]
  <2>1. CASE request'[r] = request[r]
    <3>1. request[r] \in Operation
      BY <1>2, <2>1 DEF ToldIsGone
    <3>2. request[r].kind = "delete" => request[r].object \in Object /\ Stored(request[r].object)
      BY <1>2, <2>1, <3>1, Carried DEF ToldIsGone
    <3> QED
      BY <1>1, <2>1, <3>1, <3>2 DEF Stored
  <2>2. CASE request'[r] # request[r]
    <3>1. PICK x \in Request, q \in Asked : Arrive(x, q)
      BY <2>2 DEF Next, Handle, Send, RunUpdate, RunDelete, RunSelect, RunInsert, Fail,
                  Reload, Crash, vars
    <3>2. x = r /\ request'[r] = q /\ results'[r] = <<>>
      BY <2>2, <3>1 DEF Arrive, TypeOK, ItemsLeft
    <3>3. q \in Operation /\ (q.kind = "delete" => Stored(q.object) /\ UNCHANGED rows)
      BY <3>1, AskedAssumption DEF Arrive
    <3> QED
      BY <3>2, <3>3 DEF Stored
  <2> QED
    BY <2>1, <2>2
<1>3. ASSUME NEW r \in Request, NEW outcome \in {"ok", "notFound"}, Told(r, outcome)'
      PROVE  /\ request'[r] = request[r] /\ request[r].object \in Object
             /\ Stored(request[r].object)
             /\ Told(r, outcome) \/ RunDelete(r)
  <2>1. results'[r] # <<>> /\ request'[r] # None /\ request'[r].kind = "delete"
    BY <1>3 DEF Told
  <2>2. request'[r] = request[r]
    BY <1>2, <2>1
  <2>3. request[r].object \in Object /\ Stored(request[r].object)
    BY <2>1, <2>2, Carried DEF ToldIsGone
  <2> QED
    BY <1>3, <2>2, <2>3, ToldByDelete
<1>4. ASSUME NEW r \in Request, NEW outcome \in {"ok", "notFound"}, Told(r, outcome)'
      PROVE  Gone(request[r].object)'
  <2>1. CASE Told(r, outcome)
    <3>1. Gone(request[r].object)
      BY <2>1 DEF ToldIsGone
    <3> QED
      BY <1>1, <1>3, <1>4, <3>1 DEF Gone, Stored
  <2>2. CASE RunDelete(r) /\ outcome = "ok"
    <3>1. Gone(request[r].object)'
      BY <1>4, <2>2, ToldRightly
    <3> QED
      BY <1>3, <1>4, <3>1 DEF Gone, Stored
  <2>3. CASE RunDelete(r) /\ outcome = "notFound"
    <3>1. Gone(request[r].object)
      BY <1>3, <1>4, <2>3, ToldRightly DEF Live, Gone
    <3> QED
      BY <1>1, <1>3, <1>4, <3>1 DEF Gone, Stored
  <2> QED
    BY <1>3, <1>4, <2>1, <2>2, <2>3
<1>5. ASSUME NEW r \in Request, NEW q \in Request, Told(r, "ok")', Told(q, "ok")',
             request'[r].object = request'[q].object
      PROVE  r = q
  <2>1. request'[r] = request[r] /\ request'[q] = request[q]
    BY <1>3, <1>5
  <2>2. ASSUME NEW x \in Request, NEW y \in Request, x # y, RunDelete(x),
               Told(x, "ok")', Told(y, "ok")', request[x].object = request[y].object,
               request'[y] = request[y]
        PROVE  FALSE
    <3>1. Live(request[x].object) /\ results'[y] = results[y]
      BY <2>2, ToldRightly
    <3>2. Told(y, "ok")
      BY <2>2, <3>1 DEF Told
    <3>3. Gone(request[y].object)
      BY <3>2 DEF ToldIsGone
    <3> QED
      BY <2>2, <3>1, <3>3 DEF Live, Gone
  <2>3. Told(r, "ok") /\ Told(q, "ok") => r = q
    BY <1>5, <2>1 DEF OneDeleteSucceeds
  <2> QED
    BY <1>3, <1>5, <2>1, <2>2, <2>3
<1>6. ToldIsGone'
  <2>1. ASSUME NEW r \in Request
        PROVE  /\ request'[r] # None => request'[r] \in Operation
               /\ request'[r] # None /\ request'[r].kind = "delete"
                      => Stored(request[r].object)'
               /\ (Told(r, "ok") \/ Told(r, "notFound"))' => Gone(request[r].object)'
    BY <1>2, <1>4
  <2> QED
    BY <2>1 DEF ToldIsGone, Gone, Stored
<1>7. OneDeleteSucceeds'
  <2>1. \A r \in Request : Told(r, "notFound")' => Gone(request[r].object)'
    BY <1>4
  <2> QED
    BY <1>5, <2>1 DEF OneDeleteSucceeds, Gone, Stored
<1> QED
  BY <1>6, <1>7

\* Of the deletes of one object at most one is told that it deleted it, and one
\* that is told there is nothing to delete is right for good.
THEOREM DeletedOnce == Spec => []OneDeleteSucceeds
<1>1. Init => ToldIsGone /\ OneDeleteSucceeds
  BY DEF Init, ToldIsGone, OneDeleteSucceeds, Told
<1> QED
  BY <1>1, DeleteStep, TypeCorrect, PTL DEF Spec

\* Where objects came from: an object that a request made exists, and its item
\* is one the request was told of, or the one it dealt with when its process
\* stopped; no item made two.
OriginKnown ==
    \A o \in Object : origin[o] # None =>
        /\ Stored(o)
        /\ \E r \in Request, i \in Nat \ {0} :
              /\ origin[o] = <<r, i>>
              /\ \/ i <= Len(results[r])
                 \/ step[r] = "lost" /\ i = Len(results[r]) + 1

OriginOnce == \A o, p \in Object : origin[o] # None /\ origin[o] = origin[p] => o = p

\* What was reported of the items of a create or a bulk import is so.
Reported ==
    \A r \in Request : request[r] # None /\ request[r].kind \in Creating =>
        \A i \in 1 .. Len(results[r]) :
            /\ results[r][i] = "ok" => \E o \in Object : origin[o] = <<r, i>>
            /\ results[r][i] = "invalid" => \A o \in Object : origin[o] # <<r, i>>

Provenance == OriginKnown /\ OriginOnce /\ Reported

\* While a request has not been lost, nothing was made for an item it has not
\* been told of.
LEMMA NotMadeYet ==
    ASSUME TypeOK, OriginKnown, NEW r \in Request, step[r] # "lost",
           NEW i \in Nat, i > Len(results[r])
    PROVE  \A o \in Object : origin[o] # <<r, i>>
<1> SUFFICES ASSUME NEW o \in Object, origin[o] = <<r, i>> PROVE FALSE
  OBVIOUS
<1>1. origin[o] # None
  BY NoneAssumption
<1>2. PICK x \in Request, j \in Nat \ {0} :
         /\ origin[o] = <<x, j>>
         /\ j <= Len(results[x]) \/ step[x] = "lost"
  BY <1>1 DEF OriginKnown
<1>3. x = r /\ j = i
  BY <1>2
<1> QED
  BY <1>2, <1>3 DEF TypeOK

\* What becomes of results when an item settles.
LEMMA SettledResults ==
    ASSUME TypeOK, NEW r \in Request, NEW outcome \in Outcome, Settle(r, outcome)
    PROVE  LET k == Len(results[r]) + 1
           IN  /\ k \in Nat \ {0}
               /\ \/ step[r] = "orphaned" /\ step'[r] = "lost" /\ results' = results
                  \/ /\ step[r] # "orphaned"
                     /\ Len(results'[r]) = k /\ results'[r][k] = outcome
                     /\ \A i \in 1 .. Len(results[r]) : results'[r][i] = results[r][i]
               /\ \A x \in Request \ {r} : step'[x] = step[x] /\ results'[x] = results[x]
<1>1. results[r] \in Seq(Outcome) /\ Len(results[r]) \in Nat
  BY DEF TypeOK
<1>2. CASE step[r] = "orphaned"
  BY <1>1, <1>2 DEF Settle, TypeOK
<1>3. CASE step[r] # "orphaned"
  <2>1. results'[r] = Append(results[r], outcome)
    BY <1>3 DEF Settle, TypeOK
  <2>2. /\ Len(results'[r]) = Len(results[r]) + 1
        /\ results'[r][Len(results[r]) + 1] = outcome
        /\ \A i \in 1 .. Len(results[r]) : results'[r][i] = results[r][i]
    BY <1>1, <2>1
  <2> QED
    BY <1>1, <1>3, <2>2, SettleAlone
<1> QED
  BY <1>2, <1>3

\* An item that settles without an INSERT: it is reported, and made nothing.
LEMMA SettledWithout ==
    ASSUME TypeOK, Provenance, NEW r \in Request, NEW outcome \in Outcome,
           step[r] # "lost", Settle(r, outcome),
           request[r].kind \in Creating => outcome # "ok",
           UNCHANGED <<request, origin>>,
           \A o \in Object : Stored(o) => Stored(o)'
    PROVE  Provenance'
<1> DEFINE k == Len(results[r]) + 1
<1>1. /\ k \in Nat \ {0}
      /\ Len(results[r]) \in Nat
      /\ \/ step[r] = "orphaned" /\ step'[r] = "lost" /\ results' = results
         \/ /\ step[r] # "orphaned"
            /\ Len(results'[r]) = k /\ results'[r][k] = outcome
            /\ \A i \in 1 .. Len(results[r]) : results'[r][i] = results[r][i]
      /\ \A x \in Request \ {r} : step'[x] = step[x] /\ results'[x] = results[x]
  BY SettledResults DEF TypeOK
<1>2. OriginKnown'
  <2> SUFFICES ASSUME NEW o \in Object, origin[o] # None
               PROVE  /\ Stored(o)'
                      /\ \E x \in Request, i \in Nat \ {0} :
                            /\ origin[o] = <<x, i>>
                            /\ \/ i <= Len(results'[x])
                               \/ step'[x] = "lost" /\ i = Len(results'[x]) + 1
    BY DEF OriginKnown
  <2>1. PICK x \in Request, i \in Nat \ {0} :
           /\ origin[o] = <<x, i>>
           /\ \/ i <= Len(results[x])
              \/ step[x] = "lost" /\ i = Len(results[x]) + 1
    BY DEF Provenance, OriginKnown
  <2>2. \/ i <= Len(results'[x])
        \/ step'[x] = "lost" /\ i = Len(results'[x]) + 1
    <3>1. CASE x = r
      <4>1. i <= Len(results[r])
        BY <2>1, <3>1
      <4>2. Len(results[r]) <= Len(results'[r])
        BY <1>1
      <4>3. Len(results'[r]) \in Nat
        BY <1>1
      <4> QED
        BY <1>1, <3>1, <4>1, <4>2, <4>3
    <3>2. CASE x # r
      BY <1>1, <2>1, <3>2
    <3> QED
      BY <3>1, <3>2
  <2> QED
    BY <2>1, <2>2 DEF OriginKnown, Provenance
<1>3. OriginOnce'
  BY DEF Provenance, OriginOnce
<1>4. Reported'
  <2> SUFFICES ASSUME NEW x \in Request, request[x] # None, request[x].kind \in Creating,
                      NEW i \in 1 .. Len(results'[x])
               PROVE  /\ results'[x][i] = "ok" => \E o \in Object : origin[o] = <<x, i>>
                      /\ results'[x][i] = "invalid" => \A o \in Object : origin[o] # <<x, i>>
    BY DEF Reported
  <2>1. CASE i \in 1 .. Len(results[x]) /\ results'[x][i] = results[x][i]
    BY <2>1 DEF Provenance, Reported
  <2>2. CASE x = r /\ i = k /\ results'[r][k] = outcome
    <3>1. \A o \in Object : origin[o] # <<r, k>>
      BY <1>1, NotMadeYet DEF Provenance
    <3> QED
      BY <2>2, <3>1
  <2> QED
    BY <1>1, <2>1, <2>2
<1> QED
  BY <1>2, <1>3, <1>4 DEF Provenance

\* An INSERT makes the object of the item it settles.
LEMMA SettledByInsert ==
    ASSUME TypeOK, ItemsLeft, Provenance, NEW r \in Request, NEW o \in Object, RunInsert(r, o)
    PROVE  Provenance'
<1> DEFINE k == Len(results[r]) + 1
<1>1. PICK outcome \in {"ok", "failed"} : Settle(r, outcome)
  BY DEF RunInsert, Effective
<1>2. /\ k \in Nat \ {0}
      /\ Len(results[r]) \in Nat
      /\ \/ step[r] = "orphaned" /\ step'[r] = "lost" /\ results' = results
         \/ /\ step[r] # "orphaned"
            /\ Len(results'[r]) = k /\ results'[r][k] = outcome
            /\ \A i \in 1 .. Len(results[r]) : results'[r][i] = results[r][i]
      /\ \A x \in Request \ {r} : step'[x] = step[x] /\ results'[x] = results[x]
  BY <1>1, SettledResults DEF TypeOK, Outcome
<1>3. /\ step[r] \in {"sent", "orphaned"}
      /\ origin'[o] = <<r, k>> /\ \A p \in Object \ {o} : origin'[p] = origin[p]
      /\ request' = request
  BY DEF RunInsert, Sent, TypeOK
<1>4. Stored(o)' /\ \A p \in Object \ {o} : Stored(p)' = Stored(p)
  <2>1. rows' = [rows EXCEPT ![o] = NewRow(request[r].type, Item(r))]
    BY DEF RunInsert
  <2>2. NewRow(request[r].type, Item(r)) # None
    <3>1. Item(r) \in Content /\ request[r].type \in ObjectType
      BY NextItem, Carried DEF RunInsert, Sent, ItemsLeft
    <3> QED
      BY <3>1, NewRowType, NoneAssumption
  <2> QED
    BY <2>1, <2>2 DEF Stored, TypeOK
<1>5. \A p \in Object : origin[p] # <<r, k>>
  BY <1>2, <1>3, NotMadeYet DEF Provenance
<1>6. OriginKnown'
  <2> SUFFICES ASSUME NEW p \in Object, origin'[p] # None
               PROVE  /\ Stored(p)'
                      /\ \E x \in Request, i \in Nat \ {0} :
                            /\ origin'[p] = <<x, i>>
                            /\ \/ i <= Len(results'[x])
                               \/ step'[x] = "lost" /\ i = Len(results'[x]) + 1
    BY DEF OriginKnown
  <2>1. CASE p = o
    BY <1>2, <1>3, <1>4, <2>1
  <2>2. CASE p # o
    <3>1. PICK x \in Request, i \in Nat \ {0} :
             /\ origin[p] = <<x, i>>
             /\ \/ i <= Len(results[x])
                \/ step[x] = "lost" /\ i = Len(results[x]) + 1
      BY <1>3, <2>2 DEF Provenance, OriginKnown
    <3>2. Stored(p)'
      BY <1>3, <1>4, <2>2 DEF Provenance, OriginKnown
    <3>3. \/ i <= Len(results'[x])
          \/ step'[x] = "lost" /\ i = Len(results'[x]) + 1
      BY <1>2, <1>3, <3>1
    <3> QED
      BY <1>3, <2>2, <3>1, <3>2, <3>3
  <2> QED
    BY <2>1, <2>2
<1>7. OriginOnce'
  <2> SUFFICES ASSUME NEW p \in Object, NEW q \in Object,
                      origin'[p] # None, origin'[p] = origin'[q]
               PROVE  p = q
    BY DEF OriginOnce
  <2> QED
    BY <1>3, <1>5 DEF Provenance, OriginOnce
<1>8. Reported'
  <2> SUFFICES ASSUME NEW x \in Request, request[x] # None, request[x].kind \in Creating,
                      NEW i \in 1 .. Len(results'[x])
               PROVE  /\ results'[x][i] = "ok" => \E p \in Object : origin'[p] = <<x, i>>
                      /\ results'[x][i] = "invalid" => \A p \in Object : origin'[p] # <<x, i>>
    BY <1>3 DEF Reported
  <2>1. CASE i \in 1 .. Len(results[x]) /\ results'[x][i] = results[x][i]
    <3>1. /\ results[x][i] = "ok" => \E p \in Object : origin[p] = <<x, i>>
          /\ results[x][i] = "invalid" => \A p \in Object : origin[p] # <<x, i>>
      BY <2>1 DEF Provenance, Reported
    <3>2. <<x, i>> # <<r, k>>
      <4>1. x = r => i # k
        BY <1>2, <2>1
      <4> QED
        BY <4>1
    <3>3. ASSUME NEW p \in Object, origin[p] = <<x, i>>
          PROVE  p # o
      <4>1. origin[p] # None
        BY <3>3, NoneAssumption
      <4>2. Stored(p)
        BY <4>1 DEF Provenance, OriginKnown
      <4> QED
        BY <4>2 DEF RunInsert
    <3> QED
      BY <1>3, <2>1, <3>1, <3>2, <3>3
  <2>2. CASE x = r /\ i = k /\ results'[r][k] = outcome
    BY <1>3, <2>2
  <2> QED
    BY <1>2, <2>1, <2>2
<1> QED
  BY <1>6, <1>7, <1>8 DEF Provenance

\* A step that reports and makes nothing keeps the account.
LEMMA ProvenanceKeeps ==
    ASSUME Provenance, UNCHANGED <<rows, request, results, origin>>,
           \A x \in Request : step[x] = "lost" => step'[x] = "lost"
    PROVE  Provenance'
<1>1. OriginKnown'
  BY DEF Provenance, OriginKnown, Stored
<1>2. OriginOnce' /\ Reported'
  BY DEF Provenance, OriginOnce, Reported
<1> QED
  BY <1>1, <1>2 DEF Provenance

\* Every step keeps the account of what was made.
LEMMA ProvenanceStep ==
    TypeOK /\ ItemsLeft /\ Provenance /\ [Next]_vars => Provenance'
<1> SUFFICES ASSUME TypeOK, ItemsLeft, Provenance, [Next]_vars PROVE Provenance'
  OBVIOUS
<1>k. \A o \in Object : Stored(o) => Stored(o)'
  BY KeptStep DEF Kept
<1>1. ASSUME NEW r \in Request, NEW q \in Asked, Arrive(r, q)
      PROVE  Provenance'
  <2>1. /\ UNCHANGED <<rows, results, origin>>
        /\ step[r] = "idle" /\ results[r] = <<>>
        /\ \A x \in Request : step[x] = "lost" => step'[x] = "lost"
        /\ \A x \in Request \ {r} : request'[x] = request[x]
    BY <1>1 DEF Arrive, TypeOK, ItemsLeft
  <2>2. OriginKnown'
    BY <2>1 DEF Provenance, OriginKnown, Stored
  <2>3. Reported'
    <3>1. 1 .. Len(results[r]) = {}
      BY <2>1
    <3> QED
      BY <2>1, <3>1 DEF Provenance, Reported
  <2> QED
    BY <2>1, <2>2, <2>3 DEF Provenance, OriginOnce
<1>2. ASSUME NEW r \in Request, Send(r)
      PROVE  Provenance'
  <2>1. CASE Passes(r) /\ step' = [step EXCEPT ![r] = "sent"] /\ UNCHANGED results
    <3>1. \A x \in Request : step[x] = "lost" => step'[x] = "lost"
      BY <1>2, <2>1 DEF Send, TypeOK
    <3>2. UNCHANGED <<rows, request, results, origin>>
      BY <1>2, <2>1 DEF Send
    <3> QED
      BY <3>1, <3>2, ProvenanceKeeps
  <2>2. CASE Settle(r, "invalid")
    BY <1>2, <1>k, <2>2, SettledWithout DEF Send, Outcome
  <2> QED
    BY <1>2, <2>1, <2>2 DEF Send
<1>3. ASSUME NEW r \in Request, RunUpdate(r) \/ RunDelete(r) \/ RunSelect(r)
      PROVE  Provenance'
  <2>1. PICK outcome \in Outcome : Settle(r, outcome)
    BY <1>3 DEF RunUpdate, RunDelete, RunSelect, Effective, Outcome
  <2>2. /\ step[r] # "lost" /\ request[r].kind \notin Creating
        /\ UNCHANGED <<request, origin>>
    BY <1>3 DEF RunUpdate, RunDelete, RunSelect, Sent, Creating
  <2> QED
    BY <1>k, <2>1, <2>2, SettledWithout
<1>4. ASSUME NEW r \in Request, Fail(r)
      PROVE  Provenance'
  BY <1>4, <1>k, SettledWithout DEF Fail, Outcome
<1>5. ASSUME NEW r \in Request, NEW o \in Object, RunInsert(r, o)
      PROVE  Provenance'
  BY <1>5, SettledByInsert
<1>6. CASE Crash \/ (\E s \in Schema : Reload(s)) \/ UNCHANGED vars
  <2>1. /\ UNCHANGED <<rows, request, results, origin>>
        /\ \A x \in Request : step[x] = "lost" => step'[x] = "lost"
    BY <1>6 DEF Crash, Reload, vars
  <2> QED
    BY <2>1, ProvenanceKeeps
<1> QED
  BY <1>1, <1>2, <1>3, <1>4, <1>5, <1>6 DEF Next, Handle

\* What the account says of the items of one request.
LEMMA ReportFollows ==
    ASSUME TypeOK, ToldIsGone, Provenance
    PROVE  ReportMatchesRows
<1> SUFFICES ASSUME NEW r \in Request, request[r] # None, request[r].kind \in Creating,
                    NEW i \in 1 .. Items(request[r])
             PROVE  LET made == {o \in Object : origin[o] = <<r, i>>}
                        told == i \in DOMAIN results[r]
                    IN  /\ \A o, p \in made : o = p
                        /\ told /\ results[r][i] = "ok" => made # {}
                        /\ told /\ results[r][i] = "invalid" => made = {}
                        /\ ~told /\ step[r] # "lost" => made = {}
  BY DEF ReportMatchesRows, Creating
<1>1. i \in Nat \ {0}
  BY Carried DEF ToldIsGone
<1>2. Len(results[r]) \in Nat /\ DOMAIN results[r] = 1 .. Len(results[r])
  BY DEF TypeOK
<1>3. <<r, i>> # None
  BY <1>1, NoneAssumption
<1>4. \A o, p \in Object : origin[o] = <<r, i>> /\ origin[p] = <<r, i>> => o = p
  BY <1>3 DEF Provenance, OriginOnce
<1>5. ASSUME i \in DOMAIN results[r]
      PROVE  /\ results[r][i] = "ok" => \E o \in Object : origin[o] = <<r, i>>
             /\ results[r][i] = "invalid" => \A o \in Object : origin[o] # <<r, i>>
  BY <1>2, <1>5 DEF Provenance, Reported
<1>6. ASSUME i \notin DOMAIN results[r], step[r] # "lost"
      PROVE  \A o \in Object : origin[o] # <<r, i>>
  <2>1. i > Len(results[r])
    BY <1>1, <1>2, <1>6
  <2> QED
    BY <1>1, <1>6, <2>1, NotMadeYet DEF Provenance
<1> QED
  BY <1>4, <1>5, <1>6

\* What a create or a bulk import reports of its items is what the table holds,
\* however often statements fail and processes stop in the middle of it.
THEOREM ReportIsTrue == Spec => []ReportMatchesRows
<1>1. Init => Provenance
  BY DEF Init, Provenance, OriginKnown, OriginOnce, Reported
<1>2. Init => ToldIsGone /\ OneDeleteSucceeds
  BY DEF Init, ToldIsGone, OneDeleteSucceeds, Told
<1>3. TypeOK /\ ToldIsGone /\ Provenance => ReportMatchesRows
  BY ReportFollows
<1> QED
  BY <1>1, <1>2, <1>3, ProvenanceStep, DeleteStep, TypeCorrect, PTL DEF Spec

\* What a request saw when it arrived is still so: what was deleted is, and what
\* was there is stored.
Views ==
    \A r \in Request :
        /\ view[r].gone \subseteq {o \in Object : Gone(o)}
        /\ view[r].live \subseteq {o \in Object : Stored(o)}

\* Every step keeps that, for deletes are final and no row is taken back.
LEMMA ViewsStep == TypeOK /\ ItemsLeft /\ Views /\ [Next]_vars => Views'
<1> SUFFICES ASSUME TypeOK, ItemsLeft, Views, [Next]_vars, NEW r \in Request
             PROVE  /\ view'[r].gone \subseteq {o \in Object : Gone(o)'}
                    /\ view'[r].live \subseteq {o \in Object : Stored(o)'}
  BY DEF Views
<1>1. \A o \in Object : (Stored(o) => Stored(o)') /\ (Gone(o) => Gone(o)')
  BY KeptStep DEF Kept, Gone, Stored
<1>2. CASE view'[r] = view[r]
  BY <1>1, <1>2 DEF Views
<1>3. CASE view'[r] # view[r]
  <2>1. PICK x \in Request, q \in Asked : Arrive(x, q)
    BY <1>3 DEF Next, Handle, Send, RunUpdate, RunDelete, RunSelect, RunInsert, Fail,
                Reload, Crash, vars
  <2>2. view'[r] = [live |-> {o \in Object : Live(o)}, gone |-> {o \in Object : Gone(o)}]
    BY <1>3, <2>1 DEF Arrive, TypeOK
  <2> QED
    BY <1>1, <2>2 DEF Live
<1> QED
  BY <1>2, <1>3

\* What a read would find after a step it would have found before it, if the
\* object was stored and has not been updated.
LEMMA SelectedBefore ==
    ASSUME TypeOK, ItemsLeft, [Next]_vars, NEW q, NEW o \in Object,
           Stored(o), Selects(q, o)', route'[o] = {}
    PROVE  Selects(q, o) /\ route[o] = {}
<1>1. CASE rows'[o] = rows[o] /\ route'[o] = route[o]
  BY <1>1 DEF Selects, Live, Stored
<1>2. CASE rows'[o] # rows[o] \/ route'[o] # route[o]
  <2>1. \/ \E r \in Request : RunUpdate(r) \/ RunDelete(r)
        \/ \E r \in Request, p \in Object : RunInsert(r, p)
    BY <1>2 DEF Next, Handle, Arrive, Send, RunSelect, Fail, Reload, Crash, vars
  <2>2. ASSUME NEW r \in Request, NEW p \in Object, RunInsert(r, p)
        PROVE  FALSE
    <3>1. p # o
      BY <2>2 DEF RunInsert
    <3> QED
      BY <1>2, <2>2, <3>1 DEF RunInsert, TypeOK
  <2>3. ASSUME NEW r \in Request, RunUpdate(r)
        PROVE  FALSE
    <3> DEFINE u == request[r].object
    <3>1. /\ Live(u) /\ u \in Object /\ Item(r) \in Content
          /\ rows' = [rows EXCEPT ![u].properties = Item(r)]
          /\ route' = [route EXCEPT ![u] = @ \cup {request[r].type}]
      BY <1>2, <2>3, Carried, NextItem DEF RunUpdate, Sent, ItemsLeft
    <3>2. \A x \in Object : x # u => rows'[x] = rows[x] /\ route'[x] = route[x]
      BY <3>1, UpdatedRow DEF Live, TypeOK
    <3>3. request[r].type \in route'[u]
      BY <3>1 DEF TypeOK
    <3> QED
      BY <1>2, <3>1, <3>2, <3>3
  <2>4. ASSUME NEW r \in Request, RunDelete(r)
        PROVE  FALSE
    <3> DEFINE u == request[r].object
    <3>1. /\ Live(u) /\ u \in Object
          /\ rows' = [rows EXCEPT ![u].deleted = TRUE]
          /\ route' = route
      BY <1>2, <2>4, Carried DEF RunDelete, Sent, ItemsLeft
    <3>2. \A x \in Object : x # u => rows'[x] = rows[x]
      BY <3>1, DeletedRow DEF Live
    <3>3. rows'[u].deleted
      BY <3>1 DEF Live, Stored, TypeOK, Row
    <3>4. o = u
      BY <1>2, <3>1, <3>2
    <3>5. rows'[o].deleted
      BY <3>3, <3>4
    <3> QED
      BY <3>5 DEF Selects, Live
  <2> QED
    BY <2>1, <2>2, <2>3, <2>4
<1> QED
  BY <1>1, <1>2

\* A read that was answered ok.
ReadOk(r) ==
    step[r] = "answered" /\ request[r].kind \in {"get", "query"} /\ results[r] = <<"ok">>

\* It is answered ok by its SELECT, and stays so.
LEMMA ReadOkBefore ==
    ASSUME TypeOK, ItemsLeft, [Next]_vars, NEW r \in Request, ReadOk(r)'
    PROVE  \/ RunSelect(r)
           \/ /\ ReadOk(r)
              /\ found'[r] = found[r] /\ view'[r] = view[r] /\ request'[r] = request[r]
<1>1. ASSUME NEW q \in Asked, Arrive(r, q)
      PROVE  FALSE
  BY <1>1 DEF Arrive, ReadOk, TypeOK
<1>2. ASSUME NEW outcome \in {"invalid", "failed"}, Settle(r, outcome), UNCHANGED request
      PROVE  FALSE
  <2>1. CASE step[r] = "orphaned"
    BY <1>2, <2>1, SettleAlone DEF Settle, ReadOk, TypeOK
  <2>2. CASE step[r] # "orphaned"
    <3>1. results'[r][Len(results'[r])] = outcome
      BY <1>2, <2>2, SettledResults DEF Outcome
    <3>2. Len(<<"ok">>) = 1 /\ <<"ok">>[1] = "ok"
      OBVIOUS
    <3> QED
      BY <3>1, <3>2 DEF ReadOk
  <2> QED
    BY <2>1, <2>2
<1>3. ASSUME Handle(r), ~RunSelect(r)
      PROVE  FALSE
  <2>1. CASE Send(r)
    BY <1>2, <2>1 DEF Send, ReadOk, TypeOK
  <2>2. CASE Fail(r)
    BY <1>2, <2>2 DEF Fail
  <2>3. CASE RunUpdate(r) \/ RunDelete(r) \/ \E o \in Object : RunInsert(r, o)
    BY <2>3 DEF RunUpdate, RunDelete, RunInsert, Sent, ReadOk
  <2> QED
    BY <1>3, <2>1, <2>2, <2>3 DEF Handle
<1>4. ASSUME NEW x \in Request \ {r}, Handle(x) \/ \E q \in Asked : Arrive(x, q)
      PROVE  /\ step'[r] = step[r] /\ results'[r] = results[r]
             /\ found'[r] = found[r] /\ view'[r] = view[r] /\ request'[r] = request[r]
  <2>1. CASE \E q \in Asked : Arrive(x, q)
    BY <1>4, <2>1 DEF Arrive, TypeOK
  <2>2. CASE Send(x) /\ results' = results /\ step' = [step EXCEPT ![x] = "sent"]
    BY <1>4, <2>2 DEF Send, TypeOK
  <2>3. CASE \E outcome \in Outcome : Settle(x, outcome)
    <3>1. step'[r] = step[r] /\ results'[r] = results[r]
      BY <1>4, <2>3, SettleAlone
    <3>2. found'[r] = found[r]
      BY <1>4 DEF Handle, Arrive, Send, RunUpdate, RunDelete, RunSelect, RunInsert, Fail, TypeOK
    <3>3. view'[r] = view[r] /\ request'[r] = request[r]
      BY <1>4 DEF Handle, Arrive, Send, RunUpdate, RunDelete, RunSelect, RunInsert, Fail, TypeOK
    <3> QED
      BY <3>1, <3>2, <3>3
  <2>4. \/ \E q \in Asked : Arrive(x, q)
        \/ Send(x) /\ results' = results /\ step' = [step EXCEPT ![x] = "sent"]
        \/ \E outcome \in Outcome : Settle(x, outcome)
    BY <1>4 DEF Handle, Send, RunUpdate, RunDelete, RunSelect, RunInsert, Fail, Effective, Outcome
  <2> QED
    BY <2>1, <2>2, <2>3, <2>4
<1>5. ASSUME Crash \/ (\E s \in Schema : Reload(s)) \/ UNCHANGED vars
      PROVE  /\ step'[r] = "answered" => step[r] = "answered"
             /\ results'[r] = results[r]
             /\ found'[r] = found[r] /\ view'[r] = view[r] /\ request'[r] = request[r]
  BY <1>5 DEF Crash, Reload, vars, TypeOK
<1>6. CASE \E x \in Request \ {r} : Handle(x) \/ \E q \in Asked : Arrive(x, q)
  BY <1>4, <1>6 DEF ReadOk
<1>7. CASE Crash \/ (\E s \in Schema : Reload(s)) \/ UNCHANGED vars
  BY <1>5, <1>7 DEF ReadOk
<1> QED
  BY <1>1, <1>3, <1>6, <1>7 DEF Next

\* Every step keeps what a read that was answered may have found.
LEMMA ReadsStep ==
    TypeOK /\ ItemsLeft /\ Views /\ ReadsAreRegular /\ [Next]_vars => ReadsAreRegular'
<1> SUFFICES ASSUME TypeOK, ItemsLeft, Views, ReadsAreRegular, [Next]_vars,
                    NEW r \in Request, ReadOk(r)'
             PROVE  /\ found'[r] \cap view'[r].gone = {}
                    /\ \A o \in view'[r].live :
                          Selects(request[r], o)' /\ route'[o] = {} => o \in found'[r]
  BY DEF ReadsAreRegular, ReadOk
<1>1. CASE RunSelect(r)
  <2>1. /\ found'[r] = {o \in Object : Selects(request[r], o)}
        /\ UNCHANGED <<rows, request, route, view>>
    BY <1>1 DEF RunSelect, TypeOK
  <2>2. view'[r].live \subseteq Object
    BY <2>1 DEF Views
  <2>3. \A o \in Object : Gone(o) => ~Selects(request[r], o)
    BY DEF Gone, Selects, Live
  <2>4. \A o \in Object : Selects(request[r], o)' => Selects(request[r], o)
    BY <2>1 DEF Selects, Live, Stored
  <2> QED
    BY <2>1, <2>2, <2>3, <2>4 DEF Views
<1>2. CASE /\ ReadOk(r)
           /\ found'[r] = found[r] /\ view'[r] = view[r] /\ request'[r] = request[r]
  <2>1. ASSUME NEW o \in view[r].live, Selects(request[r], o)', route'[o] = {}
        PROVE  o \in found[r]
    <3>1. o \in Object /\ Stored(o)
      BY DEF Views
    <3>2. Selects(request[r], o) /\ route[o] = {}
      BY <1>2, <2>1, <3>1, SelectedBefore DEF Selects, Live, Stored
    <3> QED
      BY <1>2, <3>2 DEF ReadsAreRegular, ReadOk
  <2> QED
    BY <1>2, <2>1 DEF ReadsAreRegular, ReadOk
<1> QED
  BY <1>1, <1>2, ReadOkBefore

\* A read returns nothing that was deleted before it arrived, and everything it
\* asks for that was there then, is still there and never changed.
THEOREM RegularReads == Spec => []ReadsAreRegular
<1>1. Init => Views /\ ReadsAreRegular
  BY DEF Init, Views, ReadsAreRegular
<1> QED
  BY <1>1, ViewsStep, ReadsStep, TypeCorrect, PTL DEF Spec

=============================================================================
