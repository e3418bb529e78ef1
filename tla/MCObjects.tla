----------------------------- MODULE MCObjects -----------------------------
(* TLC instances of Objects. *)
EXTENDS Objects, TLC

\* Two types whose contents exclude each other, and an upload that drops one
\* and asks nothing of the other.
Property(name, required, values) ==
    [name |-> name, required |-> required, enum |-> values # {}, values |-> values]
FirstSchema ==
    [Shipment |-> {Property("status", TRUE, {"Draft"})},
     Customer |-> {Property("name", TRUE, {})}]
SecondSchema == [Shipment |-> {Property("status", FALSE, {"Draft"})}]
MCSchema == {FirstSchema, SecondSchema}

Shipment == [status |-> "Draft", legalEntityId |-> "A"]
Customer == [name |-> "N"]
MCContent == {Shipment, Customer}
MCBatch == {<<Shipment, Customer>>}

\* Updates under both paths, reads of what updates change, and imports whose
\* second item the first schema refuses and the second accepts.
MCAsked ==
    {q \in Operation :
        CASE q.kind = "create" -> q.type = "Shipment" /\ q.items = <<Shipment>>
          [] q.kind = "update" -> q.items = <<Customer>>
          [] q.kind = "query" -> q.type = "Shipment" /\ q.filter = "A"
          [] q.kind = "bulk" -> q.type = "Shipment"
          [] OTHER -> TRUE}

Symmetry == Permutations(Request) \cup Permutations(Object)

=============================================================================
