--------------------------- MODULE MCSchemaReload ---------------------------
(* TLC instances of SchemaReload.                                          *)
EXTENDS SchemaReload, TLC

CONSTANTS api, agent, s0, s1, s2

\* Both processes are deployed with the same directory.
MCBootSchema == [n \in Node |-> s0]

Symmetry == Permutations(Upload) \cup Permutations({s1, s2})

=============================================================================
