--------------------------- MODULE TenantRegistry ---------------------------
(***************************************************************************)
(* The control plane's table of tenants.  Registering one is two           *)
(* statements, a SELECT by slug and an INSERT, and nothing keeps two       *)
(* registrations apart but the table's unique constraint.  Every other     *)
(* operation is one UPDATE by id; no row is ever deleted.  A tenant goes   *)
(* by the registration that creates its row.                               *)
(***************************************************************************)
EXTENDS Naturals

CONSTANTS
    Tenant,       \* the registrations, and the tenants they create
    Slug,
    MaxFailures,  \* bound: statements that fail in a behaviour
    None

Status == {"active", "suspended", "offboarded"}
Row == [slug : Slug, status : Status, offboarded : BOOLEAN, agent : BOOLEAN]

ASSUME RegistryAssumption == MaxFailures \in Nat /\ None \notin Row \cup Slug

VARIABLES
    row,        \* the tenants table
    post,       \* how far each registration is, or what it was answered
    slug,       \* the slug it asked for
    met,        \* history: the registrations of its slug under way with it
    failures    \* statements that failed

registryVars == <<row, post, slug, met>>

Answer == {"201", "409", "conflict", "failed"}

RegistryTypeOK ==
    /\ row \in [Tenant -> Row \cup {None}]
    /\ post \in [Tenant -> {"idle", "checked"} \cup Answer]
    /\ slug \in [Tenant -> Slug \cup {None}]
    /\ met \in [Tenant -> SUBSET Tenant]
    /\ failures \in 0..MaxFailures

RegistryInit ==
    /\ row = [t \in Tenant |-> None]
    /\ post = [t \in Tenant |-> "idle"]
    /\ slug = [t \in Tenant |-> None]
    /\ met = [t \in Tenant |-> {}]
    /\ failures = 0

Exists(t) == row[t] # None
Offboarded(t) == Exists(t) /\ row[t].offboarded
Taken(s) == \E t \in Tenant : Exists(t) /\ row[t].slug = s

\* POST /tenants up to the answer of findBySlug, which sees offboarded rows too.
FindBySlug(t, s) ==
    /\ post[t] = "idle"
    /\ LET others == {u \in Tenant : post[u] = "checked" /\ slug[u] = s}
       IN  met' = [u \in Tenant |-> IF u = t THEN others
                                    ELSE IF u \in others THEN met[u] \cup {t} ELSE met[u]]
    /\ slug' = [slug EXCEPT ![t] = s]
    /\ post' = [post EXCEPT ![t] = IF Taken(s) THEN "409" ELSE "checked"]
    /\ UNCHANGED <<row, failures>>

NewRow(s, agent) == [slug |-> s, status |-> "active", offboarded |-> FALSE, agent |-> agent]

\* Mutant: the column lost its unique constraint.
CreateAgain(t, agent) ==
    /\ post[t] = "checked"
    /\ post' = [post EXCEPT ![t] = "201"]
    /\ row' = [row EXCEPT ![t] = NewRow(slug[t], agent)]
    /\ UNCHANGED <<slug, met, failures>>

\* The INSERT: the slug is still free, or the unique constraint makes it throw.
Create(t, agent) ==
    /\ post[t] = "checked"
    /\ IF Taken(slug[t])
         THEN post' = [post EXCEPT ![t] = "conflict"] /\ UNCHANGED row
         ELSE /\ post' = [post EXCEPT ![t] = "201"]
              /\ row' = [row EXCEPT ![t] = NewRow(slug[t], agent)]
    /\ UNCHANGED <<slug, met, failures>>

\* The INSERT throws for another reason, before or after it took effect.
FailCreate(t, agent) ==
    /\ post[t] = "checked" /\ failures < MaxFailures
    /\ failures' = failures + 1
    /\ post' = [post EXCEPT ![t] = "failed"]
    /\ \/ UNCHANGED row
       \/ ~Taken(slug[t]) /\ row' = [row EXCEPT ![t] = NewRow(slug[t], agent)]
    /\ UNCHANGED <<slug, met>>

\* PUT /tenants/:id; of the metadata only the agent's URL matters elsewhere,
\* and a body can set it but not remove it.
Update(t) ==
    /\ Exists(t)
    /\ row' = [row EXCEPT ![t].agent = TRUE]
    /\ UNCHANGED <<post, slug, met, failures>>

\* POST /tenants/:id/suspend.
Suspend(t) ==
    /\ Exists(t)
    /\ row' = [row EXCEPT ![t].status = "suspended"]
    /\ UNCHANGED <<post, slug, met, failures>>

\* Mutant: activation undoes an offboarding.
ActivateAnew(t) ==
    /\ Exists(t)
    /\ row' = [row EXCEPT ![t].status = "active", ![t].offboarded = FALSE]
    /\ UNCHANGED <<post, slug, met, failures>>

\* POST /tenants/:id/activate leaves offboardedAt as it is.
Activate(t) ==
    /\ Exists(t)
    /\ row' = [row EXCEPT ![t].status = "active"]
    /\ UNCHANGED <<post, slug, met, failures>>

\* Mutant: DELETE /tenants/:id deletes the row.
OffboardForGood(t) ==
    /\ Exists(t)
    /\ row' = [row EXCEPT ![t] = None]
    /\ UNCHANGED <<post, slug, met, failures>>

\* DELETE /tenants/:id.
Offboard(t) ==
    /\ Exists(t)
    /\ row' = [row EXCEPT ![t].status = "offboarded", ![t].offboarded = TRUE]
    /\ UNCHANGED <<post, slug, met, failures>>

Registry(t) ==
    \/ \E s \in Slug : FindBySlug(t, s)
    \/ \E agent \in BOOLEAN : Create(t, agent) \/ FailCreate(t, agent)
    \/ Update(t) \/ Suspend(t) \/ Activate(t) \/ Offboard(t)

\* GET /tenants: findAll.
Listed == {t \in Tenant : Exists(t) /\ ~Offboarded(t)}

-----------------------------------------------------------------------------

\* Registrations of one slug that overlap: at most one is told it succeeded,
\* a 409 is right, and a constraint error (a 500) only meets a registration
\* that ran at the same time as one that got the slug.
RegistrationsAreRight ==
    /\ \A t, u \in Tenant :
          post[t] = "201" /\ post[u] = "201" /\ slug[t] = slug[u] => t = u
    /\ \A t \in Tenant :
          /\ post[t] = "201" => Exists(t) /\ row[t].slug = slug[t]
          /\ post[t] = "409" => \E u \in Tenant \ {t} : Exists(u) /\ row[u].slug = slug[t]
          /\ post[t] = "conflict" => \E u \in met[t] : Exists(u) /\ row[u].slug = slug[t]

-----------------------------------------------------------------------------
(* The registry of slugs that statements and answers implement.            *)

Holders == [s \in Slug |-> {t \in Tenant : Exists(t) /\ row[t].slug = s}]
Claimed == [t \in Tenant |-> IF post[t] \in Answer THEN slug[t] ELSE None]
Told == [t \in Tenant |-> CASE post[t] \in {"idle", "checked"} -> "none"
                            [] post[t] = "201" -> "claimed"
                            [] post[t] = "failed" -> "failed"
                            [] OTHER -> "refused"]

Slugs == INSTANCE SlugRegistry WITH
             Owner <- Tenant,
             holders <- Holders, claim <- Claimed, answer <- Told

\* A registration is one atomic claim, for all the ways in which the statements
\* of several overlap; operators free no slug, by offboarding neither.
ImplementsSlugs == Slugs!Spec

=============================================================================
