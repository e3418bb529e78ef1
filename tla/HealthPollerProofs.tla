------------------------- MODULE HealthPollerProofs -------------------------
(***************************************************************************)
(* What the tenants table and the health poller keep for any number of     *)
(* registrations, slugs, polls and failures, and that registrations        *)
(* implement SlugRegistry.                                                 *)
(***************************************************************************)
EXTENDS HealthPoller, TLAPS

(* Registrations.                                                          *)

\* A row belongs to the registration that inserted it.
RowOfPost ==
    \A t \in Tenant :
        /\ Exists(t) => post[t] \in {"201", "failed"} /\ row[t].slug = slug[t]
        /\ post[t] = "201" => Exists(t)
        /\ post[t] # "idle" => slug[t] \in Slug

\* The unique constraint.
SlugsAreUnique ==
    \A t, u \in Tenant : Exists(t) /\ Exists(u) /\ slug[t] = slug[u] => t = u

\* A registration whose SELECT found nothing has met whoever got there first.
MetInTime ==
    \A t, u \in Tenant :
        /\ t # u /\ post[t] = "checked" /\ slug[u] = slug[t]
        /\ post[u] = "checked" \/ Exists(u)
        => u \in met[t]

RegistryInv == RegistryTypeOK /\ RowOfPost /\ SlugsAreUnique /\ MetInTime /\ RegistrationsAreRight

\* The invariant of the registrations holds of an empty table.
LEMMA RegistryBegins == Init => RegistryInv
BY RegistryAssumption
   DEF Init, RegistryInit, RegistryInv, RegistryTypeOK, RowOfPost, SlugsAreUnique, MetInTime,
       RegistrationsAreRight, Exists, Answer

\* What the operators do to a row keeps its slug.
LEMMA RowChangeKeeps ==
    ASSUME RegistryInv, NEW t \in Tenant, NEW r \in Row, Exists(t), r.slug = row[t].slug,
           row' = [row EXCEPT ![t] = r], UNCHANGED <<post, slug, met, failures>>
    PROVE  RegistryInv'
<1>1. r # None
  BY RegistryAssumption
<1>2. \A u \in Tenant : (Exists(u)' <=> Exists(u)) /\ (Exists(u) => row'[u].slug = row[u].slug)
  BY <1>1 DEF Exists, RegistryInv, RegistryTypeOK
<1>3. RegistryTypeOK'
  BY DEF RegistryInv, RegistryTypeOK
<1>4. RowOfPost' /\ SlugsAreUnique' /\ MetInTime'
  BY <1>2 DEF RegistryInv, RowOfPost, SlugsAreUnique, MetInTime
<1>5. RegistrationsAreRight'
  <2>1. ASSUME NEW u \in Tenant, post[u] = "201"
        PROVE  Exists(u)' /\ row'[u].slug = slug[u]
    BY <1>2, <2>1 DEF RegistryInv, RegistrationsAreRight
  <2>2. ASSUME NEW u \in Tenant, post[u] = "409"
        PROVE  \E v \in Tenant \ {u} : Exists(v)' /\ row'[v].slug = slug[u]
    BY <1>2, <2>2 DEF RegistryInv, RegistrationsAreRight
  <2>3. ASSUME NEW u \in Tenant, post[u] = "conflict"
        PROVE  \E v \in met[u] : Exists(v)' /\ row'[v].slug = slug[u]
    BY <1>2, <2>3 DEF RegistryInv, RegistrationsAreRight, RegistryTypeOK
  <2> QED
    BY <2>1, <2>2, <2>3 DEF RegistryInv, RegistrationsAreRight
<1> QED
  BY <1>3, <1>4, <1>5 DEF RegistryInv

\* An operator changes a tenant that is there, and not its slug.
LEMMA OperatorsKeepTheSlug ==
    ASSUME RegistryInv, NEW t \in Tenant, Update(t) \/ Suspend(t) \/ Activate(t) \/ Offboard(t)
    PROVE  \E r \in Row : /\ Exists(t) /\ row' = [row EXCEPT ![t] = r] /\ r.slug = row[t].slug
                          /\ UNCHANGED <<post, slug, met, failures>>
<1>1. Exists(t) /\ row[t] \in Row /\ UNCHANGED <<post, slug, met, failures>>
  BY DEF Update, Suspend, Activate, Offboard, Exists, RegistryInv, RegistryTypeOK
<1> DEFINE x == row[t]
           new == IF Update(t) THEN [x EXCEPT !.agent = TRUE]
                  ELSE IF Suspend(t) THEN [x EXCEPT !.status = "suspended"]
                  ELSE IF Activate(t) THEN [x EXCEPT !.status = "active"]
                  ELSE [x EXCEPT !.status = "offboarded", !.offboarded = TRUE]
<1>2. new \in Row /\ new.slug = x.slug
  <2> HIDE DEF x
  <2> QED
    BY <1>1 DEF Row, Status, x
<1>3. row' = [row EXCEPT ![t] = new]
  BY <1>1 DEF Update, Suspend, Activate, Offboard, RegistryInv, RegistryTypeOK
<1> QED
  BY <1>1, <1>2, <1>3

\* Every step of a registration and of an operator.
LEMMA RegistryStep ==
    ASSUME RegistryInv, NEW t \in Tenant, Registry(t)
    PROVE  RegistryInv'
<1> USE DEF RegistryInv
<1>1. ASSUME NEW s \in Slug, FindBySlug(t, s)
      PROVE  RegistryInv'
  <2>1. RegistryTypeOK'
    BY <1>1 DEF RegistryTypeOK, FindBySlug, Answer
  <2>2. ~Exists(t) /\ \A u \in Tenant : Exists(u)' <=> Exists(u)
    BY <1>1 DEF FindBySlug, RowOfPost, Exists
  <2>3. RowOfPost'
    BY <1>1, <2>2 DEF FindBySlug, RowOfPost, RegistryTypeOK, Exists
  <2>4. SlugsAreUnique'
    BY <1>1, <2>2 DEF FindBySlug, SlugsAreUnique, RegistryTypeOK
  <2>5. MetInTime'
    <3> SUFFICES ASSUME NEW v \in Tenant, NEW u \in Tenant, v # u, post'[v] = "checked",
                        slug'[u] = slug'[v], post'[u] = "checked" \/ Exists(u)'
                 PROVE  u \in met'[v]
      BY DEF MetInTime
    <3>1. CASE v = t
      <4>1. ~Taken(s)
        BY <1>1, <3>1 DEF FindBySlug, RegistryTypeOK
      <4>2. slug[u] = s /\ post'[u] = post[u]
        BY <1>1, <3>1 DEF FindBySlug, RegistryTypeOK
      <4>3. ~Exists(u)
        BY <4>1, <4>2 DEF Taken, RowOfPost
      <4> QED
        BY <1>1, <2>2, <3>1, <4>2, <4>3 DEF FindBySlug, RegistryTypeOK
    <3>2. CASE u = t
      BY <1>1, <2>2, <3>2 DEF FindBySlug, RegistryTypeOK
    <3>3. CASE v # t /\ u # t
      <4>1. u \in met[v]
        BY <1>1, <2>2, <3>3 DEF FindBySlug, RegistryTypeOK, MetInTime
      <4> QED
        BY <1>1, <3>3, <4>1 DEF FindBySlug, RegistryTypeOK
    <3> QED
      BY <3>1, <3>2, <3>3
  <2>6. RegistrationsAreRight'
    <3>1. ASSUME NEW u \in Tenant, post'[u] = "201"
          PROVE  u # t /\ post[u] = "201" /\ slug'[u] = slug[u]
      BY <1>1, <3>1 DEF FindBySlug, RegistryTypeOK
    <3>2. ASSUME NEW u \in Tenant, post'[u] = "409"
          PROVE  \E v \in Tenant \ {u} : Exists(v) /\ row[v].slug = slug'[u]
      <4>1. CASE u = t
        BY <1>1, <2>2, <3>2, <4>1 DEF FindBySlug, RegistryTypeOK, Taken
      <4>2. CASE u # t
        BY <1>1, <3>2, <4>2 DEF FindBySlug, RegistryTypeOK, RegistrationsAreRight
      <4> QED
        BY <4>1, <4>2
    <3>3. ASSUME NEW u \in Tenant, post'[u] = "conflict"
          PROVE  \E v \in met'[u] : Exists(v) /\ row[v].slug = slug'[u]
      BY <1>1, <3>3 DEF FindBySlug, RegistryTypeOK, RegistrationsAreRight
    <3>4. row' = row
      BY <1>1 DEF FindBySlug
    <3>5. \A u, v \in Tenant : post'[u] = "201" /\ post'[v] = "201" /\ slug'[u] = slug'[v] => u = v
      BY <3>1 DEF RegistrationsAreRight
    <3>6. \A u \in Tenant : post'[u] = "201" => Exists(u)' /\ row'[u].slug = slug'[u]
      BY <2>2, <3>1, <3>4 DEF RegistrationsAreRight
    <3>7. \A u \in Tenant : post'[u] = "409" =>
             \E v \in Tenant \ {u} : Exists(v)' /\ row'[v].slug = slug'[u]
      BY <2>2, <3>2, <3>4
    <3>8. \A u \in Tenant : post'[u] = "conflict" =>
             \E v \in met'[u] : Exists(v)' /\ row'[v].slug = slug'[u]
      BY <3>3, <3>4 DEF Exists
    <3> QED
      BY <3>5, <3>6, <3>7, <3>8 DEF RegistrationsAreRight
  <2> QED
    BY <2>1, <2>3, <2>4, <2>5, <2>6
\* An INSERT that took effect, or none.
<1>2. ASSUME NEW agent \in BOOLEAN, post[t] = "checked",
             post' = [post EXCEPT ![t] = "201"] \/ post' = [post EXCEPT ![t] = "failed"],
             ~Taken(slug[t]), row' = [row EXCEPT ![t] = NewRow(slug[t], agent)],
             failures' \in 0..MaxFailures, UNCHANGED <<slug, met>>
      PROVE  RegistryInv'
  <2>1. slug[t] \in Slug /\ ~Exists(t)
    BY <1>2 DEF RegistryTypeOK, RowOfPost
  <2>2. NewRow(slug[t], agent) \in Row /\ NewRow(slug[t], agent).slug = slug[t]
    BY <2>1 DEF NewRow, Row, Status
  <2>3. NewRow(slug[t], agent) # None
    BY <2>2, RegistryAssumption
  <2>4. \A u \in Tenant : /\ Exists(u)' <=> Exists(u) \/ u = t
                          /\ u # t => row'[u] = row[u] /\ post'[u] = post[u]
    BY <1>2, <2>3 DEF Exists, RegistryTypeOK
  <2>5. row'[t].slug = slug[t] /\ post'[t] \in {"201", "failed"}
    BY <1>2, <2>2 DEF RegistryTypeOK
  <2>6. RegistryTypeOK'
    BY <1>2, <2>2 DEF RegistryTypeOK, Answer
  <2>7. RowOfPost'
    BY <1>2, <2>4, <2>5 DEF RowOfPost
  <2>8. \A u \in Tenant : Exists(u) => slug[u] # slug[t]
    BY <1>2 DEF Taken, RowOfPost
  <2>9. SlugsAreUnique'
    BY <1>2, <2>4, <2>8 DEF SlugsAreUnique
  <2>10. MetInTime'
    BY <1>2, <2>4, <2>5 DEF MetInTime
  <2>11. RegistrationsAreRight'
    <3>1. ASSUME NEW u \in Tenant, NEW v \in Tenant, post'[u] = "201", post'[v] = "201",
                 slug[u] = slug[v]
          PROVE  u = v
      BY <2>7, <2>9, <3>1, <1>2 DEF RowOfPost, SlugsAreUnique
    <3> QED
      BY <1>2, <2>1, <2>4, <2>5, <2>7, <3>1 DEF RegistrationsAreRight, RowOfPost, Exists
  <2> QED
    BY <2>6, <2>7, <2>9, <2>10, <2>11
<1>3. ASSUME post[t] = "checked", UNCHANGED <<row, slug, met>>, failures' \in 0..MaxFailures,
             \/ post' = [post EXCEPT ![t] = "failed"]
             \/ Taken(slug[t]) /\ post' = [post EXCEPT ![t] = "conflict"]
      PROVE  RegistryInv'
  <2>1. RegistryTypeOK'
    BY <1>3 DEF RegistryTypeOK, Answer
  <2>2. ~Exists(t) /\ \A u \in Tenant : Exists(u)' <=> Exists(u)
    BY <1>3 DEF RowOfPost, Exists
  <2>3. RowOfPost' /\ SlugsAreUnique'
    BY <1>3, <2>2 DEF RowOfPost, SlugsAreUnique, RegistryTypeOK
  <2>4. MetInTime'
    BY <1>3, <2>2 DEF MetInTime, RegistryTypeOK
  <2>5. Taken(slug[t]) => \E u \in met[t] : Exists(u) /\ row[u].slug = slug[t]
    BY <1>3, <2>2 DEF Taken, MetInTime, RowOfPost
  <2>6. RegistrationsAreRight'
    BY <1>3, <2>2, <2>5 DEF RegistrationsAreRight, RegistryTypeOK
  <2> QED
    BY <2>1, <2>3, <2>4, <2>6
<1>4. ASSUME NEW agent \in BOOLEAN, Create(t, agent)
      PROVE  RegistryInv'
  BY <1>2, <1>3, <1>4 DEF Create, RegistryTypeOK
<1>5. ASSUME NEW agent \in BOOLEAN, FailCreate(t, agent)
      PROVE  RegistryInv'
  <2>1. failures' \in 0..MaxFailures
    BY <1>5, RegistryAssumption DEF FailCreate, RegistryTypeOK
  <2> QED
    BY <1>2, <1>3, <1>5, <2>1 DEF FailCreate
<1>6. ASSUME Update(t) \/ Suspend(t) \/ Activate(t) \/ Offboard(t)
      PROVE  RegistryInv'
  <2>1. PICK r \in Row : /\ Exists(t) /\ row' = [row EXCEPT ![t] = r] /\ r.slug = row[t].slug
                         /\ UNCHANGED <<post, slug, met, failures>>
    BY <1>6, OperatorsKeepTheSlug
  <2> QED
    BY <2>1, RowChangeKeeps
<1> QED
  BY <1>1, <1>4, <1>5, <1>6 DEF Registry

-----------------------------------------------------------------------------
(* The registrations implement SlugRegistry.                               *)

\* A step that keeps the slug of every row, and the answers, is no claim.
LEMMA SlugsFrame ==
    ASSUME RegistryInv, \A t \in Tenant : Exists(t)' = Exists(t)
                                          /\ (Exists(t) => row'[t].slug = row[t].slug),
           \A t \in Tenant : post'[t] = post[t] \/ {post[t], post'[t]} \subseteq {"idle", "checked"},
           \A t \in Tenant : post[t] \in Answer => slug'[t] = slug[t]
    PROVE  UNCHANGED Slugs!vars
<1>1. Holders' = Holders
  BY DEF Holders
<1>2. Claimed' = Claimed
  BY DEF Claimed, Answer
<1>3. Told' = Told
  BY DEF Told
<1> QED
  BY <1>1, <1>2, <1>3 DEF Slugs!vars

\* An answer to a registration is about the slug it asked for.
LEMMA Answers ==
    ASSUME RegistryInv, NEW t \in Tenant, post[t] \in {"idle", "checked"},
           NEW s \in Slug, NEW a \in Answer,
           post' = [post EXCEPT ![t] = a], slug' = [slug EXCEPT ![t] = s]
    PROVE  Slugs!Reply(t, s, CASE a = "201" -> "claimed" [] a = "failed" -> "failed"
                               [] OTHER -> "refused")
<1> DEFINE told == CASE a = "201" -> "claimed" [] a = "failed" -> "failed" [] OTHER -> "refused"
<1>1. post \in [Tenant -> {"idle", "checked"} \cup Answer] /\ slug \in [Tenant -> Slug \cup {None}]
  BY DEF RegistryInv, RegistryTypeOK
<1>2. Told[t] = "none"
  BY DEF Told
<1>3. Told' = [Told EXCEPT ![t] = told]
  BY <1>1 DEF Told, Answer
<1>4. Claimed' = [Claimed EXCEPT ![t] = s]
  BY <1>1 DEF Claimed, Answer
<1> QED
  BY <1>2, <1>3, <1>4 DEF Slugs!Reply

\* An INSERT that the unique constraint lets through takes a slug nobody holds.
LEMMA Takes ==
    ASSUME RegistryInv, NEW t \in Tenant, post[t] = "checked", ~Taken(slug[t]),
           NEW agent \in BOOLEAN, row' = [row EXCEPT ![t] = NewRow(slug[t], agent)]
    PROVE  Slugs!Take(t, slug[t])
<1> DEFINE s == slug[t]
<1>1. /\ s \in Slug /\ ~Exists(t)
      /\ row \in [Tenant -> Row \cup {None}]
  BY DEF RegistryInv, RegistryTypeOK, RowOfPost
<1>2. row'[t] \in Row /\ row'[t].slug = s
  BY <1>1 DEF NewRow, Row, Status
<1>3. Exists(t)'
  BY <1>2, RegistryAssumption DEF Exists
<1>4. \A u \in Tenant : u # t => row'[u] = row[u]
  OBVIOUS
<1>5. Holders[s] = {}
  BY <1>1 DEF Holders, Taken
<1>6. ASSUME NEW z \in Slug
      PROVE  Holders'[z] = IF z = s THEN {t} ELSE Holders[z]
  <2>1. Holders'[z] = {u \in Tenant : Exists(u)' /\ row'[u].slug = z}
    BY DEF Holders
  <2>2. Holders[z] = {u \in Tenant : Exists(u) /\ row[u].slug = z}
    BY DEF Holders
  <2>3. \A u \in Tenant : u # t => (Exists(u)' <=> Exists(u))
    BY <1>4 DEF Exists
  <2> QED
    BY <1>1, <1>2, <1>3, <1>4, <1>5, <2>1, <2>2, <2>3
<1>7. Holders' = [Holders EXCEPT ![s] = {t}]
  BY <1>6, ZenonT(30) DEF Holders
<1> QED
  BY <1>5, <1>7 DEF Slugs!Take

\* Every step of a registration is a claim, a refusal, a failure or none.
LEMMA SlugsStep ==
    ASSUME RegistryInv, NEW t \in Tenant, Registry(t)
    PROVE  Slugs!Next \/ UNCHANGED Slugs!vars
<1>1. post \in [Tenant -> {"idle", "checked"} \cup Answer] /\ slug \in [Tenant -> Slug \cup {None}]
  BY DEF RegistryInv, RegistryTypeOK
<1>2. ASSUME NEW s \in Slug, FindBySlug(t, s), Taken(s)
      PROVE  Slugs!Next
  <2>1. post[t] = "idle" /\ post' = [post EXCEPT ![t] = "409"] /\ slug' = [slug EXCEPT ![t] = s]
        /\ UNCHANGED row
    BY <1>2 DEF FindBySlug
  <2>2. Slugs!Reply(t, s, "refused")
    BY <2>1, Answers DEF Answer
  <2>3. Holders[s] # {} /\ UNCHANGED Holders
    BY <1>2, <2>1 DEF Holders, Taken, Exists
  <2> QED
    BY <2>2, <2>3 DEF Slugs!Next, Slugs!Refuse
<1>3. ASSUME NEW s \in Slug, FindBySlug(t, s), ~Taken(s)
      PROVE  UNCHANGED Slugs!vars
  <2>1. post[t] = "idle" /\ post' = [post EXCEPT ![t] = "checked"]
        /\ slug' = [slug EXCEPT ![t] = s] /\ UNCHANGED row
    BY <1>3 DEF FindBySlug
  <2> QED
    BY <1>1, <2>1, SlugsFrame DEF Exists, Answer
<1>4. ASSUME NEW agent \in BOOLEAN, Create(t, agent) \/ FailCreate(t, agent)
      PROVE  Slugs!Next
  <2> DEFINE s == slug[t]
  <2>1. /\ post[t] = "checked" /\ s \in Slug
        /\ slug' = [slug EXCEPT ![t] = s]
    BY <1>1, <1>4 DEF Create, FailCreate, RegistryInv, RowOfPost
  <2>2. CASE Create(t, agent) /\ Taken(s)
    <3>1. post' = [post EXCEPT ![t] = "conflict"] /\ UNCHANGED row
      BY <2>2 DEF Create
    <3>2. Slugs!Reply(t, s, "refused")
      BY <2>1, <3>1, Answers DEF Answer
    <3>3. Holders[s] # {} /\ UNCHANGED Holders
      BY <2>1, <2>2, <3>1 DEF Holders, Taken, Exists
    <3> QED
      BY <2>1, <3>2, <3>3 DEF Slugs!Next, Slugs!Refuse
  <2>3. CASE Create(t, agent) /\ ~Taken(s)
    <3>1. post' = [post EXCEPT ![t] = "201"] /\ row' = [row EXCEPT ![t] = NewRow(s, agent)]
      BY <2>3 DEF Create
    <3>2. Slugs!Reply(t, s, "claimed")
      BY <2>1, <3>1, Answers DEF Answer
    <3>3. Slugs!Take(t, s)
      BY <2>1, <2>3, <3>1, Takes
    <3> QED
      BY <2>1, <3>2, <3>3 DEF Slugs!Next, Slugs!Claim
  <2>4. CASE FailCreate(t, agent)
    <3>1. post' = [post EXCEPT ![t] = "failed"]
      BY <2>4 DEF FailCreate
    <3>2. Slugs!Reply(t, s, "failed")
      BY <2>1, <3>1, Answers DEF Answer
    <3>3. Slugs!Take(t, s) \/ UNCHANGED Holders
      <4>1. CASE UNCHANGED row
        BY <4>1 DEF Holders, Exists
      <4>2. CASE ~Taken(s) /\ row' = [row EXCEPT ![t] = NewRow(s, agent)]
        BY <2>1, <4>2, Takes
      <4> QED
        BY <2>4, <4>1, <4>2 DEF FailCreate
    <3> QED
      BY <2>1, <3>2, <3>3 DEF Slugs!Next, Slugs!Fail
  <2> QED
    BY <1>4, <2>2, <2>3, <2>4
<1>5. CASE Update(t) \/ Suspend(t) \/ Activate(t) \/ Offboard(t)
  <2>1. PICK r \in Row : /\ Exists(t) /\ row' = [row EXCEPT ![t] = r] /\ r.slug = row[t].slug
                         /\ UNCHANGED <<post, slug, met, failures>>
    BY <1>5, OperatorsKeepTheSlug
  <2>2. r # None /\ row \in [Tenant -> Row \cup {None}]
    BY RegistryAssumption DEF RegistryInv, RegistryTypeOK
  <2>3. \A u \in Tenant : Exists(u)' = Exists(u) /\ (Exists(u) => row'[u].slug = row[u].slug)
    BY <2>1, <2>2 DEF Exists
  <2> QED
    BY <2>1, <2>3, SlugsFrame
<1> QED
  BY <1>2, <1>3, <1>4, <1>5 DEF Registry

-----------------------------------------------------------------------------
(* Types.                                                                  *)

\* What a check may be told to do next keeps its type.
LEMMA GotoType ==
    ASSUME TypeOK, NEW c \in Probe, NEW s \in Step, Goto(c, s)
    PROVE  check' \in [Probe -> Step]
BY DEF TypeOK, Goto

\* A row that is inserted is a row.
LEMMA InsertType ==
    ASSUME TypeOK, NEW c \in Probe, c[3] \in Service, Insert(c, Says(c))
    PROVE  health' \subseteq HealthRow /\ latest' \in [Tenant \X Service -> HealthRow \cup {None}]
<1>1. c[1] \in Poll /\ c[2] \in Tenant /\ Says(c) \in {"up", "down"}
  BY DEF Probe, Says
<1>2. [poll |-> c[1], tenant |-> c[2], service |-> c[3], status |-> Says(c)] \in HealthRow
  BY <1>1 DEF HealthRow
<1> QED
  BY <1>1, <1>2 DEF Insert, TypeOK

\* A row of metrics that is inserted is one.
LEMMA InsertMetricsType ==
    ASSUME TypeOK, NEW c \in Probe, NEW table \in {"metrics_snapshots", "server_info_snapshots"},
           InsertMetrics(c, table)
    PROVE  metrics' \subseteq MetricsRow
BY DEF TypeOK, InsertMetrics, MetricsRow, Probe

\* Every step keeps the types.
LEMMA TypeStep == TypeOK /\ RegistryInv /\ [Next]_vars => TypeOK'
<1> SUFFICES ASSUME TypeOK, RegistryInv, [Next]_vars PROVE TypeOK'
  OBVIOUS
<1>1. ASSUME NEW t \in Tenant, Registry(t), UNCHANGED pollerVars
      PROVE  TypeOK'
  <2>1. RegistryTypeOK'
    BY <1>1, RegistryStep DEF RegistryInv
  <2> QED
    BY <1>1, <2>1 DEF TypeOK, pollerVars
<1>2. ASSUME NEW p \in Poll, Start(p) \/ Tick(p) \/ FindAll(p) \/ CheckTenants(p)
      PROVE  TypeOK'
  <2>1. RegistryTypeOK'
    BY <1>2 DEF Start, Tick, FindAll, CheckTenants, registryVars, RegistryTypeOK, TypeOK
  <2>2. listed' \in [Poll -> SUBSET (Tenant \X BOOLEAN)]
    <3>1. CASE FindAll(p)
      <4>1. \A t \in Tenant : Exists(t) => row[t].agent \in BOOLEAN
        BY DEF TypeOK, RegistryTypeOK, Row, Exists
      <4>2. {<<t, row[t].agent>> : t \in Listed} \subseteq Tenant \X BOOLEAN
        BY <4>1 DEF Listed
      <4> QED
        BY <3>1, <4>2 DEF FindAll, TypeOK
    <3>2. CASE Start(p) \/ Tick(p) \/ CheckTenants(p)
      BY <3>2 DEF Start, Tick, CheckTenants, TypeOK
    <3> QED
      BY <1>2, <3>1, <3>2
  <2>3. timer' \in BOOLEAN /\ poll' \in [Poll -> {"idle", "listing", "listed", "checking", "dead"}]
    BY <1>2 DEF Start, Tick, FindAll, CheckTenants, Begin, TypeOK
  <2>4. check' \in [Probe -> Step] /\ crossed' \subseteq Tenant \X Service
    BY <1>2 DEF Start, Tick, FindAll, CheckTenants, TypeOK, Step, Underway
  <2>5. UNCHANGED <<health, latest, metrics, faulty>>
    BY <1>2 DEF Start, Tick, FindAll, CheckTenants
  <2> QED
    BY <2>1, <2>2, <2>3, <2>4, <2>5 DEF TypeOK
<1>3. ASSUME Stop
      PROVE  TypeOK'
  BY <1>3 DEF Stop, TypeOK, registryVars, RegistryTypeOK
<1>4. ASSUME NEW p \in Poll, FailFindAll(p)
      PROVE  TypeOK'
  <2>1. RegistryTypeOK'
    BY <1>4, RegistryAssumption DEF FailFindAll, registryVars, RegistryTypeOK, TypeOK
  <2> QED
    BY <1>4, <2>1 DEF FailFindAll, Die, TypeOK, Step, Underway
<1>5. ASSUME NEW c \in Probe, Continue(c)
      PROVE  TypeOK'
  <2>1. RegistryTypeOK'
    BY <1>5, RegistryAssumption
       DEF Continue, Hear, RecordHealth, FailRecordHealth, RecordMetrics, FailRecordMetrics,
           registryVars, RegistryTypeOK, TypeOK
  <2>2. UNCHANGED <<timer, poll, listed, crossed>>
    BY <1>5 DEF Continue, Hear, RecordHealth, FailRecordHealth, RecordMetrics, FailRecordMetrics
  <2>3. check' \in [Probe -> Step]
    <3>1. PICK s \in {"answered", "failing", "information", "ended"} : Goto(c, s)
      BY <1>5 DEF Continue, Hear, RecordHealth, FailRecordHealth, RecordMetrics, FailRecordMetrics
    <3> QED
      BY <3>1, GotoType DEF Step, Underway
  <2>4. faulty' \subseteq Probe
    BY <1>5 DEF Continue, Hear, RecordHealth, FailRecordHealth, RecordMetrics, FailRecordMetrics, TypeOK
  <2>5. /\ health' \subseteq HealthRow
        /\ latest' \in [Tenant \X Service -> HealthRow \cup {None}]
    <3>1. CASE UNCHANGED <<health, latest>>
      BY <3>1 DEF TypeOK
    <3>2. CASE c[3] \in Service /\ Insert(c, Says(c))
      BY <3>2, InsertType
    <3> QED
      BY <1>5, <3>1, <3>2
         DEF Continue, Hear, RecordHealth, FailRecordHealth, RecordMetrics, FailRecordMetrics
  <2>6. metrics' \subseteq MetricsRow
    <3>1. CASE UNCHANGED metrics
      BY <3>1 DEF TypeOK
    <3>2. ASSUME NEW table \in {"metrics_snapshots", "server_info_snapshots"}, InsertMetrics(c, table)
          PROVE  metrics' \subseteq MetricsRow
      BY <3>2, InsertMetricsType
    <3> QED
      BY <1>5, <3>1, <3>2
         DEF Continue, Hear, RecordHealth, FailRecordHealth, RecordMetrics, FailRecordMetrics
  <2> QED
    BY <2>1, <2>2, <2>3, <2>4, <2>5, <2>6 DEF TypeOK
<1>6. CASE UNCHANGED vars
  BY <1>6 DEF vars, registryVars, pollerVars, TypeOK, RegistryTypeOK
<1> QED
  BY <1>1, <1>2, <1>3, <1>4, <1>5, <1>6 DEF Next

\* A step of the poller leaves the table and the registrations alone.
LEMMA RegistryKept ==
    TypeOK /\ TypeOK' /\ RegistryInv /\ [Next]_vars => RegistryInv'
<1> SUFFICES ASSUME TypeOK, TypeOK', RegistryInv, [Next]_vars PROVE RegistryInv'
  OBVIOUS
<1>1. CASE UNCHANGED registryVars
  <2>1. RegistryTypeOK'
    BY DEF TypeOK
  <2> QED
    BY <1>1, <2>1 DEF registryVars, RegistryInv, RowOfPost, SlugsAreUnique, MetInTime,
                      RegistrationsAreRight, Exists
<1>2. ASSUME NEW t \in Tenant, Registry(t)
      PROVE  RegistryInv'
  BY <1>2, RegistryStep
<1> QED
  BY <1>1, <1>2 DEF Next, vars, Stop, Start, Tick, FindAll, FailFindAll, CheckTenants, Continue,
                    Hear, RecordHealth, FailRecordHealth, RecordMetrics, FailRecordMetrics

\* Every variable keeps its type, and the rows of the tenants table and the
\* answers to registrations are what RegistrationsAreRight says, for any number
\* of registrations of any slugs.
LEMMA Both == Spec => [](TypeOK /\ RegistryInv)
<1>1. Init => TypeOK /\ RegistryInv
  <2> SUFFICES ASSUME Init PROVE TypeOK
    BY RegistryBegins
  <2>1. RegistryTypeOK
    BY RegistryBegins DEF RegistryInv
  <2> QED
    BY <2>1 DEF Init, TypeOK, Step
<1>2. TypeOK /\ RegistryInv /\ [Next]_vars => (TypeOK /\ RegistryInv)'
  BY TypeStep, RegistryKept
<1> QED
  BY <1>1, <1>2, PTL DEF Spec

\* Every variable keeps its type, however many polls overlap, fail and die.
THEOREM TypeCorrect == Spec => []TypeOK
BY Both, PTL

\* Registrations of one slug that overlap: one success, right refusals, and a
\* constraint error only for one that ran beside the one that got the slug.
THEOREM Registrations == Spec => []RegistrationsAreRight
<1>1. TypeOK /\ RegistryInv => RegistrationsAreRight
  BY DEF RegistryInv
<1> QED
  BY <1>1, Both, PTL

\* However the SELECTs and INSERTs of registrations overlap and fail, and
\* whatever operators do, a registration is one atomic claim of its slug.
THEOREM SlugsRefinement == Spec => ImplementsSlugs
<1>1. Init => Slugs!Init
  BY DEF Init, RegistryInit, Slugs!Init, Holders, Claimed, Told, Exists, Answer
<1>2. RegistryInv /\ [Next]_vars => [Slugs!Next]_Slugs!vars
  <2> SUFFICES ASSUME RegistryInv, [Next]_vars PROVE Slugs!Next \/ UNCHANGED Slugs!vars
    OBVIOUS
  <2>1. CASE UNCHANGED <<row, post, slug>>
    BY <2>1, SlugsFrame DEF Exists
  <2>2. ASSUME NEW t \in Tenant, Registry(t)
        PROVE  Slugs!Next \/ UNCHANGED Slugs!vars
    BY <2>2, SlugsStep
  <2> QED
    BY <2>1, <2>2 DEF Next, vars, registryVars, Stop, Start, Tick, FindAll, FailFindAll,
       CheckTenants, Continue, Hear, RecordHealth, FailRecordHealth, RecordMetrics, FailRecordMetrics
<1> QED
  BY <1>1, <1>2, Both, PTL DEF Spec, ImplementsSlugs, Slugs!Spec

-----------------------------------------------------------------------------
(* Offboarded tenants.                                                     *)

\* No operation takes back an offboarding: an INSERT makes a row that was not
\* there, and the other statements set the flag or leave it.
LEMMA StaysOffboarded ==
    ASSUME TypeOK, RegistryInv, [Next]_vars, NEW t \in Tenant, Offboarded(t)
    PROVE  Offboarded(t)'
<1>1. CASE UNCHANGED row
  BY <1>1 DEF Offboarded, Exists
<1>2. ASSUME NEW u \in Tenant, Registry(u)
      PROVE  Offboarded(t)'
  <2>1. row \in [Tenant -> Row \cup {None}] /\ None \notin Row
    BY RegistryAssumption DEF TypeOK, RegistryTypeOK
  <2>2. CASE UNCHANGED row
    BY <2>2, <1>1
  <2>3. ASSUME NEW agent \in BOOLEAN, post[u] = "checked", row' = [row EXCEPT ![u] = NewRow(slug[u], agent)]
        PROVE  Offboarded(t)'
    <3>1. u # t
      BY <2>3 DEF RegistryInv, RowOfPost, Offboarded
    <3> QED
      BY <2>1, <2>3, <3>1 DEF Offboarded, Exists
  <2>4. CASE Update(u) \/ Suspend(u) \/ Activate(u) \/ Offboard(u)
    <3>1. CASE u # t
      BY <2>1, <2>4, <3>1 DEF Update, Suspend, Activate, Offboard, Offboarded, Exists
    <3>2. CASE u = t
      <4> DEFINE x == row[t]
      <4>1. x \in Row /\ x.offboarded = TRUE
        BY <2>1 DEF Offboarded, Exists, Row
      <4>2. \/ row'[t] = [x EXCEPT !.agent = TRUE]
            \/ row'[t] = [x EXCEPT !.status = "suspended"]
            \/ row'[t] = [x EXCEPT !.status = "active"]
            \/ row'[t] = [x EXCEPT !.status = "offboarded", !.offboarded = TRUE]
        BY <2>1, <2>4, <3>2 DEF Update, Suspend, Activate, Offboard
      <4> HIDE DEF x
      <4>3. row'[t] \in Row /\ row'[t].offboarded
        BY <4>1, <4>2, ZenonT(30) DEF Row, Status
      <4> QED
        BY <2>1, <4>3 DEF Offboarded, Exists
    <3> QED
      BY <3>1, <3>2
  <2> QED
    BY <1>2, <2>2, <2>3, <2>4 DEF Registry, FindBySlug, Create, FailCreate
<1> QED
  BY <1>1, <1>2 DEF Next, vars, registryVars, Stop, Start, Tick, FindAll, FailFindAll, CheckTenants,
                    Continue, Hear, RecordHealth, FailRecordHealth, RecordMetrics, FailRecordMetrics

\* A tenant no poll deals with and no listing shows is not taken up again.
LEMMA StaysUnpolled ==
    ASSUME TypeOK, [Next]_vars, NEW t \in Tenant, Offboarded(t), ~Polled(t)
    PROVE  ~Polled(t)' /\ RowsOf(t)' = RowsOf(t)
<1> USE DEF TypeOK
<1>1. CASE UNCHANGED <<poll, listed, check, health>>
  BY <1>1 DEF Polled, RowsOf
<1>2. ASSUME NEW p \in Poll, Start(p) \/ Tick(p)
      PROVE  ~Polled(t)' /\ RowsOf(t)' = RowsOf(t)
  BY <1>2 DEF Start, Tick, Begin, Polled, RowsOf
<1>3. ASSUME NEW p \in Poll, FindAll(p)
      PROVE  ~Polled(t)' /\ RowsOf(t)' = RowsOf(t)
  <2>1. t \notin Listed
    BY DEF Listed
  <2>2. \A a \in BOOLEAN : <<t, a>> \notin {<<u, row[u].agent>> : u \in Listed}
    BY <2>1
  <2>3. \A q \in Poll : poll'[q] = "listed" => \A a \in BOOLEAN : <<t, a>> \notin listed'[q]
    BY <1>3, <2>2 DEF FindAll, Polled
  <2> QED
    BY <1>3, <2>3 DEF FindAll, Polled, RowsOf
<1>4. ASSUME NEW p \in Poll, FailFindAll(p)
      PROVE  ~Polled(t)' /\ RowsOf(t)' = RowsOf(t)
  <2>1. \A q \in Poll : poll'[q] # "listed"
    BY <1>4 DEF FailFindAll, Die
  <2>2. \A c \in Probe : c[2] = t => check'[c] \notin Underway
    BY <1>4 DEF FailFindAll, Die, Polled, Underway
  <2> QED
    BY <1>4, <2>1, <2>2 DEF FailFindAll, Polled, RowsOf
<1>5. ASSUME NEW p \in Poll, CheckTenants(p)
      PROVE  ~Polled(t)' /\ RowsOf(t)' = RowsOf(t)
  <2>1. \A kind \in Kind : ~Asks(p, t, kind)
    BY <1>5 DEF CheckTenants, Asks, Polled
  <2>2. \A c \in Probe : c[2] = t => check'[c] = check[c]
    BY <1>5, <2>1 DEF CheckTenants, Probe
  <2>3. \A q \in Poll : poll'[q] = "listed" => poll[q] = "listed"
    BY <1>5 DEF CheckTenants
  <2> QED
    BY <1>5, <2>2, <2>3 DEF CheckTenants, Polled, RowsOf
<1>6. ASSUME NEW c \in Probe, Continue(c)
      PROVE  ~Polled(t)' /\ RowsOf(t)' = RowsOf(t)
  <2>1. check[c] \in Underway /\ UNCHANGED <<poll, listed>>
    BY <1>6 DEF Continue, Hear, RecordHealth, FailRecordHealth, RecordMetrics, FailRecordMetrics,
                Underway
  <2>2. c[2] # t
    BY <2>1 DEF Polled
  <2>3. \A d \in Probe : d # c => check'[d] = check[d]
    BY <1>6 DEF Continue, Hear, RecordHealth, FailRecordHealth, RecordMetrics, FailRecordMetrics, Goto
  <2>4. RowsOf(t)' = RowsOf(t)
    BY <1>6, <2>2 DEF Continue, Hear, RecordHealth, FailRecordHealth, RecordMetrics,
                      FailRecordMetrics, Insert, RowsOf
  <2> QED
    BY <2>1, <2>2, <2>3, <2>4 DEF Polled
<1> QED
  BY <1>1, <1>2, <1>3, <1>4, <1>5, <1>6 DEF Next, vars, pollerVars, Stop

\* Once a tenant is offboarded it stays so whatever is done to it, and when the
\* polls that had read it are over nothing asks or records it again.
THEOREM LeftAlone == Spec => OffboardedIsLeftAlone
<1>1. TypeOK /\ RegistryInv /\ [Next]_vars =>
        [\A t \in Tenant : Offboarded(t) =>
            /\ Offboarded(t)'
            /\ ~Polled(t) => ~Polled(t)' /\ RowsOf(t)' = RowsOf(t)]_vars
  BY StaysOffboarded, StaysUnpolled
<1> QED
  BY <1>1, Both, PTL DEF Spec, OffboardedIsLeftAlone

-----------------------------------------------------------------------------
(* Checks and their rows.                                                  *)

RowOf(c, s) == [poll |-> c[1], tenant |-> c[2], service |-> c[3], status |-> s]
Check == Poll \X Tenant \X Service

\* A check begins with its poll's answer from the SELECT, and polls in order.
InOrder ==
    /\ \A c \in Probe : poll[c[1]] \in {"idle", "listing", "listed"} => check[c] = "none"
    /\ \A p, q \in Poll : q < p /\ poll[p] # "idle" => poll[q] # "idle"

\* How far a check is tells which rows it has written.
RowsOfStep ==
    \A c \in Check :
        /\ check[c] \in {"none", "asking", "answered", "lost"} =>
              \A s \in {"up", "down"} : RowOf(c, s) \notin health
        /\ check[c] = "failing" /\ c \notin faulty =>
              \A s \in {"up", "down"} : RowOf(c, s) \notin health
        /\ check[c] = "ended" /\ c \notin faulty =>
              \E s \in {"up", "down"} : /\ RowOf(c, s) \in health
                                        /\ \A z \in {"up", "down"} \ {s} : RowOf(c, z) \notin health

\* A check that did not cross an older one comes after all older ones.
Uncrossed ==
    \A t \in Tenant, s \in Service, p, q \in Poll :
        <<t, s>> \notin crossed /\ q < p /\ check[<<p, t, s>>] # "none" =>
            /\ poll[q] \notin {"idle", "listing", "listed"}
            /\ check[<<q, t, s>>] \notin Underway

LatestIsNewest ==
    \A r \in health :
        LET l == latest[<<r.tenant, r.service>>]
        IN  /\ l \in health /\ l.tenant = r.tenant /\ l.service = r.service
            /\ <<r.tenant, r.service>> \notin crossed =>
                  /\ r.poll <= l.poll
                  /\ r.poll = l.poll /\ r # l => l.status = "down"

HealthInv == InOrder /\ RowsOfStep /\ Uncrossed /\ LatestIsNewest

\* What the invariant says of rows is what the property says.
LEMMA HealthInvImplies == TypeOK /\ HealthInv => HealthFollowsChecks
<1> SUFFICES ASSUME TypeOK, HealthInv PROVE HealthFollowsChecks
  OBVIOUS
<1>1. ASSUME NEW c \in Poll \X Tenant \X Service, check[c] = "ended", c \notin faulty
      PROVE  \E s \in {"up", "down"} :
                {r \in RowsOf(c[2]) : r.poll = c[1] /\ r.service = c[3]} = {RowOf(c, s)}
  <2>1. PICK s \in {"up", "down"} : /\ RowOf(c, s) \in health
                                    /\ \A z \in {"up", "down"} \ {s} : RowOf(c, z) \notin health
    BY <1>1 DEF HealthInv, RowsOfStep, Check
  <2>2. ASSUME NEW r \in health, r.tenant = c[2], r.poll = c[1], r.service = c[3]
        PROVE  r = RowOf(c, s)
    <3>1. r \in HealthRow
      BY DEF TypeOK
    <3>2. r.status \in {"up", "down"} /\ r = RowOf(c, r.status)
      BY <2>2, <3>1 DEF HealthRow, RowOf
    <3> QED
      BY <2>1, <3>2
  <2> QED
    BY <2>1, <2>2 DEF RowsOf, RowOf
<1>2. ASSUME NEW x \in (Tenant \X Service) \ crossed, NEW r \in health,
             r.tenant = x[1], r.service = x[2]
      PROVE  /\ r.poll <= latest[x].poll
             /\ r.poll = latest[x].poll /\ r # latest[x] => latest[x].status = "down"
  <2>1. x = <<r.tenant, r.service>>
    BY <1>2
  <2> QED
    BY <1>2, <2>1 DEF HealthInv, LatestIsNewest
<1> QED
  BY <1>1, <1>2 DEF HealthFollowsChecks, RowsOf, RowOf

\* A check that is under way goes anywhere: it keeps the order.
LEMMA GotoInOrder ==
    ASSUME TypeOK, InOrder, Uncrossed, NEW c \in Probe, check[c] \in Underway,
           NEW s \in Step, Goto(c, s), UNCHANGED <<poll, crossed>>
    PROVE  InOrder' /\ Uncrossed'
<1>1. \A d \in Probe : check'[d] = IF d = c THEN s ELSE check[d]
  BY DEF Goto, TypeOK
<1>2. check[c] # "none" /\ poll[c[1]] \notin {"idle", "listing", "listed"}
  BY DEF InOrder, Underway
<1>3. InOrder'
  BY <1>1, <1>2 DEF InOrder, Probe
<1>4. ASSUME NEW t \in Tenant, NEW k \in Service, NEW p \in Poll, NEW q \in Poll,
             <<t, k>> \notin crossed, q < p, check'[<<p, t, k>>] # "none"
      PROVE  poll[q] \notin {"idle", "listing", "listed"} /\ check'[<<q, t, k>>] \notin Underway
  <2>1. <<p, t, k>> \in Probe /\ <<q, t, k>> \in Probe
    BY DEF Probe, Kind
  <2>2. check[<<p, t, k>>] # "none"
    BY <1>1, <1>2, <1>4, <2>1
  <2>3. poll[q] \notin {"idle", "listing", "listed"} /\ check[<<q, t, k>>] \notin Underway
    BY <1>4, <2>2 DEF Uncrossed
  <2>4. <<q, t, k>> # c
    BY <2>3
  <2> QED
    BY <1>1, <2>1, <2>3, <2>4
<1>5. Uncrossed'
  BY <1>4 DEF Uncrossed
<1> QED
  BY <1>3, <1>5

\* The row of a check becomes the latest of its service.
LEMMA InsertNewest ==
    ASSUME TypeOK, HealthInv, NEW c \in Probe, c[3] \in Service,
           check[c] \in {"answered", "failing"}, Insert(c, Says(c)), UNCHANGED crossed
    PROVE  LatestIsNewest'
<1> DEFINE n == RowOf(c, Says(c))
           x == <<c[2], c[3]>>
<1>1. c[1] \in Poll /\ c[2] \in Tenant /\ c = <<c[1], c[2], c[3]>> /\ c \in Check
  BY DEF Probe, Check
<1>2. health' = health \cup {n} /\ latest' = [latest EXCEPT ![x] = n]
  BY DEF Insert, RowOf
<1>3. n.poll = c[1] /\ n.tenant = c[2] /\ n.service = c[3] /\ n.status = Says(c)
  BY DEF RowOf
<1>4. x \in Tenant \X Service /\ latest \in [Tenant \X Service -> HealthRow \cup {None}]
  BY <1>1 DEF TypeOK
<1> HIDE DEF n
<1>5. \A y \in Tenant \X Service : latest'[y] = IF y = x THEN n ELSE latest[y]
  BY <1>2, <1>4
<1>6. ASSUME NEW r \in health, r.tenant = c[2], r.service = c[3], x \notin crossed
      PROVE  /\ r.poll <= c[1]
             /\ r.poll = c[1] /\ r # n => n.status = "down"
  <2>1. r \in HealthRow
    BY DEF TypeOK
  <2>2. r.poll \in Poll /\ r.status \in {"up", "down"} /\ r = RowOf(<<r.poll, c[2], c[3]>>, r.status)
    BY <1>6, <2>1 DEF HealthRow, RowOf
  <2>3. <<r.poll, c[2], c[3]>> \in Check
    BY <1>1, <2>2 DEF Check
  <2>4. check[<<r.poll, c[2], c[3]>>] \notin {"none", "asking", "answered", "lost"}
    BY <1>6, <2>2, <2>3 DEF HealthInv, RowsOfStep
  <2>5. ~ (c[1] < r.poll)
    BY <1>1, <1>6, <2>2, <2>4 DEF HealthInv, Uncrossed, Underway
  <2>6. r.poll \in Nat /\ c[1] \in Nat
    BY <1>1, <2>2, PollerAssumption DEF Poll
  <2>7. r.poll = c[1] => check[c] = "failing"
    BY <1>1, <2>4
  <2> QED
    BY <1>3, <2>5, <2>6, <2>7 DEF Says
<1>7. ASSUME NEW r \in health'
      PROVE  LET l == latest'[<<r.tenant, r.service>>]
             IN  /\ l \in health' /\ l.tenant = r.tenant /\ l.service = r.service
                 /\ <<r.tenant, r.service>> \notin crossed =>
                       /\ r.poll <= l.poll
                       /\ r.poll = l.poll /\ r # l => l.status = "down"
  <2>1. CASE r = n
    BY <1>1, <1>2, <1>3, <1>4, <1>5, <2>1, PollerAssumption DEF Poll
  <2>2. CASE r \in health /\ <<r.tenant, r.service>> = x
    BY <1>2, <1>3, <1>4, <1>5, <1>6, <2>2
  <2>3. CASE r \in health /\ <<r.tenant, r.service>> # x
    <3>1. <<r.tenant, r.service>> \in Tenant \X Service
      BY <2>3 DEF TypeOK, HealthRow
    <3> QED
      BY <1>2, <1>5, <2>3, <3>1 DEF HealthInv, LatestIsNewest
  <2> QED
    BY <1>2, <1>7, <2>1, <2>2, <2>3
<1> QED
  BY <1>7 DEF LatestIsNewest

\* Where nothing is inserted a check keeps its rows, and so do the others when
\* one of them inserts.
LEMMA OtherRows ==
    ASSUME NEW c \in Check, NEW d \in Check, c # d, NEW s, NEW z
    PROVE  RowOf(c, s) # RowOf(d, z)
<1>1. c[1] # d[1] \/ c[2] # d[2] \/ c[3] # d[3]
  BY DEF Check
<1> QED
  BY <1>1 DEF RowOf

\* An INSERT of a check leaves the rows its next step speaks of.
LEMMA InsertRows ==
    ASSUME TypeOK, RowsOfStep, NEW c \in Probe, c[3] \in Service,
           check[c] \in {"answered", "failing"}, Insert(c, Says(c)),
           \/ Goto(c, "ended") /\ UNCHANGED faulty
           \/ (Goto(c, "failing") \/ Goto(c, "ended")) /\ faulty' = faulty \cup {c}
    PROVE  RowsOfStep'
<1>1. c \in Check
  BY DEF Probe, Check
<1>2. health' = health \cup {RowOf(c, Says(c))} /\ Says(c) \in {"up", "down"}
  BY DEF Insert, RowOf, Says
<1>3. \A d \in Probe : d # c => check'[d] = check[d] /\ (d \in faulty' <=> d \in faulty)
  BY DEF Goto, TypeOK
<1>4. check'[c] \in {"failing", "ended"} /\ (c \notin faulty' => c \notin faulty /\ check'[c] = "ended")
  BY DEF Goto, TypeOK
<1>5. ASSUME NEW d \in Check, d # c
      PROVE  \A s \in {"up", "down"} : RowOf(d, s) \in health' <=> RowOf(d, s) \in health
  BY <1>1, <1>2, <1>5, OtherRows
<1>6. \A s \in {"up", "down"} \ {Says(c)} : RowOf(c, s) # RowOf(c, Says(c))
  BY DEF RowOf
<1>7. c \notin faulty => \A s \in {"up", "down"} : RowOf(c, s) \notin health
  BY <1>1 DEF RowsOfStep
<1>8. Check \subseteq Probe
  BY DEF Check, Probe, Kind
<1>9. ASSUME NEW d \in Check
      PROVE  /\ check'[d] \in {"none", "asking", "answered", "lost"} =>
                   \A s \in {"up", "down"} : RowOf(d, s) \notin health'
             /\ check'[d] = "failing" /\ d \notin faulty' =>
                   \A s \in {"up", "down"} : RowOf(d, s) \notin health'
             /\ check'[d] = "ended" /\ d \notin faulty' =>
                   \E s \in {"up", "down"} :
                       /\ RowOf(d, s) \in health'
                       /\ \A z \in {"up", "down"} \ {s} : RowOf(d, z) \notin health'
  <2>1. CASE d = c
    BY <1>2, <1>4, <1>6, <1>7, <2>1
  <2>2. CASE d # c
    BY <1>3, <1>5, <1>8, <2>2 DEF RowsOfStep
  <2> QED
    BY <2>1, <2>2
<1> QED
  BY <1>9 DEF RowsOfStep

\* A step that inserts no row of a service keeps the rows of the checks, if it
\* takes none of them back and ends none without a row.
LEMMA SameRows ==
    ASSUME RowsOfStep, LatestIsNewest, UNCHANGED <<health, latest>>,
           crossed \subseteq crossed', faulty \subseteq faulty',
           \A c \in Check :
              \/ check'[c] = check[c]
              \/ check[c] \in {"none", "asking"} /\ check'[c] \in {"asking", "answered", "failing", "lost"}
              \/ check[c] \in {"answered", "failing"} /\ check'[c] \in {"failing", "ended"} /\ c \in faulty'
    PROVE  RowsOfStep' /\ LatestIsNewest'
<1>1. LatestIsNewest'
  BY DEF LatestIsNewest
<1>2. \A c \in Check, s \in {"up", "down"} : RowOf(c, s) \in health' <=> RowOf(c, s) \in health
  OBVIOUS
<1>3. RowsOfStep'
  BY <1>2 DEF RowsOfStep
<1> QED
  BY <1>1, <1>3

\* Every step keeps what the checks, their rows and the latest rows have to do
\* with each other.
LEMMA HealthStep == TypeOK /\ HealthInv /\ [Next]_vars => HealthInv'
<1> SUFFICES ASSUME TypeOK, HealthInv, [Next]_vars PROVE HealthInv'
  OBVIOUS
<1> USE DEF HealthInv
<1>0. Check \subseteq Probe
  BY DEF Check, Probe, Kind
<1>1. CASE UNCHANGED <<poll, check, health, latest, faulty, crossed>>
  BY <1>1 DEF InOrder, RowsOfStep, Uncrossed, LatestIsNewest
<1>2. ASSUME NEW p \in Poll, Start(p) \/ Tick(p) \/ FindAll(p)
      PROVE  HealthInv'
  <2>1. UNCHANGED <<check, health, latest, faulty, crossed>>
    BY <1>2 DEF Start, Tick, FindAll
  <2>2. RowsOfStep' /\ LatestIsNewest'
    BY <2>1, SameRows
  <2>3. PICK s \in {"listing", "listed"} : poll' = [poll EXCEPT ![p] = s]
    BY <1>2 DEF Start, Tick, FindAll, Begin
  <2>4. poll[p] \in {"idle", "listing"} /\ \A q \in Poll : q < p => poll[q] # "idle"
    BY <1>2 DEF Start, Tick, FindAll, Begin, InOrder
  <2>5. InOrder'
    <3>1. \A c \in Probe : poll'[c[1]] \in {"idle", "listing", "listed"} => check[c] = "none"
      BY <2>3, <2>4 DEF InOrder, TypeOK, Probe
    <3>2. \A q, o \in Poll : o < q /\ poll'[q] # "idle" => poll'[o] # "idle"
      BY <2>3, <2>4 DEF InOrder, TypeOK
    <3> QED
      BY <2>1, <3>1, <3>2 DEF InOrder
  <2>6. \A q \in Poll : poll[q] \notin {"idle", "listing", "listed"} => poll'[q] = poll[q]
    BY <2>3, <2>4 DEF TypeOK
  <2>7. Uncrossed'
    BY <2>1, <2>6 DEF Uncrossed
  <2> QED
    BY <2>2, <2>5, <2>7
<1>3. ASSUME NEW p \in Poll, FailFindAll(p)
      PROVE  HealthInv'
  <2>1. /\ UNCHANGED <<health, latest, faulty, crossed>>
        /\ \A q \in Poll : poll'[q] = IF poll[q] = "idle" THEN "idle" ELSE "dead"
        /\ \A c \in Probe : check'[c] = IF check[c] = "asking" THEN "lost" ELSE check[c]
    BY <1>3 DEF FailFindAll, Die
  <2>2. RowsOfStep' /\ LatestIsNewest'
    BY <1>0, <2>1, SameRows
  <2>3. InOrder'
    BY <2>1 DEF InOrder, Probe
  <2>4. \A t \in Tenant, s \in Service, q \in Poll :
           LET c == <<q, t, s>>
           IN  (check'[c] = "none" <=> check[c] = "none")
               /\ (check'[c] \in Underway => check[c] \in Underway)
    BY <2>1 DEF Probe, Kind, Underway
  <2>5. Uncrossed'
    BY <2>1, <2>4 DEF Uncrossed
  <2> QED
    BY <2>2, <2>3, <2>5
<1>4. ASSUME NEW p \in Poll, CheckTenants(p)
      PROVE  HealthInv'
  <2>1. /\ UNCHANGED <<health, latest, faulty>> /\ crossed \subseteq crossed'
        /\ poll[p] = "listed" /\ poll' = [poll EXCEPT ![p] = "checking"]
        /\ \A c \in Probe : check'[c] = IF c[1] = p /\ Asks(p, c[2], c[3]) THEN "asking" ELSE check[c]
    BY <1>4 DEF CheckTenants
  <2>2. \A c \in Probe : c[1] = p => check[c] = "none"
    BY <2>1 DEF InOrder
  <2>3. RowsOfStep' /\ LatestIsNewest'
    BY <1>0, <2>1, <2>2, SameRows
  <2>4. InOrder'
    BY <2>1 DEF InOrder, TypeOK, Probe
  <2>5. ASSUME NEW t \in Tenant, NEW s \in Service, NEW r \in Poll, NEW q \in Poll,
               <<t, s>> \notin crossed', q < r, check'[<<r, t, s>>] # "none"
        PROVE  poll'[q] \notin {"idle", "listing", "listed"} /\ check'[<<q, t, s>>] \notin Underway
    <3>1. <<r, t, s>> \in Probe /\ <<q, t, s>> \in Probe
      BY DEF Probe, Kind
    <3>2. CASE check[<<r, t, s>>] # "none"
      <4>1. poll[q] \notin {"idle", "listing", "listed"} /\ check[<<q, t, s>>] \notin Underway
        BY <2>1, <2>5, <3>2 DEF Uncrossed
      <4>2. q # p
        BY <2>1, <4>1
      <4> QED
        BY <2>1, <3>1, <4>1, <4>2 DEF TypeOK
    <3>3. CASE check[<<r, t, s>>] = "none"
      <4>1. r = p /\ Asks(p, t, s)
        BY <2>1, <2>5, <3>1, <3>3
      <4>2. <<t, s>> \notin {x \in Tenant \X Service :
                     /\ Asks(p, x[1], x[2])
                     /\ \E o \in 1..(p - 1) : \/ poll[o] \in {"listing", "listed"}
                                            \/ check[<<o, x[1], x[2]>>] \in Underway}
        BY <1>4, <2>5 DEF CheckTenants
      <4>3. q \in 1..(p - 1)
        BY <2>5, <4>1, PollerAssumption DEF Poll
      <4>4. poll[q] \notin {"listing", "listed"} /\ check[<<q, t, s>>] \notin Underway
        BY <4>1, <4>2, <4>3
      <4>5. poll[q] # "idle" /\ q # p
        BY <2>1, <2>5, <4>1, <4>4 DEF InOrder
      <4> QED
        BY <2>1, <3>1, <4>4, <4>5 DEF TypeOK
    <3> QED
      BY <3>2, <3>3
  <2>6. Uncrossed'
    BY <2>5 DEF Uncrossed
  <2> QED
    BY <2>3, <2>4, <2>6
<1>5. ASSUME NEW c \in Probe, Continue(c)
      PROVE  HealthInv'
  <2>1. PICK s \in {"answered", "failing", "information", "ended"} : Goto(c, s)
    BY <1>5 DEF Continue, Hear, RecordHealth, FailRecordHealth, RecordMetrics, FailRecordMetrics
  <2>2. check[c] \in Underway /\ UNCHANGED <<poll, crossed>>
    BY <1>5 DEF Continue, Hear, RecordHealth, FailRecordHealth, RecordMetrics, FailRecordMetrics,
                Underway
  <2>3. InOrder' /\ Uncrossed'
    BY <2>1, <2>2, GotoInOrder DEF Step, Underway
  <2>4. \A d \in Probe : d # c => check'[d] = check[d]
    BY <2>1 DEF Goto, TypeOK
  <2>5. CASE Hear(c)
    <3>1. check[c] = "asking" /\ (c[3] # "metrics" => check'[c] \in {"answered", "failing"})
      BY <2>5 DEF Hear, Goto, TypeOK
    <3>2. c \in Check => c[3] # "metrics"
      BY DEF Check, Service
    <3> QED
      BY <1>0, <2>3, <2>4, <2>5, <3>1, <3>2, SameRows DEF Hear
  <2>6. CASE RecordHealth(c) \/ (FailRecordHealth(c) /\ Insert(c, Says(c)))
    <3>1. RowsOfStep'
      BY <2>6, InsertRows DEF RecordHealth, FailRecordHealth
    <3>2. LatestIsNewest'
      BY <2>2, <2>6, InsertNewest DEF RecordHealth, FailRecordHealth
    <3> QED
      BY <2>3, <3>1, <3>2
  <2>7. CASE FailRecordHealth(c) /\ UNCHANGED <<health, latest>>
    <3>1. /\ check[c] \in {"answered", "failing"} /\ check'[c] \in {"failing", "ended"}
          /\ c \in faulty' /\ faulty \subseteq faulty'
      BY <2>7 DEF FailRecordHealth, Goto, TypeOK
    <3> QED
      BY <1>0, <2>2, <2>3, <2>4, <2>7, <3>1, SameRows
  <2>8. CASE RecordMetrics(c) \/ FailRecordMetrics(c)
    <3>1. c \notin Check /\ UNCHANGED <<health, latest>> /\ faulty \subseteq faulty'
      BY <2>8 DEF RecordMetrics, FailRecordMetrics, Check, Service
    <3> QED
      BY <1>0, <2>2, <2>3, <2>4, <3>1, SameRows
  <2> QED
    BY <1>5, <2>5, <2>6, <2>7, <2>8 DEF Continue, FailRecordHealth
<1> QED
  BY <1>1, <1>2, <1>3, <1>4, <1>5 DEF Next, vars, pollerVars, Stop

\* A check without a failed INSERT leaves one row, and the latest row of a
\* service is the newest poll's unless polls crossed, for any number of polls.
THEOREM HealthFollows == Spec => []HealthFollowsChecks
<1>1. Init => HealthInv
  BY DEF Init, HealthInv, InOrder, RowsOfStep, Uncrossed, LatestIsNewest, Check, Probe, Kind
<1>2. TypeOK /\ HealthInv /\ [Next]_vars => HealthInv'
  BY HealthStep
<1>3. TypeOK /\ HealthInv => HealthFollowsChecks
  BY HealthInvImplies
<1> QED
  BY <1>1, <1>2, <1>3, Both, PTL DEF Spec

=============================================================================
