-------------------------- MODULE SchemaReloadProofs --------------------------
(***************************************************************************)
(* What SchemaReload keeps for any number of processes, uploads and        *)
(* schemas: its types, that nothing is served before it was stored, that   *)
(* the cache ends up with the registry of the process that wrote it last,  *)
(* that an upload alone leaves its schema everywhere, and that no upload   *)
(* waits for Redis in vain.                                                *)
(***************************************************************************)
EXTENDS SchemaReload, Integers, SequenceTheorems, TLAPS

\* Taking the oldest command, or reply, off a queue leaves a queue.
LEMMA Oldest ==
    ASSUME NEW S, NEW q \in Seq(S), q # <<>>
    PROVE  Head(q) \in S /\ Tail(q) \in Seq(S)
OBVIOUS

\* A queue that gets one more element is a queue.
LEMMA Newest ==
    ASSUME NEW S, NEW q \in Seq(S), NEW x \in S
    PROVE  Append(q, x) \in Seq(S)
OBVIOUS

\* A process that starts has nothing on its way.
LEMMA NothingQueued == ASSUME NEW S PROVE <<>> \in Seq(S)
OBVIOUS

\* Every step keeps the types.
LEMMA TypeStep == TypeOK /\ [Next]_vars => TypeOK'
<1> SUFFICES ASSUME TypeOK, [Next]_vars PROVE TypeOK'
  OBVIOUS
<1> USE DEF TypeOK, Step
<1>1. ASSUME NEW n \in Node, Boot(n)
      PROVE  TypeOK'
  BY <1>1, BootAssumption DEF Boot
<1>2. ASSUME NEW n \in Node, Crash(n)
      PROVE  TypeOK'
  <2>1. commands' \in [Node -> Seq(Command)] /\ replies' \in [Node -> Seq(Upload)]
    BY <1>2, NothingQueued DEF Crash
  <2>2. pc' \in [Upload -> Step]
    BY <1>2 DEF Crash
  <2> QED
    BY <1>2, <2>1, <2>2 DEF Crash
<1>3. ASSUME NEW n \in Node, RunDel(n) \/ RunSet(n) \/ FailCommand(n)
      PROVE  TypeOK'
  <2> DEFINE u == Head(commands[n]).upload
  <2>1. Head(commands[n]) \in Command /\ Tail(commands[n]) \in Seq(Command)
    BY <1>3, Oldest DEF RunDel, RunSet, FailCommand
  <2>2. u \in Upload
    BY <2>1 DEF Command
  <2>3. commands' \in [Node -> Seq(Command)]
    BY <1>3, <2>1 DEF RunDel, RunSet, FailCommand
  <2>4. replies' \in [Node -> Seq(Upload)]
    <3>1. CASE RunDel(n)
      <4>1. Append(replies[n], u) \in Seq(Upload)
        BY <2>2, Newest
      <4> QED
        BY <3>1, <4>1 DEF RunDel
    <3>2. CASE RunSet(n) \/ FailCommand(n)
      BY <3>2 DEF RunSet, FailCommand
    <3> QED
      BY <1>3, <3>1, <3>2
  <2>5. pc' \in [Upload -> Step]
    BY <1>3, <2>2 DEF RunDel, RunSet, FailCommand, InFlight
  <2>6. cache' \in Schema \cup {None} /\ keeper' \in Node \cup {None}
    BY <1>3, <2>2 DEF RunDel, RunSet, FailCommand
  <2> QED
    BY <1>3, <2>3, <2>4, <2>5, <2>6 DEF RunDel, RunSet, FailCommand
<1>4. ASSUME NEW n \in Node, IssueSet(n)
      PROVE  TypeOK'
  <2> DEFINE u == Head(replies[n])
  <2>1. u \in Upload /\ Tail(replies[n]) \in Seq(Upload)
    BY <1>4, Oldest DEF IssueSet
  <2>2. [op |-> "SET", upload |-> u] \in Command
    BY <2>1 DEF Command
  <2>3. commands' \in [Node -> Seq(Command)] /\ replies' \in [Node -> Seq(Upload)]
    BY <1>4, <2>1, <2>2, Newest DEF IssueSet
  <2>4. pc' \in [Upload -> Step]
    BY <1>4, <2>1 DEF IssueSet, InFlight
  <2> QED
    BY <1>4, <2>3, <2>4 DEF IssueSet
<1>5. ASSUME NEW u \in Upload, NEW n \in Uploader, NEW s \in Schema, Begin(u, n, s)
      PROVE  TypeOK'
  BY <1>5 DEF Begin, InFlight
<1>6. ASSUME NEW u \in Upload, Save(u) \/ FailSave(u)
      PROVE  TypeOK'
  BY <1>6 DEF Save, FailSave, InFlight
<1>7. ASSUME NEW u \in Upload, Activate(u)
      PROVE  TypeOK'
  <2>1. [op |-> "DEL", upload |-> u] \in Command
    BY DEF Command
  <2>2. commands' \in [Node -> Seq(Command)]
    BY <1>7, <2>1, Newest DEF Activate
  <2> QED
    BY <1>7, <2>2 DEF Activate, InFlight
<1>8. CASE ExpireCache \/ UNCHANGED vars
  BY <1>8 DEF ExpireCache, vars
<1> QED
  BY <1>1, <1>2, <1>3, <1>4, <1>5, <1>6, <1>7, <1>8, UploaderAssumption DEF Next

\* Where an upload stands and whether its upsert has run: only one whose
\* upsert has run can be activated, and its process and schema stay as they are.
GivenOfStep ==
    \A u \in Upload :
        /\ pc[u] = "saved" => u \in given
        /\ u \in given => pc[u] # "idle"
        /\ pc[u] \in {"begun", "saved"} => node[u] \in Node

\* Every step keeps both parts; Activate is the one that brings a schema into
\* use, and GivenOfStep says that its upload was stored.
LEMMA PersistedStep ==
    TypeOK /\ GivenOfStep /\ PersistedBeforeActive /\ [Next]_vars
        => GivenOfStep' /\ PersistedBeforeActive'
<1> SUFFICES ASSUME TypeOK, GivenOfStep, PersistedBeforeActive, [Next]_vars
             PROVE  GivenOfStep' /\ PersistedBeforeActive'
  OBVIOUS
<1> USE DEF TypeOK, GivenOfStep
<1>1. ASSUME NEW n \in Node, Boot(n)
      PROVE  GivenOfStep' /\ PersistedBeforeActive'
  BY <1>1 DEF Boot, PersistedBeforeActive
<1>2. ASSUME NEW n \in Node, Crash(n)
      PROVE  GivenOfStep' /\ PersistedBeforeActive'
  <2>1. GivenOfStep'
    BY <1>2 DEF Crash
  <2>2. PersistedBeforeActive'
    BY <1>2 DEF Crash, PersistedBeforeActive
  <2> QED
    BY <2>1, <2>2
<1>3. ASSUME NEW n \in Node, RunDel(n) \/ RunSet(n) \/ FailCommand(n)
      PROVE  GivenOfStep' /\ PersistedBeforeActive'
  <2>1. PICK u \in Upload, p \in {"deleted", "done", "cut"} : pc' = [pc EXCEPT ![u] = p]
    <3>1. Head(commands[n]) \in Command
      BY <1>3, Oldest DEF RunDel, RunSet, FailCommand
    <3> QED
      BY <1>3, <3>1 DEF RunDel, RunSet, FailCommand, Command
  <2>2. UNCHANGED <<memory, node, schema, given>>
    BY <1>3 DEF RunDel, RunSet, FailCommand
  <2> QED
    BY <2>1, <2>2 DEF PersistedBeforeActive
<1>4. ASSUME NEW n \in Node, IssueSet(n)
      PROVE  GivenOfStep' /\ PersistedBeforeActive'
  <2>1. Head(replies[n]) \in Upload
    BY <1>4, Oldest DEF IssueSet
  <2>2. GivenOfStep'
    BY <1>4, <2>1 DEF IssueSet
  <2>3. PersistedBeforeActive'
    BY <1>4 DEF IssueSet, PersistedBeforeActive
  <2> QED
    BY <2>2, <2>3
<1>5. ASSUME NEW u \in Upload, NEW n \in Uploader, NEW s \in Schema, Begin(u, n, s)
      PROVE  GivenOfStep' /\ PersistedBeforeActive'
  <2>1. u \notin given
    BY <1>5 DEF Begin
  <2>2. GivenOfStep'
    BY <1>5, <2>1, UploaderAssumption DEF Begin
  <2>3. PersistedBeforeActive'
    BY <1>5, <2>1 DEF Begin, PersistedBeforeActive
  <2> QED
    BY <2>2, <2>3
<1>6. ASSUME NEW u \in Upload, Save(u)
      PROVE  GivenOfStep' /\ PersistedBeforeActive'
  <2>1. node[u] \in Node
    BY <1>6 DEF Save
  <2>2. GivenOfStep'
    BY <1>6, <2>1 DEF Save
  <2>3. PersistedBeforeActive'
    BY <1>6 DEF Save, PersistedBeforeActive
  <2> QED
    BY <2>2, <2>3
<1>7. ASSUME NEW u \in Upload, FailSave(u)
      PROVE  GivenOfStep' /\ PersistedBeforeActive'
  BY <1>7 DEF FailSave, PersistedBeforeActive
<1>8. ASSUME NEW u \in Upload, Activate(u)
      PROVE  GivenOfStep' /\ PersistedBeforeActive'
  <2>1. u \in given /\ node[u] \in Node
    BY <1>8 DEF Activate
  <2>2. GivenOfStep'
    BY <1>8 DEF Activate
  <2>3. PersistedBeforeActive'
    BY <1>8, <2>1 DEF Activate, PersistedBeforeActive
  <2> QED
    BY <2>2, <2>3
<1>9. CASE ExpireCache \/ UNCHANGED vars
  BY <1>9 DEF ExpireCache, PersistedBeforeActive, vars
<1> QED
  BY <1>1, <1>2, <1>3, <1>4, <1>5, <1>6, <1>7, <1>8, <1>9 DEF Next

\* What is left of a queue when its head is gone.
LEMMA TailAt ==
    ASSUME NEW S, NEW q \in Seq(S), q # <<>>
    PROVE  /\ Len(q) \in Nat \ {0}
           /\ Len(Tail(q)) = Len(q) - 1
           /\ Head(q) = q[1]
           /\ \A i \in 1 .. Len(Tail(q)) : i + 1 \in 1 .. Len(q) /\ Tail(q)[i] = q[i + 1]
           /\ Tail(q) = <<>> => Len(q) = 1
<1>1. Len(q) \in Nat \ {0} /\ Head(q) = q[1]
  BY EmptySeq
<1>2. /\ Len(Tail(q)) = Len(q) - 1
      /\ \A i \in 1 .. Len(Tail(q)) : Tail(q)[i] = q[i + 1]
  BY HeadTailProperties
<1>3. Tail(q) = <<>> => Len(q) = 1
  BY <1>1, <1>2, EmptySeq
<1> QED
  BY <1>1, <1>2, <1>3

\* What a queue holds when one more element has joined it.
LEMMA AppendAt ==
    ASSUME NEW S, NEW q \in Seq(S), NEW x \in S
    PROVE  /\ Len(q) \in Nat
           /\ Len(Append(q, x)) = Len(q) + 1
           /\ Append(q, x) # <<>>
           /\ Append(q, x)[Len(q) + 1] = x
           /\ \A i \in 1 .. Len(q) : Append(q, x)[i] = q[i]
           /\ \A i \in 1 .. Len(Append(q, x)) : i = Len(q) + 1 \/ i \in 1 .. Len(q)
BY AppendProperties, LenProperties

\* Each queue of a process holds every upload at most once, and each of them
\* waits for just that command or reply.
CommandsMatch(n) ==
    /\ \A i \in 1 .. Len(commands[n]) :
          LET c == commands[n][i]
          IN  /\ node[c.upload] = n
              /\ pc[c.upload] = IF c.op = "DEL" THEN "deleting" ELSE "setting"
    /\ \A i, j \in 1 .. Len(commands[n]) :
          commands[n][i].upload = commands[n][j].upload => i = j

RepliesMatch(n) ==
    /\ \A i \in 1 .. Len(replies[n]) : node[replies[n][i]] = n /\ pc[replies[n][i]] = "deleted"
    /\ \A i, j \in 1 .. Len(replies[n]) : replies[n][i] = replies[n][j] => i = j

\* A process that is down has nothing on its way.
DownIsEmpty(n) == memory[n] = None => commands[n] = <<>> /\ replies[n] = <<>>

\* An upload under way carries a schema and is served by a process that is up.
ServedByLive ==
    \A u \in Upload : pc[u] \in InFlight =>
        schema[u] \in Schema /\ node[u] \in Node /\ memory[node[u]] # None

Queues ==
    /\ \A n \in Node : CommandsMatch(n) /\ RepliesMatch(n) /\ DownIsEmpty(n)
    /\ ServedByLive

\* The elements of a queue have the queue's type.
LEMMA Queued ==
    ASSUME TypeOK, NEW n \in Node
    PROVE  /\ commands[n] \in Seq(Command) /\ replies[n] \in Seq(Upload)
           /\ \A i \in 1 .. Len(commands[n]) :
                 /\ commands[n][i] \in Command
                 /\ commands[n][i].upload \in Upload
                 /\ commands[n][i].op \in {"DEL", "SET"}
           /\ \A i \in 1 .. Len(replies[n]) : replies[n][i] \in Upload
<1>1. commands[n] \in Seq(Command) /\ replies[n] \in Seq(Upload)
  BY DEF TypeOK
<1>2. \A i \in 1 .. Len(commands[n]) : commands[n][i] \in Command
  BY <1>1, LenProperties
<1>3. \A i \in 1 .. Len(replies[n]) : replies[n][i] \in Upload
  BY <1>1, LenProperties
<1> QED
  BY <1>1, <1>2, <1>3 DEF Command

\* The queues of a process are none of the business of an upload that is not
\* in them.
LEMMA OthersKeep ==
    ASSUME TypeOK, NEW n \in Node, NEW u \in Upload,
           CommandsMatch(n), RepliesMatch(n),
           commands'[n] = commands[n], replies'[n] = replies[n],
           \A v \in Upload \ {u} : pc'[v] = pc[v] /\ node'[v] = node[v],
           node[u] # n \/ pc[u] \notin {"deleting", "deleted", "setting"}
    PROVE  CommandsMatch(n)' /\ RepliesMatch(n)'
<1>1. \A i \in 1 .. Len(commands[n]) : commands[n][i].upload \in Upload \ {u}
  BY Queued DEF CommandsMatch
<1>2. \A i \in 1 .. Len(replies[n]) : replies[n][i] \in Upload \ {u}
  BY Queued DEF RepliesMatch
<1>3. CommandsMatch(n)'
  BY <1>1 DEF CommandsMatch
<1>4. RepliesMatch(n)'
  BY <1>2 DEF RepliesMatch
<1> QED
  BY <1>3, <1>4

\* The oldest command of a process is some upload's, and no other's.
LEMMA OldestCommand ==
    ASSUME TypeOK, NEW n \in Node, CommandsMatch(n), commands[n] # <<>>
    PROVE  LET u == Head(commands[n]).upload
           IN  /\ u \in Upload
               /\ node[u] = n
               /\ pc[u] = IF Head(commands[n]).op = "DEL" THEN "deleting" ELSE "setting"
               /\ Head(commands[n]).op \in {"DEL", "SET"}
               /\ commands[n][1] = Head(commands[n]) /\ 1 \in 1 .. Len(commands[n])
               /\ \A i \in 1 .. Len(Tail(commands[n])) :
                     /\ i + 1 \in 1 .. Len(commands[n])
                     /\ Tail(commands[n])[i] = commands[n][i + 1]
                     /\ commands[n][i + 1].upload # u
<1>1. commands[n] \in Seq(Command)
  BY Queued
<1>2. /\ Len(commands[n]) \in Nat \ {0}
      /\ Head(commands[n]) = commands[n][1]
      /\ Len(Tail(commands[n])) = Len(commands[n]) - 1
      /\ \A i \in 1 .. Len(Tail(commands[n])) :
            i + 1 \in 1 .. Len(commands[n]) /\ Tail(commands[n])[i] = commands[n][i + 1]
  BY <1>1, TailAt
<1>3. 1 \in 1 .. Len(commands[n])
  BY <1>2
<1>4. \A i \in 1 .. Len(Tail(commands[n])) : i + 1 # 1
  BY <1>2
<1>5. \A i \in 1 .. Len(Tail(commands[n])) :
         commands[n][i + 1].upload # commands[n][1].upload
  BY <1>2, <1>3, <1>4 DEF CommandsMatch
<1> QED
  BY <1>2, <1>3, <1>5, Queued DEF CommandsMatch

\* The same of its oldest reply.
LEMMA OldestReply ==
    ASSUME TypeOK, NEW n \in Node, RepliesMatch(n), replies[n] # <<>>
    PROVE  LET u == Head(replies[n])
           IN  /\ u \in Upload /\ node[u] = n /\ pc[u] = "deleted"
               /\ replies[n][1] = u /\ 1 \in 1 .. Len(replies[n])
               /\ \A i \in 1 .. Len(Tail(replies[n])) :
                     /\ i + 1 \in 1 .. Len(replies[n])
                     /\ Tail(replies[n])[i] = replies[n][i + 1]
                     /\ replies[n][i + 1] # u
<1>1. replies[n] \in Seq(Upload)
  BY Queued
<1>2. /\ Len(replies[n]) \in Nat \ {0}
      /\ Head(replies[n]) = replies[n][1]
      /\ Len(Tail(replies[n])) = Len(replies[n]) - 1
      /\ \A i \in 1 .. Len(Tail(replies[n])) :
            i + 1 \in 1 .. Len(replies[n]) /\ Tail(replies[n])[i] = replies[n][i + 1]
  BY <1>1, TailAt
<1>3. 1 \in 1 .. Len(replies[n])
  BY <1>2
<1>4. \A i \in 1 .. Len(Tail(replies[n])) : i + 1 # 1
  BY <1>2
<1>5. \A i \in 1 .. Len(Tail(replies[n])) : replies[n][i + 1] # replies[n][1]
  BY <1>2, <1>3, <1>4 DEF RepliesMatch
<1> QED
  BY <1>2, <1>3, <1>5, Queued DEF RepliesMatch

\* When the oldest command has run, the others still match.
LEMMA CommandRan ==
    ASSUME TypeOK, NEW n \in Node, NEW p,
           CommandsMatch(n), commands[n] # <<>>,
           commands'[n] = Tail(commands[n]), node' = node,
           pc' = [pc EXCEPT ![Head(commands[n]).upload] = p]
    PROVE  CommandsMatch(n)'
<1> DEFINE q == commands[n]
           u == Head(commands[n]).upload
<1>1. \A i \in 1 .. Len(Tail(q)) :
         /\ i + 1 \in 1 .. Len(q) /\ Tail(q)[i] = q[i + 1]
         /\ q[i + 1].upload \in Upload \ {u}
  BY OldestCommand, Queued
<1>2. \A v \in Upload \ {u} : pc'[v] = pc[v]
  BY DEF TypeOK
<1>3. \A i \in 1 .. Len(Tail(q)) :
         LET c == Tail(q)[i]
         IN  /\ node'[c.upload] = n
             /\ pc'[c.upload] = IF c.op = "DEL" THEN "deleting" ELSE "setting"
  BY <1>1, <1>2 DEF CommandsMatch
<1>4. ASSUME NEW i \in 1 .. Len(Tail(q)), NEW j \in 1 .. Len(Tail(q)),
             Tail(q)[i].upload = Tail(q)[j].upload
      PROVE  i = j
  <2>1. i + 1 = j + 1
    BY <1>1, <1>4 DEF CommandsMatch
  <2> QED
    BY <2>1
<1> QED
  BY <1>3, <1>4 DEF CommandsMatch

\* An upload that waited for neither a command nor a reply of this kind may
\* join the queue.
LEMMA CommandJoins ==
    ASSUME TypeOK, NEW n \in Node, NEW u \in Upload, NEW op \in {"DEL", "SET"},
           CommandsMatch(n), pc[u] \notin {"deleting", "setting"}, node[u] = n,
           commands'[n] = Append(commands[n], [op |-> op, upload |-> u]), node' = node,
           pc' = [pc EXCEPT ![u] = IF op = "DEL" THEN "deleting" ELSE "setting"]
    PROVE  CommandsMatch(n)'
<1> DEFINE c == [op |-> op, upload |-> u]
           q == commands[n]
           k == Len(commands[n]) + 1
<1>1. q \in Seq(Command) /\ c \in Command
  BY Queued DEF Command
<1>2. /\ Len(q) \in Nat
      /\ commands'[n][k] = c
      /\ \A i \in 1 .. Len(q) : commands'[n][i] = q[i]
      /\ \A i \in 1 .. Len(commands'[n]) : i = k \/ i \in 1 .. Len(q)
  BY <1>1, AppendAt
<1>3. \A i \in 1 .. Len(q) : q[i].upload \in Upload \ {u}
  BY Queued DEF CommandsMatch
<1>4. \A v \in Upload \ {u} : pc'[v] = pc[v]
  BY DEF TypeOK
<1>5. pc'[u] = IF op = "DEL" THEN "deleting" ELSE "setting"
  BY DEF TypeOK
<1>6. \A i \in 1 .. Len(commands'[n]) :
         LET d == commands'[n][i]
         IN  /\ node'[d.upload] = n
             /\ pc'[d.upload] = IF d.op = "DEL" THEN "deleting" ELSE "setting"
  <2>1. ASSUME NEW i \in 1 .. Len(q)
        PROVE  LET d == commands'[n][i]
               IN  /\ node'[d.upload] = n
                   /\ pc'[d.upload] = IF d.op = "DEL" THEN "deleting" ELSE "setting"
    BY <1>2, <1>3, <1>4 DEF CommandsMatch
  <2> QED
    BY <1>2, <1>5, <2>1
<1>7. ASSUME NEW i \in 1 .. Len(commands'[n]), NEW j \in 1 .. Len(commands'[n]),
             commands'[n][i].upload = commands'[n][j].upload
      PROVE  i = j
  <2>1. CASE i = k /\ j = k
    BY <2>1
  <2>2. CASE i \in 1 .. Len(q) /\ j \in 1 .. Len(q)
    BY <1>2, <1>7, <2>2 DEF CommandsMatch
  <2>3. CASE i = k /\ j \in 1 .. Len(q)
    BY <1>2, <1>3, <1>7, <2>3
  <2>4. CASE j = k /\ i \in 1 .. Len(q)
    BY <1>2, <1>3, <1>7, <2>4
  <2> QED
    BY <1>2, <2>1, <2>2, <2>3, <2>4
<1> QED
  BY <1>6, <1>7 DEF CommandsMatch

\* The replies of a process are none of the business of an upload that waits
\* for none.
LEMMA RepliesKeep ==
    ASSUME TypeOK, NEW n \in Node, NEW u \in Upload, RepliesMatch(n),
           replies'[n] = replies[n],
           \A v \in Upload \ {u} : pc'[v] = pc[v] /\ node'[v] = node[v],
           node[u] # n \/ pc[u] # "deleted"
    PROVE  RepliesMatch(n)'
<1>1. \A i \in 1 .. Len(replies[n]) : replies[n][i] \in Upload \ {u}
  BY Queued DEF RepliesMatch
<1> QED
  BY <1>1 DEF RepliesMatch

\* A DEL that has run sends its reply.
LEMMA ReplyJoins ==
    ASSUME TypeOK, NEW n \in Node, NEW u \in Upload, RepliesMatch(n),
           pc[u] # "deleted", node[u] = n, node' = node,
           replies'[n] = Append(replies[n], u), pc' = [pc EXCEPT ![u] = "deleted"]
    PROVE  RepliesMatch(n)'
<1> DEFINE q == replies[n]
           k == Len(replies[n]) + 1
<1>1. /\ Len(q) \in Nat
      /\ replies'[n][k] = u
      /\ \A i \in 1 .. Len(q) : replies'[n][i] = q[i]
      /\ \A i \in 1 .. Len(replies'[n]) : i = k \/ i \in 1 .. Len(q)
  BY Queued, AppendAt
<1>2. \A i \in 1 .. Len(q) : q[i] \in Upload \ {u}
  BY Queued DEF RepliesMatch
<1>3. pc'[u] = "deleted" /\ \A v \in Upload \ {u} : pc'[v] = pc[v]
  BY DEF TypeOK
<1>4. \A i \in 1 .. Len(replies'[n]) :
         node'[replies'[n][i]] = n /\ pc'[replies'[n][i]] = "deleted"
  BY <1>1, <1>2, <1>3 DEF RepliesMatch
<1>5. ASSUME NEW i \in 1 .. Len(replies'[n]), NEW j \in 1 .. Len(replies'[n]),
             replies'[n][i] = replies'[n][j]
      PROVE  i = j
  BY <1>1, <1>2, <1>5 DEF RepliesMatch
<1> QED
  BY <1>4, <1>5 DEF RepliesMatch

\* When the oldest reply has been handled, the others still match.
LEMMA ReplyHandled ==
    ASSUME TypeOK, NEW n \in Node, NEW p, RepliesMatch(n), replies[n] # <<>>,
           replies'[n] = Tail(replies[n]), node' = node,
           pc' = [pc EXCEPT ![Head(replies[n])] = p]
    PROVE  RepliesMatch(n)'
<1> DEFINE q == replies[n]
           u == Head(replies[n])
<1>1. \A i \in 1 .. Len(Tail(q)) :
         /\ i + 1 \in 1 .. Len(q) /\ Tail(q)[i] = q[i + 1]
         /\ q[i + 1] \in Upload \ {u}
  BY OldestReply, Queued
<1>2. \A v \in Upload \ {u} : pc'[v] = pc[v]
  BY DEF TypeOK
<1>3. \A i \in 1 .. Len(Tail(q)) : node'[Tail(q)[i]] = n /\ pc'[Tail(q)[i]] = "deleted"
  BY <1>1, <1>2 DEF RepliesMatch
<1>4. ASSUME NEW i \in 1 .. Len(Tail(q)), NEW j \in 1 .. Len(Tail(q)), Tail(q)[i] = Tail(q)[j]
      PROVE  i = j
  <2>1. i + 1 = j + 1
    BY <1>1, <1>4 DEF RepliesMatch
  <2> QED
    BY <2>1
<1> QED
  BY <1>3, <1>4 DEF RepliesMatch

\* Every step keeps the queues in order.
LEMMA QueuesStep == TypeOK /\ Queues /\ [Next]_vars => Queues'
<1> SUFFICES ASSUME TypeOK, Queues, [Next]_vars
             PROVE  Queues'
  OBVIOUS
<1> USE DEF Queues
<1>1. ASSUME NEW n \in Node, Boot(n)
      PROVE  Queues'
  <2>1. /\ UNCHANGED <<commands, replies, pc, node, schema>>
        /\ memory'[n] # None /\ \A m \in Node \ {n} : memory'[m] = memory[m]
    BY <1>1, BootAssumption, NoneAssumption DEF Boot, TypeOK
  <2>2. \A m \in Node : CommandsMatch(m)' /\ RepliesMatch(m)'
    BY <2>1, SMTT(30) DEF CommandsMatch, RepliesMatch
  <2>3. \A m \in Node : DownIsEmpty(m)'
    BY <2>1 DEF DownIsEmpty
  <2>4. ServedByLive'
    BY <2>1 DEF ServedByLive
  <2> QED
    BY <2>2, <2>3, <2>4
<1>2. ASSUME NEW n \in Node, Crash(n)
      PROVE  Queues'
  <2>1. /\ commands'[n] = <<>> /\ replies'[n] = <<>>
        /\ \A m \in Node \ {n} : /\ commands'[m] = commands[m]
                                 /\ replies'[m] = replies[m]
                                 /\ memory'[m] = memory[m]
        /\ \A u \in Upload : pc'[u] = IF node[u] = n /\ pc[u] \in InFlight THEN "failed" ELSE pc[u]
        /\ UNCHANGED <<node, schema>>
    BY <1>2 DEF Crash, TypeOK
  <2>2. CommandsMatch(n)' /\ RepliesMatch(n)' /\ DownIsEmpty(n)'
    BY <2>1 DEF CommandsMatch, RepliesMatch, DownIsEmpty
  <2>3. ASSUME NEW m \in Node \ {n}
        PROVE  CommandsMatch(m)' /\ RepliesMatch(m)' /\ DownIsEmpty(m)'
    <3>1. \A i \in 1 .. Len(commands[m]) : commands[m][i].upload \in Upload
      BY Queued
    <3>2. CommandsMatch(m)'
      BY <2>1, <3>1 DEF CommandsMatch
    <3>3. \A i \in 1 .. Len(replies[m]) : replies[m][i] \in Upload
      BY Queued
    <3>4. RepliesMatch(m)'
      BY <2>1, <3>3 DEF RepliesMatch
    <3> QED
      BY <2>1, <3>2, <3>4 DEF DownIsEmpty
  <2>4. ServedByLive'
    BY <2>1 DEF ServedByLive, InFlight
  <2> QED
    BY <2>2, <2>3, <2>4
<1>3. ASSUME NEW n \in Node, RunDel(n) \/ RunSet(n) \/ FailCommand(n)
      PROVE  Queues'
  <2> DEFINE u == Head(commands[n]).upload
  <2>1. /\ u \in Upload /\ node[u] = n /\ pc[u] \in {"deleting", "setting"}
        /\ commands[n] # <<>>
    BY <1>3, OldestCommand DEF RunDel, RunSet, FailCommand
  <2>2. PICK p \in {"deleted", "done", "cut"} : pc' = [pc EXCEPT ![u] = p]
    BY <1>3 DEF RunDel, RunSet, FailCommand
  <2>3. /\ commands'[n] = Tail(commands[n])
        /\ \A m \in Node \ {n} : commands'[m] = commands[m] /\ replies'[m] = replies[m]
        /\ UNCHANGED <<memory, node, schema>>
    BY <1>3 DEF RunDel, RunSet, FailCommand, TypeOK
  <2>4. \A v \in Upload \ {u} : pc'[v] = pc[v]
    BY <2>2 DEF TypeOK
  <2>5. CommandsMatch(n)'
    BY <2>1, <2>2, <2>3, CommandRan
  <2>6. RepliesMatch(n)'
    <3>1. CASE RunDel(n)
      <4>1. pc' = [pc EXCEPT ![u] = "deleted"] /\ replies'[n] = Append(replies[n], u)
        BY <3>1 DEF RunDel, TypeOK
      <4> QED
        BY <2>1, <2>3, <4>1, ReplyJoins
    <3>2. CASE RunSet(n) \/ FailCommand(n)
      <4>1. replies'[n] = replies[n]
        BY <3>2 DEF RunSet, FailCommand
      <4> QED
        BY <2>1, <2>3, <2>4, <4>1, RepliesKeep
    <3> QED
      BY <1>3, <3>1, <3>2
  <2>7. \A m \in Node \ {n} : CommandsMatch(m)' /\ RepliesMatch(m)'
    BY <2>1, <2>3, <2>4, OthersKeep
  <2>8. memory[n] # None
    BY <2>1 DEF DownIsEmpty
  <2>9. \A m \in Node : DownIsEmpty(m)'
    BY <2>3, <2>8 DEF DownIsEmpty
  <2>10. ServedByLive'
    BY <2>1, <2>3, <2>4, <2>8 DEF ServedByLive, InFlight
  <2> QED
    BY <2>5, <2>6, <2>7, <2>9, <2>10
<1>4. ASSUME NEW n \in Node, IssueSet(n)
      PROVE  Queues'
  <2> DEFINE u == Head(replies[n])
  <2>1. u \in Upload /\ node[u] = n /\ pc[u] = "deleted" /\ replies[n] # <<>>
    BY <1>4, OldestReply DEF IssueSet
  <2>2. /\ pc' = [pc EXCEPT ![u] = "setting"]
        /\ commands'[n] = Append(commands[n], [op |-> "SET", upload |-> u])
        /\ replies'[n] = Tail(replies[n])
        /\ \A m \in Node \ {n} : commands'[m] = commands[m] /\ replies'[m] = replies[m]
        /\ UNCHANGED <<memory, node, schema>>
    BY <1>4 DEF IssueSet, TypeOK
  <2>3. \A v \in Upload \ {u} : pc'[v] = pc[v]
    BY <2>2 DEF TypeOK
  <2>4. CommandsMatch(n)'
    BY <2>1, <2>2, CommandJoins
  <2>5. RepliesMatch(n)'
    BY <2>1, <2>2, ReplyHandled
  <2>6. \A m \in Node \ {n} : CommandsMatch(m)' /\ RepliesMatch(m)'
    BY <2>1, <2>2, <2>3, OthersKeep
  <2>7. memory[n] # None
    BY <2>1 DEF DownIsEmpty
  <2>8. \A m \in Node : DownIsEmpty(m)'
    BY <2>2, <2>7 DEF DownIsEmpty
  <2>9. ServedByLive'
    BY <2>1, <2>2, <2>3, <2>7 DEF ServedByLive, InFlight
  <2> QED
    BY <2>4, <2>5, <2>6, <2>8, <2>9
<1>5. ASSUME NEW u \in Upload, NEW n \in Uploader, NEW s \in Schema, Begin(u, n, s)
      PROVE  Queues'
  <2>1. /\ pc[u] = "idle" /\ memory[n] # None /\ n \in Node
        /\ node'[u] = n /\ schema'[u] = s
        /\ \A v \in Upload \ {u} : pc'[v] = pc[v] /\ node'[v] = node[v] /\ schema'[v] = schema[v]
        /\ UNCHANGED <<memory, commands, replies>>
    BY <1>5, UploaderAssumption DEF Begin, TypeOK
  <2>2. \A m \in Node : CommandsMatch(m)' /\ RepliesMatch(m)'
    BY <2>1, OthersKeep
  <2>3. \A m \in Node : DownIsEmpty(m)'
    BY <2>1 DEF DownIsEmpty
  <2>4. ServedByLive'
    BY <2>1 DEF ServedByLive
  <2> QED
    BY <2>2, <2>3, <2>4
<1>6. ASSUME NEW u \in Upload, Save(u) \/ FailSave(u)
      PROVE  Queues'
  <2>1. /\ pc[u] \in {"begun", "saved"}
        /\ \A v \in Upload \ {u} : pc'[v] = pc[v]
        /\ UNCHANGED <<memory, commands, replies, node, schema>>
    BY <1>6 DEF Save, FailSave, TypeOK
  <2>2. \A m \in Node : CommandsMatch(m)' /\ RepliesMatch(m)'
    BY <2>1, OthersKeep
  <2>3. \A m \in Node : DownIsEmpty(m)'
    BY <2>1 DEF DownIsEmpty
  <2>4. ServedByLive'
    BY <2>1 DEF ServedByLive, InFlight
  <2> QED
    BY <2>2, <2>3, <2>4
<1>7. ASSUME NEW u \in Upload, Activate(u)
      PROVE  Queues'
  <2>1. PICK n \in Node : pc[u] = "saved" /\ n = node[u] /\ memory[n] # None
    BY <1>7 DEF Activate, ServedByLive, InFlight
  <2>2. /\ memory'[n] = schema[u]
        /\ commands'[n] = Append(commands[n], [op |-> "DEL", upload |-> u])
        /\ pc' = [pc EXCEPT ![u] = "deleting"]
        /\ \A m \in Node \ {n} : commands'[m] = commands[m] /\ memory'[m] = memory[m]
        /\ UNCHANGED <<replies, node, schema>>
    BY <1>7, <2>1 DEF Activate, TypeOK
  <2>3. \A v \in Upload \ {u} : pc'[v] = pc[v]
    BY <2>2 DEF TypeOK
  <2>4. CommandsMatch(n)'
    BY <2>1, <2>2, CommandJoins
  <2>5. RepliesMatch(n)'
    BY <2>1, <2>2, <2>3, RepliesKeep
  <2>6. \A m \in Node \ {n} : CommandsMatch(m)' /\ RepliesMatch(m)'
    BY <2>1, <2>2, <2>3, OthersKeep
  <2>7. schema[u] # None
    BY <2>1, NoneAssumption DEF ServedByLive, InFlight
  <2>8. \A m \in Node : DownIsEmpty(m)'
    BY <2>2, <2>7 DEF DownIsEmpty
  <2>9. ServedByLive'
    BY <2>1, <2>2, <2>3, <2>7 DEF ServedByLive, InFlight
  <2> QED
    BY <2>1, <2>4, <2>5, <2>6, <2>8, <2>9
<1>8. CASE ExpireCache \/ UNCHANGED vars
  BY <1>8 DEF ExpireCache, vars, CommandsMatch, RepliesMatch, DownIsEmpty, ServedByLive
<1> QED
  BY <1>1, <1>2, <1>3, <1>4, <1>5, <1>6, <1>7, <1>8 DEF Next

\* The uploads of a process reach Redis in the order in which they replaced its
\* registry: every SET on its way is older than every reply, and every reply
\* older than every DEL.  So the schema the process serves is the one of the
\* newest DEL, or without a DEL of the newest reply, or without either of the
\* newest SET; and when nothing is on its way, what the process wrote last.
NoDel(n) == \A i \in 1 .. Len(commands[n]) : commands[n][i].op = "SET"

NewestDel(n) ==
    \A i \in 1 .. Len(commands[n]) :
        /\ commands[n][i].op = "DEL"
        /\ \A j \in 1 .. Len(commands[n]) : j > i => commands[n][j].op = "SET"
        => schema[commands[n][i].upload] = memory[n]

NewestReply(n) ==
    NoDel(n) /\ replies[n] # <<>> => schema[replies[n][Len(replies[n])]] = memory[n]

NewestSet(n) ==
    NoDel(n) /\ replies[n] = <<>> /\ commands[n] # <<>>
        => schema[commands[n][Len(commands[n])].upload] = memory[n]

Settled(n) ==
    replies[n] = <<>> /\ commands[n] = <<>> /\ keeper = n => cache \in {memory[n], None}

InOrder(n) == NewestDel(n) /\ NewestReply(n) /\ NewestSet(n) /\ Settled(n)

\* Redis failed no command of this process.
Whole(n) == \A u \in Upload : ~(node[u] = n /\ pc[u] = "cut")

Follows == \A n \in Node : memory[n] # None /\ Whole(n) => InOrder(n)

\* A step that leaves a process's registry and queues alone, and the key unless
\* it empties it or another process takes it over, keeps the order.
LEMMA InOrderKeeps ==
    ASSUME TypeOK, NEW n \in Node, CommandsMatch(n), RepliesMatch(n), InOrder(n),
           memory'[n] = memory[n], commands'[n] = commands[n], replies'[n] = replies[n],
           \A v \in Upload : pc[v] # "idle" => schema'[v] = schema[v],
           keeper' = n => keeper = n /\ cache' \in {cache, None}
    PROVE  InOrder(n)'
<1>1. \A i \in 1 .. Len(commands[n]) :
         schema'[commands[n][i].upload] = schema[commands[n][i].upload]
  BY Queued DEF CommandsMatch
<1>2. \A i \in 1 .. Len(replies[n]) : schema'[replies[n][i]] = schema[replies[n][i]]
  BY Queued DEF RepliesMatch
<1>3. NoDel(n)' = NoDel(n)
  BY DEF NoDel
<1>4. NewestDel(n)'
  BY <1>1 DEF InOrder, NewestDel
<1>5. NewestReply(n)'
  <2>1. replies[n] # <<>> => Len(replies[n]) \in 1 .. Len(replies[n])
    BY Queued, TailAt
  <2> QED
    BY <1>2, <1>3, <2>1 DEF InOrder, NewestReply
<1>6. NewestSet(n)'
  <2>1. commands[n] # <<>> => Len(commands[n]) \in 1 .. Len(commands[n])
    BY Queued, TailAt
  <2> QED
    BY <1>1, <1>3, <2>1 DEF InOrder, NewestSet
<1>7. Settled(n)'
  BY DEF InOrder, Settled
<1> QED
  BY <1>4, <1>5, <1>6, <1>7 DEF InOrder

\* The DEL that goes with a new registry is the newest command.
LEMMA InOrderActivated ==
    ASSUME TypeOK, NEW n \in Node, NEW u \in Upload,
           memory'[n] = schema[u], schema' = schema,
           commands'[n] = Append(commands[n], [op |-> "DEL", upload |-> u])
    PROVE  InOrder(n)'
<1> DEFINE c == [op |-> "DEL", upload |-> u]
           q == commands[n]
           k == Len(commands[n]) + 1
<1>1. q \in Seq(Command) /\ c \in Command
  BY Queued DEF Command
<1>2. /\ Len(q) \in Nat
      /\ commands'[n] # <<>>
      /\ k \in 1 .. Len(commands'[n])
      /\ commands'[n][k] = c
      /\ \A i \in 1 .. Len(commands'[n]) : i = k \/ i \in 1 .. Len(q)
  BY <1>1, AppendAt
<1>3. ~NoDel(n)'
  BY <1>2 DEF NoDel
<1>4. ASSUME NEW i \in 1 .. Len(commands'[n]),
             \A j \in 1 .. Len(commands'[n]) : j > i => commands'[n][j].op = "SET"
      PROVE  schema'[commands'[n][i].upload] = memory'[n]
  <2>1. i = k
    BY <1>2, <1>4
  <2> QED
    BY <1>2, <2>1
<1>5. NewestDel(n)'
  BY <1>4 DEF NewestDel
<1> QED
  BY <1>2, <1>3, <1>5 DEF InOrder, NewestReply, NewestSet, Settled

\* A DEL that runs becomes the newest reply.
LEMMA InOrderDelRan ==
    ASSUME TypeOK, NEW n \in Node, CommandsMatch(n), InOrder(n), commands[n] # <<>>,
           Head(commands[n]).op = "DEL",
           UNCHANGED <<memory, schema>>,
           commands'[n] = Tail(commands[n]),
           replies'[n] = Append(replies[n], Head(commands[n]).upload)
    PROVE  InOrder(n)'
<1> DEFINE q == commands[n]
           u == Head(commands[n]).upload
<1>1. /\ u \in Upload /\ 1 \in 1 .. Len(q) /\ q[1] = Head(q)
      /\ \A i \in 1 .. Len(Tail(q)) : i + 1 \in 1 .. Len(q) /\ Tail(q)[i] = q[i + 1]
  BY OldestCommand
<1>2. Len(q) \in Nat \ {0} /\ Len(Tail(q)) = Len(q) - 1
  BY Queued, TailAt
<1>3. /\ replies'[n] # <<>>
      /\ replies'[n][Len(replies'[n])] = u
  BY <1>1, Queued, AppendAt
<1>4. ASSUME NEW i \in 1 .. Len(Tail(q)), Tail(q)[i].op = "DEL",
             \A j \in 1 .. Len(Tail(q)) : j > i => Tail(q)[j].op = "SET"
      PROVE  schema[Tail(q)[i].upload] = memory[n]
  <2>1. i + 1 \in 1 .. Len(q) /\ Tail(q)[i] = q[i + 1]
    BY <1>1
  <2>2. ASSUME NEW j \in 1 .. Len(q), j > i + 1
        PROVE  q[j].op = "SET"
    <3>1. j - 1 \in 1 .. Len(Tail(q)) /\ j - 1 > i /\ (j - 1) + 1 = j
      BY <1>2, <2>2
    <3>2. Tail(q)[j - 1] = q[j]
      BY <1>1, <3>1
    <3> QED
      BY <1>4, <3>1, <3>2
  <2> QED
    BY <1>4, <2>1, <2>2 DEF InOrder, NewestDel
<1>5. NewestDel(n)'
  BY <1>4 DEF NewestDel
<1>6. ASSUME NoDel(n)'
      PROVE  schema[u] = memory[n]
  <2>1. ASSUME NEW j \in 1 .. Len(q), j > 1
        PROVE  q[j].op = "SET"
    <3>1. j - 1 \in 1 .. Len(Tail(q)) /\ (j - 1) + 1 = j
      BY <1>2, <2>1
    <3>2. Tail(q)[j - 1] = q[j]
      BY <1>1, <3>1
    <3> QED
      BY <1>6, <3>1, <3>2 DEF NoDel
  <2> QED
    BY <1>1, <2>1 DEF InOrder, NewestDel
<1>7. NewestReply(n)'
  BY <1>3, <1>6 DEF NewestReply
<1> QED
  BY <1>3, <1>5, <1>7 DEF InOrder, NewestSet, Settled

\* A reply that is handled becomes the newest SET.
LEMMA InOrderIssued ==
    ASSUME TypeOK, NEW n \in Node, RepliesMatch(n), InOrder(n), replies[n] # <<>>,
           UNCHANGED <<memory, schema>>,
           commands'[n] = Append(commands[n], [op |-> "SET", upload |-> Head(replies[n])]),
           replies'[n] = Tail(replies[n])
    PROVE  InOrder(n)'
<1> DEFINE q == commands[n]
           u == Head(replies[n])
           c == [op |-> "SET", upload |-> u]
           k == Len(commands[n]) + 1
<1>1. /\ u \in Upload /\ replies[n][1] = u
      /\ \A i \in 1 .. Len(Tail(replies[n])) : Tail(replies[n])[i] = replies[n][i + 1]
  BY OldestReply
<1>2. /\ Len(replies[n]) \in Nat \ {0} /\ Len(Tail(replies[n])) = Len(replies[n]) - 1
      /\ Tail(replies[n]) = <<>> => Len(replies[n]) = 1
      /\ Tail(replies[n]) # <<>> => Len(Tail(replies[n])) \in Nat \ {0}
  BY Queued, TailAt, HeadTailProperties
<1>3. q \in Seq(Command) /\ c \in Command
  BY <1>1, Queued DEF Command
<1>4. /\ Len(q) \in Nat
      /\ commands'[n] # <<>> /\ Len(commands'[n]) = k
      /\ commands'[n][k] = c
      /\ \A i \in 1 .. Len(q) : i \in 1 .. Len(commands'[n]) /\ commands'[n][i] = q[i]
      /\ \A i \in 1 .. Len(commands'[n]) : i = k \/ i \in 1 .. Len(q)
  BY <1>3, AppendAt
<1>5. NoDel(n)' => NoDel(n)
  BY <1>4 DEF NoDel
<1>6. ASSUME NEW i \in 1 .. Len(commands'[n]), commands'[n][i].op = "DEL",
             \A j \in 1 .. Len(commands'[n]) : j > i => commands'[n][j].op = "SET"
      PROVE  schema'[commands'[n][i].upload] = memory'[n]
  <2>1. i \in 1 .. Len(q) /\ commands'[n][i] = q[i]
    BY <1>4, <1>6
  <2>2. \A j \in 1 .. Len(q) : j > i => q[j].op = "SET"
    BY <1>4, <1>6
  <2> QED
    BY <1>6, <2>1, <2>2 DEF InOrder, NewestDel
<1>7. NewestDel(n)'
  BY <1>6 DEF NewestDel
<1>8. NewestReply(n)'
  <2>1. ASSUME Tail(replies[n]) # <<>>
        PROVE  Tail(replies[n])[Len(Tail(replies[n]))] = replies[n][Len(replies[n])]
    BY <1>1, <1>2, <2>1
  <2> QED
    BY <1>5, <2>1 DEF InOrder, NewestReply
<1>9. NewestSet(n)'
  <2>1. ASSUME NoDel(n)', Tail(replies[n]) = <<>>
        PROVE  schema[u] = memory[n]
    BY <1>1, <1>2, <1>5, <2>1 DEF InOrder, NewestReply
  <2>2. commands'[n][Len(commands'[n])].upload = u
    BY <1>4
  <2> QED
    BY <2>1, <2>2 DEF NewestSet
<1> QED
  BY <1>4, <1>7, <1>8, <1>9 DEF InOrder, Settled

\* A SET that runs leaves the others as they are; the last of all is what the
\* process serves.
LEMMA InOrderSetRan ==
    ASSUME TypeOK, NEW n \in Node, CommandsMatch(n), InOrder(n), commands[n] # <<>>,
           Head(commands[n]).op = "SET",
           UNCHANGED <<memory, schema, replies>>,
           commands'[n] = Tail(commands[n]),
           cache' = schema[Head(commands[n]).upload]
    PROVE  InOrder(n)'
<1> DEFINE q == commands[n]
           u == Head(commands[n]).upload
<1>1. /\ u \in Upload /\ 1 \in 1 .. Len(q) /\ q[1] = Head(q)
      /\ \A i \in 1 .. Len(Tail(q)) : i + 1 \in 1 .. Len(q) /\ Tail(q)[i] = q[i + 1]
  BY OldestCommand
<1>2. /\ Len(q) \in Nat \ {0} /\ Len(Tail(q)) = Len(q) - 1
      /\ Tail(q) = <<>> => Len(q) = 1
      /\ Tail(q) # <<>> => Len(Tail(q)) \in Nat \ {0}
  BY Queued, TailAt, HeadTailProperties
<1>3. ASSUME NEW j \in 1 .. Len(q), j # 1
      PROVE  j - 1 \in 1 .. Len(Tail(q)) /\ Tail(q)[j - 1] = q[j]
  <2>1. j - 1 \in 1 .. Len(Tail(q)) /\ (j - 1) + 1 = j
    BY <1>2, <1>3
  <2> QED
    BY <1>1, <2>1
<1>4. ASSUME NoDel(n)'
      PROVE  NoDel(n)
  <2>1. ASSUME NEW j \in 1 .. Len(q)
        PROVE  q[j].op = "SET"
    <3>1. CASE j = 1
      BY <1>1, <3>1
    <3>2. CASE j # 1
      <4>1. j - 1 \in 1 .. Len(Tail(q)) /\ Tail(q)[j - 1] = q[j]
        BY <1>3, <3>2
      <4>2. \A i \in 1 .. Len(Tail(q)) : Tail(q)[i].op = "SET"
        BY <1>4 DEF NoDel
      <4> QED
        BY <4>1, <4>2
    <3> QED
      BY <3>1, <3>2
  <2> QED
    BY <2>1 DEF NoDel
<1>5. ASSUME NEW i \in 1 .. Len(Tail(q)), Tail(q)[i].op = "DEL",
             \A j \in 1 .. Len(Tail(q)) : j > i => Tail(q)[j].op = "SET"
      PROVE  schema[Tail(q)[i].upload] = memory[n]
  <2>1. i + 1 \in 1 .. Len(q) /\ Tail(q)[i] = q[i + 1]
    BY <1>1
  <2>2. ASSUME NEW j \in 1 .. Len(q), j > i + 1
        PROVE  q[j].op = "SET"
    <3>1. j # 1 /\ j - 1 > i
      BY <2>2
    <3> QED
      BY <1>3, <1>5, <3>1
  <2> QED
    BY <1>5, <2>1, <2>2 DEF InOrder, NewestDel
<1>6. NewestDel(n)'
  BY <1>5 DEF NewestDel
<1>7. NewestReply(n)'
  BY <1>4 DEF InOrder, NewestReply
<1>8. NewestSet(n)'
  <2>1. ASSUME Tail(q) # <<>>
        PROVE  Tail(q)[Len(Tail(q))] = q[Len(q)]
    BY <1>1, <1>2, <2>1
  <2> QED
    BY <1>4, <2>1 DEF InOrder, NewestSet
<1>9. Settled(n)'
  <2>1. ASSUME replies[n] = <<>>, Tail(q) = <<>>
        PROVE  schema[u] = memory[n]
    <3>1. Len(q) = 1
      BY <1>2, <2>1
    <3>2. NoDel(n)
      BY <1>1, <3>1 DEF NoDel
    <3> QED
      BY <1>1, <2>1, <3>1, <3>2 DEF InOrder, NewestSet
  <2> QED
    BY <2>1 DEF Settled
<1> QED
  BY <1>6, <1>7, <1>8, <1>9 DEF InOrder

\* Every step keeps the order, as long as Redis fails no command of the process.
LEMMA FollowsStep == TypeOK /\ Queues /\ Follows /\ [Next]_vars => Follows'
<1> SUFFICES ASSUME TypeOK, Queues, Follows, [Next]_vars,
                    NEW m \in Node, (memory[m] # None)', Whole(m)'
             PROVE  InOrder(m)'
  BY DEF Follows
<1>q. CommandsMatch(m) /\ RepliesMatch(m) /\ DownIsEmpty(m)
  BY DEF Queues
<1>w. ASSUME memory[m] # None, Whole(m)
      PROVE  InOrder(m)
  BY <1>w DEF Follows
<1>1. ASSUME NEW n \in Node, Boot(n)
      PROVE  InOrder(m)'
  <2>1. UNCHANGED <<commands, replies, pc, node, schema>> /\ Whole(m)
    BY <1>1 DEF Boot, Whole
  <2>2. CASE m = n
    <3>1. commands'[m] = <<>> /\ replies'[m] = <<>>
      BY <1>1, <1>q, <2>1, <2>2 DEF Boot, DownIsEmpty
    <3>2. cache' = memory'[m]
      BY <1>1, <2>2 DEF Boot, TypeOK
    <3>3. Len(<<>>) = 0
      OBVIOUS
    <3> QED
      BY <3>1, <3>2, <3>3 DEF InOrder, NewestDel, NewestReply, NewestSet, Settled
  <2>3. CASE m # n
    <3>1. memory'[m] = memory[m] /\ keeper' # m
      BY <1>1, <2>3 DEF Boot, TypeOK
    <3> QED
      BY <1>q, <1>w, <2>1, <3>1, InOrderKeeps
  <2> QED
    BY <2>2, <2>3
<1>2. ASSUME NEW n \in Node, Crash(n)
      PROVE  InOrder(m)'
  <2>1. m # n
    BY <1>2 DEF Crash, TypeOK
  <2>2. /\ memory'[m] = memory[m] /\ commands'[m] = commands[m] /\ replies'[m] = replies[m]
        /\ UNCHANGED <<cache, keeper, schema>>
    BY <1>2, <2>1 DEF Crash, TypeOK
  <2>3. Whole(m)
    BY <1>2 DEF Crash, Whole, TypeOK, InFlight
  <2> QED
    BY <1>q, <1>w, <2>2, <2>3, InOrderKeeps
<1>3. ASSUME NEW n \in Node, RunDel(n) \/ RunSet(n) \/ FailCommand(n)
      PROVE  InOrder(m)'
  <2> DEFINE u == Head(commands[n]).upload
  <2>1. /\ u \in Upload /\ node[u] = n /\ pc[u] \in {"deleting", "setting"}
        /\ commands[n] # <<>>
    BY <1>3, OldestCommand DEF RunDel, RunSet, FailCommand, Queues
  <2>2. UNCHANGED <<memory, schema, node>> /\ commands'[n] = Tail(commands[n])
    BY <1>3 DEF RunDel, RunSet, FailCommand, TypeOK
  <2>3. \A v \in Upload \ {u} : pc'[v] = pc[v]
    BY <1>3 DEF RunDel, RunSet, FailCommand, TypeOK
  <2>4. Whole(m)
    BY <2>1, <2>2, <2>3 DEF Whole
  <2>5. InOrder(m)
    BY <1>w, <2>2, <2>4
  <2>6. CASE m # n
    <3>1. commands'[m] = commands[m] /\ replies'[m] = replies[m]
      BY <1>3, <2>6 DEF RunDel, RunSet, FailCommand, TypeOK
    <3>2. keeper' = m => keeper = m /\ cache' \in {cache, None}
      BY <1>3, <2>6 DEF RunDel, RunSet, FailCommand
    <3> QED
      BY <1>q, <2>2, <2>5, <3>1, <3>2, InOrderKeeps
  <2>7. CASE m = n /\ RunDel(n)
    <3>1. Head(commands[n]).op = "DEL" /\ replies'[n] = Append(replies[n], u)
      BY <2>7 DEF RunDel, TypeOK
    <3> QED
      BY <1>q, <2>1, <2>2, <2>5, <2>7, <3>1, InOrderDelRan
  <2>8. CASE m = n /\ RunSet(n)
    <3>1. Head(commands[n]).op = "SET" /\ cache' = schema[u] /\ replies' = replies
      BY <2>8 DEF RunSet
    <3> QED
      BY <1>q, <2>1, <2>2, <2>5, <2>8, <3>1, InOrderSetRan
  <2>9. CASE m = n /\ FailCommand(n)
    <3>1. pc'[u] = "cut"
      BY <2>1, <2>9 DEF FailCommand, TypeOK
    <3> QED
      BY <2>1, <2>2, <2>9, <3>1 DEF Whole
  <2> QED
    BY <1>3, <2>6, <2>7, <2>8, <2>9
<1>4. ASSUME NEW n \in Node, IssueSet(n)
      PROVE  InOrder(m)'
  <2> DEFINE u == Head(replies[n])
  <2>1. u \in Upload /\ pc[u] = "deleted" /\ replies[n] # <<>>
    BY <1>4, OldestReply DEF IssueSet, Queues
  <2>2. /\ commands'[n] = Append(commands[n], [op |-> "SET", upload |-> u])
        /\ replies'[n] = Tail(replies[n])
        /\ UNCHANGED <<memory, schema, node, cache, keeper>>
    BY <1>4 DEF IssueSet, TypeOK
  <2>3. \A v \in Upload \ {u} : pc'[v] = pc[v]
    BY <1>4 DEF IssueSet, TypeOK
  <2>4. Whole(m)
    BY <2>1, <2>2, <2>3 DEF Whole
  <2>5. InOrder(m)
    BY <1>w, <2>2, <2>4
  <2>6. CASE m # n
    <3>1. commands'[m] = commands[m] /\ replies'[m] = replies[m]
      BY <1>4, <2>6 DEF IssueSet, TypeOK
    <3> QED
      BY <1>q, <2>2, <2>5, <3>1, InOrderKeeps
  <2>7. CASE m = n
    BY <1>q, <2>1, <2>2, <2>5, <2>7, InOrderIssued
  <2> QED
    BY <2>6, <2>7
<1>5. ASSUME NEW u \in Upload, NEW n \in Uploader, NEW s \in Schema, Begin(u, n, s)
      PROVE  InOrder(m)'
  <2>1. /\ pc[u] = "idle"
        /\ \A v \in Upload \ {u} : pc'[v] = pc[v] /\ node'[v] = node[v] /\ schema'[v] = schema[v]
        /\ UNCHANGED <<memory, commands, replies, cache, keeper>>
    BY <1>5 DEF Begin, TypeOK
  <2>2. Whole(m)
    BY <2>1 DEF Whole
  <2> QED
    BY <1>q, <1>w, <2>1, <2>2, InOrderKeeps
<1>6. ASSUME NEW u \in Upload, Save(u) \/ FailSave(u)
      PROVE  InOrder(m)'
  <2>1. /\ pc[u] \in {"begun", "saved"}
        /\ \A v \in Upload \ {u} : pc'[v] = pc[v]
        /\ UNCHANGED <<memory, commands, replies, cache, keeper, node, schema>>
    BY <1>6 DEF Save, FailSave, TypeOK
  <2>2. Whole(m)
    BY <2>1 DEF Whole
  <2> QED
    BY <1>q, <1>w, <2>1, <2>2, InOrderKeeps
<1>7. ASSUME NEW u \in Upload, Activate(u)
      PROVE  InOrder(m)'
  <2>1. PICK n \in Node : pc[u] = "saved" /\ n = node[u] /\ memory[n] # None
    BY <1>7 DEF Activate, Queues, ServedByLive, InFlight
  <2>2. /\ memory'[n] = schema[u]
        /\ commands'[n] = Append(commands[n], [op |-> "DEL", upload |-> u])
        /\ \A v \in Upload \ {u} : pc'[v] = pc[v]
        /\ UNCHANGED <<replies, node, schema, cache, keeper>>
    BY <1>7, <2>1 DEF Activate, TypeOK
  <2>3. CASE m = n
    BY <2>2, <2>3, InOrderActivated
  <2>4. CASE m # n
    <3>1. memory'[m] = memory[m] /\ commands'[m] = commands[m]
      BY <1>7, <2>1, <2>4 DEF Activate, TypeOK
    <3>2. Whole(m)
      BY <2>1, <2>2 DEF Whole
    <3> QED
      BY <1>q, <1>w, <2>2, <3>1, <3>2, InOrderKeeps
  <2> QED
    BY <2>3, <2>4
<1>8. CASE ExpireCache \/ UNCHANGED vars
  <2>1. /\ UNCHANGED <<memory, commands, replies, pc, node, schema, keeper>>
        /\ cache' \in {cache, None}
    BY <1>8 DEF ExpireCache, vars
  <2>2. Whole(m)
    BY <2>1 DEF Whole
  <2> QED
    BY <1>q, <1>w, <2>1, <2>2, InOrderKeeps
<1> QED
  BY <1>1, <1>2, <1>3, <1>4, <1>5, <1>6, <1>7, <1>8 DEF Next

\* While nothing overlaps with the upload that began last, every step of it has
\* left its schema where the code put it.
Serial ==
    latest # None /\ calm =>
        /\ \A u \in Upload : pc[u] \in InFlight => u = latest
        /\ pc[latest] \in {"saved", "deleting", "deleted", "setting", "done"}
              => stored = schema[latest]
        /\ pc[latest] \in {"deleting", "deleted", "setting", "done"}
              => memory[node[latest]] = schema[latest]
        /\ pc[latest] = "done" => cache \in {schema[latest], None}

\* Every step keeps that: only latest itself can take one that writes.
LEMMA SerialStep == TypeOK /\ Queues /\ Serial /\ [Next]_vars => Serial'
<1> SUFFICES ASSUME TypeOK, Queues, Serial, [Next]_vars PROVE Serial'
  OBVIOUS
<1> USE NoneAssumption DEF InFlight
<1>1. ASSUME NEW n \in Node, Boot(n) \/ Crash(n)
      PROVE  Serial'
  BY <1>1 DEF Boot, Crash, Serial
<1>2. ASSUME NEW n \in Node, RunDel(n) \/ RunSet(n) \/ FailCommand(n)
      PROVE  Serial'
  <2> DEFINE u == Head(commands[n]).upload
  <2>1. /\ u \in Upload /\ node[u] = n
        /\ pc[u] = IF Head(commands[n]).op = "DEL" THEN "deleting" ELSE "setting"
    BY <1>2, OldestCommand DEF RunDel, RunSet, FailCommand, Queues
  <2>2. UNCHANGED <<stored, memory, schema, node, latest, calm>>
    BY <1>2 DEF RunDel, RunSet, FailCommand
  <2>3. SUFFICES ASSUME latest # None, calm, latest \in Upload
                 PROVE  Serial'
    BY <2>2 DEF Serial, TypeOK
  <2>4. u = latest
    BY <2>1, <2>3 DEF Serial
  <2>5. \A v \in Upload \ {u} : pc'[v] = pc[v]
    BY <1>2 DEF RunDel, RunSet, FailCommand, TypeOK
  <2>6. \/ pc'[u] = "deleted" /\ pc[u] = "deleting"
        \/ pc'[u] = "done" /\ pc[u] = "setting" /\ cache' = schema[u]
        \/ pc'[u] = "cut"
    BY <1>2, <2>1 DEF RunDel, RunSet, FailCommand, TypeOK
  <2> QED
    BY <2>1, <2>2, <2>3, <2>4, <2>5, <2>6 DEF Serial
<1>3. ASSUME NEW n \in Node, IssueSet(n)
      PROVE  Serial'
  <2> DEFINE u == Head(replies[n])
  <2>1. u \in Upload /\ pc[u] = "deleted"
    BY <1>3, OldestReply DEF IssueSet, Queues
  <2>2. pc'[u] = "setting" /\ \A v \in Upload \ {u} : pc'[v] = pc[v]
    BY <1>3, <2>1 DEF IssueSet, TypeOK
  <2>3. UNCHANGED <<stored, cache, memory, schema, node, latest, calm>>
    BY <1>3 DEF IssueSet
  <2> QED
    BY <2>1, <2>2, <2>3 DEF Serial, TypeOK
<1>4. ASSUME NEW u \in Upload, NEW n \in Uploader, NEW s \in Schema, Begin(u, n, s)
      PROVE  Serial'
  <2>1. /\ latest' = u /\ pc'[u] = "begun" /\ \A v \in Upload \ {u} : pc'[v] = pc[v]
        /\ calm' = (\A v \in Upload : pc[v] \notin InFlight)
    BY <1>4 DEF Begin, TypeOK
  <2> QED
    BY <2>1 DEF Serial
<1>5. ASSUME NEW u \in Upload, Save(u)
      PROVE  Serial'
  <2>1. /\ pc[u] = "begun" /\ pc'[u] = "saved" /\ \A v \in Upload \ {u} : pc'[v] = pc[v]
        /\ stored' = schema[u]
        /\ UNCHANGED <<cache, memory, schema, node, latest, calm>>
    BY <1>5 DEF Save, TypeOK
  <2> QED
    BY <2>1 DEF Serial, TypeOK
<1>6. ASSUME NEW u \in Upload, FailSave(u)
      PROVE  Serial'
  <2>1. /\ pc'[u] = "failed" /\ \A v \in Upload \ {u} : pc'[v] = pc[v]
        /\ UNCHANGED <<stored, cache, memory, schema, node, latest, calm>>
    BY <1>6 DEF FailSave, TypeOK
  <2> QED
    BY <2>1 DEF Serial, TypeOK
<1>7. ASSUME NEW u \in Upload, Activate(u)
      PROVE  Serial'
  <2>1. /\ pc[u] = "saved" /\ pc'[u] = "deleting" /\ \A v \in Upload \ {u} : pc'[v] = pc[v]
        /\ UNCHANGED <<stored, cache, schema, node, latest, calm>>
    BY <1>7 DEF Activate, TypeOK
  <2>2. memory'[node[u]] = schema[u]
    BY <1>7, <2>1 DEF Activate, TypeOK, Queues, ServedByLive
  <2> QED
    BY <2>1, <2>2 DEF Serial, TypeOK
<1>8. CASE ExpireCache \/ UNCHANGED vars
  BY <1>8 DEF ExpireCache, vars, Serial
<1> QED
  BY <1>1, <1>2, <1>3, <1>4, <1>5, <1>6, <1>7, <1>8 DEF Next

-----------------------------------------------------------------------------
(* No upload waits in vain.                                                *)

\* Every upload that waits for Redis has its command or its reply on the way.
NobodyWaitsInVain ==
    \A u \in Upload :
        /\ pc[u] \in {"deleting", "setting"} =>
              \E i \in 1 .. Len(commands[node[u]]) : commands[node[u]][i].upload = u
        /\ pc[u] = "deleted" =>
              \E i \in 1 .. Len(replies[node[u]]) : replies[node[u]][i] = u

\* All but the head of a queue is in its tail.
LEMMA InTail ==
    ASSUME NEW S, NEW q \in Seq(S), q # <<>>, NEW i \in 1 .. Len(q), i # 1
    PROVE  i - 1 \in 1 .. Len(Tail(q)) /\ Tail(q)[i - 1] = q[i]
<1>1. Len(q) \in Nat /\ Len(Tail(q)) = Len(q) - 1
  BY TailAt
<1>2. i - 1 \in 1 .. Len(Tail(q))
  BY <1>1
<1>3. Tail(q)[i - 1] = q[(i - 1) + 1]
  BY <1>2, TailAt
<1> QED
  BY <1>2, <1>3

\* Every step that takes an upload out of a queue lets it go on, and every step
\* that makes it wait puts it into one.
LEMMA WaitStep == TypeOK /\ Queues /\ NobodyWaitsInVain /\ [Next]_vars => NobodyWaitsInVain'
<1> SUFFICES ASSUME TypeOK, Queues, NobodyWaitsInVain, [Next]_vars, NEW u \in Upload
             PROVE  /\ pc'[u] \in {"deleting", "setting"} =>
                          \E i \in 1 .. Len(commands'[node'[u]]) :
                              commands'[node'[u]][i].upload = u
                    /\ pc'[u] = "deleted" =>
                          \E i \in 1 .. Len(replies'[node'[u]]) : replies'[node'[u]][i] = u
  BY DEF NobodyWaitsInVain
<1> DEFINE Fine == /\ pc'[u] \in {"deleting", "setting"} =>
                         \E i \in 1 .. Len(commands'[node'[u]]) :
                             commands'[node'[u]][i].upload = u
                   /\ pc'[u] = "deleted" =>
                         \E i \in 1 .. Len(replies'[node'[u]]) : replies'[node'[u]][i] = u
<1>1. /\ pc[u] \in {"deleting", "setting"} =>
             \E i \in 1 .. Len(commands[node[u]]) : commands[node[u]][i].upload = u
      /\ pc[u] = "deleted" => \E i \in 1 .. Len(replies[node[u]]) : replies[node[u]][i] = u
  BY DEF NobodyWaitsInVain
<1>2. pc[u] \in InFlight => node[u] \in Node
  BY DEF Queues, ServedByLive
<1>3. CASE /\ pc'[u] \notin {"deleting", "setting", "deleted"}
  BY <1>3
<1>4. CASE /\ pc'[u] = pc[u] /\ pc[u] \in {"deleting", "setting", "deleted"}
           /\ node'[u] = node[u]
           /\ commands'[node[u]] = commands[node[u]] /\ replies'[node[u]] = replies[node[u]]
  BY <1>1, <1>4
<1>5. ASSUME NEW n \in Node, Boot(n) \/ Crash(n)
      PROVE  Fine
  <2>1. UNCHANGED node /\ (pc'[u] = pc[u] \/ pc'[u] = "failed")
    BY <1>5 DEF Boot, Crash, TypeOK
  <2>2. CASE Boot(n)
    <3>1. UNCHANGED <<commands, replies, pc>>
      BY <2>2 DEF Boot
    <3> QED
      BY <1>3, <1>4, <2>1, <3>1
  <2>3. CASE Crash(n)
    <3>1. CASE node[u] = n
      <4>1. pc'[u] \notin InFlight
        BY <2>3, <3>1 DEF Crash, TypeOK, InFlight
      <4> QED
        BY <1>3, <4>1 DEF InFlight
    <3>2. CASE node[u] # n
      <4>1. pc'[u] = pc[u]
        BY <2>3, <3>2 DEF Crash, TypeOK
      <4>2. pc[u] \in InFlight =>
              commands'[node[u]] = commands[node[u]] /\ replies'[node[u]] = replies[node[u]]
        BY <1>2, <2>3, <3>2 DEF Crash, TypeOK
      <4> QED
        BY <1>3, <1>4, <2>1, <4>1, <4>2 DEF InFlight
    <3> QED
      BY <3>1, <3>2
  <2> QED
    BY <1>5, <2>2, <2>3
<1>6. ASSUME NEW n \in Node, RunDel(n) \/ RunSet(n) \/ FailCommand(n)
      PROVE  Fine
  <2> DEFINE v == Head(commands[n]).upload
             q == commands[n]
  <2>1. /\ q # <<>> /\ q \in Seq(Command) /\ v \in Upload /\ node[v] = n
        /\ q[1].upload = v
    BY <1>6, OldestCommand, Queued DEF RunDel, RunSet, FailCommand, Queues
  <2>2. /\ commands'[n] = Tail(q) /\ UNCHANGED node
        /\ \A m \in Node \ {n} : commands'[m] = commands[m] /\ replies'[m] = replies[m]
        /\ \E p \in {"deleted", "done", "cut"} : pc' = [pc EXCEPT ![v] = p]
    BY <1>6 DEF RunDel, RunSet, FailCommand, TypeOK
  <2>3. CASE u = v
    <3>1. CASE RunDel(n)
      <4>1. replies'[n] = Append(replies[n], v) /\ replies[n] \in Seq(Upload)
        BY <3>1 DEF RunDel, TypeOK
      <4>2. Len(replies[n]) + 1 \in 1 .. Len(replies'[n]) /\ replies'[n][Len(replies[n]) + 1] = v
        BY <2>1, <4>1, AppendAt
      <4>3. pc'[u] = "deleted" /\ node'[u] = n
        BY <2>1, <2>2, <2>3, <3>1 DEF RunDel, TypeOK
      <4> QED
        BY <2>3, <4>2, <4>3
    <3>2. CASE RunSet(n) \/ FailCommand(n)
      <4>1. pc'[u] \in {"done", "cut"}
        BY <2>1, <2>3, <3>2 DEF RunSet, FailCommand, TypeOK
      <4> QED
        BY <1>3, <4>1
    <3> QED
      BY <1>6, <3>1, <3>2
  <2>4. CASE u # v
    <3>1. pc'[u] = pc[u] /\ node'[u] = node[u]
      BY <2>2, <2>4 DEF TypeOK
    <3>2. CASE node[u] # n
      BY <1>2, <1>3, <1>4, <2>2, <3>1, <3>2 DEF InFlight
    <3>3. CASE node[u] = n /\ pc[u] \in {"deleting", "setting"}
      <4>1. PICK i \in 1 .. Len(q) : q[i].upload = u
        BY <1>1, <3>3
      <4>2. i - 1 \in 1 .. Len(Tail(q)) /\ Tail(q)[i - 1] = q[i]
        BY <2>1, <2>4, <4>1, InTail
      <4>3. commands'[node'[u]] = Tail(q) /\ pc'[u] # "deleted"
        BY <2>2, <3>1, <3>3
      <4>4. \E k \in 1 .. Len(Tail(q)) : Tail(q)[k].upload = u
        BY <4>1, <4>2
      <4> QED
        BY <4>3, <4>4
    <3>4. CASE node[u] = n /\ pc[u] = "deleted"
      <4>1. PICK i \in 1 .. Len(replies[n]) : replies[n][i] = u
        BY <1>1, <3>4
      <4>2. replies'[n] = replies[n] \/ replies'[n] = Append(replies[n], v)
        BY <1>6 DEF RunDel, RunSet, FailCommand, TypeOK
      <4>3. i \in 1 .. Len(replies'[n]) /\ replies'[n][i] = u
        <5>1. CASE replies'[n] = replies[n]
          BY <4>1, <5>1
        <5>2. CASE replies'[n] = Append(replies[n], v)
          <6>1. replies[n] \in Seq(Upload)
            BY DEF TypeOK
          <6> QED
            BY <2>1, <4>1, <5>2, <6>1, AppendAt
        <5> QED
          BY <4>2, <5>1, <5>2
      <4> QED
        BY <3>1, <3>4, <4>3
    <3> QED
      BY <1>3, <3>1, <3>2, <3>3, <3>4
  <2> QED
    BY <2>3, <2>4
<1>7. ASSUME NEW n \in Node, IssueSet(n)
      PROVE  Fine
  <2> DEFINE v == Head(replies[n])
             q == replies[n]
             c == [op |-> "SET", upload |-> v]
  <2>1. /\ q # <<>> /\ q \in Seq(Upload) /\ v \in Upload /\ node[v] = n /\ q[1] = v
    BY <1>7, OldestReply, Queued DEF IssueSet, Queues
  <2>2. /\ replies'[n] = Tail(q) /\ UNCHANGED node
        /\ commands'[n] = Append(commands[n], c)
        /\ \A m \in Node \ {n} : commands'[m] = commands[m] /\ replies'[m] = replies[m]
        /\ pc' = [pc EXCEPT ![v] = "setting"]
    BY <1>7 DEF IssueSet, TypeOK
  <2>3. /\ \A i \in 1 .. Len(commands[n]) : i \in 1 .. Len(commands'[n])
                                            /\ commands'[n][i] = commands[n][i]
        /\ Len(commands[n]) + 1 \in 1 .. Len(commands'[n])
        /\ commands'[n][Len(commands[n]) + 1] = c
    <3>1. commands[n] \in Seq(Command) /\ c \in Command
      BY <2>1, Queued DEF Command
    <3> QED
      BY <2>2, <3>1, AppendAt
  <2>4. CASE u = v
    <3>1. pc'[u] = "setting" /\ node'[u] = n
      BY <2>1, <2>2, <2>4 DEF TypeOK
    <3> QED
      BY <2>3, <2>4, <3>1
  <2>5. CASE u # v
    <3>1. pc'[u] = pc[u] /\ node'[u] = node[u]
      BY <2>2, <2>5 DEF TypeOK
    <3>2. CASE node[u] # n
      BY <1>2, <1>3, <1>4, <2>2, <3>1, <3>2 DEF InFlight
    <3>3. CASE node[u] = n /\ pc[u] \in {"deleting", "setting"}
      BY <1>1, <2>3, <3>1, <3>3
    <3>4. CASE node[u] = n /\ pc[u] = "deleted"
      <4>1. PICK i \in 1 .. Len(q) : q[i] = u
        BY <1>1, <3>4
      <4>2. i - 1 \in 1 .. Len(Tail(q)) /\ Tail(q)[i - 1] = q[i]
        BY <2>1, <2>5, <4>1, InTail
      <4> QED
        BY <2>2, <3>1, <3>4, <4>1, <4>2
    <3> QED
      BY <1>3, <3>1, <3>2, <3>3, <3>4
  <2> QED
    BY <2>4, <2>5
<1>8. ASSUME NEW v \in Upload, NEW n \in Uploader, NEW s \in Schema, Begin(v, n, s)
      PROVE  Fine
  <2>1. /\ UNCHANGED <<commands, replies>>
        /\ u = v => pc'[u] = "begun"
        /\ u # v => pc'[u] = pc[u] /\ node'[u] = node[u]
    BY <1>8 DEF Begin, TypeOK
  <2> QED
    BY <1>3, <1>4, <2>1
<1>9. ASSUME NEW v \in Upload, Save(v) \/ FailSave(v)
      PROVE  Fine
  <2>1. /\ UNCHANGED <<commands, replies, node>>
        /\ u = v => pc'[u] \in {"saved", "failed"}
        /\ u # v => pc'[u] = pc[u]
    BY <1>9 DEF Save, FailSave, TypeOK
  <2> QED
    BY <1>3, <1>4, <2>1
<1>10. ASSUME NEW v \in Upload, Activate(v)
       PROVE  Fine
  <2> DEFINE n == node[v]
             c == [op |-> "DEL", upload |-> v]
  <2>1. n \in Node
    BY <1>10 DEF Activate, Queues, ServedByLive, InFlight
  <2>2. /\ commands'[n] = Append(commands[n], c)
        /\ \A m \in Node \ {n} : commands'[m] = commands[m]
        /\ pc' = [pc EXCEPT ![v] = "deleting"]
        /\ UNCHANGED <<replies, node>>
    BY <1>10, <2>1 DEF Activate, TypeOK
  <2>3. /\ \A i \in 1 .. Len(commands[n]) : i \in 1 .. Len(commands'[n])
                                            /\ commands'[n][i] = commands[n][i]
        /\ Len(commands[n]) + 1 \in 1 .. Len(commands'[n])
        /\ commands'[n][Len(commands[n]) + 1] = c
    <3>1. commands[n] \in Seq(Command) /\ c \in Command
      BY <2>1, Queued DEF Command
    <3> QED
      BY <2>2, <3>1, AppendAt
  <2>4. CASE u = v
    <3>1. pc'[u] = "deleting" /\ node'[u] = n
      BY <2>2, <2>4 DEF TypeOK
    <3> QED
      BY <2>3, <2>4, <3>1
  <2>5. CASE u # v
    <3>1. pc'[u] = pc[u] /\ node'[u] = node[u]
      BY <2>2, <2>5 DEF TypeOK
    <3>2. CASE node[u] = n /\ pc[u] \in {"deleting", "setting"}
      BY <1>1, <2>3, <3>1, <3>2
    <3>3. CASE node[u] # n \/ pc[u] = "deleted"
      BY <1>1, <1>2, <2>2, <3>1, <3>3 DEF InFlight
    <3> QED
      BY <1>3, <3>1, <3>2, <3>3
  <2> QED
    BY <2>4, <2>5
<1>11. CASE ExpireCache \/ UNCHANGED vars
  <2>1. UNCHANGED <<pc, node, commands, replies>>
    BY <1>11 DEF ExpireCache, vars
  <2> QED
    BY <1>1, <2>1
<1> QED
  BY <1>5, <1>6, <1>7, <1>8, <1>9, <1>10, <1>11 DEF Next

-----------------------------------------------------------------------------
\* In the beginning every process is down and nothing is on its way.
LEMMA QueuesInit == Init => Queues /\ Follows /\ Serial
<1> SUFFICES ASSUME Init PROVE Queues /\ Follows /\ Serial
  OBVIOUS
<1>1. \A n \in Node : commands[n] = <<>> /\ replies[n] = <<>> /\ memory[n] = None
  BY DEF Init
<1>2. ASSUME NEW n \in Node
      PROVE  CommandsMatch(n) /\ RepliesMatch(n) /\ DownIsEmpty(n)
  <2>1. 1 .. Len(commands[n]) = {} /\ 1 .. Len(replies[n]) = {}
    BY <1>1
  <2> QED
    BY <1>1, <2>1 DEF CommandsMatch, RepliesMatch, DownIsEmpty
<1>3. ServedByLive /\ Serial
  BY DEF Init, ServedByLive, InFlight, Serial
<1>4. Follows
  BY <1>1 DEF Follows
<1> QED
  BY <1>2, <1>3, <1>4 DEF Queues

\* When no upload is under way nothing is on its way to or from Redis.
LEMMA QuietIsEmpty ==
    ASSUME TypeOK, Queues, Quiet, NEW n \in Node
    PROVE  commands[n] = <<>> /\ replies[n] = <<>>
<1>1. ASSUME commands[n] # <<>>
      PROVE  FALSE
  BY <1>1, OldestCommand DEF Queues, Quiet, InFlight
<1>2. ASSUME replies[n] # <<>>
      PROVE  FALSE
  BY <1>2, OldestReply DEF Queues, Quiet, InFlight
<1> QED
  BY <1>1, <1>2

\* Every variable keeps its type.
THEOREM TypeCorrect == Spec => []TypeOK
<1>1. Init => TypeOK
  BY NothingQueued DEF Init, TypeOK, Step
<1> QED
  BY <1>1, TypeStep, PTL DEF Spec

\* No process serves an uploaded schema whose upsert has not run: a crash
\* cannot lose a schema that was in use before it was stored.
THEOREM PersistedFirst == Spec => []PersistedBeforeActive
<1>1. Init => GivenOfStep /\ PersistedBeforeActive
  BY DEF Init, GivenOfStep, PersistedBeforeActive
<1> QED
  BY <1>1, PersistedStep, TypeCorrect, PTL DEF Spec

\* Once no upload is under way the key holds the schema of the process that
\* wrote it last, or nothing, unless Redis failed an upload of that process:
\* however its uploads overlapped, the order in which they replaced its registry
\* is the order of their SETs.
THEOREM CacheFollows == Spec => []CacheFollowsMemory
<1>1. TypeOK /\ Queues /\ Follows => CacheFollowsMemory
  <2> SUFFICES ASSUME TypeOK, Queues, Follows, Quiet, keeper # None, Whole(keeper)
               PROVE  memory[keeper] = None \/ cache \in {memory[keeper], None}
    BY DEF CacheFollowsMemory, Whole
  <2>1. keeper \in Node
    BY DEF TypeOK
  <2>2. commands[keeper] = <<>> /\ replies[keeper] = <<>>
    BY <2>1, QuietIsEmpty
  <2> QED
    BY <2>1, <2>2 DEF Follows, InOrder, Settled
<1> QED
  BY <1>1, QueuesInit, QueuesStep, FollowsStep, TypeCorrect, PTL DEF Spec

\* An upload that overlapped with no other and is answered is what the row, the
\* registry of its process and the cache say, until a process boots or dies.
THEOREM SerialTakesEffect == Spec => []SerialUploadTakesEffect
<1>1. Serial => SerialUploadTakesEffect
  BY DEF Serial, SerialUploadTakesEffect
<1> QED
  BY <1>1, QueuesInit, QueuesStep, SerialStep, TypeCorrect, PTL DEF Spec

\* However uploads overlap, fail and die, each that waits for Redis has its
\* command or its reply on the way: none is forgotten in a queue.
THEOREM WaitersAreServed == Spec => []NobodyWaitsInVain
<1>1. Init => NobodyWaitsInVain
  BY DEF Init, NobodyWaitsInVain
<1> QED
  BY <1>1, QueuesInit, QueuesStep, WaitStep, TypeCorrect, PTL DEF Spec

=============================================================================
