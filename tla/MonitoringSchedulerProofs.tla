---------------------- MODULE MonitoringSchedulerProofs ----------------------
(***************************************************************************)
(* What MonitoringScheduler keeps for any number of runs: its types, that  *)
(* an idle service does not report a run, that the error it shows is the   *)
(* one of the result it shows, that Redis follows that result, and that no *)
(* run waits for Redis in vain.                                            *)
(***************************************************************************)
EXTENDS MonitoringScheduler, SequenceTheorems, TLAPS

\* Taking the oldest SET off the queue leaves a queue of SETs.
LEMMA OldestSet ==
    ASSUME sets \in Seq(Result), sets # <<>>
    PROVE  /\ Head(sets) \in Result
           /\ Tail(sets) \in Seq(Result)
OBVIOUS

\* A service that starts or dies has no SET on its way.
LEMMA NoSets == <<>> \in Seq(Result)
OBVIOUS

\* Every step keeps the types.
LEMMA TypeStep == TypeOK /\ [Next]_vars => TypeOK'
<1> SUFFICES ASSUME TypeOK, [Next]_vars PROVE TypeOK'
  OBVIOUS
<1> USE DEF TypeOK, Goto, Active, Ended
<1>1. CASE Ready \/ Stop \/ Crash
  BY <1>1, EnabledAssumption, NoSets DEF Ready, Stop, Crash
<1>2. ASSUME NEW r \in Run, \E o \in {"tick", "http"} : Begin(r, o)
      PROVE  TypeOK'
  BY <1>2 DEF Begin
<1>3. ASSUME NEW r \in Run, Advance(r) \/ End(r)
      PROVE  TypeOK'
  BY <1>3 DEF Advance, End
<1>4. ASSUME NEW r \in Run, Succeed(r) \/ Throw(r)
      PROVE  TypeOK'
  <2>1. CASE Succeed(r)
    BY <2>1 DEF Succeed, Store, Result
  <2>2. CASE Throw(r)
    BY <2>2 DEF Throw, Store, Result
  <2> QED
    BY <1>4, <2>1, <2>2
<1>5. CASE RunSet
  BY <1>5, OldestSet DEF RunSet, Result
<1>6. CASE FailSet
  <2>1. Head(sets) \in Result /\ Tail(sets) \in Seq(Result) /\ Head(sets).run \in Run
    BY <1>6, OldestSet DEF FailSet, Result
  <2>2. [run |-> Head(sets).run, status |-> "error"] \in Result
    BY <2>1 DEF Result
  <2>3. sets' \in Seq(Result) /\ key' \in Result \cup {None}
    BY <1>6, <2>1, <2>2 DEF FailSet
  <2> QED
    BY <1>6, <2>1, <2>2, <2>3 DEF FailSet, Store
<1>7. CASE FailErrorSet
  <2>1. Head(sets) \in Result /\ Tail(sets) \in Seq(Result) /\ Head(sets).run \in Run
    BY <1>7, OldestSet DEF FailErrorSet, Result
  <2>2. sets' \in Seq(Result) /\ key' \in Result \cup {None}
    BY <1>7, <2>1, NoSets DEF FailErrorSet
  <2>3. pc' \in [Run -> {"idle"} \cup Active \cup Ended]
    BY <1>7, <2>1 DEF FailErrorSet
  <2> QED
    BY <1>7, <2>2, <2>3 DEF FailErrorSet
<1>8. CASE UNCHANGED vars
  BY <1>8 DEF vars
<1> QED
  BY <1>1, <1>2, <1>3, <1>4, <1>5, <1>6, <1>7, <1>8 DEF Next, Continue, Redis

\* Whatever a run still at work does next, either some run is still at work
\* or running has been cleared.
LEMMA IdleStep == TypeOK /\ IdleIsNotRunning /\ [Next]_vars => IdleIsNotRunning'
<1> SUFFICES ASSUME TypeOK, IdleIsNotRunning, [Next]_vars PROVE IdleIsNotRunning'
  OBVIOUS
<1> USE DEF TypeOK, Goto, Active, IdleIsNotRunning
<1>1. CASE Ready \/ Stop \/ Crash \/ FailErrorSet
  BY <1>1 DEF Ready, Stop, Crash, FailErrorSet
<1>2. ASSUME NEW r \in Run, Continue(r) \/ \E o \in {"tick", "http"} : Begin(r, o)
      PROVE  IdleIsNotRunning'
  BY <1>2 DEF Continue, Begin, Advance, Succeed, Throw, Store, End
<1>3. CASE RunSet \/ FailSet
  <2>1. Head(sets).run \in Run
    BY <1>3, OldestSet DEF RunSet, FailSet, Result
  <2>2. pc'[Head(sets).run] \in {"pushing", "storingError"}
    BY <1>3, <2>1 DEF RunSet, FailSet, Store
  <2> QED
    BY <2>1, <2>2
<1>4. CASE UNCHANGED vars
  BY <1>4 DEF vars
<1> QED
  BY <1>1, <1>2, <1>3, <1>4 DEF Next, Redis

\* The result and its error are only ever written together.
LEMMA ErrorStep == TypeOK /\ ErrorOfResult /\ [Next]_vars => ErrorOfResult'
<1> SUFFICES ASSUME TypeOK, ErrorOfResult, [Next]_vars PROVE ErrorOfResult'
  OBVIOUS
<1>1. ASSUME NEW r \in Run, NEW status \in {"success", "error"}, Store(r, status)
      PROVE  ErrorOfResult'
  <2>1. lastResult' # None
    BY <1>1, NoneAssumption DEF Store, Result
  <2> QED
    BY <1>1, <2>1 DEF Store, ErrorOfResult
<1>2. CASE Ready
  BY <1>2 DEF Ready, ErrorOfResult
<1>3. ASSUME NEW r \in Run, Succeed(r) \/ Throw(r)
      PROVE  ErrorOfResult'
  BY <1>1, <1>3 DEF Succeed, Throw
<1>4. CASE FailSet
  <2>1. Head(sets).run \in Run
    BY <1>4, OldestSet DEF FailSet, Result, TypeOK
  <2> QED
    BY <1>1, <1>4, <2>1 DEF FailSet
<1>5. CASE UNCHANGED <<lastResult, lastError>>
  BY <1>5 DEF ErrorOfResult
<1> QED
  BY <1>2, <1>3, <1>4, <1>5 DEF Next, Continue, Redis, vars, Stop, Crash, RunSet,
     FailErrorSet, Begin, Advance, End

\* The newest SET is still the newest when the oldest of several has run, and
\* a queue of one SET is empty once it has run.
LEMMA NewestSet ==
    ASSUME sets \in Seq(Result), sets # <<>>
    PROVE  IF Len(sets) = 1
             THEN Tail(sets) = <<>> /\ Head(sets) = sets[Len(sets)]
             ELSE Tail(sets) # <<>> /\ Tail(sets)[Len(Tail(sets))] = sets[Len(sets)]
<1>1. /\ Len(sets) \in Nat \ {0}
     /\ Tail(sets) \in Seq(Result)
     /\ Len(Tail(sets)) = Len(sets) - 1
  BY EmptySeq, HeadTailProperties
<1>2. CASE Len(sets) = 1
  <2>1. Len(Tail(sets)) = 0
    BY <1>1, <1>2
  <2>2. Tail(sets) = <<>>
    BY <1>1, <2>1, EmptySeq, Zenon
  <2>3. Head(sets) = sets[1]
    OBVIOUS
  <2> QED
    BY <1>2, <2>2, <2>3
<1>3. CASE Len(sets) # 1
  <2>1. Tail(sets) # <<>>
    BY <1>1, <1>3, EmptySeq, SMTT(30)
  <2>2. Tail(sets)[Len(sets) - 1] = sets[Len(sets)]
    BY <1>1, <1>3, HeadTailProperties
  <2> QED
    BY <1>1, <1>3, <2>1, <2>2
<1> QED
  BY <1>2, <1>3

\* A SET that is issued becomes the newest.
LEMMA IssuedSet ==
    ASSUME NEW q \in Seq(Result), NEW x \in Result
    PROVE  Append(q, x) # <<>> /\ Append(q, x)[Len(Append(q, x))] = x
OBVIOUS

\* While the process runs, the result it shows is the newest SET on its way
\* or, when none is, what the key holds; unless the run could not store it.
LastSet ==
    alive /\ lastResult # None =>
        IF sets = <<>> THEN key = lastResult \/ pc[lastResult.run] = "thrown"
                       ELSE sets[Len(sets)] = lastResult

\* Every step keeps that: the SETs run in the order they were issued, and each
\* new result is issued together with its SET.
LEMMA LastSetStep == TypeOK /\ LastSet /\ [Next]_vars => LastSet'
<1> SUFFICES ASSUME TypeOK, LastSet, [Next]_vars PROVE LastSet'
  OBVIOUS
<1> USE DEF TypeOK, Goto
<1>1. CASE Ready \/ Crash
  BY <1>1 DEF Ready, Crash, LastSet
<1>2. CASE Stop \/ UNCHANGED vars
  BY <1>2 DEF Stop, LastSet, vars
<1>3. ASSUME NEW r \in Run, \/ Advance(r) \/ End(r)
                           \/ \E o \in {"tick", "http"} : Begin(r, o)
      PROVE  LastSet'
  <2>1. UNCHANGED <<alive, lastResult, sets, key>> /\ pc[r] # "thrown"
    BY <1>3 DEF Advance, End, Begin
  <2>2. \A q \in Run : pc[q] = "thrown" => pc'[q] = "thrown"
    BY <1>3, <2>1 DEF Advance, End, Begin
  <2>3. lastResult # None => lastResult.run \in Run
    BY DEF Result
  <2> QED
    BY <2>1, <2>2, <2>3 DEF LastSet
<1>4. ASSUME NEW r \in Run, Succeed(r) \/ Throw(r)
      PROVE  LastSet'
  <2>1. PICK x \in Result : lastResult' = x /\ sets' = Append(sets, x)
    BY <1>4 DEF Succeed, Throw, Store, Result
  <2> QED
    BY <2>1, IssuedSet DEF LastSet
<1>5. CASE RunSet
  <2>1. sets # <<>> /\ sets' = Tail(sets) /\ key' = Head(sets) /\ UNCHANGED <<alive, lastResult>>
    BY <1>5 DEF RunSet
  <2> QED
    BY <2>1, NewestSet DEF LastSet
<1>6. CASE FailSet
  <2>1. Head(sets) \in Result /\ Tail(sets) \in Seq(Result)
    BY <1>6, OldestSet DEF FailSet
  <2>2. PICK x \in Result : lastResult' = x /\ sets' = Append(Tail(sets), x)
    BY <1>6, <2>1 DEF FailSet, Store, Result
  <2> QED
    BY <2>1, <2>2, IssuedSet DEF LastSet
<1>7. CASE FailErrorSet
  <2> DEFINE r == Head(sets).run
  <2>1. sets # <<>> /\ r \in Run /\ UNCHANGED lastResult
    BY <1>7, OldestSet DEF FailErrorSet, Result
  <2>2. CASE origin[r] = "tick"
    BY <1>7, <2>2 DEF FailErrorSet, LastSet
  <2>3. CASE origin[r] # "tick"
    <3>1. sets' = Tail(sets) /\ pc' = [pc EXCEPT ![r] = "thrown"] /\ UNCHANGED alive
      BY <1>7, <2>3 DEF FailErrorSet
    <3>2. pc'[r] = "thrown"
      BY <2>1, <3>1
    <3> QED
      BY <2>1, <3>1, <3>2, NewestSet DEF LastSet
  <2> QED
    BY <2>2, <2>3
<1> QED
  BY <1>1, <1>2, <1>3, <1>4, <1>5, <1>6, <1>7 DEF Next, Continue, Redis

-----------------------------------------------------------------------------
(* No run waits in vain.                                                   *)

\* What a run waits for while its SET is on the way.
Awaited(x) == IF x.status = "success" THEN "storing" ELSE "storingError"
Waits == {"storing", "storingError"}

\* A queue q and the steps f of the runs agree: the queue holds a run at most
\* once, with the SET it waits for, and every run that waits is in it.
Match(q, f) ==
    /\ \A i \in 1 .. Len(q) : f[q[i].run] = Awaited(q[i])
    /\ \A i, j \in 1 .. Len(q) : q[i].run = q[j].run => i = j
    /\ \A r \in Run : f[r] \in Waits => \E i \in 1 .. Len(q) : q[i].run = r

\* What a queue of SETs holds: runs, each with something to wait for.
LEMMA Elements ==
    ASSUME NEW q \in Seq(Result), NEW i \in 1 .. Len(q)
    PROVE  q[i] \in Result /\ q[i].run \in Run /\ Awaited(q[i]) \in Waits
<1>1. q[i] \in Result
  BY LenProperties
<1> QED
  BY <1>1 DEF Result, Awaited, Waits

\* When the oldest SET has run, its run no longer waits for one.
LEMMA Leaves ==
    ASSUME NEW q \in Seq(Result), q # <<>>, NEW S, NEW f \in [Run -> S], Match(q, f),
           NEW s, s \notin Waits
    PROVE  Match(Tail(q), [f EXCEPT ![Head(q).run] = s])
<1> DEFINE r == Head(q).run
           g == [f EXCEPT ![r] = s]
<1>1. /\ Len(q) \in Nat \ {0} /\ Head(q) = q[1] /\ Len(Tail(q)) = Len(q) - 1
      /\ \A i \in 1 .. Len(Tail(q)) : Tail(q)[i] = q[i + 1]
  BY EmptySeq, HeadTailProperties
<1>2. \A i \in 1 .. Len(q) : q[i] \in Result /\ q[i].run \in Run
  BY Elements
<1>3. 1 \in 1 .. Len(q) /\ r = q[1].run /\ r \in Run
  BY <1>1, <1>2
<1>4. \A i \in 1 .. Len(Tail(q)) :
         /\ i + 1 \in 1 .. Len(q) /\ i + 1 # 1
         /\ Tail(q)[i] = q[i + 1]
         /\ q[i + 1].run \in Run \ {r}
  <2> SUFFICES ASSUME NEW i \in 1 .. Len(Tail(q))
               PROVE  /\ i + 1 \in 1 .. Len(q) /\ i + 1 # 1
                      /\ Tail(q)[i] = q[i + 1]
                      /\ q[i + 1].run \in Run \ {r}
    OBVIOUS
  <2>1. i + 1 \in 1 .. Len(q) /\ i + 1 # 1 /\ Tail(q)[i] = q[i + 1]
    BY <1>1
  <2>2. q[i + 1].run # r
    BY <1>3, <2>1 DEF Match
  <2> QED
    BY <1>2, <2>1, <2>2
<1>5. \A t \in Run : g[t] = IF t = r THEN s ELSE f[t]
  OBVIOUS
<1>6. \A i \in 1 .. Len(Tail(q)) : g[Tail(q)[i].run] = Awaited(Tail(q)[i])
  BY <1>4, <1>5 DEF Match
<1>7. ASSUME NEW i \in 1 .. Len(Tail(q)), NEW j \in 1 .. Len(Tail(q)),
             Tail(q)[i].run = Tail(q)[j].run
      PROVE  i = j
  <2>1. i + 1 = j + 1
    BY <1>4, <1>7 DEF Match
  <2> QED
    BY <2>1
<1>8. ASSUME NEW t \in Run, g[t] \in Waits
      PROVE  \E i \in 1 .. Len(Tail(q)) : Tail(q)[i].run = t
  <2>1. t # r /\ f[t] \in Waits
    BY <1>5, <1>8
  <2>2. PICK i \in 1 .. Len(q) : q[i].run = t
    BY <2>1 DEF Match
  <2>3. i # 1
    BY <1>3, <2>1, <2>2
  <2>4. i - 1 \in 1 .. Len(Tail(q)) /\ (i - 1) + 1 = i
    BY <1>1, <2>3
  <2>5. Tail(q)[i - 1] = q[i]
    BY <1>1, <2>4
  <2> QED
    BY <2>2, <2>4, <2>5
<1> HIDE DEF g
<1>9. Match(Tail(q), g)
  BY <1>6, <1>7, <1>8 DEF Match
<1> QED
  BY <1>9 DEF g

\* A run that did not wait may issue a SET and wait for it.
LEMMA Joins ==
    ASSUME NEW q \in Seq(Result), NEW S, NEW f \in [Run -> S], Match(q, f),
           NEW x \in Result, f[x.run] \notin Waits
    PROVE  Match(Append(q, x), [f EXCEPT ![x.run] = Awaited(x)])
<1> DEFINE r == x.run
           g == [f EXCEPT ![r] = Awaited(x)]
           t == Append(q, x)
           k == Len(q) + 1
<1>1. /\ Len(q) \in Nat /\ Len(t) = k /\ t[k] = x
      /\ \A i \in 1 .. Len(q) : t[i] = q[i]
      /\ \A i \in 1 .. Len(t) : i = k \/ i \in 1 .. Len(q)
      /\ k \in 1 .. Len(t) /\ \A i \in 1 .. Len(q) : i \in 1 .. Len(t)
  BY AppendProperties, LenProperties
<1>2. r \in Run /\ Awaited(x) \in Waits
  BY DEF Result, Awaited, Waits
<1>4. \A i \in 1 .. Len(q) : q[i].run \in Run /\ Awaited(q[i]) \in Waits
  BY Elements
<1>5. \A i \in 1 .. Len(q) : q[i].run \in Run \ {r}
  BY <1>4 DEF Match
<1>6. g[r] = Awaited(x) /\ \A u \in Run \ {r} : g[u] = f[u]
  BY <1>2
<1> HIDE DEF t, g
<1>7. \A i \in 1 .. Len(t) : g[t[i].run] = Awaited(t[i])
  BY <1>1, <1>5, <1>6 DEF Match
<1>8. ASSUME NEW i \in 1 .. Len(t), NEW j \in 1 .. Len(t), t[i].run = t[j].run
      PROVE  i = j
  BY <1>1, <1>5, <1>8 DEF Match
<1>9. ASSUME NEW u \in Run, g[u] \in Waits
      PROVE  \E i \in 1 .. Len(t) : t[i].run = u
  <2>1. CASE u = r
    BY <1>1, <2>1
  <2>2. CASE u # r
    <3>1. PICK i \in 1 .. Len(q) : q[i].run = u
      BY <1>6, <1>9, <2>2 DEF Match
    <3> QED
      BY <1>1, <3>1
  <2> QED
    BY <2>1, <2>2
<1>10. Match(t, g)
  BY <1>7, <1>8, <1>9 DEF Match
<1> QED
  BY <1>10 DEF t, g

\* A service that is down has no run under way, and nothing on its way to Redis.
Waiting == Match(sets, pc) /\ (~alive => sets = <<>> /\ \A r \in Run : pc[r] \notin Active)

\* Every step keeps the queue and the runs in agreement.
LEMMA WaitingStep == TypeOK /\ Waiting /\ [Next]_vars => Waiting'
<1> SUFFICES ASSUME TypeOK, Waiting, [Next]_vars PROVE Waiting'
  OBVIOUS
<1> DEFINE S == {"idle"} \cup Active \cup Ended
<1>1. pc \in [Run -> S] /\ sets \in Seq(Result)
  BY DEF TypeOK
<1>2. CASE Ready \/ Stop \/ UNCHANGED vars
  <2>1. UNCHANGED <<sets, pc>> /\ (alive' \/ alive' = alive)
    BY <1>2 DEF Ready, Stop, vars
  <2> QED
    BY <2>1 DEF Waiting
<1>3. ASSUME sets' = <<>>, \A r \in Run : pc'[r] \notin Active
      PROVE  Waiting'
  <2>1. 1 .. Len(sets') = {}
    BY <1>3
  <2> QED
    BY <1>3, <2>1 DEF Waiting, Match, Waits, Active
<1>4. CASE Crash
  <2>1. sets' = <<>> /\ \A r \in Run : pc'[r] \notin Active
    BY <1>4 DEF Crash, Active
  <2> QED
    BY <1>3, <2>1
<1>5. ASSUME NEW r \in Run, NEW s \in S \ Waits, UNCHANGED <<alive, sets>>, alive,
             pc[r] \notin Waits, pc' = [pc EXCEPT ![r] = s]
      PROVE  Waiting'
  <2>1. \A i \in 1 .. Len(sets) : sets[i].run \in Run /\ Awaited(sets[i]) \in Waits
    BY <1>1, Elements
  <2>2. \A i \in 1 .. Len(sets) : sets[i].run \in Run \ {r}
    BY <1>5, <2>1 DEF Waiting, Match
  <2>3. \A u \in Run \ {r} : pc'[u] = pc[u]
    BY <1>1, <1>5
  <2>4. pc'[r] \notin Waits
    BY <1>1, <1>5
  <2> QED
    BY <1>5, <2>2, <2>3, <2>4 DEF Waiting, Match
<1>6. ASSUME NEW r \in Run, \/ Advance(r) \/ End(r)
                            \/ \E o \in {"tick", "http"} : Begin(r, o)
      PROVE  Waiting'
  <2>1. pc[r] \notin Waits /\ UNCHANGED <<alive, sets>>
    BY <1>6 DEF Advance, End, Begin, Waits
  <2>2. alive
    BY <1>6 DEF Advance, End, Begin, Waiting, Active
  <2>3. \E s \in {"reading", "building", "invoking", "ended"} : pc' = [pc EXCEPT ![r] = s]
    BY <1>6 DEF Advance, End, Begin, Goto
  <2>4. {"reading", "building", "invoking", "ended"} \subseteq S \ Waits
    BY DEF Active, Ended, Waits
  <2> QED
    BY <1>5, <2>1, <2>2, <2>3, <2>4
<1>7. ASSUME NEW r \in Run, Succeed(r) \/ Throw(r)
      PROVE  Waiting'
  <2>1. PICK status \in {"success", "error"} :
           /\ sets' = Append(sets, [run |-> r, status |-> status])
           /\ pc' = [pc EXCEPT ![r] = IF status = "error" THEN "storingError" ELSE "storing"]
    BY <1>7 DEF Succeed, Throw, Store, Goto
  <2> DEFINE x == [run |-> r, status |-> status]
  <2>2. x \in Result /\ x.run = r
    BY DEF Result
  <2>3. pc[r] \notin Waits /\ UNCHANGED alive /\ alive
    BY <1>7 DEF Succeed, Throw, Waits, Waiting, Active
  <2>4. pc' = [pc EXCEPT ![x.run] = Awaited(x)]
    BY <2>1 DEF Awaited
  <2> HIDE DEF x
  <2>5. Match(Append(sets, x), [pc EXCEPT ![x.run] = Awaited(x)])
    BY <1>1, <2>2, <2>3, Joins DEF Waiting
  <2> QED
    BY <2>1, <2>3, <2>4, <2>5 DEF Waiting, x
<1>8. ASSUME NEW s, s \notin Waits, sets # <<>>, sets' = Tail(sets), UNCHANGED alive,
             pc' = [pc EXCEPT ![Head(sets).run] = s]
      PROVE  Waiting'
  <2>1. Match(sets', pc')
    BY <1>1, <1>8, Leaves DEF Waiting
  <2>2. alive
    BY <1>8 DEF Waiting
  <2> QED
    BY <1>8, <2>1, <2>2 DEF Waiting
<1>9. CASE RunSet
  <2>1. /\ sets # <<>> /\ sets' = Tail(sets) /\ UNCHANGED alive
        /\ pc' = [pc EXCEPT ![Head(sets).run] = "pushing"] /\ "pushing" \notin Waits
    BY <1>9 DEF RunSet, Goto, Waits
  <2> QED
    BY <1>8, <2>1
<1>10. CASE FailSet
  <2> DEFINE r == Head(sets).run
             x == [run |-> r, status |-> "error"]
             f == [pc EXCEPT ![r] = "pushing"]
  <2>1. /\ sets # <<>> /\ sets' = Append(Tail(sets), x)
        /\ pc' = [pc EXCEPT ![r] = "storingError"] /\ UNCHANGED alive
    BY <1>10 DEF FailSet, Store, Goto
  <2>2. r \in Run /\ Tail(sets) \in Seq(Result)
    BY <1>1, <2>1, OldestSet DEF Result
  <2>3. f \in [Run -> S] /\ f[r] = "pushing" /\ pc' = [f EXCEPT ![r] = "storingError"]
    BY <1>1, <2>1, <2>2 DEF Active
  <2>4. Match(Tail(sets), f)
    <3>1. "pushing" \notin Waits
      BY DEF Waits
    <3> QED
      BY <1>1, <2>1, <3>1, Leaves DEF Waiting
  <2>5. x \in Result /\ x.run = r /\ Awaited(x) = "storingError"
    BY <2>2 DEF Result, Awaited
  <2> HIDE DEF f, x
  <2>6. f[x.run] \notin Waits
    BY <2>3, <2>5 DEF Waits
  <2>7. Match(Append(Tail(sets), x), [f EXCEPT ![x.run] = Awaited(x)])
    BY <2>2, <2>3, <2>4, <2>5, <2>6, Joins
  <2>8. Match(sets', pc') /\ alive
    BY <2>1, <2>3, <2>5, <2>7 DEF Waiting
  <2> QED
    BY <2>1, <2>8 DEF Waiting
<1>11. CASE FailErrorSet
  <2> DEFINE r == Head(sets).run
  <2>1. sets # <<>> /\ r \in Run
    BY <1>1, <1>11, OldestSet DEF FailErrorSet, Result
  <2>2. CASE origin[r] = "tick"
    <3>1. sets' = <<>> /\ \A q \in Run : pc'[q] \notin Active
      BY <1>11, <2>2 DEF FailErrorSet, Active
    <3> QED
      BY <1>3, <3>1
  <2>3. CASE origin[r] # "tick"
    <3>1. /\ sets' = Tail(sets) /\ UNCHANGED alive
          /\ pc' = [pc EXCEPT ![r] = "thrown"] /\ "thrown" \notin Waits
      BY <1>11, <2>3 DEF FailErrorSet, Goto, Waits
    <3> QED
      BY <1>8, <2>1, <3>1
  <2> QED
    BY <2>2, <2>3
<1> QED
  BY <1>2, <1>4, <1>6, <1>7, <1>9, <1>10, <1>11 DEF Next, Continue, Redis

-----------------------------------------------------------------------------
\* Every variable keeps its type, for any number of overlapping runs.
THEOREM TypeCorrect == Spec => []TypeOK
<1>1. Init => TypeOK
  BY NoSets DEF Init, TypeOK
<1> QED
  BY <1>1, TypeStep, PTL DEF Spec

\* A service with no run under way does not report one, whatever failed or
\* overlapped before.
THEOREM IdleIsReported == Spec => []IdleIsNotRunning
<1>1. Init => IdleIsNotRunning
  BY DEF Init, IdleIsNotRunning
<1> QED
  BY <1>1, IdleStep, TypeCorrect, PTL DEF Spec

\* The error the status shows belongs to the result it shows.
THEOREM ErrorBelongs == Spec => []ErrorOfResult
<1>1. Init => ErrorOfResult
  BY DEF Init, ErrorOfResult
<1> QED
  BY <1>1, ErrorStep, TypeCorrect, PTL DEF Spec

\* Once the issued SETs have run, Redis and the status agree on the last
\* result, in whatever order overlapping runs ended.
THEOREM KeyFollows == Spec => []KeyFollowsLastResult
<1>1. Init => LastSet
  BY DEF Init, LastSet
<1>2. LastSet => KeyFollowsLastResult
  BY DEF LastSet, KeyFollowsLastResult
<1> QED
  BY <1>1, <1>2, LastSetStep, TypeCorrect, PTL DEF Spec

\* However runs overlap, fail and die, each that waits for Redis has the SET it
\* waits for on the way, exactly once, and a service that is down waits for none.
THEOREM WaitersAreServed == Spec => []Waiting
<1>1. Init => Waiting
  <2> SUFFICES ASSUME Init PROVE Waiting
    OBVIOUS
  <2>1. sets = <<>> /\ 1 .. Len(sets) = {} /\ \A r \in Run : pc[r] = "idle"
    BY DEF Init
  <2> QED
    BY <2>1 DEF Waiting, Match, Waits, Active
<1> QED
  BY <1>1, WaitingStep, TypeCorrect, PTL DEF Spec

=============================================================================
