--------------------------- MODULE BulkImport_proofs ---------------------------
(***************************************************************************)
(* Imports are written whole, in the order of their stamps and by one      *)
(* worker at a time, for every number of tasks, points and workers, every  *)
(* limit, and however messages, keys, workers and commands to redis fail   *)
(* or interleave.  None of it rests on the semaphores: the lock on the     *)
(* task's row and the stamps carry it alone.                               *)
(***************************************************************************)
EXTENDS BulkImport, TLAPS

USE BulkAssumption, SettingsAssumption

IInv == TypeOK /\ ImportedOnce /\ NewestImported

\* Nobody joins those who are importing, or changes the import it is at.
NobodyJoins == \A w \in Workers : Active(w)' => Active(w) /\ task'[w] = task[w]

\* A step that no row and no point shows.
Quiet == NobodyJoins /\ UNCHANGED <<posted, rows, stored>>

-----------------------------------------------------------------------------
\* There is a first task for those who have none.
LEMMA AnyTaskType == AnyTask \in Tasks
BY DEF AnyTask

\* Going on keeps the types of the control state.
LEMMA GotoType ==
    ASSUME TypeOK, NEW a \in Actors, NEW step \in Steps, Goto(a, step)
    PROVE  pc' \in [Actors -> Steps] /\ task' \in [Actors -> Tasks]
BY AnyTaskType DEF TypeOK, Goto

\* An actor begins with a task.
LEMMA BeginType ==
    ASSUME TypeOK, NEW a \in Actors, NEW t \in Tasks, Begin(a, t)
    PROVE  pc' \in [Actors -> Steps] /\ task' \in [Actors -> Tasks]
<1>1. "see task" \in Steps
  BY DEF Steps
<1>2. QED
  BY <1>1 DEF TypeOK, Begin

\* Whoever goes on was there before, and at the same import.
LEMMA GotoJoinsNobody ==
    ASSUME TypeOK, NEW a \in Actors, pc[a] # "idle", NEW step, Goto(a, step),
           \A b \in Actors : failed[b] => failed'[b] \/ (b = a /\ step = "idle")
    PROVE  NobodyJoins
BY DEF TypeOK, Goto, NobodyJoins, Active, Actors

\* The periodic task imports nothing.
LEMMA BeginJoinsNobody ==
    ASSUME TypeOK, NEW t \in Tasks, Begin(Beat, t), UNCHANGED failed
    PROVE  NobodyJoins
BY DEF TypeOK, Begin, NobodyJoins, Active, Actors

\* A semaphore stays a counter or is gone.
LEMMA CounterType ==
    ASSUME TypeOK, NEW k \in Keys, Open(k) \/ Add(k, 1) \/ Add(k, -1) \/ Drop(k)
    PROVE  count' \in [Keys -> Counter \cup {Unheld}]
<1>1. CASE Open(k)
  BY <1>1 DEF TypeOK, Open, Counter
<1>2. CASE Add(k, 1) \/ Add(k, -1)
  <2>1. Added(k, 1) \in Counter /\ Added(k, -1) \in Counter
    <3>1. CASE count[k] = Unheld
      BY <3>1 DEF Added, Counter
    <3>2. CASE count[k] # Unheld
      <4>1. count[k] \in Counter
        BY <3>2 DEF TypeOK
      <4>2. ASSUME NEW d \in Int PROVE [count[k] EXCEPT !.n = @ + d] \in Counter
        <5>1. count[k].n + d \in Int
          BY <4>1 DEF Counter
        <5>2. QED
          BY <4>1, <5>1 DEF Counter
      <4>3. /\ [count[k] EXCEPT !.n = @ + 1] \in Counter
            /\ [count[k] EXCEPT !.n = @ + (-1)] \in Counter
        <5>1. 1 \in Int /\ -1 \in Int
          OBVIOUS
        <5> HIDE DEF Counter
        <5>2. QED
          BY <4>2, <5>1, Zenon
      <4>4. QED
        BY <3>2, <4>3 DEF Added
    <3>3. QED
      BY <3>1, <3>2
  <2>2. QED
    BY <1>2, <2>1 DEF TypeOK, Add
<1>3. CASE Drop(k)
  BY <1>3 DEF TypeOK, Drop
<1>4. QED
  BY <1>1, <1>2, <1>3

\* A message more, a message less, and one more thing gone wrong.
LEMMA MessageMore ==
    ASSUME TypeOK, NEW t \in Tasks, queue' = [queue EXCEPT ![t] = @ + 1]
    PROVE  queue' \in [Tasks -> Nat]
BY DEF TypeOK

\* A message that is taken was there.
LEMMA MessageLess ==
    ASSUME TypeOK, NEW t \in Tasks, queue[t] > 0, queue' = [queue EXCEPT ![t] = @ - 1]
    PROVE  queue' \in [Tasks -> Nat]
<1>1. queue[t] \in Nat
  BY DEF TypeOK
<1>2. queue[t] - 1 \in Nat
  BY <1>1
<1>3. QED
  BY <1>2 DEF TypeOK

\* Troubles are counted up to their bound.
LEMMA TroubleType ==
    ASSUME TypeOK, troubles < setting.troubles, troubles' = troubles + 1, setting' = setting
    PROVE  troubles' \in 0..setting'.troubles
<1>1. setting.troubles \in Nat /\ troubles \in Int /\ 0 <= troubles
  BY DEF TypeOK
<1>2. QED
  BY <1>1

\* A quiet step undoes nothing.
LEMMA QuietKeeps ==
    ASSUME IInv, TypeOK', Quiet
    PROVE  IInv'
<1>1. ImportedOnce'
  BY DEF IInv, ImportedOnce, Quiet, NobodyJoins
<1>2. NewestImported'
  BY DEF IInv, NewestImported, Imported, Quiet
<1>3. QED
  BY <1>1, <1>2 DEF IInv

-----------------------------------------------------------------------------

\* At first nothing is posted, and nothing stored.
LEMMA InitIInv == Init => IInv
<1> SUFFICES ASSUME Init PROVE IInv
  OBVIOUS
<1>1. "idle" \in Steps
  BY DEF Steps
<1>2. TypeOK
  BY <1>1, AnyTaskType DEF Init, TypeOK
<1>3. ImportedOnce /\ NewestImported
  BY DEF Init, ImportedOnce, NewestImported, Imported, Active, Actors
<1>4. QED
  BY <1>2, <1>3 DEF IInv

\* The commands of acquire_semaphore and release_semaphore.
LEMMA SemaphoreKeeps ==
    ASSUME IInv, NEW a \in Actors, NEW k \in Keys, NEW from \in Steps \ {"idle"},
           NEW yes \in Steps, NEW no \in Steps, NEW limit \in Nat,
           \/ See(a, from, k, yes) \/ Incr(a, from, k, limit, yes, no)
           \/ Decr(a, from, k, yes) \/ Look(a, from, k, yes, no) \/ Delete(a, from, k, yes)
    PROVE  IInv'
<1>1. PICK step \in {yes, no} : Goto(a, step)
  BY DEF See, Incr, Decr, Look, Delete
<1>2. pc[a] # "idle" /\ UNCHANGED <<setting, posted, dropped, rows, queue, local, stored, troubles>>
  BY DEF See, Incr, Decr, Look, Delete
<1>3. count' \in [Keys -> Counter \cup {Unheld}]
  <2>1. CASE Open(k) \/ Add(k, 1) \/ Add(k, -1) \/ Drop(k)
    BY <2>1, CounterType DEF IInv
  <2>2. CASE UNCHANGED count
    BY <2>2 DEF IInv, TypeOK
  <2>3. QED
    BY <2>1, <2>2 DEF See, Incr, Decr, Look, Delete
<1>4. TypeOK'
  BY <1>1, <1>2, <1>3, GotoType DEF IInv, TypeOK, local
<1>5. NobodyJoins
  BY <1>1, <1>2, GotoJoinsNobody DEF IInv, local
<1>6. QED
  BY <1>2, <1>4, <1>5, QuietKeeps DEF Quiet

\* A key that expires, a column that goes, and all that happens to messages alone.
LEMMA MessageKeeps ==
    ASSUME IInv, NEW t \in Tasks, NEW k \in Keys, Lose(t) \/ Wake(t) \/ Send \/ Expire(k)
                                          \/ DropColumn(t)
    PROVE  IInv'
<1>1. CASE Lose(t)
  <2> queue' \in [Tasks -> Nat]
    BY <1>1, MessageLess DEF IInv, Lose
  <2> troubles' \in 0..setting'.troubles
    BY <1>1, TroubleType DEF IInv, Lose
  <2>1. TypeOK'
    BY <1>1 DEF IInv, TypeOK, Lose, local
  <2>2. Quiet
    BY <1>1 DEF Lose, local, Quiet, NobodyJoins, Active
  <2>3. QED
    BY <2>1, <2>2, QuietKeeps
<1>2. CASE Wake(t)
  <2>1. TypeOK'
    BY <1>2, BeginType DEF IInv, TypeOK, Wake, local, Actors
  <2>2. Quiet
    BY <1>2, BeginJoinsNobody DEF IInv, Wake, local, Quiet
  <2>3. QED
    BY <2>1, <2>2, QuietKeeps
<1>3. CASE Send
  <2>1. Beat \in Actors /\ "idle" \in Steps
    BY DEF Actors, Steps
  <2>2. pc' \in [Actors -> Steps] /\ task' \in [Actors -> Tasks]
    BY <1>3, <2>1, GotoType DEF IInv, Send
  <2>3. queue' \in [Tasks -> Nat]
    <3>1. task[Beat] \in Tasks
      BY <2>1 DEF IInv, TypeOK
    <3>2. QED
      BY <1>3, <3>1, MessageMore DEF IInv, Send
  <2>4. TypeOK'
    BY <1>3, <2>2, <2>3 DEF IInv, TypeOK, Send, local
  <2>5. Quiet
    BY <1>3, <2>1, GotoJoinsNobody DEF IInv, Send, local, Quiet
  <2>6. QED
    BY <2>4, <2>5, QuietKeeps
<1>4. CASE Expire(k)
  <2> count' \in [Keys -> Counter \cup {Unheld}]
    BY <1>4, CounterType DEF IInv, Expire
  <2>1. TypeOK'
    BY <1>4 DEF IInv, TypeOK, Expire, local
  <2>2. Quiet
    BY <1>4 DEF Expire, local, Quiet, NobodyJoins, Active
  <2>3. QED
    BY <2>1, <2>2, QuietKeeps
<1>5. CASE DropColumn(t)
  <2>1. TypeOK'
    BY <1>5 DEF IInv, TypeOK, DropColumn, local
  <2>2. Quiet
    BY <1>5 DEF DropColumn, local, Quiet, NobodyJoins, Active
  <2>3. QED
    BY <2>1, <2>2, QuietKeeps
<1>6. QED
  BY <1>1, <1>2, <1>3, <1>4, <1>5

\* A request stores a task that is new, so that what has been imported stays.
LEMMA PostKeeps ==
    ASSUME IInv, NEW t \in Tasks, Post(t)
    PROVE  IInv'
<1> queue' \in [Tasks -> Nat]
  BY MessageMore DEF IInv, Post
<1> setting.tasks \subseteq Tasks
  BY DEF IInv, TypeOK
<1>1. TypeOK'
  BY DEF IInv, TypeOK, Post, local
<1>2. ImportedOnce'
  BY DEF IInv, ImportedOnce, Post, local, Active
<1>3. Imported' = Imported
  BY DEF Post, Imported
<1>4. NewestImported'
  BY <1>3 DEF IInv, NewestImported, Post, local
<1>5. QED
  BY <1>1, <1>2, <1>4 DEF IInv

\* A worker takes up what is in a row that nobody has locked.
LEMMA TakeKeeps ==
    ASSUME IInv, NEW w \in Workers, NEW t \in Tasks, Take(w, t)
    PROVE  IInv'
<1> queue' \in [Tasks -> Nat]
  BY MessageLess DEF IInv, Take
<1>1. CASE t \in rows /\ ~Claimed(t)
  <2>1. w \in Actors /\ Begin(w, t)
    BY <1>1 DEF Take, Actors
  <2>2. pc' \in [Actors -> Steps] /\ task' \in [Actors -> Tasks]
    BY <2>1, BeginType DEF IInv
  <2>3. TypeOK'
    BY <2>2 DEF IInv, TypeOK, Take, local
  <2>4. task'[w] = t /\ \A v \in Workers \ {w} : task'[v] = task[v] /\ Active(v)' = Active(v)
    BY <2>1 DEF IInv, TypeOK, Take, local, Begin, Active, Actors
  <2>5. \A v \in Workers : Active(v) => task[v] # t
    BY <1>1 DEF Claimed
  <2>6. ImportedOnce'
    BY <1>1, <2>4, <2>5 DEF IInv, ImportedOnce, Take
  <2>7. NewestImported'
    BY DEF IInv, NewestImported, Imported, Take
  <2>8. QED
    BY <2>3, <2>6, <2>7 DEF IInv
<1>2. CASE ~(t \in rows /\ ~Claimed(t))
  <2>1. TypeOK'
    BY <1>2 DEF IInv, TypeOK, Take, local
  <2>2. Quiet
    BY <1>2 DEF Take, local, Quiet, NobodyJoins, Active
  <2>3. QED
    BY <2>1, <2>2, QuietKeeps
<1>3. QED
  BY <1>1, <1>2

\* Points are written into the transaction only, and it may fail.
LEMMA WriteKeeps ==
    ASSUME IInv, NEW w \in Workers,
           Retry(w) \/ Write(w) \/ Wait(w) \/ Deadlock(w) \/ NoColumn(w) \/ Error(w)
    PROVE  IInv'
<1>1. w \in Actors /\ pc[w] # "idle"
  BY DEF Actors, Retry, Write, Wait, Deadlock, NoColumn, Error, Abort, Writing
<1>2. PICK step \in Steps : Goto(w, step)
  <2>1. {"idle", "decr slots", "write", "wait"} \subseteq Steps
    BY DEF Steps
  <2>2. QED
    BY <2>1 DEF Retry, Write, Wait, Deadlock, NoColumn, Error, Abort
<1>3. pc' \in [Actors -> Steps] /\ task' \in [Actors -> Tasks]
  BY <1>1, <1>2, GotoType DEF IInv
<1>4. /\ written' \in [Actors -> Nat] /\ failed' \in [Actors -> BOOLEAN]
      /\ \A b \in Actors : failed[b] => failed'[b]
  <2>1. CASE Write(w)
    <3>1. written[w] + 1 \in Nat
      BY <1>1 DEF IInv, TypeOK
    <3>2. written' = [written EXCEPT ![w] = written[w] + 1] /\ failed' = failed
      BY <2>1 DEF Write
    <3>3. QED
      BY <3>1, <3>2 DEF IInv, TypeOK
  <2>2. CASE Deadlock(w) \/ NoColumn(w) \/ Error(w)
    BY <1>1, <2>2 DEF IInv, TypeOK, Deadlock, NoColumn, Error, Abort
  <2>3. CASE Retry(w) \/ Wait(w)
    BY <2>3 DEF IInv, TypeOK, Retry, Wait, local
  <2>4. QED
    BY <2>1, <2>2, <2>3
<1>5. queue' \in [Tasks -> Nat] /\ count' \in [Keys -> Counter \cup {Unheld}]
  <2>1. Slots \in Keys
    BY DEF Keys
  <2>2. CASE Retry(w)
    <3>1. task[w] \in Tasks
      BY <1>1 DEF IInv, TypeOK
    <3>2. QED
      BY <2>1, <2>2, <3>1, CounterType, MessageMore DEF IInv, Retry
  <2>3. CASE Write(w) \/ Wait(w) \/ Deadlock(w) \/ NoColumn(w) \/ Error(w)
    BY <2>3 DEF IInv, TypeOK, Write, Wait, Deadlock, NoColumn, Error, Abort
  <2>4. QED
    BY <2>2, <2>3
<1>6. UNCHANGED <<setting, posted, dropped, rows, stored>> /\ troubles' \in 0..setting'.troubles
  <2>1. CASE Error(w)
    BY <2>1, TroubleType DEF IInv, Error, Abort
  <2>2. CASE Retry(w) \/ Write(w) \/ Wait(w) \/ Deadlock(w) \/ NoColumn(w)
    BY <2>2 DEF IInv, TypeOK, Retry, Write, Wait, Deadlock, NoColumn, Abort, local
  <2>3. QED
    BY <2>1, <2>2
<1>7. TypeOK'
  BY <1>3, <1>4, <1>5, <1>6 DEF IInv, TypeOK
<1>8. Quiet
  BY <1>1, <1>2, <1>4, <1>6, GotoJoinsNobody DEF IInv, Quiet
<1>9. QED
  BY <1>7, <1>8, QuietKeeps

\* A worker that dies lets go of everything but the semaphores.
LEMMA CrashKeeps ==
    ASSUME IInv, NEW a \in Actors, Crash(a)
    PROVE  IInv'
<1>1. "idle" \in Steps /\ Goto(a, "idle") /\ pc[a] # "idle"
  BY DEF Steps, Crash
<1>2. pc' \in [Actors -> Steps] /\ task' \in [Actors -> Tasks]
  BY <1>1, GotoType DEF IInv
<1>3. PICK again \in {0, 1} : queue' = [queue EXCEPT ![task[a]] = @ + again]
  BY DEF Crash
<1>4. queue' \in [Tasks -> Nat]
  <2>1. task[a] \in Tasks
    BY DEF IInv, TypeOK
  <2>2. CASE again = 1
    BY <1>3, <2>1, <2>2, MessageMore DEF IInv
  <2>3. CASE again = 0
    BY <1>3, <2>1, <2>3 DEF IInv, TypeOK
  <2>4. QED
    BY <2>2, <2>3
<1> troubles' \in 0..setting'.troubles
  BY TroubleType DEF IInv, Crash
<1> written' \in [Actors -> Nat] /\ failed' \in [Actors -> BOOLEAN]
  BY DEF IInv, TypeOK, Crash
<1>5. TypeOK'
  BY <1>2, <1>4 DEF IInv, TypeOK, Crash
<1>6. NobodyJoins
  BY <1>1, GotoJoinsNobody DEF IInv, TypeOK, Crash
<1>7. QED
  BY <1>5, <1>6, QuietKeeps DEF Quiet, Crash

\* The row goes and the points come in one step, and only of an import that did
\* not fail: the stamps then say which points stay.
LEMMA EndKeeps ==
    ASSUME IInv, NEW w \in Workers, End(w)
    PROVE  IInv'
<1>1. w \in Actors /\ "idle" \in Steps /\ Goto(w, "idle") /\ pc[w] # "idle"
  BY DEF Actors, Steps, End
<1>2. pc' \in [Actors -> Steps] /\ task' \in [Actors -> Tasks]
  BY <1>1, GotoType DEF IInv
<1>3. NobodyJoins
  BY <1>1, GotoJoinsNobody DEF IInv, TypeOK, End
<1>4. CASE failed[w]
  <2>1. TypeOK'
    BY <1>1, <1>2, <1>4 DEF IInv, TypeOK, End
  <2>2. QED
    BY <1>3, <1>4, <2>1, QuietKeeps DEF Quiet, End
<1>5. CASE ~failed[w]
  <2> DEFINE t == task[w]
  <2>1. t \in Tasks /\ t \in rows /\ Stamp[t] \in Nat \ {0}
    BY <1>1, <1>5 DEF IInv, TypeOK, ImportedOnce, Active
  <2>2. rows' = rows \ {t} /\ posted' = posted /\ stored' = [p \in Points |-> Newest(p, t)]
    BY <1>5 DEF End
  <2>3. \A p \in Points : Newest(p, t) \in Nat
    BY <2>1 DEF IInv, TypeOK, Newest
  <2>4. TypeOK'
    BY <1>1, <1>2, <2>2, <2>3 DEF IInv, TypeOK, End
  <2>5. ~Active(w)'
    BY <1>1 DEF IInv, TypeOK, Goto, Active
  <2>6. \A v \in Workers : Active(v)' => Active(v) /\ task'[v] = task[v] /\ task[v] # t
    BY <1>1, <1>3, <1>5, <2>5 DEF IInv, ImportedOnce, NobodyJoins, Active
  <2>7. ImportedOnce'
    BY <1>3, <2>2, <2>6 DEF IInv, ImportedOnce, NobodyJoins
  <2>8. Imported' = Imported \cup {t}
    BY <2>1, <2>2 DEF IInv, TypeOK, Imported
  <2>9. \A p \in Points : /\ stored[p] <= stored'[p]
                          /\ Writes(t, p) => Stamp[t] <= stored'[p]
                          /\ \/ stored'[p] = stored[p]
                             \/ Writes(t, p) /\ stored'[p] = Stamp[t]
    BY <2>1, <2>2 DEF IInv, TypeOK, Newest
  <2>10. \A p \in Points, u \in Imported' : Writes(u, p) => Stamp[u] <= stored'[p]
    <3> SUFFICES ASSUME NEW p \in Points, NEW u \in Imported, Writes(u, p)
                 PROVE  Stamp[u] <= stored'[p]
      BY <2>8, <2>9
    <3>1. u \in Tasks /\ Stamp[u] \in Nat /\ stored[p] \in Nat /\ stored'[p] \in Nat
      BY <2>4 DEF IInv, TypeOK, Imported
    <3>2. Stamp[u] <= stored[p]
      BY DEF IInv, NewestImported
    <3>3. QED
      BY <2>9, <3>1, <3>2
  <2>11. \A p \in Points :
            stored'[p] # 0 => \E u \in Imported' : Writes(u, p) /\ Stamp[u] = stored'[p]
    BY <2>8, <2>9 DEF IInv, NewestImported
  <2>12. NewestImported'
    BY <2>10, <2>11 DEF NewestImported, Writes
  <2>13. QED
    BY <2>4, <2>7, <2>12 DEF IInv
<1>6. QED
  BY <1>4, <1>5

\* No command of a worker imports a row twice, or an older version over a newer.
LEMMA ImportKeeps ==
    ASSUME IInv, NEW w \in Workers, Import(w)
    PROVE  IInv'
<1>1. w \in Actors /\ task[w] \in Keys /\ Slots \in Keys
  BY DEF IInv, TypeOK, Actors, Keys
<1>2. setting.limit \in Nat
  BY DEF IInv, TypeOK
<1>3. {"see task", "incr task", "undo task", "see slots", "incr slots", "undo slots",
       "write", "decr slots", "look slots", "drop slots", "decr task", "look task",
       "drop task", "end"} \subseteq Steps \ {"idle"} /\ AfterSlots(w) \in Steps
  BY DEF Steps, AfterSlots
<1>4. CASE Retry(w) \/ Write(w) \/ Wait(w) \/ Deadlock(w) \/ NoColumn(w)
  BY <1>4, WriteKeeps
<1>5. CASE End(w)
  BY <1>5, EndKeeps
<1>6. CASE \/ See(w, "see task", task[w], "incr task")
           \/ Incr(w, "incr task", task[w], 1, "see slots", "undo task")
           \/ Decr(w, "undo task", task[w], "see slots")
           \/ See(w, "see slots", Slots, "incr slots")
           \/ Incr(w, "incr slots", Slots, setting.limit, "write", "undo slots")
  BY <1>1, <1>2, <1>3, <1>6, SemaphoreKeeps
<1>7. CASE \/ Decr(w, "decr slots", Slots, "look slots")
           \/ Look(w, "look slots", Slots, "drop slots", AfterSlots(w))
           \/ Delete(w, "drop slots", Slots, AfterSlots(w))
           \/ Decr(w, "decr task", task[w], "look task")
           \/ Look(w, "look task", task[w], "drop task", "end")
           \/ Delete(w, "drop task", task[w], "end")
  BY <1>1, <1>2, <1>3, <1>7, SemaphoreKeeps
<1>8. QED
  BY <1>4, <1>5, <1>6, <1>7 DEF Import

\* Nor does one of the periodic task,
LEMMA RequeueKeeps ==
    ASSUME IInv, Requeue
    PROVE  IInv'
<1>1. Beat \in Actors /\ task[Beat] \in Tasks /\ task[Beat] \in Keys
  BY DEF IInv, TypeOK, Actors, Keys
<1>2. {"see task", "incr task", "undo task", "end"} \subseteq Steps \ {"idle"}
      /\ "idle" \in Steps
  BY DEF Steps
<1>3. CASE Send
  BY <1>1, <1>3, MessageKeeps
<1>4. CASE \/ See(Beat, "see task", task[Beat], "incr task")
           \/ Incr(Beat, "incr task", task[Beat], 1, "end", "undo task")
           \/ Decr(Beat, "undo task", task[Beat], "idle")
  BY <1>1, <1>2, <1>4, SemaphoreKeeps
<1>5. QED
  BY <1>3, <1>4 DEF Requeue

\* nor any other step,
LEMMA StepIInv == IInv /\ [Next]_vars => IInv'
<1> SUFFICES ASSUME IInv, [Next]_vars PROVE IInv'
  OBVIOUS
<1>1. ASSUME NEW t \in Tasks, Post(t) \/ DropColumn(t) \/ Lose(t) \/ Wake(t) PROVE IInv'
  <2>1. Slots \in Keys
    BY DEF Keys
  <2>2. QED
    BY <1>1, <2>1, PostKeeps, MessageKeeps
<1>2. ASSUME NEW w \in Workers, (\E t \in Tasks : Take(w, t)) \/ Import(w) \/ Error(w)
      PROVE  IInv'
  BY <1>2, TakeKeeps, ImportKeeps, WriteKeeps
<1>3. CASE Requeue
  BY <1>3, RequeueKeeps
<1>4. ASSUME NEW a \in Actors, Crash(a) PROVE IInv'
  BY <1>4, CrashKeeps
<1>5. ASSUME NEW k \in Keys, Expire(k) PROVE IInv'
  BY <1>5, AnyTaskType, MessageKeeps
<1>6. CASE UNCHANGED vars
  <2>1. TypeOK'
    BY <1>6 DEF vars, IInv, TypeOK
  <2>2. Quiet
    BY <1>6 DEF vars, Quiet, NobodyJoins, Active
  <2>3. QED
    BY <2>1, <2>2, QuietKeeps
<1>7. QED
  BY <1>1, <1>2, <1>3, <1>4, <1>5, <1>6 DEF Next

\* at any time.
LEMMA Inductive == Spec => []IInv
BY InitIInv, StepIInv, PTL DEF Spec

-----------------------------------------------------------------------------
\* Counters, queue and control state keep their types through every interleaving.
THEOREM TypeCorrect == Spec => []TypeOK
<1>1. IInv => TypeOK
  BY DEF IInv
<1>2. QED
  BY <1>1, Inductive, PTL

\* However often a message is delivered, one transaction at a time works on an
\* import, and on one that is not done yet: select_for_update with skip_locked is
\* enough, whatever the semaphores say.
THEOREM OneImportAtATime == Spec => []ImportedOnce
<1>1. IInv => ImportedOnce
  BY DEF IInv
<1>2. QED
  BY <1>1, Inductive, PTL

\* A row disappears with its points stored, and the newest stamp among the
\* imports that are done is what a point shows, in whatever order they ran.
THEOREM NewestWins == Spec => []NewestImported
<1>1. IInv => NewestImported
  BY DEF IInv
<1>2. QED
  BY <1>1, Inductive, PTL
================================================================================
