---------------------- MODULE ConsumerPromises_proofs ----------------------
(* What a consumer can rely on, for every value of the constants: attempts *)
(* are counted, finished events stay finished, heartbeats of an IN_ORDER    *)
(* consumer never deadlock, and delivery keeps the promise of EventOutbox.  *)
EXTENDS ConsumerDelivery_proofs, FiniteSetTheorems, WellFoundedInduction

USE NumbersAssumption
USE DEF Unfinished, SortKey, Unlocked, BatchFull, Exhausted

----------------------------------------------------------------------------
(* What a step can do to one event *)

\* Time may have passed for a row.
Aged(old, new) ==
    \/ new = old
    \/ old.handle = "waiting" /\ new = [old EXCEPT !.handle = "due"]

\* The worker's version of a row it merely waits with, or that is finished, is
\* the committed one.
VersionInv ==
    \A w \in Workers, e \in Events :
        holder[e] = w /\ (pc[w] = "lock" \/ ev[e].st \in Final) => tx[w][e] = ev[e]

Kept(d) ==
    /\ Aged(ev[d], ev'[d]) /\ holder'[d] = holder[d]
    /\ \A w \in Workers : holder[d] = w => /\ Aged(tx[w][d], tx'[w][d])
                                           /\ ev[d] = tx[w][d] => ev'[d] = tx'[w][d]
Published(d) ==
    ev[d].st = "ABSENT" /\ ev'[d] = Blank("NEW") /\ holder[d] = None /\ holder'[d] = None
Deleted(d) ==
    ev'[d] = Blank("GONE") /\ holder[d] = None /\ holder'[d] = None
Locked(d, w) ==
    /\ holder[d] = None /\ holder'[d] = w /\ ev'[d] = ev[d] /\ tx'[w][d] = ev[d]
    /\ ev[d].st \notin {"ABSENT", "GONE"}
Posted(d, w) ==
    /\ holder[d] = w /\ holder'[d] = w /\ ev'[d] = ev[d] /\ crashes' = crashes
    /\ ev[d].st \in Open /\ tx[w][d] = ev[d] /\ tx[w][d].handle # "waiting"
    /\ pc[w] = "send" /\ pc'[w] # "lock"
    /\ \/ PostOk(w, d) /\ accepted'[d] = accepted[d] + 1
          /\ tx'[w][d] = Succeeded(tx[w][d])
       \/ \E f \in Failures : PostFails(w, d, f) /\ tx'[w][d] = Failed(tx[w][d], f = "limited")
Committed(d, w) ==
    holder[d] = w /\ holder'[d] = None /\ ev'[d] = tx[w][d]
RolledBack(d, w) ==
    /\ holder[d] = w /\ holder'[d] = None /\ ev'[d] = ev[d]
    /\ pc[w] = "lock" \/ crashes' = crashes + 1

\* What a step can do to one event.
LEMMA RowMoves ==
    ASSUME TypeOK, DeliveryInv, [Next]_vars, NEW d \in Events
    PROVE  /\ crashes <= crashes'
           /\ \/ /\ accepted'[d] = accepted[d]
                 /\ \/ Kept(d) \/ Published(d) \/ Deleted(d)
                    \/ \E w \in Workers : Locked(d, w) \/ Committed(d, w) \/ RolledBack(d, w)
              \/ \E w \in Workers : Posted(d, w)
<1> DEFINE Moves == \/ /\ accepted'[d] = accepted[d]
                       /\ \/ Kept(d) \/ Published(d) \/ Deleted(d)
                          \/ \E w \in Workers : Locked(d, w) \/ Committed(d, w) \/ RolledBack(d, w)
                    \/ \E w \in Workers : Posted(d, w)
           Goal == crashes <= crashes' /\ Moves
           Still == ev'[d] = ev[d] /\ holder'[d] = holder[d]
                    /\ \A w \in Workers : holder[d] = w => tx'[w][d] = tx[w][d]
<1> USE DEF history, workerVars
<1>a. /\ crashes \in Nat /\ crashes <= crashes
      /\ \A w \in Workers : w # None
  BY WorkersAssumption DEF TypeOK
<1>b. /\ ev[d].st \in {"ABSENT", "GONE"} => \A w \in Workers : holder[d] # w
      /\ holder[d] = None \/ holder[d] \in Workers
  BY DEF DeliveryInv, LockInv, TypeOK
<1>c. ASSUME Still, accepted'[d] = accepted[d], crashes' = crashes PROVE Goal
  <2>1. Kept(d)
    BY <1>c DEF Kept, Aged
  <2> QED BY <1>a, <1>c, <2>1
<1>1. ASSUME NEW e \in Events, CommitEvent(e) PROVE Goal
  <2>1. UNCHANGED <<holder, tx, accepted, crashes>>
    BY <1>1 DEF CommitEvent
  <2>2. CASE d = e
    <3>1. ev[d].st = "ABSENT" /\ ev'[d] = Blank("NEW")
      BY <1>1, <2>2 DEF CommitEvent, TypeOK
    <3>2. Published(d)
      BY <1>b, <2>1, <3>1 DEF Published
    <3> QED BY <1>a, <2>1, <3>2
  <2>3. CASE d # e
    <3>1. ev'[d] = ev[d]
      BY <1>1, <2>3 DEF CommitEvent, TypeOK
    <3> QED BY <1>c, <2>1, <3>1
  <2> QED BY <2>2, <2>3
<1>2. ASSUME NEW e \in Events, TruncateEvents(e) PROVE Goal
  <2>1. UNCHANGED <<holder, tx, accepted, crashes>> /\ holder[d] = None
    BY <1>2 DEF TruncateEvents
  <2>2. CASE d = e
    <3>1. ev[d].st = "ABSENT" /\ ev'[d] = Blank("NEW")
      BY <1>2, <2>2 DEF TruncateEvents
    <3>2. Published(d)
      BY <2>1, <3>1 DEF Published
    <3> QED BY <1>a, <2>1, <3>2
  <2>3. CASE d # e
    <3>1. ev'[d] = ev[d] \/ ev'[d] = Blank("GONE")
      BY <1>2, <2>3 DEF TruncateEvents
    <3>2. CASE ev'[d] = Blank("GONE")
      <4>1. Deleted(d) BY <2>1, <3>2 DEF Deleted
      <4> QED BY <1>a, <2>1, <4>1
    <3> QED BY <1>c, <2>1, <3>1, <3>2
  <2> QED BY <2>2, <2>3
<1>3. ASSUME NEW S \in SUBSET Events, DeleteOldEvents(S) PROVE Goal
  <2>1. UNCHANGED <<holder, tx, accepted, crashes>>
    BY <1>3 DEF DeleteOldEvents
  <2>2. CASE d \in S
    <3>1. ev'[d] = Blank("GONE") /\ holder[d] = None
      BY <1>3, <2>2 DEF DeleteOldEvents
    <3>2. Deleted(d) BY <2>1, <3>1 DEF Deleted
    <3> QED BY <1>a, <2>1, <3>2
  <2>3. CASE d \notin S
    <3>1. ev'[d] = ev[d]
      BY <1>3, <2>3 DEF DeleteOldEvents
    <3> QED BY <1>c, <2>1, <3>1
  <2> QED BY <2>2, <2>3
<1>4. ASSUME NEW e \in Events, Tick(e) PROVE Goal
  <2>1. UNCHANGED <<holder, accepted, crashes>>
    BY <1>4 DEF Tick
  <2>2. \E w : w \in Workers BY WorkersAssumption
  <2>3. Kept(d)
    BY <1>4, <2>1, <2>2, TickEffect DEF Kept, Aged
  <2> QED BY <1>a, <2>1, <2>3
<1>5. ASSUME NEW w \in Workers, Commit(w) PROVE Goal
  <2>1. /\ UNCHANGED <<accepted, crashes>> /\ EndTransaction(w)
        /\ ev'[d] = IF holder[d] = w THEN tx[w][d] ELSE ev[d]
        /\ holder'[d] = IF holder[d] = w THEN None ELSE holder[d]
    BY <1>5 DEF Commit, EndTransaction
  <2>2. CASE holder[d] = w
    <3>1. Committed(d, w) BY <2>1, <2>2 DEF Committed
    <3> QED BY <1>a, <2>1, <3>1
  <2>3. CASE holder[d] # w
    <3>1. Still BY <2>1, <2>3, EndEffect
    <3> QED BY <1>c, <2>1, <3>1
  <2> QED BY <2>2, <2>3
<1>6. ASSUME NEW w \in Workers, Crash(w) \/ DeadlockAbort(w) PROVE Goal
  <2>1. /\ UNCHANGED <<accepted, ev>> /\ EndTransaction(w)
        /\ holder'[d] = IF holder[d] = w THEN None ELSE holder[d]
        /\ \/ crashes' = crashes + 1
           \/ crashes' = crashes /\ pc[w] = "lock"
    BY <1>6 DEF Crash, DeadlockAbort, EndTransaction, Deadlocked
  <2>2. crashes <= crashes' BY <1>a, <2>1
  <2>3. CASE holder[d] = w
    <3>1. RolledBack(d, w) BY <2>1, <2>3 DEF RolledBack
    <3> QED BY <2>1, <2>2, <3>1
  <2>4. CASE holder[d] # w
    <3>1. Still BY <2>1, <2>4, EndEffect
    <3>2. Kept(d) BY <3>1 DEF Kept, Aged
    <3> QED BY <2>1, <2>2, <3>2
  <2> QED BY <2>3, <2>4
<1>7. ASSUME NEW w \in Workers, NEW e \in Events, LockRow(w, e) PROVE Goal
  <2>1. /\ UNCHANGED <<ev, accepted, crashes>>
        /\ e \in cand[w] /\ holder[e] = None
    BY <1>7 DEF LockRow, IsFirst
  <2>2. ev[e].st # "ABSENT" BY <2>1 DEF DeliveryInv, LockInv
  <2>3. CASE d = e /\ ev[e].st # "GONE"
    <3>1. holder'[d] = w /\ tx'[w][d] = ev[d]
      BY <1>7, <2>3, LockEffect
    <3>2. Locked(d, w) BY <2>1, <2>2, <2>3, <3>1 DEF Locked
    <3> QED BY <1>a, <2>1, <3>2
  <2>4. CASE ~(d = e /\ ev[e].st # "GONE")
    <3>1. holder'[d] = holder[d] /\ \A v \in Workers : tx'[v][d] = tx[v][d]
      BY <1>7, <2>4, LockEffect
    <3> QED BY <1>c, <2>1, <3>1
  <2> QED BY <2>3, <2>4
<1>8. ASSUME NEW w \in Workers, NEW e \in Events,
             PostOk(w, e) \/ \E f \in Failures : PostFails(w, e, f)
      PROVE  Goal
  <2>1. UNCHANGED <<ev, holder, crashes>>
    BY <1>8 DEF PostOk, PostFails, Handling
  <2>2. CASE d = e
    <3>1. Posted(d, w)
      BY <1>8, <2>1, <2>2, PostEffect DEF Posted, DeliveryInv
    <3> QED BY <1>a, <2>1, <3>1
  <2>3. CASE d # e
    <3>1. accepted'[d] = accepted[d] /\ \A v \in Workers : tx'[v][d] = tx[v][d]
      BY <1>8, <2>3, PostEffect DEF DeliveryInv
    <3> QED BY <1>c, <2>1, <3>1
  <2> QED BY <2>2, <2>3
<1>9. ASSUME UNCHANGED <<ev, holder, tx, accepted, crashes>> PROVE Goal
  BY <1>c, <1>9
<1>10. ASSUME \/ \E m \in Modes : SetMode(m)
              \/ DeleteConsumer \/ Wake \/ ExpireWake \/ UNCHANGED vars
              \/ \E w \in Workers : \/ StartTask(w) \/ Dequeue(w) \/ Select(w)
                                    \/ LocksTaken(w) \/ StopSending(w)
       PROVE  UNCHANGED <<ev, holder, tx, accepted, crashes>>
  BY <1>10 DEF SetMode, DeleteConsumer, Wake, ExpireWake, vars, StartTask,
               Dequeue, Select, LocksTaken, StopSending
<1> HIDE DEF Moves, Still
<1>11. Goal
  BY <1>1, <1>2, <1>3, <1>4, <1>5, <1>6, <1>7, <1>8, <1>9, <1>10
     DEF Next, Environment, Work, Post
<1> QED BY <1>11 DEF Moves

----------------------------------------------------------------------------
(* Versions *)

\* No row is locked at first.
LEMMA VersionInit ==
    ASSUME Init PROVE VersionInv
  BY WorkersAssumption DEF Init, VersionInv

\* A worker comes to lock rows from its SELECT only.
LEMMA ComesToLock ==
    ASSUME TypeOK, [Next]_vars, NEW w \in Workers, pc'[w] = "lock"
    PROVE  pc[w] \in {"lock", "select"}
<1>1. CASE pc'[w] = pc[w] BY <1>1
<1>2. CASE Select(w) BY <1>2 DEF Select
<1>3. CASE LocksTaken(w) BY <1>3 DEF LocksTaken
<1>4. ASSUME NEW e \in Events, LockRow(w, e) PROVE pc[w] = "lock"
  BY <1>4 DEF LockRow
<1>5. ASSUME NEW e \in Events, PostOk(w, e) PROVE pc'[w] = pc[w]
  BY <1>5 DEF PostOk
<1> QED BY <1>1, <1>2, <1>3, <1>4, <1>5, LocalStep

\* Ageing leaves a row's state and its counters alone.
LEMMA AgedRow ==
    ASSUME NEW old \in Row, NEW new, Aged(old, new)
    PROVE  new.st = old.st /\ new.retries = old.retries
  BY DEF Aged, Row

\* A worker keeps the committed version of what it only waits with, whatever others commit.
LEMMA VersionStep ==
    ASSUME TypeOK, DeliveryInv, VersionInv, [Next]_vars
    PROVE  VersionInv'
<1> SUFFICES ASSUME NEW w \in Workers, NEW d \in Events, holder'[d] = w,
                    pc'[w] = "lock" \/ ev'[d].st \in Final
             PROVE  tx'[w][d] = ev'[d]
  BY DEF VersionInv
<1>1. w # None /\ ev[d] \in Row /\ (pc[w] = "select" => holder[d] # w)
  BY WorkersAssumption DEF TypeOK, DeliveryInv, LockInv
<1>2. CASE Kept(d)
  <2>1. holder[d] = w /\ ev'[d].st = ev[d].st
    BY <1>1, <1>2, AgedRow DEF Kept
  <2>2. pc[w] = "lock" \/ ev[d].st \in Final
    BY <1>1, <2>1, ComesToLock
  <2> QED BY <1>2, <2>1, <2>2 DEF Kept, VersionInv
<1>3. ASSUME NEW v \in Workers, Locked(d, v) PROVE tx'[w][d] = ev'[d]
  BY <1>3 DEF Locked
<1>4. ASSUME NEW v \in Workers, Posted(d, v) PROVE FALSE
  BY <1>4 DEF Posted, Open, Final
<1>5. CASE \/ Published(d) \/ Deleted(d)
           \/ \E v \in Workers : Committed(d, v) \/ RolledBack(d, v)
  BY <1>1, <1>5 DEF Published, Deleted, Committed, RolledBack
<1> QED BY <1>2, <1>3, <1>4, <1>5, RowMoves

\* So it has it at all times.
LEMMA VersionInvariant == Spec => []VersionInv
<1>1. TypeOK /\ DeliveryInv /\ VersionInv /\ [Next]_vars => VersionInv'
  BY VersionStep
<1> QED BY <1>1, VersionInit, TypeCorrect, DeliveryInvariant, PTL DEF Spec

\* FAILED and SUCCESS are for good: whatever heartbeats run side by side, no
\* commit overwrites a finished row, and the event is not sent again.
THEOREM FinalStaysFinal == Spec => FinalIsFinal
<1>1. ASSUME TypeOK, DeliveryInv, VersionInv, [Next]_vars,
             NEW d \in Events, ev[d].st \in Final
      PROVE  /\ \/ ev'[d] = ev[d] \/ ev'[d].st = "GONE"
                \/ ev[d].handle = "waiting" /\ ev'[d] = [ev[d] EXCEPT !.handle = "due"]
             /\ accepted'[d] = accepted[d]
  <2>1. ASSUME NEW w \in Workers, Posted(d, w) PROVE FALSE
    BY <1>1, <2>1 DEF Posted, Open, Final
  <2>2. ASSUME NEW w \in Workers, Committed(d, w) PROVE ev'[d] = ev[d]
    BY <1>1, <2>2 DEF Committed, VersionInv
  <2>3. CASE Kept(d) BY <2>3, <1>1, <2>1, RowMoves DEF Kept, Aged
  <2>4. CASE Deleted(d) BY <2>4, <1>1, <2>1, RowMoves DEF Deleted, Blank
  <2>5. CASE Published(d) BY <2>5, <1>1 DEF Published, Final
  <2>6. CASE \E w \in Workers : Locked(d, w) \/ RolledBack(d, w)
    <3>1. ev'[d] = ev[d] BY <2>6 DEF Locked, RolledBack
    <3> QED BY <1>1, <2>1, <3>1, RowMoves
  <2> QED BY <1>1, <2>1, <2>2, <2>3, <2>4, <2>5, <2>6, RowMoves
<1>2. TypeOK /\ DeliveryInv /\ VersionInv /\ [Next]_vars
        => [\A e \in Events : ev[e].st \in Final =>
              /\ ev'[e] = ev[e] \/ ev'[e].st = "GONE"
                 \/ (ev[e].handle = "waiting" /\ ev'[e] = [ev[e] EXCEPT !.handle = "due"])
              /\ accepted'[e] = accepted[e]]_vars
  BY <1>1
<1> QED
  BY <1>2, TypeCorrect, DeliveryInvariant, VersionInvariant, PTL DEF Spec, FinalIsFinal

----------------------------------------------------------------------------
(* Attempts *)

\* What the consumer may have processed by the time a row looks like this.
Sent(row) == row.retries + crashes + (IF row.st = "SUCCESS" THEN 1 ELSE 0)

\* An event under way may have been processed once more than its committed
\* row tells: that is what a crash leaves behind.
CountInv ==
    \A e \in Events :
        /\ Current(e).st \notin {"ABSENT", "GONE"} => accepted[e] <= Sent(Current(e))
        /\ holder[e] # None => accepted[e] <= Sent(ev[e]) + 1

\* The committed row lags at most the attempt of a transaction under way behind.
LEMMA CountStep ==
    ASSUME TypeOK, TypeOK', DeliveryInv, VersionInv, CountInv, [Next]_vars
    PROVE  CountInv'
<1> SUFFICES ASSUME NEW d \in Events
             PROVE  /\ Current(d)'.st \notin {"ABSENT", "GONE"} =>
                          accepted'[d] <= Sent(Current(d))'
                    /\ holder'[d] # None => accepted'[d] <= Sent(ev[d])' + 1
  BY DEF CountInv
<1> DEFINE S(row) == row.retries + (IF row.st = "SUCCESS" THEN 1 ELSE 0)
           Goal == /\ Current(d)'.st \notin {"ABSENT", "GONE"} =>
                          accepted'[d] <= S(Current(d)') + crashes'
                   /\ holder'[d] # None => accepted'[d] <= S(ev'[d]) + crashes' + 1
<1>0. /\ crashes \in Nat /\ crashes' \in Nat /\ crashes <= crashes'
      /\ accepted[d] \in Nat /\ ev[d] \in Row
      /\ \A w \in Workers : tx[w][d] \in Row /\ w # None
      /\ holder[d] = None \/ holder[d] \in Workers
  <2>1. crashes' \in Nat /\ crashes <= crashes' BY RowMoves DEF TypeOK
  <2> QED BY <2>1, WorkersAssumption DEF TypeOK
<1>1. /\ Current(d).st \notin {"ABSENT", "GONE"} =>
            accepted[d] <= S(Current(d)) + crashes
      /\ holder[d] # None => accepted[d] <= S(ev[d]) + crashes + 1
  <2>1. Current(d) \in Row BY <1>0 DEF Current
  <2>2. \A row \in Row : Sent(row) = S(row) + crashes
    BY <1>0 DEF Sent, Row
  <2> QED BY <1>0, <2>1, <2>2 DEF CountInv
<1>2. \A row \in Row : S(row) \in Nat BY DEF Row
<1>3. ASSUME Kept(d), accepted'[d] = accepted[d] PROVE Goal
  <2>1. /\ ev'[d].st = ev[d].st /\ ev'[d].retries = ev[d].retries
        /\ holder'[d] = holder[d]
    BY <1>0, <1>3, AgedRow DEF Kept
  <2>2. /\ Current(d)'.st = Current(d).st
        /\ Current(d)'.retries = Current(d).retries
    BY <1>0, <1>3, <2>1, AgedRow DEF Kept, Current
  <2>3. Current(d) \in Row BY <1>0 DEF Current
  <2>4. S(ev'[d]) = S(ev[d]) /\ S(Current(d)') = S(Current(d))
    BY <2>1, <2>2
  <2>5. S(ev[d]) \in Nat /\ S(Current(d)) \in Nat BY <1>0, <1>2, <2>3
  <2> HIDE DEF S
  <2>6. Current(d)'.st \notin {"ABSENT", "GONE"} =>
            accepted'[d] <= S(Current(d)') + crashes'
    <3>1. Current(d).st \notin {"ABSENT", "GONE"} =>
              accepted[d] <= S(Current(d)) + crashes'
      BY <1>0, <1>1, <2>5
    <3> QED BY <1>3, <2>2, <2>4, <3>1
  <2>7. holder'[d] # None => accepted'[d] <= S(ev'[d]) + crashes' + 1
    <3>1. holder[d] # None => accepted[d] <= S(ev[d]) + crashes' + 1
      BY <1>0, <1>1, <2>5
    <3> QED BY <1>3, <2>1, <2>4, <3>1
  <2> QED BY <2>6, <2>7
<1>4. ASSUME Published(d), accepted'[d] = accepted[d] PROVE Goal
  <2>1. accepted[d] = 0
    BY <1>0, <1>4, WorkersAssumption DEF Published, DeliveryInv, LockInv
  <2>2. Current(d)' = Blank("NEW") /\ holder'[d] = None
    BY <1>4 DEF Published, Current
  <2>3. S(Blank("NEW")) = 0 BY DEF Blank
  <2>4. accepted'[d] = 0 BY <1>4, <2>1
  <2>5. crashes' \in Nat BY <1>0
  <2> HIDE DEF S
  <2> QED BY <2>2, <2>3, <2>4, <2>5
<1>5. ASSUME Deleted(d) PROVE Goal
  <2>1. Current(d)'.st = "GONE" /\ holder'[d] = None
    BY <1>5 DEF Deleted, Current, Blank
  <2> QED BY <2>1
<1>6. ASSUME NEW w \in Workers, Locked(d, w), accepted'[d] = accepted[d] PROVE Goal
  <2>1. /\ Current(d) = ev[d] /\ Current(d)' = ev[d] /\ ev'[d] = ev[d]
        /\ ev[d].st \notin {"ABSENT", "GONE"}
    BY <1>0, <1>6 DEF Locked, Current
  <2>2. accepted[d] <= S(ev[d]) + crashes BY <1>1, <2>1
  <2>3. accepted[d] <= S(ev[d]) + crashes' BY <1>0, <1>2, <2>2
  <2> QED BY <1>0, <1>2, <1>6, <2>1, <2>3
<1>7. ASSUME NEW w \in Workers, Committed(d, w), accepted'[d] = accepted[d] PROVE Goal
  <2>1. /\ Current(d) = tx[w][d] /\ Current(d)' = tx[w][d] /\ holder'[d] = None
    BY <1>0, <1>7 DEF Committed, Current
  <2> QED BY <1>0, <1>1, <1>2, <1>7, <2>1
<1>8. ASSUME NEW w \in Workers, RolledBack(d, w), accepted'[d] = accepted[d] PROVE Goal
  <2>1. Current(d) = tx[w][d] /\ Current(d)' = ev[d] /\ holder'[d] = None
        /\ holder[d] = w /\ holder[d] # None
    BY <1>0, <1>8 DEF RolledBack, Current
  <2>2. CASE pc[w] = "lock"
    <3>1. tx[w][d] = ev[d] BY <2>1, <2>2 DEF VersionInv
    <3> QED BY <1>0, <1>1, <1>2, <1>8, <2>1, <3>1
  <2>3. CASE crashes' = crashes + 1
    BY <1>0, <1>1, <1>2, <1>8, <2>1, <2>3
  <2> QED BY <1>8, <2>2, <2>3 DEF RolledBack
<1>9. ASSUME NEW w \in Workers, Posted(d, w) PROVE Goal
  <2>1. /\ Current(d) = ev[d] /\ Current(d)' = tx'[w][d] /\ ev'[d] = ev[d]
        /\ crashes' = crashes /\ ev[d].st \in Open /\ tx[w][d] = ev[d]
    BY <1>0, <1>9 DEF Posted, Current
  <2>2. accepted[d] <= S(ev[d]) + crashes /\ S(ev[d]) = ev[d].retries
    <3>1. ev[d].st \notin {"ABSENT", "GONE", "SUCCESS"} BY <2>1 DEF Open
    <3>2. S(ev[d]) = ev[d].retries BY <1>0, <3>1 DEF Row
    <3> HIDE DEF S
    <3> QED BY <1>1, <2>1, <3>1, <3>2
  <2>3. NewCycle(ev[d]) \in Row /\ NewCycle(ev[d]).retries = ev[d].retries
    BY <1>0, RowType DEF NewCycle, Row
  <2>4. CASE accepted'[d] = accepted[d] + 1 /\ tx'[w][d] = Succeeded(tx[w][d])
    <3>1. Succeeded(ev[d]).st = "SUCCESS" /\ Succeeded(ev[d]).retries = ev[d].retries
      BY <2>3 DEF Succeeded, Row
    <3>2. S(tx'[w][d]) = ev[d].retries + 1 BY <2>1, <2>4, <3>1
    <3>3. ev[d].retries \in Nat BY <1>0 DEF Row
    <3> QED BY <1>0, <2>1, <2>2, <2>4, <3>2, <3>3
  <2>5. ASSUME NEW f \in Failures, PostFails(w, d, f),
               tx'[w][d] = Failed(tx[w][d], f = "limited")
        PROVE  Goal
    <3>0. ev[d].retries \in Nat BY <1>0 DEF Row
    <3>1. CASE ev[d].retries > RetryBound
      <4>1. Failed(ev[d], f = "limited") = [ev[d] EXCEPT !.handle = "waiting"]
        BY <3>1 DEF Failed
      <4>2. S(tx'[w][d]) = S(ev[d]) BY <1>0, <2>1, <2>5, <4>1 DEF Row
      <4>3. accepted'[d] = accepted[d]
        BY <2>1, <2>5, <3>0, <3>1 DEF PostFails
      <4> QED BY <1>0, <2>1, <2>2, <3>0, <4>2, <4>3
    <3>2. CASE ~(ev[d].retries > RetryBound)
      <4>1. /\ Failed(ev[d], f = "limited").retries = ev[d].retries + 1
            /\ Failed(ev[d], f = "limited").st # "SUCCESS"
        BY <2>3, <3>2 DEF Failed, Row
      <4>2. S(tx'[w][d]) = ev[d].retries + 1 BY <2>1, <2>5, <3>0, <4>1
      <4>3. accepted'[d] \in {accepted[d], accepted[d] + 1}
        BY <2>5 DEF PostFails, TypeOK
      <4> QED BY <1>0, <2>1, <2>2, <3>0, <4>2, <4>3
    <3> QED BY <3>1, <3>2
  <2> QED BY <1>9, <2>4, <2>5 DEF Posted
<1> HIDE DEF Goal, S
<1>10. Goal
  BY <1>3, <1>4, <1>5, <1>6, <1>7, <1>8, <1>9, RowMoves
<1>11. ev'[d] \in Row /\ Current(d)' \in Row BY DEF TypeOK, Current
<1>12. /\ Sent(Current(d))' = S(Current(d)') + crashes'
       /\ Sent(ev[d])' = S(ev'[d]) + crashes'
  BY <1>0, <1>11 DEF Sent, S, Row
<1> QED BY <1>10, <1>12 DEF Goal

\* select_for_update, README "guaranteed delivery": an event is processed at
\* most once for each attempt recorded as failed, for each crash and for its
\* success, however many heartbeats run side by side.
THEOREM DuplicatesAlwaysAccounted == Spec => []DuplicatesAccounted
<1>1. Init => CountInv
  BY WorkersAssumption DEF Init, CountInv, Current, Blank
<1>2. TypeOK /\ TypeOK' /\ DeliveryInv /\ VersionInv /\ CountInv /\ [Next]_vars
        => CountInv'
  BY CountStep
<1>3. CountInv => DuplicatesAccounted
  BY DEF CountInv, DuplicatesAccounted, Sent
<1> QED
  BY <1>1, <1>2, <1>3, TypeCorrect, DeliveryInvariant, VersionInvariant, PTL DEF Spec

----------------------------------------------------------------------------
(* Locks *)

\* IN_ORDER: whatever a worker holds comes before what it still has to lock.
LockOrder ==
    \A w \in Workers, d, e \in Events :
        pc[w] = "lock" /\ holder[d] = w /\ e \in cand[w] => d < e

\* A worker gains a lock by LockRow only.
LEMMA GainsLock ==
    ASSUME TypeOK, [Next]_vars, NEW w \in Workers, NEW d \in Events,
           holder'[d] = w, holder[d] # w
    PROVE  LockRow(w, d)
<1> USE DEF history, workerVars
<1>1. w # None BY WorkersAssumption
<1>2. ASSUME NEW v \in Workers, EndTransaction(v) PROVE FALSE
  BY <1>1, <1>2 DEF EndTransaction
<1>3. ASSUME NEW v \in Workers, NEW e \in Events, LockRow(v, e) PROVE LockRow(w, d)
  BY <1>3, LockEffect
<1>4. ASSUME holder' = holder PROVE FALSE
  BY <1>4
<1>5. ASSUME \/ \E e \in Events : CommitEvent(e) \/ TruncateEvents(e) \/ Tick(e)
             \/ \E S \in SUBSET Events : DeleteOldEvents(S)
             \/ \E m \in Modes : SetMode(m)
             \/ DeleteConsumer \/ Wake \/ ExpireWake \/ UNCHANGED vars
             \/ \E v \in Workers : \/ StartTask(v) \/ Dequeue(v) \/ Select(v)
                                   \/ LocksTaken(v) \/ StopSending(v)
      PROVE  holder' = holder
  BY <1>5 DEF CommitEvent, TruncateEvents, Tick, DeleteOldEvents, SetMode,
              DeleteConsumer, Wake, ExpireWake, vars, StartTask, Dequeue, Select,
              LocksTaken, StopSending
<1>6. ASSUME NEW v \in Workers, NEW e \in Events,
             PostOk(v, e) \/ \E f \in Failures : PostFails(v, e, f)
      PROVE  holder' = holder
  BY <1>6 DEF PostOk, PostFails, Handling
<1>7. ASSUME NEW v \in Workers, Crash(v) \/ DeadlockAbort(v) \/ Commit(v)
      PROVE  EndTransaction(v)
  BY <1>7 DEF Crash, DeadlockAbort, Commit
<1> QED
  BY <1>2, <1>3, <1>4, <1>5, <1>6, <1>7 DEF Next, Environment, Work, Post

\* A worker of an IN_ORDER consumer locks upwards.
LEMMA LockOrderStep ==
    ASSUME TypeOK, DeliveryInv, OrderInv, LockOrder, [Next]_vars
    PROVE  LockOrder'
<1> SUFFICES ASSUME NEW w \in Workers, NEW d \in Events, NEW e \in Events,
                    pc'[w] = "lock", holder'[d] = w, e \in cand'[w]
             PROVE  d < e
  BY DEF LockOrder
<1>1. ASSUME NEW x \in Events, LockRow(w, x) PROVE d < e
  <2>1. /\ pc[w] = "lock" /\ x \in cand[w]
        /\ \A y \in cand[w] \ {x} : Before(w, x, y)
    BY <1>1 DEF LockRow, IsFirst
  <2>2. e \in cand[w] \ {x} BY <1>1, LockEffect
  <2>3. CASE d = x
    <3>1. Before(w, x, e) BY <2>1, <2>2
    <3>2. rank[w][x] = 0 /\ rank[w][e] = 0 BY DEF OrderInv
    <3> QED BY <2>3, <3>1, <3>2 DEF Before
  <2>4. CASE d # x
    <3>1. holder[d] = w BY <1>1, <2>4, LockEffect
    <3> QED BY <2>1, <2>2, <3>1 DEF LockOrder
  <2> QED BY <2>3, <2>4
<1>2. ASSUME holder[d] # w PROVE d < e
  BY <1>1, <1>2, GainsLock
<1>3. CASE holder[d] = w /\ pc'[w] = pc[w] /\ cand'[w] = cand[w]
  BY <1>3 DEF LockOrder
<1>4. CASE Select(w)
  <2>1. pc[w] = "select" BY <1>4 DEF Select
  <2> QED BY <1>2, <2>1 DEF DeliveryInv, LockInv
<1>5. CASE LocksTaken(w)
  BY <1>5 DEF LocksTaken, TypeOK
<1>6. ASSUME NEW x \in Events, PostOk(w, x) PROVE FALSE
  BY <1>6 DEF PostOk, Handling
<1> QED BY <1>1, <1>2, <1>3, <1>4, <1>5, <1>6, LocalStep

\* An IN_ORDER worker's invariant, the mode it loaded included.
LEMMA InOrderInvariant ==
    ASSUME Modes = {IN_ORDER}
    PROVE  Spec => [](LoadedInv /\ OrderInv /\ LockOrder)
<1>1. Init => LoadedInv /\ OrderInv /\ LockOrder
  BY WorkersAssumption DEF Init, LoadedInv, OrderInv, LockOrder
<1>2. /\ TypeOK /\ DeliveryInv /\ LoadedInv /\ OrderInv /\ LockOrder
      /\ [Next]_vars
      => LoadedInv' /\ OrderInv' /\ LockOrder'
  BY LoadedStep, OrderStep, LockOrderStep
<1> QED BY <1>1, <1>2, TypeCorrect, DeliveryInvariant, PTL DEF Spec

\* try_send_events, mode IN_ORDER: rows, locks, snapshots and what the consumer
\* received fit together, which is why the order of delivery survives retries,
\* crashes and heartbeats that run side by side.
THEOREM InOrderInvHolds ==
    ASSUME Modes = {IN_ORDER}
    PROVE  Spec => []InOrderInv
<1> QED BY DeliveredInOrder, DeliveryInvariant, InOrderInvariant, PTL DEF InOrderInv

\* In a cycle of waiting workers the row each one waits for would come before
\* the row its holder waits for: the last of these rows has no successor.
LEMMA NoCycle ==
    ASSUME TypeOK, LockOrder, NEW S \in SUBSET Workers, S # {} PROVE ~Deadlocked(S)
<1> SUFFICES ASSUME Deadlocked(S) PROVE FALSE
  OBVIOUS
<1> DEFINE After(e) == {x \in Events : x > e}
           Awaited == {e \in Events : \E w \in S : e \in cand[w] /\ holder[e] \in S}
           Left == {Cardinality(After(e)) : e \in Awaited}
<1>1. ASSUME NEW w \in S PROVE pc[w] = "lock" /\ \E e \in cand[w] : holder[e] \in S
  BY <1>1 DEF Deadlocked, IsFirst
<1>2. \A w \in S : \E e \in Awaited : e \in cand[w]
  BY <1>1 DEF TypeOK
<1>3. \A e \in Awaited : \E d \in Awaited : e < d
  <2> SUFFICES ASSUME NEW e \in Awaited PROVE \E d \in Awaited : e < d
    OBVIOUS
  <2>1. PICK d \in Awaited : d \in cand[holder[e]]
    BY <1>2
  <2>2. pc[holder[e]] = "lock" BY <1>1
  <2> QED BY <2>1, <2>2 DEF LockOrder
<1>4. ASSUME NEW e \in Events PROVE IsFiniteSet(After(e)) /\ Cardinality(After(e)) \in Nat
  BY EventsAssumption, FS_Subset, FS_CardinalityType
<1>5. ASSUME NEW e \in Awaited, NEW d \in Awaited, e < d
      PROVE  Cardinality(After(d)) < Cardinality(After(e))
  <2>1. e \in Nat /\ d \in Nat /\ Events \subseteq Nat BY EventsAssumption
  <2>2. After(d) \subseteq After(e) /\ d \in After(e) /\ d \notin After(d)
    <3>1. \A x \in Nat : x > d => x > e BY <1>5, <2>1
    <3>2. d > e /\ ~(d > d) BY <1>5, <2>1
    <3> QED BY <2>1, <3>1, <3>2
  <2>3. /\ Cardinality(After(d)) <= Cardinality(After(e))
        /\ Cardinality(After(e)) # Cardinality(After(d))
    BY <1>4, <2>2, FS_Subset
  <2>4. Cardinality(After(d)) \in Nat /\ Cardinality(After(e)) \in Nat
    BY <1>4
  <2> HIDE DEF After
  <2> QED BY <2>3, <2>4
<1>6. Left # {} /\ Left \subseteq Nat
  BY <1>2, <1>4
<1>7. PICK n \in Left : \A m \in Left : <<m, n>> \notin OpToRel(<, Nat)
  <2> HIDE DEF Left
  <2> QED BY <1>6, NatLessThanWellFounded, WFMin
<1>8. PICK e \in Awaited : n = Cardinality(After(e))
  OBVIOUS
<1>9. PICK d \in Awaited : e < d
  BY <1>3
<1>10. Cardinality(After(d)) < n /\ Cardinality(After(d)) \in Left
  BY <1>5, <1>8, <1>9
<1>11. Cardinality(After(d)) \in Nat /\ n \in Nat
  BY <1>6, <1>10
<1> HIDE DEF After, Left
<1>12. <<Cardinality(After(d)), n>> \in OpToRel(<, Nat)
  BY <1>10, <1>11 DEF OpToRel
<1> QED BY <1>7, <1>10, <1>12

\* order_by and select_for_update: heartbeats of an IN_ORDER consumer never wait
\* for each other in a circle, however the rows change under them.
THEOREM LocksNeverCycle ==
    ASSUME Modes = {IN_ORDER}
    PROVE  Spec => []NoLockCycle
<1>1. TypeOK /\ LockOrder => NoLockCycle
  BY NoCycle DEF NoLockCycle
<1> QED BY <1>1, TypeCorrect, InOrderInvariant, PTL

----------------------------------------------------------------------------
(* ConsumerDelivery implements EventOutbox *)

\* The state of a row as EventOutbox sees it.
Seen(row) == IF row.st = "ABSENT" THEN "future"
             ELSE IF row.st \in Open THEN "pending" ELSE "closed"
Status == [e \in Events |-> Seen(ev[e])]
Reached == {e \in Events : accepted[e] > 0}

\* The outbox is empty at first.
LEMMA OutboxInit ==
    ASSUME Init PROVE Outbox!Init
  BY DEF Init, Blank, Outbox!Init

\* An event published after a later one was picked up: that one is published.
LEMMA LateMarked ==
    ASSUME TypeOK, LockInv, NEW e \in Events,
           late' = IF \E d \in Events : e < d /\ PickedUp(d)
                   THEN late \cup {e} ELSE late
    PROVE  \/ late' = late
           \/ /\ \E d \in Events : e < d /\ Status[d] # "future"
              /\ late' = late \cup {e}
<1> SUFFICES ASSUME NEW d \in Events, e < d, PickedUp(d), late' = late \cup {e}
             PROVE  Status[d] # "future"
  OBVIOUS
<1>1. ev[d].st # "ABSENT"
  BY WorkersAssumption DEF PickedUp, LockInv, Open
<1> QED BY <1>1 DEF Status, Seen, Open

\* A commit of a write publishes its event.
LEMMA PublishStep ==
    ASSUME TypeOK, LockInv, NEW e \in Events, CommitEvent(e)
    PROVE  Outbox!Publish(e)
<1>1. /\ ev[e].st = "ABSENT" /\ accepted' = accepted
      /\ ev' = [ev EXCEPT ![e] = Blank("NEW")]
  BY DEF CommitEvent
<1>2. /\ Status[e] = "future"
      /\ Status' = [Status EXCEPT ![e] = "pending"]
      /\ Reached' = Reached
  BY <1>1 DEF Status, Reached, Seen, Blank, Open, TypeOK
<1>3. \/ late' = late
      \/ /\ \E d \in Events : e < d /\ Status[d] # "future"
         /\ late' = late \cup {e}
  BY LateMarked DEF CommitEvent
<1> QED BY <1>2, <1>3 DEF Outbox!Publish, Outbox!MarkOvertaken, Status, Reached, Seen

\* A truncation drops all events but its own.
LEMMA TruncateStep ==
    ASSUME TypeOK, LockInv, NEW e \in Events, TruncateEvents(e)
    PROVE  Outbox!Truncate(e)
<1>1. /\ ev[e].st = "ABSENT" /\ accepted' = accepted
      /\ ev' = [d \in Events |->
                   IF d = e THEN Blank("NEW")
                   ELSE IF ev[d].st = "ABSENT" THEN ev[d] ELSE Blank("GONE")]
  BY DEF TruncateEvents
<1>2. /\ Status[e] = "future"
      /\ Status' = [d \in Events |-> IF d = e THEN "pending"
                                     ELSE IF Status[d] = "future" THEN "future"
                                     ELSE "closed"]
      /\ Reached' = Reached
  BY <1>1 DEF Status, Reached, Seen, Blank, Open
<1>3. \/ late' = late
      \/ /\ \E d \in Events : e < d /\ Status[d] # "future"
         /\ late' = late \cup {e}
  BY LateMarked DEF TruncateEvents
<1> QED BY <1>2, <1>3 DEF Outbox!Truncate, Outbox!MarkOvertaken, Status, Reached, Seen

\* An answered POST is a delivery: the first row of an IN_ORDER batch has only
\* settled or overtaken rows before it.
LEMMA DeliverStep ==
    ASSUME TypeOK, DeliveryInv, OrderInv, NEW w \in Workers, NEW e \in Events,
           PostOk(w, e) \/ \E f \in Failures : PostFails(w, e, f)
    PROVE  Outbox!Deliver(e) \/ UNCHANGED Outbox!outboxVars
<1>1. /\ UNCHANGED <<ev, late>> /\ ev[e].st \in Open
      /\ e \in batch[w] /\ pc[w] = "send"
      /\ accepted'[e] \in {accepted[e], accepted[e] + 1}
      /\ \A d \in Events : d # e => accepted'[d] = accepted[d]
  BY PostEffect DEF DeliveryInv
<1>2. IsFirst(w, e, batch[w])
  BY DEF PostOk, PostFails, Handling
<1>3. ASSUME NEW d \in Events, d < e, Status[d] = "pending"
      PROVE  d \in Reached \cup late
  <2>1. ev[d].st \in Open BY <1>3 DEF Status, Seen
  <2>2. rank[w][d] = 0 /\ rank[w][e] = 0 BY DEF OrderInv
  <2>3. d \notin batch[w]
    <3>1. d \in batch[w] => Before(w, e, d) BY <1>2, <1>3, EventsAssumption DEF IsFirst
    <3> QED BY <1>3, <2>2, <3>1, EventsAssumption DEF Before
  <2>4. d \notin cand[w]
    <3>1. d \in cand[w] => e < d BY <1>1 DEF OrderInv
    <3> QED BY <1>3, <3>1, EventsAssumption
  <2>5. d \notin late => Settled(d)
    BY <1>1, <1>3, <2>3, <2>4 DEF OrderInv
  <2> QED BY <2>1, <2>5 DEF Settled, Open, Reached
<1>4. Status[e] = "pending" BY <1>1 DEF Status, Seen, Open
<1>5. Status' = Status BY <1>1 DEF Status, Seen
<1>6. Reached' = Reached \/ Reached' = Reached \cup {e}
  <2>1. \A d \in Events : d # e => (accepted'[d] > 0 <=> accepted[d] > 0)
    BY <1>1
  <2>2. accepted[e] > 0 => accepted'[e] > 0
    BY <1>1 DEF TypeOK
  <2>3. CASE accepted'[e] > 0
    <3>1. Reached' = Reached \cup {e} BY <2>1, <2>3 DEF Reached
    <3> QED BY <3>1
  <2>4. CASE ~(accepted'[e] > 0)
    <3>1. Reached' = Reached BY <2>1, <2>2, <2>4 DEF Reached
    <3> QED BY <3>1
  <2> QED BY <2>3, <2>4
<1>7. CASE Reached' = Reached \cup {e}
  BY <1>1, <1>3, <1>4, <1>5, <1>7 DEF Outbox!Deliver, Status, Reached, Seen
<1>8. CASE Reached' = Reached
  BY <1>1, <1>5, <1>8 DEF Outbox!outboxVars, Status, Reached, Seen
<1> QED BY <1>6, <1>7, <1>8

\* A commit settles what the transaction finished: events the consumer
\* processed, and at most one that it gave up.
LEMMA SettleStep ==
    ASSUME TypeOK, DeliveryInv, NEW w \in Workers, Commit(w)
    PROVE  \E S \in SUBSET Events : Outbox!Settle(S)
<1> DEFINE S == {e \in Events : /\ holder[e] = w /\ ev[e].st \in Open
                                /\ tx[w][e].st \in Final}
           MayGiveUp == RetryMax > 0
<1>1. /\ ev' = [e \in Events |-> IF holder[e] = w THEN tx[w][e] ELSE ev[e]]
      /\ UNCHANGED <<accepted, late>>
  BY DEF Commit, history
<1>2. ASSUME NEW e \in Events, holder[e] = w
      PROVE  /\ tx[w][e].st \in Open \cup Final /\ ev[e].st \in Open \cup Final
             /\ ev[e].st \in Final => tx[w][e].st = ev[e].st
             /\ tx[w][e].st = "SUCCESS" => accepted[e] > 0
             /\ tx[w][e].st = "FAILED" => RetryMax > 0
  <2>1. tx[w][e] \in Row /\ ev[e] \in Row BY DEF TypeOK
  <2>2. RowOk(tx[w][e], accepted[e]) BY DEF DeliveryInv, RowInv
  <2> QED BY <1>2, <2>1, <2>2 DEF DeliveryInv, LockInv, RowOk, Row, States
<1>3. \A e \in S : Status[e] = "pending"
  BY DEF Status, Seen, Open
<1>4. S \subseteq Reached \/ (MayGiveUp /\ \E g \in S : S \ {g} \subseteq Reached)
  <2>1. CASE \E g \in S : tx[w][g].st = "FAILED"
    <3>1. PICK g \in S : tx[w][g].st = "FAILED" BY <2>1
    <3>2. GivesUp(w, g) BY <3>1 DEF GivesUp
    <3>3. \A e \in S : tx[w][e].st = "FAILED" => e = g
      BY <3>2 DEF DeliveryInv, OneFailure, GivesUp
    <3>4. S \ {g} \subseteq Reached
      BY <1>2, <3>3 DEF Reached, Final
    <3>5. MayGiveUp BY <1>2, <3>1
    <3> QED BY <3>4, <3>5
  <2>2. CASE ~ \E g \in S : tx[w][g].st = "FAILED"
    BY <1>2, <2>2 DEF Reached, Final
  <2> QED BY <2>1, <2>2
<1>5. ASSUME NEW e \in Events
      PROVE  Seen(IF holder[e] = w THEN tx[w][e] ELSE ev[e])
               = IF e \in S THEN "closed" ELSE Status[e]
  <2>1. CASE holder[e] = w
    BY <1>2, <2>1 DEF Status, Seen, Open, Final
  <2>2. CASE holder[e] # w
    BY <2>2 DEF Status
  <2> QED BY <2>1, <2>2
<1>6. Status' = [e \in Events |-> IF e \in S THEN "closed" ELSE Status[e]]
  <2>1. Status' = [e \in Events |-> Seen(IF holder[e] = w THEN tx[w][e] ELSE ev[e])]
    BY <1>1 DEF Status, Seen
  <2> HIDE DEF S
  <2> QED BY <1>5, <2>1
<1>7. Reached' = Reached BY <1>1 DEF Reached
<1>8. PICK T \in SUBSET Events : T = S OBVIOUS
<1> HIDE DEF S
<1>9. Outbox!Settle(T)
  BY <1>1, <1>3, <1>4, <1>6, <1>7, <1>8 DEF Outbox!Settle, Status, Reached, Seen
<1> QED BY <1>9

\* A row that neither appears nor is finished looks the same from outside.
LEMMA LooksTheSame ==
    ASSUME UNCHANGED <<accepted, late>>,
           \A d \in Events : Seen(ev'[d]) = Seen(ev[d])
    PROVE  UNCHANGED Outbox!outboxVars
  BY DEF Outbox!outboxVars, Seen

\* Every step of the delivery is one of the outbox, or leaves it as it is.
LEMMA OutboxStep ==
    ASSUME TypeOK, DeliveryInv, OrderInv, [Next]_vars
    PROVE  [Outbox!Next]_(Outbox!outboxVars)
<1> USE DEF history, workerVars
<1>1. ASSUME NEW e \in Events, CommitEvent(e) PROVE Outbox!Next
  BY <1>1, PublishStep DEF Outbox!Next, DeliveryInv
<1>2. ASSUME NEW e \in Events, TruncateEvents(e) PROVE Outbox!Next
  BY <1>2, TruncateStep DEF Outbox!Next, DeliveryInv
<1>3. ASSUME NEW w \in Workers, NEW e \in Events,
             PostOk(w, e) \/ \E f \in Failures : PostFails(w, e, f)
      PROVE  Outbox!Next \/ UNCHANGED Outbox!outboxVars
  BY <1>3, DeliverStep DEF Outbox!Next
<1>4. ASSUME NEW w \in Workers, Commit(w) PROVE Outbox!Next
  BY <1>4, SettleStep DEF Outbox!Next
<1>5. ASSUME NEW S \in SUBSET Events, DeleteOldEvents(S)
      PROVE  UNCHANGED Outbox!outboxVars
  <2>1. UNCHANGED <<accepted, late>> BY <1>5 DEF DeleteOldEvents
  <2>2. \A d \in Events : \/ ev'[d] = ev[d]
                          \/ ev[d].st \in Final /\ ev'[d] = Blank("GONE")
    BY <1>5 DEF DeleteOldEvents
  <2>3. \A d \in Events : Seen(ev'[d]) = Seen(ev[d])
    BY <2>2 DEF Seen, Final, Open, Blank
  <2> QED BY <2>1, <2>3, LooksTheSame
<1>6. ASSUME NEW e \in Events, Tick(e) PROVE UNCHANGED Outbox!outboxVars
  <2>1. UNCHANGED <<accepted, late>> BY <1>6 DEF Tick
  <2>2. \E w : w \in Workers BY WorkersAssumption
  <2>3. \A d \in Events : ev'[d].st = ev[d].st BY <1>6, <2>2, TickEffect
  <2>4. \A d \in Events : Seen(ev'[d]) = Seen(ev[d]) BY <2>3 DEF Seen
  <2> QED BY <2>1, <2>4, LooksTheSame
<1>7. ASSUME UNCHANGED <<ev, accepted, late>> PROVE UNCHANGED Outbox!outboxVars
  BY <1>7, LooksTheSame
<1>8. ASSUME \/ \E m \in Modes : SetMode(m)
             \/ DeleteConsumer \/ Wake \/ ExpireWake \/ UNCHANGED vars
             \/ \E w \in Workers : \/ Crash(w) \/ StartTask(w) \/ Dequeue(w)
                                   \/ Select(w) \/ LocksTaken(w) \/ StopSending(w)
                                   \/ DeadlockAbort(w)
                                   \/ \E e \in Events : LockRow(w, e)
      PROVE  UNCHANGED <<ev, accepted, late>>
  BY <1>8 DEF SetMode, DeleteConsumer, Wake, ExpireWake, vars, Crash, StartTask,
              Dequeue, Select, LocksTaken, StopSending, DeadlockAbort, LockRow
<1> QED
  BY <1>1, <1>2, <1>3, <1>4, <1>5, <1>6, <1>7, <1>8 DEF Next, Environment, Work, Post

\* Delivery to an IN_ORDER consumer, with its retries, concurrent heartbeats,
\* crashes, truncation and clean up, does what EventOutbox promises.
THEOREM DeliveryImplementsOutbox ==
    ASSUME Modes = {IN_ORDER}
    PROVE  Spec => ImplementsOutbox
<1>1. TypeOK /\ DeliveryInv /\ OrderInv /\ [Next]_vars
        => [Outbox!Next]_(Outbox!outboxVars)
  BY OutboxStep
<1>2. Init => Outbox!Init
  BY OutboxInit
<1> QED
  BY <1>1, <1>2, TypeCorrect, DeliveryInvariant, InOrderInvariant, PTL
     DEF Spec, ImplementsOutbox, Outbox!Spec
============================================================================
