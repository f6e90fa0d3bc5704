----------------------- MODULE ConsumerDelivery_proofs -----------------------
(* Proofs about ConsumerDelivery, for every value of its constants. *)
EXTENDS ConsumerDelivery, TLAPS

USE NumbersAssumption
USE DEF Unfinished, SortKey, Unlocked, BatchFull, Exhausted

\* The row operators stay within Row.
LEMMA RowType ==
    ASSUME NEW row \in Row, NEW limited \in BOOLEAN
    PROVE  /\ NewCycle(row) \in Row
           /\ Succeeded(row) \in Row
           /\ Failed(row, limited) \in Row
<1> /\ row.cycles + 1 \in Nat /\ row.inCycle + 1 \in Nat
    /\ row.retries + 1 \in Nat /\ 0 \in Nat
  BY DEF Row
<1>1. NewCycle(row) \in Row
  BY DEF NewCycle, Row
<1>2. Succeeded(row) \in Row
  <2> "SUCCESS" \in States BY DEF States, Final
  <2> QED BY <1>1 DEF Succeeded, Row
<1>3. Failed(row, limited) \in Row
  <2> DEFINE r == NewCycle(row)
             retries == r.retries + 1
             inCycle == r.inCycle + 1
             handle == IF limited \/ inCycle >= BackoffEvery
                       THEN "waiting" ELSE r.handle
             st == IF RetryMax > 0 /\ retries > RetryMax
                   THEN "FAILED" ELSE "RETRY"
  <2>1. r \in Row BY <1>1
  <2>2. [r EXCEPT !.retries = retries, !.inCycle = inCycle,
                  !.handle = handle, !.st = st] \in Row
    <3>1. st \in States BY DEF States, Final, Open
    <3>2. handle \in Handles BY <2>1 DEF Handles, Row
    <3>3. retries \in Nat /\ inCycle \in Nat BY <2>1 DEF Row
    <3> HIDE DEF r, retries, inCycle, handle, st
    <3> QED BY <2>1, <3>1, <3>2, <3>3 DEF Row
  <2>3. [row EXCEPT !.handle = "waiting"] \in Row
    BY DEF Row, Handles
  <2> QED BY <2>2, <2>3 DEF Failed
<1> QED BY <1>1, <1>2, <1>3

\* A row that was never sent is a row.
LEMMA BlankType == \A st \in States : Blank(st) \in Row
  BY DEF Blank, Row, Handles

\* What the end of a transaction and of a task leave of the worker's locals.
LEMMA EndType ==
    ASSUME TypeOK, NEW w \in Workers, EndTransaction(w)
    PROVE  /\ holder' \in [Events -> Workers \cup {None}]
           /\ rank' \in [Workers -> [Events -> Nat]]
           /\ cand' \in [Workers -> SUBSET Events]
           /\ batch' \in [Workers -> SUBSET Events]
           /\ tx' \in [Workers -> [Events -> Row]]
           /\ cnt' \in [Workers -> 0 .. MaxEvents]
           /\ more' \in [Workers -> BOOLEAN]
<1> "ABSENT" \in States BY DEF States
<1> [e \in Events |-> Blank("ABSENT")] \in [Events -> Row] BY BlankType
<1> 0 \in 0 .. MaxEvents OBVIOUS
<1> QED BY DEF TypeOK, EndTransaction

\* Everything has its type at first.
LEMMA TypeInit ==
    ASSUME Init PROVE TypeOK
<1> "ABSENT" \in States BY DEF States
<1> Blank("ABSENT") \in Row BY BlankType
<1>1. consumer \in [mode : Modes, alive : BOOLEAN] BY DEF Init
<1>2. 0 \in 0 .. MaxWakes /\ 0 \in 0 .. MaxEvents /\ 0 \in 0 .. MaxCrashes
  OBVIOUS
<1>3. [e \in Events |-> Blank("ABSENT")] \in [Events -> Row] OBVIOUS
<1> QED BY <1>1, <1>2, <1>3 DEF Init, TypeOK

\* Types hold in every reachable state.
THEOREM TypeCorrect == Spec => []TypeOK
<1>1. Init => TypeOK BY TypeInit
<1>2. TypeOK /\ [Next]_vars => TypeOK'
  <2> SUFFICES ASSUME TypeOK, [Next]_vars PROVE TypeOK' OBVIOUS
  <2> /\ Blank("NEW") \in Row /\ Blank("GONE") \in Row
    BY BlankType DEF States, Open
  <2>1. ASSUME NEW e \in Events, CommitEvent(e) PROVE TypeOK'
    BY <2>1 DEF CommitEvent, TypeOK, workerVars
  <2>2. ASSUME NEW e \in Events, TruncateEvents(e) PROVE TypeOK'
    BY <2>2 DEF TruncateEvents, TypeOK, workerVars
  <2>3. ASSUME NEW e \in Events, Tick(e) PROVE TypeOK'
    <3> DEFINE Age(row) == IF row.handle = "waiting"
                           THEN [row EXCEPT !.handle = "due"] ELSE row
    <3>1. \A row \in Row : Age(row) \in Row BY DEF Row, Handles
    <3>2. /\ ev' = [ev EXCEPT ![e] = Age(ev[e])]
          /\ tx' = [w \in Workers |-> [tx[w] EXCEPT ![e] = Age(tx[w][e])]]
          /\ UNCHANGED <<holder, consumer, job, wakes, pc, seen, rank, cand,
                         batch, cnt, total, more, history>>
      BY <2>3 DEF Tick
    <3> HIDE DEF Age
    <3> QED BY <3>1, <3>2 DEF TypeOK, history
  <2>4. ASSUME NEW S \in SUBSET Events, DeleteOldEvents(S) PROVE TypeOK'
    BY <2>4 DEF DeleteOldEvents, TypeOK, workerVars, history
  <2>5. ASSUME NEW m \in Modes, SetMode(m) PROVE TypeOK'
    BY <2>5 DEF SetMode, TypeOK, workerVars, history
  <2>6. CASE DeleteConsumer \/ Wake \/ ExpireWake
    <3>1. CASE DeleteConsumer
      BY <3>1 DEF DeleteConsumer, TypeOK, workerVars, history
    <3>2. CASE Wake
      <4> wakes' \in 0 .. MaxWakes BY <3>2 DEF Wake, TypeOK
      <4> QED BY <3>2 DEF Wake, TypeOK, workerVars, history
    <3>3. CASE ExpireWake
      <4> wakes' \in 0 .. MaxWakes BY <3>3 DEF ExpireWake, TypeOK
      <4> QED BY <3>3 DEF ExpireWake, TypeOK, workerVars, history
    <3> QED BY <2>6, <3>1, <3>2, <3>3
  <2>7. ASSUME NEW w \in Workers, Crash(w) PROVE TypeOK'
    BY <2>7, EndType DEF Crash, EndTask, TypeOK, history
  <2>8. ASSUME NEW w \in Workers, StartTask(w) PROVE TypeOK'
    BY <2>8 DEF StartTask, TypeOK, history
  <2>9. ASSUME NEW w \in Workers, Work(w) PROVE TypeOK'
    <3>1. CASE Dequeue(w)
      <4>1. seen' \in [Workers -> Modes \cup {None}]
        BY <3>1 DEF Dequeue, EndTask, TypeOK
      <4>2. pc' \in [Workers -> {"idle", "dequeue", "select", "lock", "send", "commit"}]
        BY <3>1 DEF Dequeue, EndTask, TypeOK
      <4>3. total' \in [Workers -> Nat]
        <5>1. total' = total \/ total' = [total EXCEPT ![w] = 0]
          BY <3>1 DEF Dequeue, EndTask
        <5>2. total \in [Workers -> Nat] BY DEF TypeOK
        <5> QED BY <5>1, <5>2
      <4>4. /\ job' \in BOOLEAN
            /\ UNCHANGED <<ev, holder, consumer, wakes, rank, cand, batch, tx,
                           cnt, more, history>>
        BY <3>1 DEF Dequeue
      <4> QED BY <4>1, <4>2, <4>3, <4>4 DEF TypeOK, history
    <3>2. CASE Select(w)
      <4> \A e \in Events : ev[e].retries \in Nat BY DEF TypeOK, Row
      <4> QED BY <3>2 DEF Select, TypeOK, history
    <3>3. CASE LocksTaken(w)
      BY <3>3 DEF LocksTaken, TypeOK, history
    <3>4. CASE StopSending(w)
      <4>1. cnt' \in [Workers -> 0 .. MaxEvents]
        <5>1. cnt \in [Workers -> 0 .. MaxEvents] BY DEF TypeOK
        <5>2. \/ cnt' = cnt
              \/ cnt[w] < MaxEvents /\ cnt' = [cnt EXCEPT ![w] = cnt[w] + 1]
          BY <3>4, <5>1 DEF StopSending
        <5>3. cnt[w] < MaxEvents => cnt[w] + 1 \in 0 .. MaxEvents BY <5>1
        <5> QED BY <5>1, <5>2, <5>3
      <4>2. more' \in [Workers -> BOOLEAN]
        BY <3>4 DEF StopSending, TypeOK
      <4> QED BY <3>4, <4>1, <4>2 DEF StopSending, TypeOK, history
    <3>5. ASSUME NEW e \in Events, LockRow(w, e) PROVE TypeOK'
      <4>1. holder' \in [Events -> Workers \cup {None}]
        <5>1. holder' = holder \/ holder' = [holder EXCEPT ![e] = w]
          BY <3>5 DEF LockRow
        <5> QED BY <5>1 DEF TypeOK
      <4>2. tx' \in [Workers -> [Events -> Row]]
        <5>1. tx' = tx \/ tx' = [tx EXCEPT ![w][e] = ev[e]]
          BY <3>5 DEF LockRow
        <5>2. tx \in [Workers -> [Events -> Row]] /\ ev[e] \in Row BY DEF TypeOK
        <5>3. [tx[w] EXCEPT ![e] = ev[e]] \in [Events -> Row] BY <5>2
        <5> QED BY <5>1, <5>2, <5>3
      <4>3. batch' \in [Workers -> SUBSET Events]
        BY <3>5 DEF LockRow, TypeOK
      <4> QED BY <3>5, <4>1, <4>2, <4>3 DEF LockRow, TypeOK, history
    <3>6. ASSUME NEW e \in Events, PostOk(w, e) PROVE TypeOK'
      <4>1. tx[w][e] \in Row BY DEF TypeOK
      <4>2. Succeeded(tx[w][e]) \in Row BY <4>1, RowType
      <4>3. tx' \in [Workers -> [Events -> Row]]
        BY <3>6, <4>2 DEF PostOk, TypeOK
      <4>4. cnt' \in [Workers -> 0 .. MaxEvents]
        BY <3>6 DEF PostOk, Handling, TypeOK
      <4>5. accepted' \in [Events -> Nat]
        BY <3>6 DEF PostOk, TypeOK
      <4> QED BY <3>6, <4>3, <4>4, <4>5 DEF PostOk, Handling, TypeOK
    <3>7. ASSUME NEW e \in Events, NEW f \in Failures, PostFails(w, e, f)
          PROVE  TypeOK'
      <4>1. tx[w][e] \in Row BY DEF TypeOK
      <4>2. Failed(tx[w][e], f = "limited") \in Row BY <4>1, RowType
      <4>3. tx' \in [Workers -> [Events -> Row]]
        BY <3>7, <4>2 DEF PostFails, TypeOK
      <4>4. cnt' \in [Workers -> 0 .. MaxEvents]
        BY <3>7 DEF PostFails, Handling, TypeOK
      <4>5. accepted' \in [Events -> Nat]
        BY <3>7 DEF PostFails, TypeOK
      <4> QED BY <3>7, <4>3, <4>4, <4>5 DEF PostFails, Handling, TypeOK
    <3>8. CASE Commit(w)
      <4>1. ev' \in [Events -> Row]
        BY <3>8 DEF Commit, TypeOK
      <4>2. wakes' \in 0 .. MaxWakes
        BY <3>8 DEF Commit, TypeOK
      <4>3. total' \in [Workers -> Nat]
        <5>1. \/ total' = [total EXCEPT ![w] = total[w] + cnt[w]]
              \/ total' = [total EXCEPT ![w] = 0]
          BY <3>8 DEF Commit
        <5>2. total[w] + cnt[w] \in Nat BY DEF TypeOK
        <5>3. total \in [Workers -> Nat] BY DEF TypeOK
        <5> QED BY <5>1, <5>2, <5>3
      <4>4. pc' \in [Workers -> {"idle", "dequeue", "select", "lock", "send", "commit"}]
            /\ seen' \in [Workers -> Modes \cup {None}]
        BY <3>8 DEF Commit, TypeOK
      <4> QED BY <3>8, <4>1, <4>2, <4>3, <4>4, EndType DEF Commit, TypeOK, history
    <3>9. CASE DeadlockAbort(w)
      BY <3>9, EndType DEF DeadlockAbort, EndTask, TypeOK, history
    <3> QED BY <2>9, <3>1, <3>2, <3>3, <3>4, <3>5, <3>6, <3>7, <3>8, <3>9
            DEF Work, Post
  <2>10. CASE UNCHANGED vars
    BY <2>10 DEF vars, workerVars, history, TypeOK
  <2> QED
    BY <2>1, <2>2, <2>3, <2>4, <2>5, <2>6, <2>7, <2>8, <2>9, <2>10
    DEF Next, Environment
<1> QED BY <1>1, <1>2, PTL DEF Spec

----------------------------------------------------------------------------
(* Rows *)

\* A row that was never sent needs nothing to have been processed.
LEMMA RowOkBlank ==
    ASSUME NEW st \in {"ABSENT", "GONE", "NEW"}, NEW acc \in Nat
    PROVE  RowOk(Blank(st), acc)
  BY DEF RowOk, Blank, Open

\* What is accounted for stays so when the consumer processes more.
LEMMA RowOkMono ==
    ASSUME NEW row, NEW a \in Nat, NEW b \in Nat, a <= b, RowOk(row, a)
    PROVE  RowOk(row, b)
  BY DEF RowOk

\* Time passing does not change the accounting.
LEMMA RowOkAge ==
    ASSUME NEW row \in Row, NEW acc \in Nat, RowOk(row, acc)
    PROVE  RowOk([row EXCEPT !.handle = "due"], acc)
  BY DEF RowOk, Row

\* A new cycle keeps the accounting and makes room for the next attempt.
LEMMA RowOkCycle ==
    ASSUME NEW row \in Row, NEW acc \in Nat, RowOk(row, acc),
           row.handle # "waiting"
    PROVE  /\ RowOk(NewCycle(row), acc)
           /\ NewCycle(row).inCycle < BackoffEvery
           /\ NewCycle(row).retries = row.retries
           /\ NewCycle(row).st = row.st
<1>1. CASE row.inCycle < BackoffEvery
  BY <1>1 DEF NewCycle, RowOk, Row
<1>2. CASE row.inCycle = BackoffEvery
  <2>1. row.handle = "due" BY <1>2 DEF RowOk, Row, Handles
  <2>2. NewCycle(row) = [row EXCEPT !.cycles = row.cycles + 1, !.inCycle = 0]
    BY <1>2, <2>1 DEF NewCycle, Row
  <2>3. (row.cycles + 1) * BackoffEvery = row.cycles * BackoffEvery + BackoffEvery
    BY DEF Row
  <2> QED BY <1>2, <2>1, <2>2, <2>3 DEF RowOk, Row
<1> QED BY <1>1, <1>2 DEF RowOk, Row

\* An attempt that succeeds is accounted for, with the consumer's processing of it.
LEMMA RowOkSucceeded ==
    ASSUME NEW row \in Row, NEW acc \in Nat, RowOk(row, acc),
           row.handle # "waiting"
    PROVE  RowOk(Succeeded(row), acc + 1)
<1>1. RowOk(NewCycle(row), acc) /\ NewCycle(row) \in Row
  BY RowOkCycle, RowType
<1> QED BY <1>1 DEF Succeeded, RowOk, Row, Open

\* So is one that fails.
LEMMA RowOkFailed ==
    ASSUME NEW row \in Row, NEW acc \in Nat, RowOk(row, acc),
           row.handle # "waiting", row.st \in Open, NEW limited \in BOOLEAN
    PROVE  RowOk(Failed(row, limited), acc)
<1> DEFINE r == NewCycle(row)
           retries == r.retries + 1
           inCycle == r.inCycle + 1
           handle == IF limited \/ inCycle >= BackoffEvery
                     THEN "waiting" ELSE r.handle
           st == IF RetryMax > 0 /\ retries > RetryMax THEN "FAILED" ELSE "RETRY"
           new == [r EXCEPT !.retries = retries, !.inCycle = inCycle,
                            !.handle = handle, !.st = st]
<1>1. /\ r \in Row /\ RowOk(r, acc) /\ r.inCycle < BackoffEvery /\ r.st = row.st
  BY RowOkCycle, RowType
<1>2. CASE row.retries > RetryBound
  <2>1. Failed(row, limited) = [row EXCEPT !.handle = "waiting"]
    BY <1>2 DEF Failed
  <2> QED BY <2>1 DEF RowOk, Row
<1>3. CASE ~(row.retries > RetryBound)
  <2>1. Failed(row, limited) = new
    BY <1>3 DEF Failed
  <2>2. /\ new.st = st /\ new.retries = retries /\ new.inCycle = inCycle
        /\ new.handle = handle /\ new.cycles = r.cycles
    BY <1>1 DEF Row
  <2>3. r.retries \in Nat /\ r.inCycle \in Nat /\ r.cycles \in Nat
    BY <1>1 DEF Row
  <2>4. r.retries = r.cycles * BackoffEvery + r.inCycle
    BY <1>1 DEF RowOk
  <2>5. r.cycles * BackoffEvery \in Nat BY <2>3
  <2>6. RetryMax > 0 => r.retries <= RetryMax
    BY <1>1 DEF RowOk
  <2> HIDE DEF new, r
  <2>7. /\ new.st = "FAILED" => RetryMax > 0 /\ new.retries = RetryMax + 1
        /\ new.st \in Open /\ RetryMax > 0 => new.retries <= RetryMax
        /\ new.st # "SUCCESS"
    BY <2>2, <2>3, <2>6 DEF Open
  <2>8. /\ new.retries = new.cycles * BackoffEvery + new.inCycle
        /\ new.inCycle <= BackoffEvery
    BY <1>1, <2>2, <2>3, <2>4, <2>5
  <2>9. new.inCycle = BackoffEvery => new.handle # "unset"
    BY <2>2, <2>3
  <2> QED BY <2>1, <2>7, <2>8, <2>9 DEF RowOk
<1> QED BY <1>2, <1>3

----------------------------------------------------------------------------
(* What the actions do to one row or one worker *)

\* A transaction that ends leaves nothing locked, and the other workers alone.
LEMMA EndEffect ==
    ASSUME TypeOK, NEW w \in Workers, EndTransaction(w),
           NEW v \in Workers, NEW e \in Events
    PROVE  /\ holder'[e] # w
           /\ v # w => /\ holder'[e] = v <=> holder[e] = v
                       /\ rank'[v] = rank[v] /\ cand'[v] = cand[v]
                       /\ batch'[v] = batch[v] /\ tx'[v] = tx[v]
           /\ rank'[w][e] = 0 /\ cand'[w] = {} /\ batch'[w] = {}
           /\ tx'[w][e] = Blank("ABSENT")
  BY WorkersAssumption DEF EndTransaction, TypeOK

\* Time makes a row due, in all its versions alike.
LEMMA TickEffect ==
    ASSUME TypeOK, NEW e \in Events, Tick(e), NEW d \in Events, NEW w \in Workers
    PROVE  /\ \/ ev'[d] = ev[d]
              \/ ev[d].handle = "waiting" /\ ev'[d] = [ev[d] EXCEPT !.handle = "due"]
           /\ \/ tx'[w][d] = tx[w][d]
              \/ /\ tx[w][d].handle = "waiting"
                 /\ tx'[w][d] = [tx[w][d] EXCEPT !.handle = "due"]
           /\ ev[d] = tx[w][d] => ev'[d] = tx'[w][d]
           /\ ev'[d].st = ev[d].st /\ tx'[w][d].st = tx[w][d].st
<1> DEFINE Age(row) == IF row.handle = "waiting"
                       THEN [row EXCEPT !.handle = "due"] ELSE row
<1>1. /\ ev' = [ev EXCEPT ![e] = Age(ev[e])]
      /\ tx' = [v \in Workers |-> [tx[v] EXCEPT ![e] = Age(tx[v][e])]]
  BY DEF Tick
<1>2. \A row \in Row : Age(row).st = row.st BY DEF Row
<1>3. ev'[d] = (IF d = e THEN Age(ev[d]) ELSE ev[d])
  BY <1>1 DEF TypeOK
<1>4. tx'[w][d] = (IF d = e THEN Age(tx[w][d]) ELSE tx[w][d])
  BY <1>1 DEF TypeOK
<1>5. ev[d] \in Row /\ tx[w][d] \in Row BY DEF TypeOK
<1> QED BY <1>2, <1>3, <1>4, <1>5

\* Handling a row touches that row of that worker only.
LEMMA PostEffect ==
    ASSUME TypeOK, LockInv, NEW w \in Workers, NEW e \in Events,
           \/ PostOk(w, e)
           \/ \E f \in Failures : PostFails(w, e, f),
           NEW v \in Workers, NEW d \in Events
    PROVE  /\ e \in batch[w] /\ holder[e] = w /\ pc[w] = "send"
           /\ ev[e].st \in Open /\ tx[w][e] = ev[e] /\ tx[w][e].handle # "waiting"
           /\ UNCHANGED <<ev, holder, cand, rank, late>>
           /\ v # w => /\ tx'[v] = tx[v] /\ batch'[v] = batch[v] /\ pc'[v] = pc[v]
           /\ d # e => /\ tx'[w][d] = tx[w][d] /\ accepted'[d] = accepted[d]
           /\ batch'[w] = batch[w] \ {e}
           /\ accepted'[e] \in {accepted[e], accepted[e] + 1}
           /\ \/ PostOk(w, e) /\ accepted'[e] = accepted[e] + 1
                 /\ tx'[w][e] = Succeeded(tx[w][e]) /\ pc'[w] = "send"
              \/ \E f \in Failures : /\ PostFails(w, e, f)
                                     /\ tx'[w][e] = Failed(tx[w][e], f = "limited")
                                     /\ pc'[w] = "commit"
<1>1. /\ e \in batch[w] /\ pc[w] = "send" /\ tx[w][e].handle # "waiting"
      /\ UNCHANGED <<ev, holder, cand, rank, late>>
      /\ batch' = [batch EXCEPT ![w] = batch[w] \ {e}]
  BY DEF PostOk, PostFails, Handling, IsFirst
<1>2. holder[e] = w /\ ev[e].st \in Open /\ tx[w][e] = ev[e]
  BY <1>1 DEF LockInv
<1>3. /\ batch'[w] = batch[w] \ {e}
      /\ v # w => batch'[v] = batch[v]
  BY <1>1 DEF TypeOK
<1>4. CASE PostOk(w, e)
  <2>1. /\ accepted' = [accepted EXCEPT ![e] = accepted[e] + 1]
        /\ tx' = [tx EXCEPT ![w][e] = Succeeded(tx[w][e])]
        /\ pc' = pc
    BY <1>4 DEF PostOk
  <2> QED BY <1>1, <1>2, <1>3, <1>4, <2>1 DEF TypeOK
<1>5. ASSUME NEW f \in Failures, PostFails(w, e, f)
      PROVE  /\ v # w => tx'[v] = tx[v] /\ pc'[v] = pc[v]
             /\ d # e => tx'[w][d] = tx[w][d] /\ accepted'[d] = accepted[d]
             /\ accepted'[e] \in {accepted[e], accepted[e] + 1}
             /\ PostFails(w, e, f)
             /\ tx'[w][e] = Failed(tx[w][e], f = "limited")
             /\ pc'[w] = "commit"
  <2>1. /\ \/ accepted' = [accepted EXCEPT ![e] = accepted[e] + 1]
           \/ accepted' = accepted
        /\ tx' = [tx EXCEPT ![w][e] = Failed(tx[w][e], f = "limited")]
        /\ pc' = [pc EXCEPT ![w] = "commit"]
    BY <1>5 DEF PostFails
  <2> QED BY <1>5, <2>1 DEF TypeOK
<1> QED BY <1>1, <1>2, <1>3, <1>4, <1>5

\* A worker that locks a row takes over the committed version of it.
LEMMA LockEffect ==
    ASSUME TypeOK, NEW w \in Workers, NEW e \in Events, LockRow(w, e),
           NEW v \in Workers, NEW d \in Events
    PROVE  /\ \/ tx'[v][d] = tx[v][d] /\ holder'[d] = holder[d]
                 /\ (v = w /\ d = e => ev[e].st = "GONE")
              \/ v = w /\ d = e /\ ev[e].st # "GONE"
                 /\ tx'[v][d] = ev[e] /\ holder'[d] = w
              \/ v # w /\ d = e /\ ev[e].st # "GONE"
                 /\ tx'[v][d] = tx[v][d] /\ holder'[d] = w
           /\ d \in cand'[v] <=> d \in cand[v] /\ (v # w \/ d # e)
           /\ d \in batch'[v] <=> \/ d \in batch[v]
                                  \/ v = w /\ d = e /\ ev[e].st \in Open
<1>1. /\ cand' = [cand EXCEPT ![w] = cand[w] \ {e}]
      /\ batch' = IF ev[e].st \in Open
                  THEN [batch EXCEPT ![w] = batch[w] \cup {e}] ELSE batch
      /\ ev[e].st = "GONE" => holder' = holder /\ tx' = tx
      /\ ev[e].st # "GONE" => /\ holder' = [holder EXCEPT ![e] = w]
                              /\ tx' = [tx EXCEPT ![w][e] = ev[e]]
  BY DEF LockRow
<1>2. cand'[v] = IF v = w THEN cand[v] \ {e} ELSE cand[v]
  BY <1>1 DEF TypeOK
<1>3. batch'[v] = IF v = w /\ ev[e].st \in Open
                  THEN batch[v] \cup {e} ELSE batch[v]
  BY <1>1 DEF TypeOK
<1>4. holder'[d] = IF d = e /\ ev[e].st # "GONE" THEN w ELSE holder[d]
  BY <1>1 DEF TypeOK
<1>5. tx'[v][d] = IF v = w /\ d = e /\ ev[e].st # "GONE"
                  THEN ev[e] ELSE tx[v][d]
  BY <1>1 DEF TypeOK
<1>6. d \in cand'[v] <=> d \in cand[v] /\ (v # w \/ d # e) BY <1>2
<1>7. d \in batch'[v] <=> d \in batch[v] \/ (v = w /\ d = e /\ ev[e].st \in Open)
  BY <1>3
<1> QED BY <1>4, <1>5, <1>6, <1>7

----------------------------------------------------------------------------
(* The inductive steps *)

\* Every action keeps the rows consistent with what the consumer received.
LEMMA RowStep ==
    ASSUME TypeOK, RowInv, LockInv, [Next]_vars
    PROVE  RowInv'
<1> SUFFICES ASSUME NEW d \in Events, NEW v \in Workers
             PROVE  /\ RowOk(ev'[d], accepted'[d])
                    /\ tx'[v][d].st # "GONE" /\ RowOk(tx'[v][d], accepted'[d])
  BY WorkersAssumption DEF RowInv, RowOk
<1> USE DEF history, workerVars
<1>0. /\ RowOk(ev[d], accepted[d]) /\ RowOk(tx[v][d], accepted[d])
      /\ tx[v][d].st # "GONE" /\ accepted[d] \in Nat
      /\ ev[d] \in Row /\ tx[v][d] \in Row
  BY DEF RowInv, TypeOK
<1>1. ASSUME NEW e \in Events, CommitEvent(e) \/ TruncateEvents(e)
      PROVE  RowOk(ev'[d], accepted'[d]) /\ tx'[v][d] = tx[v][d]
             /\ accepted'[d] = accepted[d]
  <2>1. /\ ev'[d] \in {ev[d], Blank("NEW"), Blank("GONE")}
        /\ tx' = tx /\ accepted' = accepted
    BY <1>1 DEF CommitEvent, TruncateEvents, TypeOK
  <2> QED BY <1>0, <2>1, RowOkBlank
<1>2. ASSUME NEW S \in SUBSET Events, DeleteOldEvents(S)
      PROVE  RowOk(ev'[d], accepted'[d]) /\ tx'[v][d] = tx[v][d]
             /\ accepted'[d] = accepted[d]
  <2>1. /\ ev'[d] \in {ev[d], Blank("GONE")}
        /\ tx' = tx /\ accepted' = accepted
    BY <1>2 DEF DeleteOldEvents, TypeOK
  <2> QED BY <1>0, <2>1, RowOkBlank
<1>3. ASSUME NEW e \in Events, Tick(e)
      PROVE  /\ RowOk(ev'[d], accepted'[d]) /\ RowOk(tx'[v][d], accepted'[d])
             /\ tx'[v][d].st # "GONE"
  <2>1. accepted' = accepted BY <1>3 DEF Tick
  <2> QED BY <1>0, <1>3, <2>1, TickEffect, RowOkAge
<1>4. ASSUME NEW w \in Workers, Crash(w) \/ DeadlockAbort(w)
      PROVE  /\ RowOk(ev'[d], accepted'[d]) /\ RowOk(tx'[v][d], accepted'[d])
             /\ tx'[v][d].st # "GONE"
  <2>1. ev' = ev /\ accepted' = accepted /\ EndTransaction(w)
    BY <1>4 DEF Crash, DeadlockAbort
  <2>2. tx'[v][d] = tx[v][d] \/ tx'[v][d] = Blank("ABSENT")
    BY <2>1, EndEffect
  <2> QED BY <1>0, <2>1, <2>2, RowOkBlank DEF Blank
<1>5. ASSUME NEW w \in Workers, Commit(w)
      PROVE  /\ RowOk(ev'[d], accepted'[d]) /\ RowOk(tx'[v][d], accepted'[d])
             /\ tx'[v][d].st # "GONE"
  <2>1. accepted' = accepted /\ EndTransaction(w)
    BY <1>5 DEF Commit
  <2>2. tx'[v][d] = tx[v][d] \/ tx'[v][d] = Blank("ABSENT")
    BY <2>1, EndEffect
  <2>3. ev'[d] = ev[d] \/ ev'[d] = tx[w][d]
    BY <1>5 DEF Commit
  <2>4. RowOk(tx[w][d], accepted[d]) BY DEF RowInv
  <2> QED BY <1>0, <2>1, <2>2, <2>3, <2>4, RowOkBlank DEF Blank
<1>6. ASSUME NEW w \in Workers, NEW e \in Events, LockRow(w, e)
      PROVE  /\ RowOk(ev'[d], accepted'[d]) /\ RowOk(tx'[v][d], accepted'[d])
             /\ tx'[v][d].st # "GONE"
  <2>1. ev' = ev /\ accepted' = accepted
    BY <1>6 DEF LockRow, history
  <2>2. \/ tx'[v][d] = tx[v][d]
        \/ tx'[v][d] = ev[d] /\ ev[d].st # "GONE"
    BY <1>6, LockEffect
  <2> QED BY <1>0, <2>1, <2>2
<1>7. ASSUME NEW w \in Workers, NEW e \in Events,
             PostOk(w, e) \/ \E f \in Failures : PostFails(w, e, f)
      PROVE  /\ RowOk(ev'[d], accepted'[d]) /\ RowOk(tx'[v][d], accepted'[d])
             /\ tx'[v][d].st # "GONE"
  <2>1. ev' = ev BY <1>7, PostEffect
  <2>2. accepted'[d] \in {accepted[d], accepted[d] + 1}
    BY <1>7, PostEffect
  <2>3. accepted'[d] \in Nat /\ accepted[d] <= accepted'[d]
    BY <1>0, <2>2
  <2>4. RowOk(ev'[d], accepted'[d])
    BY <1>0, <2>1, <2>3, RowOkMono
  <2>5. CASE ~(v = w /\ d = e)
    <3>1. tx'[v][d] = tx[v][d] BY <1>7, <2>5, PostEffect
    <3> QED BY <1>0, <2>3, <2>4, <3>1, RowOkMono
  <2>6. CASE v = w /\ d = e
    <3>1. tx[v][d].handle # "waiting" /\ tx[v][d].st \in Open
      BY <1>7, <2>6, PostEffect
    <3>2. CASE /\ accepted'[d] = accepted[d] + 1
               /\ tx'[v][d] = Succeeded(tx[v][d])
      <4>1. RowOk(tx'[v][d], accepted'[d])
        BY <1>0, <3>1, <3>2, RowOkSucceeded
      <4>2. NewCycle(tx[v][d]) \in Row BY <1>0, RowType
      <4>3. tx'[v][d].st = "SUCCESS" BY <3>2, <4>2 DEF Succeeded, Row
      <4> QED BY <2>4, <4>1, <4>3
    <3>3. ASSUME NEW f \in Failures, tx'[v][d] = Failed(tx[v][d], f = "limited")
          PROVE  /\ RowOk(ev'[d], accepted'[d]) /\ RowOk(tx'[v][d], accepted'[d])
                 /\ tx'[v][d].st # "GONE"
      <4>1. RowOk(tx'[v][d], accepted[d])
        BY <1>0, <3>1, <3>3, RowOkFailed
      <4>2. RowOk(tx'[v][d], accepted'[d])
        BY <1>0, <2>3, <4>1, RowOkMono
      <4>3. NewCycle(tx[v][d]) \in Row BY <1>0, RowType
      <4>4. tx'[v][d].st # "GONE" BY <1>0, <3>1, <3>3, <4>3 DEF Failed, Row, Open
      <4> QED BY <2>4, <4>2, <4>4
    <3> QED BY <1>7, <2>6, <3>2, <3>3, PostEffect
  <2> QED BY <2>5, <2>6
<1>8. ASSUME UNCHANGED <<ev, tx, accepted>>
      PROVE  /\ RowOk(ev'[d], accepted'[d]) /\ RowOk(tx'[v][d], accepted'[d])
             /\ tx'[v][d].st # "GONE"
  BY <1>0, <1>8
<1>10. ASSUME NEW w \in Workers, StartTask(w) \/ Dequeue(w) \/ Select(w)
                                \/ LocksTaken(w) \/ StopSending(w)
       PROVE  UNCHANGED <<ev, tx, accepted>>
  BY <1>10 DEF StartTask, Dequeue, Select, LocksTaken, StopSending
<1>11. ASSUME (\E m \in Modes : SetMode(m)) \/ DeleteConsumer \/ Wake
              \/ ExpireWake \/ UNCHANGED vars
       PROVE  UNCHANGED <<ev, tx, accepted>>
  BY <1>11 DEF SetMode, DeleteConsumer, Wake, ExpireWake, vars
<1> QED
  BY <1>0, <1>1, <1>2, <1>3, <1>4, <1>5, <1>6, <1>7, <1>8, <1>10, <1>11
  DEF Next, Environment, Work, Post

\* Every action keeps the lock discipline.
LEMMA LockStep ==
    ASSUME TypeOK, RowInv, LockInv, [Next]_vars
    PROVE  LockInv'
<1> DEFINE Inv(v, d) ==
      /\ pc[v] \in {"idle", "dequeue", "select"} =>
            d \notin cand[v] /\ d \notin batch[v] /\ holder[d] # v
      /\ d \in cand[v] => ev[d].st # "ABSENT"
      /\ d \in batch[v] => holder[d] = v /\ ev[d].st \in Open /\ tx[v][d] = ev[d]
      /\ holder[d] = v => ev[d].st \notin {"ABSENT", "GONE"}
                          /\ tx[v][d].st \notin {"ABSENT", "GONE"}
      /\ holder[d] = v /\ ev[d].st \in Final => tx[v][d].st = ev[d].st
      /\ accepted[d] > 0 => ev[d].st # "ABSENT"
<1>0. \A v \in Workers, d \in Events : Inv(v, d)
  BY DEF LockInv
<1> SUFFICES ASSUME NEW v \in Workers, NEW d \in Events PROVE Inv(v, d)'
  BY DEF LockInv
<1>a. Inv(v, d) BY <1>0
<1>b. v # None BY WorkersAssumption
<1> USE DEF history, workerVars
<1>1. ASSUME NEW e \in Events, CommitEvent(e) PROVE Inv(v, d)'
  <2>1. /\ UNCHANGED <<pc, cand, batch, tx, holder, accepted>>
        /\ \/ ev'[d] = ev[d]
           \/ ev[d].st = "ABSENT" /\ ev'[d].st = "NEW"
    BY <1>1 DEF CommitEvent, Blank, TypeOK
  <2> QED BY <1>a, <2>1 DEF Open, Final
<1>2. ASSUME NEW e \in Events, TruncateEvents(e) PROVE Inv(v, d)'
  <2>1. /\ UNCHANGED <<pc, cand, batch, tx, holder, accepted>>
        /\ ev'[d].st = "ABSENT" => ev[d].st = "ABSENT"
        /\ holder[d] = None
    BY <1>2 DEF TruncateEvents, Blank, TypeOK
  <2> QED BY <1>a, <1>b, <2>1
<1>3. ASSUME NEW S \in SUBSET Events, DeleteOldEvents(S) PROVE Inv(v, d)'
  <2>1. /\ UNCHANGED <<pc, cand, batch, tx, holder, accepted>>
        /\ \/ ev'[d] = ev[d]
           \/ ev'[d].st = "GONE" /\ holder[d] = None
    BY <1>3 DEF DeleteOldEvents, Blank, TypeOK
  <2> QED BY <1>a, <1>b, <2>1
<1>4. ASSUME NEW e \in Events, Tick(e) PROVE Inv(v, d)'
  <2>1. /\ UNCHANGED <<pc, cand, batch, holder, accepted>>
        /\ ev[d] = tx[v][d] => ev'[d] = tx'[v][d]
        /\ ev'[d].st = ev[d].st /\ tx'[v][d].st = tx[v][d].st
    BY <1>4, TickEffect DEF Tick
  <2> QED BY <1>a, <2>1
<1>5. ASSUME NEW w \in Workers, Crash(w) \/ DeadlockAbort(w) PROVE Inv(v, d)'
  <2>1. /\ ev' = ev /\ accepted' = accepted /\ EndTransaction(w)
        /\ pc' = [pc EXCEPT ![w] = "idle"]
    BY <1>5 DEF Crash, DeadlockAbort, EndTask
  <2>2. v # w => pc'[v] = pc[v]
    BY <2>1 DEF TypeOK
  <2> QED BY <1>a, <2>1, <2>2, EndEffect
<1>6. ASSUME NEW w \in Workers, Commit(w) PROVE Inv(v, d)'
  <2>1. /\ accepted' = accepted /\ EndTransaction(w)
        /\ \/ pc' = [pc EXCEPT ![w] = "select"]
           \/ pc' = [pc EXCEPT ![w] = "dequeue"]
        /\ ev'[d] = (IF holder[d] = w THEN tx[w][d] ELSE ev[d])
    BY <1>6 DEF Commit
  <2>2. v # w => pc'[v] = pc[v]
    BY <2>1 DEF TypeOK
  <2>3. Inv(w, d) BY <1>0
  <2> QED BY <1>a, <2>1, <2>2, <2>3, EndEffect
<1>7. ASSUME NEW w \in Workers, NEW e \in Events, LockRow(w, e) PROVE Inv(v, d)'
  <2>1. /\ UNCHANGED <<ev, pc, accepted>>
        /\ e \in cand[w] /\ pc[w] = "lock" /\ holder[e] = None
    BY <1>7 DEF LockRow, IsFirst
  <2>2. /\ \/ tx'[v][d] = tx[v][d] /\ holder'[d] = holder[d]
              /\ (v = w /\ d = e => ev[e].st = "GONE")
           \/ v = w /\ d = e /\ ev[e].st # "GONE"
              /\ tx'[v][d] = ev[e] /\ holder'[d] = w
           \/ v # w /\ d = e /\ ev[e].st # "GONE"
              /\ tx'[v][d] = tx[v][d] /\ holder'[d] = w
        /\ d \in cand'[v] <=> d \in cand[v] /\ (v # w \/ d # e)
        /\ d \in batch'[v] <=> \/ d \in batch[v]
                               \/ v = w /\ d = e /\ ev[e].st \in Open
    BY <1>7, LockEffect
  <2>4. e \in cand[w] => ev[e].st # "ABSENT" BY <1>0
  <2>5. CASE v = w /\ d = e
    BY <1>a, <1>b, <2>1, <2>2, <2>4, <2>5 DEF Open, Final
  <2>6. CASE v = w /\ d # e
    BY <1>a, <2>1, <2>2, <2>6
  <2>7. CASE v # w
    BY <1>a, <1>b, <2>1, <2>2, <2>7
  <2> QED BY <2>5, <2>6, <2>7
<1>8. ASSUME NEW w \in Workers, NEW e \in Events,
             PostOk(w, e) \/ \E f \in Failures : PostFails(w, e, f)
      PROVE  Inv(v, d)'
  <2>1. /\ UNCHANGED <<ev, holder, cand>>
        /\ pc[w] = "send" /\ holder[e] = w /\ ev[e].st \in Open
        /\ pc'[w] \in {"send", "commit"}
        /\ d # e => accepted'[d] = accepted[d]
        /\ v # w => tx'[v] = tx[v] /\ batch'[v] = batch[v] /\ pc'[v] = pc[v]
        /\ d # e => tx'[w][d] = tx[w][d]
        /\ batch'[w] = batch[w] \ {e}
    BY <1>8, PostEffect
  <2>2. tx'[w][e].st \notin {"ABSENT", "GONE"}
    <3>1. tx[w][e] \in Row /\ NewCycle(tx[w][e]) \in Row
      BY RowType DEF TypeOK
    <3>2. \/ tx'[w][e] = Succeeded(tx[w][e])
          \/ \E f \in Failures : tx'[w][e] = Failed(tx[w][e], f = "limited")
      BY <1>8, PostEffect
    <3>3. tx[w][e].st \in Open BY <1>8, PostEffect
    <3> QED BY <3>1, <3>2, <3>3 DEF Succeeded, Failed, Row, Open
  <2> QED BY <1>a, <2>1, <2>2 DEF Open, Final
<1>9. ASSUME NEW w \in Workers, Select(w) PROVE Inv(v, d)'
  <2>1. /\ UNCHANGED <<ev, holder, batch, tx, accepted>>
        /\ pc[w] = "select" /\ pc'[w] = "lock"
        /\ cand'[w] = {e \in Events : ev[e].st \in Open}
        /\ v # w => pc'[v] = pc[v] /\ cand'[v] = cand[v]
    BY <1>9 DEF Select, TypeOK
  <2> QED BY <1>a, <2>1 DEF Open
<1>10. ASSUME NEW w \in Workers, \/ StartTask(w) \/ Dequeue(w)
                                 \/ LocksTaken(w) \/ StopSending(w)
       PROVE  Inv(v, d)'
  <2>1. UNCHANGED <<ev, holder, cand, batch, tx, accepted>>
    BY <1>10 DEF StartTask, Dequeue, LocksTaken, StopSending
  <2>2. pc'[v] \in {"idle", "dequeue", "select"}
          => pc[v] \in {"idle", "dequeue", "select"}
    <3>1. CASE StartTask(w) BY <3>1 DEF StartTask, TypeOK
    <3>2. CASE Dequeue(w)
      <4>1. pc[w] = "dequeue" /\ (v # w => pc'[v] = pc[v])
        BY <3>2 DEF Dequeue, EndTask, TypeOK
      <4> QED BY <4>1
    <3>3. CASE LocksTaken(w) BY <3>3 DEF LocksTaken, TypeOK
    <3>4. CASE StopSending(w) BY <3>4 DEF StopSending, TypeOK
    <3> QED BY <1>10, <3>1, <3>2, <3>3, <3>4
  <2> QED BY <1>a, <2>1, <2>2
<1>11. ASSUME \/ \E m \in Modes : SetMode(m)
              \/ DeleteConsumer \/ Wake \/ ExpireWake \/ UNCHANGED vars
       PROVE  Inv(v, d)'
  <2>1. UNCHANGED <<ev, holder, pc, cand, batch, tx, accepted>>
    BY <1>11 DEF SetMode, DeleteConsumer, Wake, ExpireWake, vars
  <2> QED BY <1>a, <2>1
<1> HIDE DEF Inv
<1> QED
  BY <1>1, <1>2, <1>3, <1>4, <1>5, <1>6, <1>7, <1>8, <1>9, <1>10, <1>11
  DEF Next, Environment, Work, Post

\* Every action keeps the failures of a transaction to the last row handled.
LEMMA FailureStep ==
    ASSUME TypeOK, RowInv, LockInv, OneFailure, [Next]_vars
    PROVE  OneFailure'
<1> DEFINE G(v, d) == holder[d] = v /\ ev[d].st \in Open /\ tx[v][d].st = "FAILED"
           Inv(v, d, c) == G(v, d) => pc[v] = "commit" /\ (G(v, c) => d = c)
<1>0. \A v \in Workers, d, c \in Events : Inv(v, d, c)
  BY DEF OneFailure, GivesUp
<1> SUFFICES ASSUME NEW v \in Workers, NEW d \in Events, NEW c \in Events
             PROVE  Inv(v, d, c)'
  BY DEF OneFailure, GivesUp
<1>b. v # None BY WorkersAssumption
\* Nothing new is given up, and the worker stays where it is.
<1>c. ASSUME \A b \in {c, d} : G(v, b)' => G(v, b),
             pc[v] = "commit" => pc'[v] = "commit" \/ \A b \in {c, d} : holder'[b] # v
      PROVE  Inv(v, d, c)'
  BY <1>0, <1>c
<1> USE DEF history, workerVars
<1>1. ASSUME NEW e \in Events, CommitEvent(e) PROVE Inv(v, d, c)'
  <2>1. /\ UNCHANGED <<pc, tx, holder>>
        /\ \A b \in {c, d} : ev'[b] = ev[b] \/ ev[b].st = "ABSENT"
    BY <1>1 DEF CommitEvent, TypeOK
  <2>2. \A b \in {c, d} : holder[b] = v => ev[b].st # "ABSENT"
    BY DEF LockInv
  <2> QED BY <1>c, <2>1, <2>2
<1>2. ASSUME NEW e \in Events, TruncateEvents(e) PROVE Inv(v, d, c)'
  <2>1. pc' = pc /\ holder' = holder /\ \A b \in {c, d} : holder[b] = None
    BY <1>2 DEF TruncateEvents
  <2> QED BY <1>b, <1>c, <2>1
<1>3. ASSUME NEW S \in SUBSET Events, DeleteOldEvents(S) PROVE Inv(v, d, c)'
  <2>1. /\ UNCHANGED <<pc, tx, holder>>
        /\ \A b \in {c, d} : ev'[b] = ev[b] \/ holder[b] = None
    BY <1>3 DEF DeleteOldEvents, TypeOK
  <2> QED BY <1>b, <1>c, <2>1
<1>4. ASSUME NEW e \in Events, Tick(e) PROVE Inv(v, d, c)'
  <2>1. /\ UNCHANGED <<pc, holder>>
        /\ \A b \in {c, d} : ev'[b].st = ev[b].st /\ tx'[v][b].st = tx[v][b].st
    BY <1>4, TickEffect DEF Tick
  <2> QED BY <1>c, <2>1
<1>5. ASSUME NEW w \in Workers, Crash(w) \/ DeadlockAbort(w) \/ Commit(w)
      PROVE  Inv(v, d, c)'
  <2>1. /\ EndTransaction(w)
        /\ \E l \in {"idle", "select", "dequeue"} : pc' = [pc EXCEPT ![w] = l]
    BY <1>5 DEF Crash, DeadlockAbort, EndTask, Commit
  <2>2. v # w => pc'[v] = pc[v]
    BY <2>1 DEF TypeOK
  <2>3. ASSUME v # w, NEW b \in {c, d} PROVE G(v, b)' => G(v, b)
    <3>1. \/ ev' = ev
          \/ ev' = [e \in Events |-> IF holder[e] = w THEN tx[w][e] ELSE ev[e]]
      BY <1>5 DEF Crash, DeadlockAbort, Commit
    <3>2. /\ holder'[b] = v => holder[b] = v
          /\ tx'[v] = tx[v]
      BY <2>1, <2>3, EndEffect
    <3>3. holder[b] = v => ev'[b] = ev[b]
      BY <2>3, <3>1
    <3> QED BY <3>2, <3>3
  <2>4. CASE v # w
    BY <1>c, <2>2, <2>3, <2>4
  <2>5. CASE v = w
    <3>1. holder'[d] # v BY <2>1, <2>5, EndEffect
    <3> QED BY <3>1
  <2> QED BY <2>4, <2>5
<1>6. ASSUME NEW w \in Workers, NEW e \in Events, LockRow(w, e)
      PROVE  Inv(v, d, c)'
  <2>1. UNCHANGED <<ev, pc>> BY <1>6 DEF LockRow
  <2>2. ASSUME NEW b \in {c, d} PROVE G(v, b)' => G(v, b)
    <3>1. \/ tx'[v][b] = tx[v][b] /\ holder'[b] = holder[b]
          \/ v = w /\ b = e /\ tx'[v][b] = ev[e]
          \/ v # w /\ holder'[b] = w
      BY <1>6, LockEffect
    <3> QED BY <2>1, <3>1 DEF Open
  <2> QED BY <1>c, <2>1, <2>2
<1>7. ASSUME NEW w \in Workers, NEW e \in Events, PostOk(w, e)
      PROVE  Inv(v, d, c)'
  <2>1. ASSUME NEW b \in {c, d} PROVE G(v, b)' => G(v, b)
    <3>1. /\ UNCHANGED <<ev, holder>>
          /\ v # w => tx'[v] = tx[v]
      BY <1>7, PostEffect
    <3>2. b # e => tx'[w][b] = tx[w][b]
      BY <1>7, PostEffect
    <3>3. tx'[w][e] = Succeeded(tx[w][e])
      BY <1>7 DEF PostOk, TypeOK
    <3>4. NewCycle(tx[w][e]) \in Row BY RowType DEF TypeOK
    <3>5. tx'[w][e].st = "SUCCESS" BY <3>3, <3>4 DEF Succeeded, Row
    <3> QED BY <3>1, <3>2, <3>5
  <2>2. pc' = pc BY <1>7 DEF PostOk
  <2> QED BY <1>c, <2>1, <2>2
<1>8. ASSUME NEW w \in Workers, NEW e \in Events, NEW f \in Failures,
             PostFails(w, e, f)
      PROVE  Inv(v, d, c)'
  <2>1. CASE v # w
    <3>1. /\ UNCHANGED <<ev, holder>>
          /\ tx'[v] = tx[v] /\ pc'[v] = pc[v]
      BY <1>8, <2>1, PostEffect
    <3> QED BY <1>c, <3>1
  <2>2. CASE v = w
    <3>1. /\ UNCHANGED <<ev, holder>>
          /\ pc[w] = "send"
      BY <1>8, PostEffect
    <3>2. pc'[w] = "commit" BY <1>8 DEF PostFails, TypeOK
    <3>3. \A b \in {c, d} : b # e => tx'[w][b] = tx[w][b]
      BY <1>8, PostEffect
    <3>4. ~G(w, c) /\ ~G(w, d) BY <1>0, <3>1
    <3> QED BY <2>2, <3>1, <3>2, <3>3, <3>4
  <2> QED BY <2>1, <2>2
<1>9. ASSUME NEW w \in Workers, \/ StartTask(w) \/ Dequeue(w) \/ Select(w)
                                \/ LocksTaken(w) \/ StopSending(w)
      PROVE  Inv(v, d, c)'
  <2>1. UNCHANGED <<ev, holder, tx>>
    BY <1>9 DEF StartTask, Dequeue, Select, LocksTaken, StopSending
  <2>2. pc[v] = "commit" => pc'[v] = "commit"
    <3>1. CASE StartTask(w) BY <3>1 DEF StartTask, TypeOK
    <3>2. CASE Dequeue(w)
      <4>1. pc[w] = "dequeue" /\ (v # w => pc'[v] = pc[v])
        BY <3>2 DEF Dequeue, EndTask, TypeOK
      <4> QED BY <4>1
    <3>3. CASE Select(w) BY <3>3 DEF Select, TypeOK
    <3>4. CASE LocksTaken(w) BY <3>4 DEF LocksTaken, TypeOK
    <3>5. CASE StopSending(w) BY <3>5 DEF StopSending, TypeOK
    <3> QED BY <1>9, <3>1, <3>2, <3>3, <3>4, <3>5
  <2> QED BY <1>c, <2>1, <2>2
<1>10. ASSUME \/ \E m \in Modes : SetMode(m)
              \/ DeleteConsumer \/ Wake \/ ExpireWake \/ UNCHANGED vars
       PROVE  Inv(v, d, c)'
  <2>1. UNCHANGED <<ev, holder, pc, tx>>
    BY <1>10 DEF SetMode, DeleteConsumer, Wake, ExpireWake, vars
  <2> QED BY <1>c, <2>1
<1> HIDE DEF Inv
<1> QED
  BY <1>1, <1>2, <1>3, <1>4, <1>5, <1>6, <1>7, <1>8, <1>9, <1>10
  DEF Next, Environment, Work, Post
----------------------------------------------------------------------------
(* The invariants *)

\* Nothing is published, locked or sent at first.
LEMMA DeliveryInit ==
    ASSUME Init PROVE DeliveryInv
<1>2. RowInv
  <2>1. RowOk(Blank("ABSENT"), 0) BY RowOkBlank
  <2> QED BY <2>1 DEF Init, RowInv, Blank
<1>3. LockInv
  BY WorkersAssumption DEF Init, LockInv
<1>4. OneFailure
  BY WorkersAssumption DEF Init, OneFailure, GivesUp
<1> QED BY <1>2, <1>3, <1>4 DEF DeliveryInv

\* Rows, locks and failures fit together in every reachable state, whatever
\* the interleaving of heartbeats, crashes, truncations and mode switches.
THEOREM DeliveryInvariant == Spec => []DeliveryInv
<1>1. Init => DeliveryInv BY DeliveryInit
<1>2. TypeOK /\ DeliveryInv /\ [Next]_vars => DeliveryInv'
  BY RowStep, LockStep, FailureStep DEF DeliveryInv
<1> QED BY <1>1, <1>2, TypeCorrect, PTL DEF Spec

\* try_send_events, README "guaranteed delivery": SUCCESS is only ever
\* recorded for an event the consumer processed, FAILED only after retry_max + 1
\* attempts.
THEOREM DeliveryGuaranteed == Spec => []GuaranteedDelivery
<1>1. RowInv => GuaranteedDelivery BY DEF RowInv, RowOk, GuaranteedDelivery
<1> QED BY <1>1, DeliveryInvariant, PTL DEF DeliveryInv

\* try_send_events: the cycle counters always add up to the attempts made, and
\* a used up cycle has its delay set.
THEOREM RetriesAccounted == Spec => []RetryAccounting
<1>1. RowInv => RetryAccounting BY DEF RowInv, RowOk, RetryAccounting
<1> QED BY <1>1, DeliveryInvariant, PTL DEF DeliveryInv
----------------------------------------------------------------------------
(* The order in which an IN_ORDER consumer receives its events *)

\* What a step can do to the locals of one worker.
LEMMA LocalStep ==
    ASSUME TypeOK, [Next]_vars, NEW v \in Workers
    PROVE  \/ /\ pc'[v] = pc[v] /\ cand'[v] = cand[v] /\ batch'[v] = batch[v]
              /\ rank'[v] = rank[v]
           \/ Select(v)
           \/ LocksTaken(v)
           \/ \E e \in Events : LockRow(v, e)
           \/ \E e \in Events : PostOk(v, e)
           \/ /\ pc'[v] \notin {"lock", "send"}
              /\ rank'[v] = rank[v] \/ \A e \in Events : rank'[v][e] = 0
<1> DEFINE Same == /\ pc'[v] = pc[v] /\ cand'[v] = cand[v]
                   /\ batch'[v] = batch[v] /\ rank'[v] = rank[v]
           Out == /\ pc'[v] \notin {"lock", "send"}
                  /\ rank'[v] = rank[v] \/ \A e \in Events : rank'[v][e] = 0
<1>1. ASSUME UNCHANGED <<pc, cand, batch, rank>> PROVE Same
  BY <1>1
<1>2. ASSUME \/ \E e \in Events : CommitEvent(e) \/ TruncateEvents(e) \/ Tick(e)
             \/ \E S \in SUBSET Events : DeleteOldEvents(S)
             \/ \E m \in Modes : SetMode(m)
             \/ DeleteConsumer \/ Wake \/ ExpireWake \/ UNCHANGED vars
      PROVE  UNCHANGED <<pc, cand, batch, rank>>
  BY <1>2 DEF CommitEvent, TruncateEvents, Tick, DeleteOldEvents, SetMode,
              DeleteConsumer, Wake, ExpireWake, vars, workerVars
<1>3. ASSUME NEW w \in Workers,
             \/ Crash(w) \/ DeadlockAbort(w) \/ Commit(w)
      PROVE  Same \/ Out
  <2>1. /\ EndTransaction(w)
        /\ \E l \in {"idle", "select", "dequeue"} : pc' = [pc EXCEPT ![w] = l]
    BY <1>3 DEF Crash, DeadlockAbort, EndTask, Commit
  <2>2. /\ v # w => pc'[v] = pc[v]
        /\ v = w => pc'[v] \notin {"lock", "send"}
    BY <2>1 DEF TypeOK
  <2>3. /\ cand' = [cand EXCEPT ![w] = {}]
        /\ batch' = [batch EXCEPT ![w] = {}]
        /\ rank' = [rank EXCEPT ![w] = [e \in Events |-> 0]]
    BY <2>1 DEF EndTransaction
  <2> QED BY <2>2, <2>3 DEF TypeOK
<1>4. ASSUME NEW w \in Workers, StartTask(w) \/ Dequeue(w) \/ StopSending(w)
      PROVE  Same \/ Out
  <2>1. UNCHANGED <<cand, batch, rank>>
    BY <1>4 DEF StartTask, Dequeue, StopSending
  <2>2. \/ pc' = pc
        \/ \E l \in {"idle", "dequeue", "select", "commit"} : pc' = [pc EXCEPT ![w] = l]
    BY <1>4 DEF StartTask, Dequeue, StopSending, EndTask
  <2>3. pc'[v] = pc[v] \/ pc'[v] \notin {"lock", "send"}
    BY <2>2 DEF TypeOK
  <2> QED BY <2>1, <2>3
<1>5. ASSUME NEW w \in Workers, Select(w) \/ LocksTaken(w), v # w PROVE Same
  BY <1>5 DEF Select, LocksTaken, TypeOK
<1>6. ASSUME NEW w \in Workers, NEW e \in Events, LockRow(w, e), v # w PROVE Same
  BY <1>6 DEF LockRow, TypeOK
<1>7. ASSUME NEW w \in Workers, NEW e \in Events, PostOk(w, e), v # w PROVE Same
  BY <1>7 DEF PostOk, Handling, TypeOK
<1>8. ASSUME NEW w \in Workers, NEW e \in Events, NEW f \in Failures,
             PostFails(w, e, f)
      PROVE  Same \/ Out
  BY <1>8 DEF PostFails, Handling, TypeOK
<1> HIDE DEF Same, Out
<1>9. \/ Same \/ Out \/ Select(v) \/ LocksTaken(v)
      \/ \E e \in Events : LockRow(v, e)
      \/ \E e \in Events : PostOk(v, e)
  BY <1>1, <1>2, <1>3, <1>4, <1>5, <1>6, <1>7, <1>8
     DEF Next, Environment, Work, Post
<1> QED BY <1>9 DEF Same, Out

\* A heartbeat goes on with the mode it has loaded.
LEMMA LoadedStep ==
    ASSUME TypeOK, LoadedInv, [Next]_vars
    PROVE  LoadedInv'
<1> SUFFICES ASSUME NEW v \in Workers, pc'[v] \notin {"idle", "dequeue"}
             PROVE  seen'[v] \in Modes
  BY DEF LoadedInv
<1>1. pc[v] \notin {"idle", "dequeue"} => seen[v] \in Modes
  BY DEF LoadedInv
<1>2. ASSUME UNCHANGED <<pc, seen>> PROVE seen'[v] \in Modes
  BY <1>1, <1>2
<1>3. ASSUME \/ \E e \in Events : CommitEvent(e) \/ TruncateEvents(e) \/ Tick(e)
             \/ \E S \in SUBSET Events : DeleteOldEvents(S)
             \/ \E m \in Modes : SetMode(m)
             \/ DeleteConsumer \/ Wake \/ ExpireWake \/ UNCHANGED vars
      PROVE  UNCHANGED <<pc, seen>>
  BY <1>3 DEF CommitEvent, TruncateEvents, Tick, DeleteOldEvents, SetMode,
              DeleteConsumer, Wake, ExpireWake, vars, workerVars
<1>4. ASSUME NEW w \in Workers, Crash(w) \/ DeadlockAbort(w)
      PROVE  seen'[v] \in Modes
  BY <1>1, <1>4 DEF Crash, DeadlockAbort, EndTask, TypeOK
<1>5. ASSUME NEW w \in Workers, Commit(w) PROVE seen'[v] \in Modes
  BY <1>1, <1>5 DEF Commit, TypeOK
<1>6. ASSUME NEW w \in Workers, StartTask(w) \/ Select(w) \/ LocksTaken(w)
      PROVE  seen'[v] \in Modes
  BY <1>1, <1>6 DEF StartTask, Select, LocksTaken, TypeOK
<1>7. ASSUME NEW w \in Workers, StopSending(w) PROVE seen'[v] \in Modes
  <2>1. pc[w] = "send" /\ seen' = seen /\ pc' = [pc EXCEPT ![w] = "commit"]
    BY <1>7 DEF StopSending
  <2> QED BY <1>1, <2>1 DEF TypeOK
<1>8. ASSUME NEW w \in Workers, Dequeue(w) PROVE seen'[v] \in Modes
  <2>1. consumer.mode \in Modes BY DEF TypeOK
  <2> QED BY <1>1, <1>8, <2>1 DEF Dequeue, EndTask, TypeOK
<1>9. ASSUME NEW w \in Workers, NEW e \in Events,
             \/ LockRow(w, e) \/ PostOk(w, e)
             \/ \E f \in Failures : PostFails(w, e, f)
      PROVE  seen'[v] \in Modes
  <2>1. /\ seen' = seen /\ pc[w] \in {"lock", "send"}
        /\ pc' = pc \/ pc' = [pc EXCEPT ![w] = "commit"]
    BY <1>9 DEF LockRow, PostOk, PostFails, Handling
  <2> QED BY <1>1, <2>1 DEF TypeOK
<1> QED
  BY <1>2, <1>3, <1>4, <1>5, <1>6, <1>7, <1>8, <1>9
  DEF Next, Environment, Work, Post

\* A row that counts as settled stays so; only publishing the event anew makes
\* it open, and then it is late for all the later ones already picked up.
LEMMA SettledStep ==
    ASSUME TypeOK, DeliveryInv, [Next]_vars, NEW d \in Events, Settled(d)
    PROVE  \/ Settled(d)'
           \/ \A e \in Events : d < e /\ PickedUp(e) => d \in late'
<1> DEFINE Goal == \/ Settled(d)'
                   \/ \A e \in Events : d < e /\ PickedUp(e) => d \in late'
           Dead == {"ABSENT", "FAILED", "GONE"}
<1>0. accepted[d] > 0 \/ ev[d].st \in Dead BY DEF Settled
<1>1. ASSUME accepted' = accepted, ev[d].st \in Dead => ev'[d].st \in Dead
      PROVE  Goal
  BY <1>0, <1>1 DEF Settled
<1>2. ASSUME NEW e \in Events, CommitEvent(e) PROVE Goal
  <2>1. CASE d = e
    BY <1>2, <2>1 DEF CommitEvent
  <2>2. CASE d # e
    <3>1. ev'[d] = ev[d] /\ accepted' = accepted
      BY <1>2, <2>2 DEF CommitEvent, TypeOK
    <3> QED BY <1>1, <3>1
  <2> QED BY <2>1, <2>2
<1>3. ASSUME NEW e \in Events, TruncateEvents(e) PROVE Goal
  <2>1. CASE d = e
    BY <1>3, <2>1 DEF TruncateEvents
  <2>2. CASE d # e
    <3>1. ev'[d].st \in Dead /\ accepted' = accepted
      BY <1>3, <2>2 DEF TruncateEvents, Blank
    <3> QED BY <1>1, <3>1
  <2> QED BY <2>1, <2>2
<1>4. ASSUME NEW S \in SUBSET Events, DeleteOldEvents(S) PROVE Goal
  <2>1. ev'[d].st \in {ev[d].st, "GONE"} /\ accepted' = accepted
    BY <1>4 DEF DeleteOldEvents, Blank, history
  <2> QED BY <1>1, <2>1
<1>5. ASSUME NEW e \in Events, Tick(e) PROVE Goal
  <2>1. \E w : w \in Workers BY WorkersAssumption
  <2>2. ev'[d].st = ev[d].st BY <1>5, <2>1, TickEffect
  <2>3. accepted' = accepted BY <1>5 DEF Tick, history
  <2> QED BY <1>1, <2>2, <2>3
<1>6. ASSUME NEW w \in Workers, Commit(w) PROVE Goal
  <2>1. /\ accepted' = accepted
        /\ ev'[d] = IF holder[d] = w THEN tx[w][d] ELSE ev[d]
    BY <1>6 DEF Commit, history
  <2>2. /\ holder[d] = w => ev[d].st \notin {"ABSENT", "GONE"}
        /\ holder[d] = w /\ ev[d].st \in Final => tx[w][d].st = ev[d].st
    BY DEF DeliveryInv, LockInv
  <2>3. ev[d].st \in Dead => ev'[d].st \in Dead
    BY <2>1, <2>2 DEF Final
  <2> QED BY <1>1, <2>1, <2>3
<1>7. ASSUME NEW w \in Workers, NEW e \in Events,
             PostOk(w, e) \/ \E f \in Failures : PostFails(w, e, f)
      PROVE  Goal
  <2>1. /\ ev' = ev
        /\ d # e => accepted'[d] = accepted[d]
        /\ accepted'[e] \in {accepted[e], accepted[e] + 1}
    BY <1>7, PostEffect DEF DeliveryInv
  <2>2. accepted[d] > 0 => accepted'[d] > 0
    BY <2>1 DEF TypeOK
  <2> QED BY <1>0, <2>1, <2>2 DEF Settled
<1>8. ASSUME UNCHANGED <<ev, accepted>> PROVE Goal
  BY <1>1, <1>8
<1>9. ASSUME \/ \E m \in Modes : SetMode(m)
             \/ DeleteConsumer \/ Wake \/ ExpireWake \/ UNCHANGED vars
             \/ \E w \in Workers : \/ Crash(w) \/ StartTask(w) \/ Dequeue(w)
                                   \/ Select(w) \/ LocksTaken(w) \/ StopSending(w)
                                   \/ \E e \in Events : LockRow(w, e)
                                   \/ DeadlockAbort(w)
      PROVE  UNCHANGED <<ev, accepted>>
  BY <1>9 DEF SetMode, DeleteConsumer, Wake, ExpireWake, vars, Crash, StartTask,
              Dequeue, Select, LocksTaken, StopSending, LockRow, DeadlockAbort,
              history
<1> HIDE DEF Goal
<1>10. Goal
  BY <1>2, <1>3, <1>4, <1>5, <1>6, <1>7, <1>8, <1>9
     DEF Next, Environment, Work, Post
<1> QED BY <1>10 DEF Goal

\* Lateness is never taken back.
LEMMA LateStep ==
    ASSUME [Next]_vars PROVE late \subseteq late'
<1>1. ASSUME NEW e \in Events, CommitEvent(e) \/ TruncateEvents(e)
      PROVE  late \subseteq late'
  BY <1>1 DEF CommitEvent, TruncateEvents
<1>2. ASSUME \/ \E e \in Events : Tick(e)
             \/ \E S \in SUBSET Events : DeleteOldEvents(S)
             \/ \E m \in Modes : SetMode(m)
             \/ DeleteConsumer \/ Wake \/ ExpireWake \/ UNCHANGED vars
             \/ \E w \in Workers : \/ Crash(w) \/ StartTask(w) \/ Dequeue(w)
                                   \/ Select(w) \/ LocksTaken(w) \/ StopSending(w)
                                   \/ Commit(w) \/ DeadlockAbort(w)
      PROVE  late' = late
  BY <1>2 DEF Tick, DeleteOldEvents, SetMode, DeleteConsumer, Wake, ExpireWake,
              vars, Crash, StartTask, Dequeue, Select, LocksTaken, StopSending,
              Commit, DeadlockAbort, history
<1>3. ASSUME NEW w \in Workers, NEW e \in Events,
             \/ LockRow(w, e) \/ PostOk(w, e)
             \/ \E f \in Failures : PostFails(w, e, f)
      PROVE  late' = late
  BY <1>3 DEF LockRow, PostOk, PostFails, Handling, history
<1> QED BY <1>1, <1>2, <1>3 DEF Next, Environment, Work, Post

\* The rows an IN_ORDER worker has still to lock come after those it locked,
\* and what it does not have of the earlier ones is settled.
LEMMA OrderStep ==
    ASSUME Modes = {IN_ORDER},
           TypeOK, DeliveryInv, LoadedInv, OrderInv, [Next]_vars
    PROVE  OrderInv'
<1> DEFINE Has(v, e) == pc[v] \in {"lock", "send"} /\ e \in cand[v] \cup batch[v]
           A(v, e) == rank[v][e] = 0
           B(v, d, e) == pc[v] \in {"lock", "send"} /\ e \in cand[v] /\ d \in batch[v]
                         => d < e
           C(v, d, e) == Has(v, e) /\ d < e /\ d \notin late
                         => d \in cand[v] \cup batch[v] \/ Settled(d)
<1>0. \A v \in Workers, d, e \in Events : A(v, e) /\ B(v, d, e) /\ C(v, d, e)
  BY DEF OrderInv
<1> SUFFICES ASSUME NEW v \in Workers, NEW d \in Events, NEW e \in Events
             PROVE  A(v, e)' /\ B(v, d, e)' /\ C(v, d, e)'
  <2> HIDE DEF A, B, C
  <2>1. \A v \in Workers, d, e \in Events : A(v, e)' /\ B(v, d, e)' /\ C(v, d, e)'
    OBVIOUS
  <2> QED BY <2>1 DEF OrderInv, A, B, C, Has
<1>1. late \subseteq late' BY LateStep
<1>2. ASSUME Settled(d), Has(v, e), d < e, d \notin late' PROVE Settled(d)'
  <2>1. PickedUp(e) BY <1>2 DEF PickedUp
  <2> QED BY <1>2, <2>1, SettledStep
<1>3. ev[d].st \notin Open => Settled(d)
  <2>1. ev[d] \in Row /\ RowOk(ev[d], accepted[d])
    BY DEF TypeOK, DeliveryInv, RowInv
  <2> QED BY <2>1 DEF RowOk, Row, States, Final, Settled
<1>4. CASE /\ pc'[v] = pc[v] /\ cand'[v] = cand[v] /\ batch'[v] = batch[v]
           /\ rank'[v] = rank[v]
  BY <1>0, <1>1, <1>2, <1>4
<1>5. CASE Select(v)
  <2>1. /\ pc[v] = "select" /\ UNCHANGED <<ev, accepted, batch>>
        /\ cand'[v] = {b \in Events : ev[b].st \in Open}
        /\ rank'[v] = [b \in Events |-> IF seen[v] = IN_ORDER THEN 0
                                        ELSE ev[b].retries]
    BY <1>5 DEF Select, TypeOK, history
  <2>2. seen[v] = IN_ORDER BY <2>1 DEF LoadedInv
  <2>3. batch[v] = {} BY <2>1 DEF DeliveryInv, LockInv, TypeOK
  <2>4. A(v, e)' /\ B(v, d, e)' BY <2>1, <2>2, <2>3
  <2>5. d \notin cand'[v] => Settled(d)'
    BY <1>3, <2>1 DEF Settled
  <2> QED BY <2>4, <2>5
<1>6. CASE LocksTaken(v)
  <2>1. /\ pc[v] = "lock"
        /\ UNCHANGED <<ev, accepted, rank, cand, batch, late>>
    BY <1>6 DEF LocksTaken, history
  <2> QED BY <1>0, <2>1 DEF Settled
<1>7. ASSUME NEW x \in Events, LockRow(v, x)
      PROVE  A(v, e)' /\ B(v, d, e)' /\ C(v, d, e)'
  <2>1. /\ pc[v] = "lock" /\ IsFirst(v, x, cand[v])
        /\ UNCHANGED <<ev, pc, rank, accepted, late>>
    BY <1>7 DEF LockRow, history
  <2>2. /\ d \in cand'[v] <=> d \in cand[v] /\ d # x
        /\ d \in batch'[v] <=> d \in batch[v] \/ (d = x /\ ev[x].st \in Open)
    BY <1>7, LockEffect
  <2>3. /\ e \in cand'[v] <=> e \in cand[v] /\ e # x
        /\ e \in batch'[v] <=> e \in batch[v] \/ (e = x /\ ev[x].st \in Open)
    BY <1>7, LockEffect
  <2>4. x \in cand[v] BY <2>1 DEF IsFirst
  <2>5. e \in cand[v] /\ e # x => x < e
    <3>1. e \in cand[v] /\ e # x => Before(v, x, e) BY <2>1 DEF IsFirst
    <3>2. A(v, x) /\ A(v, e) BY <1>0
    <3> QED BY <3>1, <3>2 DEF Before
  <2>6. B(v, d, e)' BY <1>0, <2>1, <2>2, <2>3, <2>5
  <2>7. C(v, d, e)'
    <3> SUFFICES ASSUME Has(v, e)', d < e, d \notin late'
                 PROVE  d \in cand'[v] \cup batch'[v] \/ Settled(d)'
      OBVIOUS
    <3>1. Has(v, e) BY <2>1, <2>3, <2>4
    <3>2. d \in cand[v] \cup batch[v] \/ Settled(d) BY <1>0, <1>1, <3>1
    <3>3. Settled(d) => Settled(d)' BY <2>1 DEF Settled
    <3> QED BY <1>3, <2>2, <3>2, <3>3
  <2> QED BY <1>0, <2>1, <2>6, <2>7
<1>8. ASSUME NEW x \in Events, PostOk(v, x)
      PROVE  A(v, e)' /\ B(v, d, e)' /\ C(v, d, e)'
  <2>1. /\ pc[v] = "send" /\ UNCHANGED <<ev, rank, cand, late>>
        /\ batch'[v] = batch[v] \ {x}
    BY <1>8, PostEffect DEF DeliveryInv
  <2>2. accepted'[x] > 0
    <3>1. accepted' = [accepted EXCEPT ![x] = accepted[x] + 1]
      BY <1>8 DEF PostOk
    <3> QED BY <3>1 DEF TypeOK
  <2>3. d = x => Settled(d)' BY <2>2 DEF Settled
  <2>4. A(v, e)' /\ B(v, d, e)' BY <1>0, <2>1
  <2>5. C(v, d, e)'
    <3> SUFFICES ASSUME Has(v, e)', d < e, d \notin late'
                 PROVE  d \in cand'[v] \cup batch'[v] \/ Settled(d)'
      OBVIOUS
    <3>1. Has(v, e) BY <2>1
    <3>2. d \in cand[v] \cup batch[v] \/ Settled(d) BY <1>0, <1>1, <3>1
    <3> QED BY <1>2, <2>1, <2>3, <3>1, <3>2
  <2> QED BY <2>4, <2>5
<1>9. CASE /\ pc'[v] \notin {"lock", "send"}
           /\ rank'[v] = rank[v] \/ \A b \in Events : rank'[v][b] = 0
  BY <1>0, <1>9
<1> QED BY <1>4, <1>5, <1>6, <1>7, <1>8, <1>9, LocalStep

\* An event reaches the consumer as the first row of a worker's batch, when
\* all the earlier ones are settled.
LEMMA InOrderStep ==
    ASSUME TypeOK, DeliveryInv, OrderInv, InOrderDelivery, [Next]_vars
    PROVE  InOrderDelivery'
<1> SUFFICES ASSUME NEW d \in Events, NEW e \in Events,
                    d < e, accepted'[e] > 0, d \notin late'
             PROVE  Settled(d)'
  BY DEF InOrderDelivery
<1>1. d \notin late BY LateStep
<1>2. ASSUME Settled(d), PickedUp(e) PROVE Settled(d)'
  BY <1>2, SettledStep
<1>3. CASE accepted[e] > 0
  <2>1. Settled(d) BY <1>1, <1>3 DEF InOrderDelivery
  <2> QED BY <1>2, <1>3, <2>1 DEF PickedUp
<1>4. ASSUME NEW w \in Workers, NEW x \in Events,
             PostOk(w, x) \/ \E f \in Failures : PostFails(w, x, f)
      PROVE  Settled(d)'
  <2>1. CASE x # e
    <3>1. accepted'[e] = accepted[e]
      BY <1>4, <2>1, PostEffect DEF DeliveryInv
    <3> QED BY <1>3, <3>1
  <2>2. CASE x = e
    <3>1. pc[w] = "send" /\ e \in batch[w] /\ IsFirst(w, e, batch[w])
      BY <1>4, <2>2 DEF PostOk, PostFails, Handling, IsFirst
    <3>2. PickedUp(e) BY <3>1 DEF PickedUp
    <3>3. d \notin batch[w]
      <4>1. rank[w][d] = 0 /\ rank[w][e] = 0 BY DEF OrderInv
      <4>2. d \in batch[w] => Before(w, e, d) BY <3>1, EventsAssumption DEF IsFirst
      <4> QED BY <4>1, <4>2, EventsAssumption DEF Before
    <3>4. d \notin cand[w]
      <4>1. d \in cand[w] => e < d BY <3>1 DEF OrderInv
      <4> QED BY <4>1, EventsAssumption
    <3>5. d \in cand[w] \cup batch[w] \/ Settled(d)
      BY <1>1, <3>1 DEF OrderInv
    <3> QED BY <1>2, <3>2, <3>3, <3>4, <3>5
  <2> QED BY <2>1, <2>2
<1>5. ASSUME \/ \E x \in Events : CommitEvent(x) \/ TruncateEvents(x) \/ Tick(x)
             \/ \E S \in SUBSET Events : DeleteOldEvents(S)
             \/ \E m \in Modes : SetMode(m)
             \/ DeleteConsumer \/ Wake \/ ExpireWake \/ UNCHANGED vars
             \/ \E w \in Workers : \/ Crash(w) \/ StartTask(w) \/ Dequeue(w)
                                   \/ Select(w) \/ LocksTaken(w) \/ StopSending(w)
                                   \/ Commit(w) \/ DeadlockAbort(w)
                                   \/ \E x \in Events : LockRow(w, x)
      PROVE  accepted' = accepted
  BY <1>5 DEF CommitEvent, TruncateEvents, Tick, DeleteOldEvents, SetMode,
              DeleteConsumer, Wake, ExpireWake, vars, Crash, StartTask, Dequeue,
              Select, LocksTaken, StopSending, Commit, DeadlockAbort, LockRow,
              history
<1> QED BY <1>3, <1>4, <1>5 DEF Next, Environment, Work, Post

\* try_send_events, mode IN_ORDER: whatever fails, crashes or runs side by
\* side, an event reaches the consumer only after the earlier ones were settled.
THEOREM DeliveredInOrder ==
    ASSUME Modes = {IN_ORDER}
    PROVE  Spec => []InOrderDelivery
<1> DEFINE Inv == TypeOK /\ DeliveryInv /\ LoadedInv /\ OrderInv /\ InOrderDelivery
<1>1. Init => Inv
  <2> SUFFICES ASSUME Init PROVE Inv OBVIOUS
  <2>1. LoadedInv BY DEF Init, LoadedInv
  <2>2. OrderInv BY DEF Init, OrderInv
  <2>3. InOrderDelivery BY DEF Init, InOrderDelivery
  <2> QED BY <2>1, <2>2, <2>3, TypeInit, DeliveryInit
<1>2. TypeOK /\ TypeOK' /\ Inv /\ [Next]_vars => Inv'
  BY RowStep, LockStep, FailureStep, LoadedStep, OrderStep, InOrderStep
     DEF DeliveryInv
<1>3. Inv => InOrderDelivery OBVIOUS
<1> HIDE DEF Inv
<1> QED BY <1>1, <1>2, <1>3, TypeCorrect, PTL DEF Spec
============================================================================
