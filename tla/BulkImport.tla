----------------------------- MODULE BulkImport -----------------------------
(***************************************************************************)
(* Asynchronous bulk import into one data series.  A request stores its    *)
(* points in a row of BulkInsertTaskData and sends a celery message; a     *)
(* worker that takes the message claims the row, counts itself into two    *)
(* redis semaphores, writes the points and deletes the row.  A periodic    *)
(* task sends the message again for rows that stay, which is what makes up *)
(* for a lost message, a dead worker or an import that failed.             *)
(*                                                                         *)
(* The semaphores are counters in redis: every command on one is a step of *)
(* its own, and a counter may expire between any two.                      *)
(***************************************************************************)
EXTENDS Integers, Sequences, FiniteSets

CONSTANTS
    Tasks,      \* rows of BulkInsertTaskData
    Points,     \* external ids of data points
    Payload,    \* the points of a task, in the order in which it writes them
    Stamp,      \* point_in_time and sub_clock of a task
    Workers,
    Beat,       \* the periodic task
    Slots,      \* the semaphore of the data series; the other one of a task is the task
    Unheld,     \* no such key in redis
    Settings,   \* each with the tasks posted; the limit of the data series,
                \* ..._BULK_ASYNC_CONCURRENCY_PER_DATA_SERIES; the semaphores short lived
                \* enough to expire; the tasks whose columns may be dropped; and a
                \* bound on messages lost, workers killed and imports failed
    MaxMessages \* bound: the periodic task sends no more to a longer queue

ASSUME BulkAssumption ==
    /\ Payload \in [Tasks -> Seq(Points) \ {<< >>}] /\ Stamp \in [Tasks -> Nat \ {0}]
    /\ \A t, u \in Tasks : t # u => Stamp[t] # Stamp[u]
    /\ Slots \notin Tasks /\ Beat \notin Workers
    /\ Tasks # {}

ASSUME SettingsAssumption ==
    \A s \in Settings : s.tasks \subseteq Tasks /\ s.limit \in Nat /\ s.troubles \in Nat

Writes(t, p) == \E i \in DOMAIN Payload[t] : Payload[t][i] = p

Keys   == Tasks \cup {Slots}
Actors == Workers \cup {Beat}

VARIABLES
    setting,    \* of this behaviour; it never changes
    posted,     \* tasks whose request has committed
    dropped,    \* tasks that bring a column that is no longer there
    rows,       \* the rows of BulkInsertTaskData
    queue,      \* how many messages of a task are in the queue
    count,      \* the semaphores
    pc,         \* the next command of a worker or of the periodic task
    task,       \* the task it is about
    written,    \* how many points its transaction has written
    failed,     \* its transaction is aborted
    stored,     \* the stamp of the committed version of a point, 0: none
    troubles

vars == <<setting, posted, dropped, rows, queue, count, pc, task, written, failed, stored, troubles>>
local == <<written, failed>>

Steps == {"idle",
          "see task", "incr task", "undo task",         \* acquire_semaphore
          "see slots", "incr slots", "undo slots",
          "write", "wait",
          "decr slots", "look slots", "drop slots",     \* release_semaphore
          "decr task", "look task", "drop task",
          "end"}

Writing == {"write", "wait"}

Counter == [n : Int, expires : BOOLEAN]

TypeOK ==
    /\ setting \in Settings
    /\ posted \subseteq Tasks /\ rows \subseteq posted /\ dropped \subseteq posted
    /\ queue \in [Tasks -> Nat]
    /\ count \in [Keys -> Counter \cup {Unheld}]
    /\ pc \in [Actors -> Steps] /\ task \in [Actors -> Tasks]
    /\ written \in [Actors -> Nat] /\ failed \in [Actors -> BOOLEAN]
    /\ stored \in [Points -> Nat]
    /\ troubles \in 0..setting.troubles

(***************************************************************************)
(* Redis.                                                                  *)
(***************************************************************************)

\* INCR and DECR create a missing key, at 0 and without an expiry.
Added(k, d) == IF count[k] = Unheld THEN [n |-> d, expires |-> FALSE]
               ELSE [count[k] EXCEPT !.n = @ + d]

\* GET, and SET NX with an expiry if there is no such key.
Open(k) == count' = [count EXCEPT ![k] = IF @ = Unheld THEN [n |-> 0, expires |-> TRUE] ELSE @]
Add(k, d) == count' = [count EXCEPT ![k] = Added(k, d)]
Drop(k) == count' = [count EXCEPT ![k] = Unheld]

AnyTask == CHOOSE t \in Tasks : TRUE

Goto(a, step) ==
    /\ pc' = [pc EXCEPT ![a] = step]
    /\ task' = IF step = "idle" THEN [task EXCEPT ![a] = AnyTask] ELSE task
Begin(a, t) == pc' = [pc EXCEPT ![a] = "see task"] /\ task' = [task EXCEPT ![a] = t]

\* acquire_semaphore: the three commands, and where its answer leads.
See(a, from, k, to) ==
    /\ pc[a] = from /\ Open(k) /\ Goto(a, to)
    /\ UNCHANGED <<setting, posted, dropped, rows, queue, local, stored, troubles>>
Incr(a, from, k, limit, yes, no) ==
    /\ pc[a] = from /\ Add(k, 1)
    /\ Goto(a, IF Added(k, 1).n > limit THEN no ELSE yes)
    /\ UNCHANGED <<setting, posted, dropped, rows, queue, local, stored, troubles>>
Decr(a, from, k, to) ==
    /\ pc[a] = from /\ Add(k, -1) /\ Goto(a, to)
    /\ UNCHANGED <<setting, posted, dropped, rows, queue, local, stored, troubles>>

\* release_semaphore: DECR, GET, and DELETE if that was not positive.
Look(a, from, k, drop, keep) ==
    /\ pc[a] = from
    /\ Goto(a, IF count[k] # Unheld /\ count[k].n <= 0 THEN drop ELSE keep)
    /\ UNCHANGED <<setting, posted, dropped, rows, queue, count, local, stored, troubles>>
Delete(a, from, k, to) ==
    /\ pc[a] = from /\ Drop(k) /\ Goto(a, to)
    /\ UNCHANGED <<setting, posted, dropped, rows, queue, local, stored, troubles>>

Expire(k) ==
    /\ k \in setting.expiring /\ count[k] # Unheld /\ count[k].expires
    /\ Drop(k)
    /\ UNCHANGED <<setting, posted, dropped, rows, queue, pc, task, local, stored, troubles>>

(***************************************************************************)
(* The request and the queue.                                              *)
(***************************************************************************)

\* create_bulk: the message is sent after the commit.
Post(t) ==
    /\ t \in setting.tasks \ posted
    /\ posted' = posted \cup {t} /\ rows' = rows \cup {t}
    /\ queue' = [queue EXCEPT ![t] = @ + 1]
    /\ UNCHANGED <<setting, dropped, count, pc, task, local, stored, troubles>>

\* A message is lost before it is sent, by the broker, or expires.
Lose(t) ==
    /\ queue[t] > 0 /\ troubles < setting.troubles
    /\ queue' = [queue EXCEPT ![t] = @ - 1]
    /\ troubles' = troubles + 1
    /\ UNCHANGED <<setting, posted, dropped, rows, count, pc, task, local, stored>>

(***************************************************************************)
(* async_persist_data_point_chunk.                                         *)
(***************************************************************************)

\* In a transaction that still holds its locks: on the row and on what it wrote.
Active(w) == w \in Workers /\ pc[w] # "idle" /\ ~failed[w]
Claimed(t) == \E w \in Workers : Active(w) /\ task[w] = t
HasWritten(w, p) == Active(w) /\ \E i \in 1..written[w] : Payload[task[w]][i] = p

\* Mutant: the row is selected without a lock.
TakeUnlocked(w, t) ==
    /\ pc[w] = "idle" /\ queue[t] > 0
    /\ queue' = [queue EXCEPT ![t] = @ - 1]
    /\ IF t \in rows THEN Begin(w, t) ELSE UNCHANGED <<pc, task>>
    /\ UNCHANGED <<setting, posted, dropped, rows, count, local, stored, troubles>>

\* select_for_update(skip_locked=True)
Take(w, t) ==
    /\ pc[w] = "idle" /\ queue[t] > 0
    /\ queue' = [queue EXCEPT ![t] = @ - 1]
    /\ IF t \in rows /\ ~Claimed(t)
       THEN Begin(w, t)
       ELSE UNCHANGED <<pc, task>>
    /\ UNCHANGED <<setting, posted, dropped, rows, count, local, stored, troubles>>

\* prune_metamodel drops the column of a fact that was deleted after the request;
\* it waits for the transactions that have begun to write into the table.
DropColumn(t) ==
    /\ t \in (setting.pruned \cap rows) \ dropped
    /\ \A w \in Workers : Active(w) => written[w] = 0 /\ pc[w] # "wait"
    /\ dropped' = dropped \cup {t}
    /\ UNCHANGED <<setting, posted, rows, queue, count, pc, task, local, stored, troubles>>

\* Without a slot the transaction ends and the message goes back, with a delay;
\* the semaphore of the task is kept.
Retry(w) ==
    /\ pc[w] = "undo slots" /\ Add(Slots, -1) /\ Goto(w, "idle")
    /\ queue' = [queue EXCEPT ![task[w]] = @ + 1]
    /\ UNCHANGED <<setting, posted, dropped, rows, local, stored, troubles>>

\* The row of a point is locked until the transaction that wrote it ends; those
\* that wait for it go before those that come later.
NextPoint(w) == Payload[task[w]][written[w] + 1]
Holders(w) == {v \in Workers \ {w} : HasWritten(v, NextPoint(w))}
Waiting(w) == {v \in Workers \ {w} : pc[v] = "wait" /\ NextPoint(v) = NextPoint(w)}
Write(w) ==
    /\ task[w] \notin dropped
    /\ \/ pc[w] = "write" /\ Holders(w) \cup Waiting(w) = {}
       \/ pc[w] = "wait" /\ Holders(w) = {}
    /\ written' = [written EXCEPT ![w] = @ + 1]
    /\ Goto(w, IF written[w] + 1 = Len(Payload[task[w]]) THEN "decr slots" ELSE "write")
    /\ UNCHANGED <<setting, posted, dropped, rows, queue, count, failed, stored, troubles>>

Wait(w) ==
    /\ pc[w] = "write" /\ task[w] \notin dropped /\ Holders(w) # {}
    /\ Goto(w, "wait")
    /\ UNCHANGED <<setting, posted, dropped, rows, queue, count, local, stored, troubles>>

\* Mutant: an import that fails keeps its semaphores.
AbortWithoutFinally(w) ==
    /\ pc[w] \in Writing
    /\ Goto(w, "end")
    /\ failed' = [failed EXCEPT ![w] = TRUE]
    /\ UNCHANGED <<setting, posted, dropped, rows, queue, count, written, stored>>

\* The database ends one of two transactions that wait for each other.
Abort(w) ==
    /\ pc[w] \in Writing
    /\ Goto(w, "decr slots")
    /\ failed' = [failed EXCEPT ![w] = TRUE]
    /\ UNCHANGED <<setting, posted, dropped, rows, queue, count, written, stored>>
Deadlock(w) ==
    /\ pc[w] = "wait"
    /\ \E v \in Holders(w) : pc[v] = "wait" /\ w \in Holders(v)
    /\ Abort(w) /\ UNCHANGED troubles
NoColumn(w) == task[w] \in dropped /\ Abort(w) /\ UNCHANGED troubles
Error(w) == troubles < setting.troubles /\ Abort(w) /\ troubles' = troubles + 1

\* Mutant: an import replaces whatever is there.
LastWriter(p, t) == IF Writes(t, p) THEN Stamp[t] ELSE stored[p]

\* The transaction ends after the semaphores are released.  An older stamp does
\* not replace a newer one.
Newest(p, t) == IF Writes(t, p) /\ Stamp[t] > stored[p]
                THEN Stamp[t] ELSE stored[p]
\* Mutant: the message is counted off a second time.
EndAcksAgain(w) ==
    /\ pc[w] = "end" /\ Goto(w, "idle")
    /\ queue' = [queue EXCEPT ![task[w]] = @ - 1]
    /\ rows' = IF failed[w] THEN rows ELSE rows \ {task[w]}
    /\ written' = [written EXCEPT ![w] = 0] /\ failed' = [failed EXCEPT ![w] = FALSE]
    /\ UNCHANGED <<setting, posted, dropped, count, stored, troubles>>

End(w) ==
    /\ pc[w] = "end" /\ Goto(w, "idle")
    /\ IF failed[w] THEN UNCHANGED <<rows, stored>>
       ELSE /\ rows' = rows \ {task[w]}
            /\ stored' = [p \in Points |-> Newest(p, task[w])]
    /\ written' = [written EXCEPT ![w] = 0] /\ failed' = [failed EXCEPT ![w] = FALSE]
    /\ UNCHANGED <<setting, posted, dropped, queue, count, troubles>>

\* acks_late: the message of a worker that dies is delivered again, or lost with it.
Crash(a) ==
    /\ pc[a] # "idle" /\ troubles < setting.troubles
    /\ troubles' = troubles + 1 /\ Goto(a, "idle")
    /\ written' = [written EXCEPT ![a] = 0] /\ failed' = [failed EXCEPT ![a] = FALSE]
    /\ \E again \in IF a = Beat THEN {0} ELSE {0, 1} :
          queue' = [queue EXCEPT ![task[a]] = @ + again]
    /\ UNCHANGED <<setting, posted, dropped, rows, count, stored>>

\* The delete of its row sets task_data.id to None: a worker that has written its
\* points releases the semaphore of no task, and that of its task stays.
AfterSlots(w) == IF failed[w] THEN "decr task" ELSE "end"

\* Whether or not it got the semaphore of the task, it goes on.
Import(w) ==
    \/ See(w, "see task", task[w], "incr task")
    \/ Incr(w, "incr task", task[w], 1, "see slots", "undo task")
    \/ Decr(w, "undo task", task[w], "see slots")
    \/ See(w, "see slots", Slots, "incr slots")
    \/ Incr(w, "incr slots", Slots, setting.limit, "write", "undo slots")
    \/ Retry(w)
    \/ Write(w) \/ Wait(w) \/ Deadlock(w) \/ NoColumn(w)
    \/ Decr(w, "decr slots", Slots, "look slots")
    \/ Look(w, "look slots", Slots, "drop slots", AfterSlots(w))
    \/ Delete(w, "drop slots", Slots, AfterSlots(w))
    \/ Decr(w, "decr task", task[w], "look task")
    \/ Look(w, "look task", task[w], "drop task", "end")
    \/ Delete(w, "drop task", task[w], "end")
    \/ End(w)

(***************************************************************************)
(* wake_up_requeue_persist_data_point_chunk.                               *)
(***************************************************************************)
Wake(t) ==
    /\ pc[Beat] = "idle" /\ t \in rows /\ queue[t] < MaxMessages
    /\ Begin(Beat, t)
    /\ UNCHANGED <<setting, posted, dropped, rows, queue, count, local, stored, troubles>>

Send ==
    /\ pc[Beat] = "end" /\ Goto(Beat, "idle")
    /\ queue' = [queue EXCEPT ![task[Beat]] = @ + 1]
    /\ UNCHANGED <<setting, posted, dropped, rows, count, local, stored, troubles>>

Requeue ==
    \/ See(Beat, "see task", task[Beat], "incr task")
    \/ Incr(Beat, "incr task", task[Beat], 1, "end", "undo task")
    \/ Decr(Beat, "undo task", task[Beat], "idle")
    \/ Send

(***************************************************************************)
(* The system.                                                             *)
(***************************************************************************)
Init ==
    /\ setting \in Settings
    /\ posted = {} /\ dropped = {} /\ rows = {} /\ queue = [t \in Tasks |-> 0]
    /\ count = [k \in Keys |-> Unheld]
    /\ pc = [a \in Actors |-> "idle"] /\ task = [a \in Actors |-> AnyTask]
    /\ written = [a \in Actors |-> 0] /\ failed = [a \in Actors |-> FALSE]
    /\ stored = [p \in Points |-> 0]
    /\ troubles = 0

Next ==
    \/ \E t \in Tasks : Post(t) \/ DropColumn(t) \/ Lose(t) \/ Wake(t)
    \/ \E w \in Workers : (\E t \in Tasks : Take(w, t)) \/ Import(w) \/ Error(w)
    \/ Requeue
    \/ \E a \in Actors : Crash(a)
    \/ \E k \in Keys : Expire(k)

Spec == Init /\ [][Next]_vars

\* Workers run and take messages in turn, the periodic task goes through all
\* rows, and a key that has an expiry expires in the end.
Fairness ==
    /\ \A w \in Workers : WF_vars(Import(w))
    /\ \A t \in Tasks : SF_vars(\E w \in Workers : Take(w, t)) /\ SF_vars(Wake(t))
    /\ WF_vars(Requeue)
    /\ \A k \in Keys : WF_vars(Expire(k))

FairSpec == Spec /\ Fairness

(***************************************************************************)
(* Properties.                                                             *)
(***************************************************************************)

\* A row is gone only when its points are stored, and of the tasks that have been
\* imported every point shows the newest, in whatever order the queue, retries,
\* deadlocks and repeated messages made them run.
Imported     == posted \ rows
NewestImported ==
    \A p \in Points :
        /\ \A t \in Imported : Writes(t, p) => Stamp[t] <= stored[p]
        /\ stored[p] # 0 => \E t \in Imported : Writes(t, p) /\ Stamp[t] = stored[p]

\* A message that is delivered twice, or sent again while the first is being worked
\* on, starts no second import: one transaction at a time, and its row is there.
ImportedOnce ==
    \A w \in Workers : Active(w) =>
        /\ task[w] \in rows
        /\ \A v \in Workers \ {w} : Active(v) => task[v] # task[w]

\* No more workers write into a data series than its limit allows.
LimitHolds == Cardinality({w \in Workers : pc[w] \in Writing}) <= setting.limit

\* A semaphore that has no expiry any more, since it was deleted or expired
\* between the GET and the INCR of an acquire, and that nobody will release.
Leaked(k) == count[k] # Unheld /\ ~count[k].expires /\ count[k].n > 0

\* Every import is done in the end, whatever was lost, died or failed before and
\* however the commands on the semaphores interleave; one whose column is gone fails
\* for ever, but keeps no other from being done.  The one thing that can keep
\* it from that is a leaked semaphore, and for one to stay a message must have been
\* lost, a worker have died or an import have failed.
EventuallyImported ==
    \/ []<>(rows \subseteq dropped)
    \/ <>[](troubles > 0 /\ \E t \in rows \ dropped : Leaked(t) \/ Leaked(Slots))
=============================================================================
