-------------------------- MODULE ConsumerDelivery --------------------------
(***************************************************************************)
(* Delivery of the ConsumerEvents of one Consumer: the outbox rows a data  *)
(* write commits, the heartbeat job that wakes a celery worker up, and the *)
(* transaction in which a worker locks a batch of rows, POSTs them to the  *)
(* consumer's target and records what became of each.                      *)
(*                                                                         *)
(* The health column of the consumer, which none of this reads back, is    *)
(* left out.                                                               *)
(*                                                                         *)
(* Source: skipper/dataseries/models/event.py, tasks/event.py,             *)
(* tasks/pgq.py, skipper/core/models/postgres_jobs.py.                     *)
(*                                                                         *)
(* An event is named by its place in the order (point_in_time, id,         *)
(* sub_clock): Events is a set of numbers, and a write may commit a small  *)
(* number after a larger one, since point_in_time is taken before commit.  *)
(***************************************************************************)
EXTENDS Integers, FiniteSets

CONSTANTS
    Events,           \* the events, in point_in_time order
    Workers,          \* celery workers of the event_queue
    None,             \* no worker
    Modes,            \* the consumer modes the user switches between
    Rare,             \* bound: which of the rare operations an instance has
    MaxEvents,        \* batch size of one transaction (max_events=100)
    MaxPerHeartbeat,  \* SKIPPER_CELERY_EVENT_QUEUE_MAX_EVENTS_PER_CONSUMER_HEARTBEAT
    BackoffEvery,     \* consumer.retry_backoff_every
    RetryMax,         \* consumer.retry_max, 0 is "retry until forever"
    Poison,           \* the events the target never accepts
    RetryBound,       \* bound: other events fail at most so often, and the
                      \* counters of a poison event stop above it
    MaxWakes,         \* bound: undelivered celery messages
    MaxCrashes        \* bound: worker crashes

IN_ORDER == "IN_ORDER"
IN_ORDER_NON_BLOCKING == "IN_ORDER_NON_BLOCKING"

ASSUME EventsAssumption == Events \subseteq Nat /\ IsFiniteSet(Events)
ASSUME WorkersAssumption ==
    Workers # {} /\ IsFiniteSet(Workers) /\ None \notin Workers \cup Modes
ASSUME ModesAssumption ==
    Modes \subseteq {IN_ORDER, IN_ORDER_NON_BLOCKING} /\ Modes # {}
ASSUME RareAssumption == Rare \subseteq {"truncate", "cleanup", "delete", "expire"}
ASSUME PoisonAssumption == Poison \subseteq Events
ASSUME NumbersAssumption ==
    /\ MaxEvents \in Nat \ {0} /\ BackoffEvery \in Nat \ {0}
    /\ MaxPerHeartbeat \in Nat /\ RetryMax \in Nat /\ RetryBound \in Nat
    /\ MaxWakes \in Nat /\ MaxCrashes \in Nat

VARIABLES
    ev,        \* the committed event rows
    holder,    \* the worker whose transaction holds the row lock
    consumer,  \* the committed consumer row: its mode, and is it alive
    job,       \* the heartbeat job row exists
    wakes,     \* celery messages of actual_run_heartbeat_consumers
    pc,        \* where each worker is
    seen,      \* the mode of the Consumer object a worker loaded for its heartbeat
    rank,      \* leading sort key of each row in the worker's snapshot
    cand,      \* rows of the snapshot still to be locked
    batch,     \* locked rows still to be handled
    tx,        \* the worker's own version of the rows it locked
    cnt,       \* events handled in this transaction
    total,     \* events handled in this heartbeat
    more,      \* more_events
    accepted,  \* history: POSTs of the event the consumer processed
    late,      \* history: events committed when a later one was picked up
    crashes    \* history: worker crashes

workerVars == <<pc, seen, rank, cand, batch, tx, cnt, total, more>>
history == <<accepted, late, crashes>>
vars == <<ev, holder, consumer, job, wakes, workerVars, history>>

----------------------------------------------------------------------------
(* Rows *)

\* ABSENT: not committed yet; GONE: deleted by truncation or clean up.
Final == {"FAILED", "SUCCESS"}
Open == {"NEW", "RETRY"}
States == {"ABSENT", "GONE"} \cup Open \cup Final

\* handle_at: not set, in the future, or in the past.
Handles == {"unset", "waiting", "due"}

Row == [st : States, retries : Nat, inCycle : Nat, cycles : Nat,
        handle : Handles]
Blank(st) == [st |-> st, retries |-> 0, inCycle |-> 0, cycles |-> 0,
              handle |-> "unset"]

\* order_by(['retries',] 'point_in_time', 'id', 'sub_clock') on the snapshot.
Before(w, d, e) ==
    \/ rank[w][d] < rank[w][e]
    \/ rank[w][d] = rank[w][e] /\ d < e
IsFirst(w, e, S) == e \in S /\ \A d \in S \ {e} : Before(w, e, d)

Init ==
    /\ ev = [e \in Events |-> Blank("ABSENT")]
    /\ holder = [e \in Events |-> None]
    /\ consumer \in [mode : Modes, alive : {TRUE}]
    /\ seen = [w \in Workers |-> None]
    /\ job = FALSE
    /\ wakes = 0
    /\ pc = [w \in Workers |-> "idle"]
    /\ rank = [w \in Workers |-> [e \in Events |-> 0]]
    /\ cand = [w \in Workers |-> {}]
    /\ batch = [w \in Workers |-> {}]
    /\ tx = [w \in Workers |-> [e \in Events |-> Blank("ABSENT")]]
    /\ cnt = [w \in Workers |-> 0]
    /\ total = [w \in Workers |-> 0]
    /\ more = [w \in Workers |-> FALSE]
    /\ accepted = [e \in Events |-> 0]
    /\ late = {}
    /\ crashes = 0

----------------------------------------------------------------------------
(* The rest of the application *)

\* A later event has reached the consumer, or is in some worker's hands.
PickedUp(e) ==
    \/ accepted[e] > 0
    \/ \E w \in Workers : pc[w] \in {"lock", "send"} /\ e \in cand[w] \cup batch[w]

\* A write's transaction commits the event data_point_event created in it (a
\* write may still be under way when its consumer is deleted).
CommitEvent(e) ==
    /\ ev[e].st = "ABSENT"
    /\ ev' = [ev EXCEPT ![e] = Blank("NEW")]
    /\ late' = IF \E d \in Events : e < d /\ PickedUp(d)
               THEN late \cup {e} ELSE late
    /\ UNCHANGED <<holder, consumer, job, wakes, workerVars, accepted, crashes>>

\* truncate_events deletes every row, whatever its state, and the same
\* transaction publishes DATA_SERIES_TRUNCATED as a new event.
TruncateEvents(e) ==
    /\ "truncate" \in Rare
    /\ consumer.alive
    /\ ev[e].st = "ABSENT"
    /\ \A d \in Events : holder[d] = None
    /\ ev' = [d \in Events |->
                 IF d = e THEN Blank("NEW")
                 ELSE IF ev[d].st = "ABSENT" THEN ev[d] ELSE Blank("GONE")]
    /\ late' = IF \E d \in Events : e < d /\ PickedUp(d)
               THEN late \cup {e} ELSE late
    /\ UNCHANGED <<holder, consumer, job, wakes, workerVars, accepted, crashes>>

\* delete_old_events: the daily clean up of finished rows.
DeleteOldEvents(S) ==
    /\ "cleanup" \in Rare
    /\ S # {}
    /\ \A e \in S : ev[e].st \in Final /\ holder[e] = None
    /\ ev' = [e \in Events |-> IF e \in S THEN Blank("GONE") ELSE ev[e]]
    /\ UNCHANGED <<holder, consumer, job, wakes, workerVars, history>>

\* The user switches the consumer's mode.
SetMode(m) ==
    /\ consumer.alive
    /\ consumer.mode # m
    /\ consumer' = [consumer EXCEPT !.mode = m]
    /\ UNCHANGED <<ev, holder, job, wakes, workerVars, history>>

\* The user (soft) deletes the consumer.
DeleteConsumer ==
    /\ "delete" \in Rare
    /\ consumer.alive
    /\ consumer' = [consumer EXCEPT !.alive = FALSE]
    /\ UNCHANGED <<ev, holder, job, wakes, workerVars, history>>

\* Time reaches the handle_at of an event.
Tick(e) ==
    LET Age(row) == IF row.handle = "waiting"
                    THEN [row EXCEPT !.handle = "due"] ELSE row
    IN  /\ \/ ev[e].handle = "waiting"
           \/ \E w \in Workers : holder[e] = w /\ tx[w][e].handle = "waiting"
        /\ ev' = [ev EXCEPT ![e] = Age(@)]
        /\ tx' = [w \in Workers |-> [tx[w] EXCEPT ![e] = Age(@)]]
        /\ UNCHANGED <<holder, consumer, job, wakes, pc, seen, rank, cand,
                       batch, cnt, total, more, history>>

----------------------------------------------------------------------------
(* Waking up *)

\* celery beat: wake_up_heartbeat_consumers.
Wake ==
    /\ consumer.alive
    /\ wakes < MaxWakes
    /\ wakes' = wakes + 1
    /\ UNCHANGED <<ev, holder, consumer, job, workerVars, history>>

\* The message expires (expires=360) or is lost with its broker.
ExpireWake ==
    /\ "expire" \in Rare
    /\ wakes > 0
    /\ wakes' = wakes - 1
    /\ UNCHANGED <<ev, holder, consumer, job, workerVars, history>>

\* actual_run_heartbeat_consumers: enqueue inserts the job unless the unique
\* identifier is taken; either way a job row exists afterwards.
StartTask(w) ==
    /\ pc[w] = "idle"
    /\ wakes > 0
    /\ wakes' = wakes - 1
    /\ job' = TRUE
    /\ pc' = [pc EXCEPT ![w] = "dequeue"]
    /\ UNCHANGED <<ev, holder, consumer, seen, rank, cand, batch, tx, cnt,
                   total, more, history>>

\* The celery task is over.
EndTask(w) ==
    /\ pc' = [pc EXCEPT ![w] = "idle"]
    /\ seen' = [seen EXCEPT ![w] = None]
    /\ total' = [total EXCEPT ![w] = 0]

\* try_run_all: dequeue_tenant deletes the job (committed at once), the
\* heartbeat loads the consumer; without a job the task is over.
Dequeue(w) ==
    /\ pc[w] = "dequeue"
    /\ job' = FALSE
    /\ \/ /\ job /\ consumer.alive
          /\ pc' = [pc EXCEPT ![w] = "select"]
          /\ seen' = [seen EXCEPT ![w] = consumer.mode]
          /\ total' = [total EXCEPT ![w] = 0]
       \/ /\ job /\ ~consumer.alive
          /\ UNCHANGED <<pc, seen, total>>
       \/ /\ ~job
          /\ EndTask(w)
    /\ UNCHANGED <<ev, holder, consumer, wakes, rank, cand, batch, tx, cnt,
                   more, history>>

----------------------------------------------------------------------------
(* One transaction of the heartbeat: try_send_events *)

\* The filter of the SELECT: neither FAILED nor SUCCESS. (Here and below, the
\* definitions just before one with the same parameters are that one gone
\* wrong, for the section "Mutants" of README.md.)
ResendsSuccess(e) == ev[e].st \notin {"ABSENT", "GONE", "FAILED"}
ForgetsRetries(e) == ev[e].st = "NEW"
Unfinished(e) == ev[e].st \in Open

\* The leading sort key: IN_ORDER_NON_BLOCKING sorts by retries first.
AlwaysByRetries(w, e) == ev[e].retries
NeverByRetries(w, e) == 0
SortKey(w, e) == IF seen[w] = IN_ORDER THEN 0 ELSE ev[e].retries

\* select_for_update waits for the transaction that holds the row.
WithoutForUpdate(e) == TRUE
Unlocked(e) == holder[e] = None

\* The statement's snapshot and its sort order.
Select(w) ==
    /\ pc[w] = "select"
    /\ pc' = [pc EXCEPT ![w] = "lock"]
    /\ cand' = [cand EXCEPT ![w] = {e \in Events : Unfinished(e)}]
    /\ rank' = [rank EXCEPT ![w] = [e \in Events |-> SortKey(w, e)]]
    /\ UNCHANGED <<ev, holder, consumer, job, wakes, seen, batch, tx, cnt, total,
                   more, history>>

\* FOR UPDATE: rows are locked one after the other in sort order, up to
\* max_events + 1 of them. After waiting for a lock the filter is evaluated
\* again on the new version of the row; a deleted row leaves no lock.
LockRow(w, e) ==
    /\ pc[w] = "lock"
    /\ IsFirst(w, e, cand[w])
    /\ Cardinality(batch[w]) <= MaxEvents
    /\ Unlocked(e)
    /\ cand' = [cand EXCEPT ![w] = @ \ {e}]
    /\ IF ev[e].st = "GONE"
       THEN UNCHANGED <<holder, tx>>
       ELSE /\ holder' = [holder EXCEPT ![e] = w]
            /\ tx' = [tx EXCEPT ![w][e] = ev[e]]
    /\ batch' = IF Unfinished(e)
                THEN [batch EXCEPT ![w] = @ \cup {e}] ELSE batch
    /\ UNCHANGED <<ev, consumer, job, wakes, pc, seen, rank, cnt, total, more,
                   history>>

LocksTaken(w) ==
    /\ pc[w] = "lock"
    /\ cand[w] = {} \/ Cardinality(batch[w]) = MaxEvents + 1
    /\ pc' = [pc EXCEPT ![w] = "send"]
    /\ UNCHANGED <<ev, holder, consumer, job, wakes, seen, rank, cand, batch,
                   tx, cnt, total, more, history>>

\* cnt >= max_events: one row more than that was fetched.
OneTooMany(w) == cnt[w] > MaxEvents
BatchFull(w) == cnt[w] >= MaxEvents

\* The loop ends without an attempt: no row left, the batch is full, or the
\* first row must not be handled just yet.
StopSending(w) ==
    /\ pc[w] = "send"
    /\ \/ /\ batch[w] = {}
          /\ UNCHANGED <<cnt, more>>
       \/ /\ batch[w] # {} /\ BatchFull(w)
          /\ more' = [more EXCEPT ![w] = TRUE]
          /\ UNCHANGED cnt
       \/ \E e \in batch[w] :
          /\ IsFirst(w, e, batch[w])
          /\ ~BatchFull(w)
          /\ tx[w][e].handle = "waiting"
          /\ cnt' = [cnt EXCEPT ![w] = @ + 1]
          /\ UNCHANGED more
    /\ pc' = [pc EXCEPT ![w] = "commit"]
    /\ UNCHANGED <<ev, holder, consumer, job, wakes, seen, rank, cand, batch,
                   tx, total, history>>

\* A new backoff cycle starts when the last one is used up.
NewCycleWithoutReset(row) ==
    IF row.handle = "due" /\ row.inCycle >= BackoffEvery
    THEN [row EXCEPT !.cycles = @ + 1] ELSE row
NewCycle(row) ==
    IF row.handle = "due" /\ row.inCycle >= BackoffEvery
    THEN [row EXCEPT !.cycles = @ + 1, !.inCycle = 0] ELSE row

Succeeded(row) == [NewCycle(row) EXCEPT !.st = "SUCCESS"]

\* retry_max > 0 and retries > retry_max
OneTooEarly(retries) == RetryMax > 0 /\ retries >= RetryMax
NeverExhausted(retries) == FALSE
Exhausted(retries) == RetryMax > 0 /\ retries > RetryMax

\* The except branch: limited is a 429 answer.
Failed(row, limited) ==
    LET r == NewCycle(row)
        retries == r.retries + 1
        inCycle == r.inCycle + 1
    IN  IF row.retries > RetryBound THEN [row EXCEPT !.handle = "waiting"]
        ELSE [r EXCEPT !.retries = retries,
               !.inCycle = inCycle,
               !.handle = IF limited \/ inCycle >= BackoffEvery
                          THEN "waiting" ELSE @,
               !.st = IF Exhausted(retries) THEN "FAILED" ELSE "RETRY"]

\* What a worker does with the first row it may handle.
Handling(w, e) ==
    /\ pc[w] = "send"
    /\ IsFirst(w, e, batch[w])
    /\ ~BatchFull(w)
    /\ tx[w][e].handle # "waiting"
    /\ cnt' = [cnt EXCEPT ![w] = @ + 1]
    /\ batch' = [batch EXCEPT ![w] = @ \ {e}]
    /\ UNCHANGED <<ev, holder, consumer, job, wakes, seen, rank, cand, total, more,
                   late, crashes>>

\* The target processes the event and answers 2xx in time.
PostOk(w, e) ==
    /\ Handling(w, e)
    /\ e \notin Poison
    /\ accepted' = [accepted EXCEPT ![e] = @ + 1]
    /\ tx' = [tx EXCEPT ![w][e] = Succeeded(@)]
    /\ UNCHANGED pc

\* The POST fails and the loop breaks. refused: the target did nothing;
\* limited: it answered 429; processed: it did handle the event, but its
\* answer is an error, too late or lost.
Failures == {"refused", "limited", "processed"}
PostFails(w, e, f) ==
    /\ Handling(w, e)
    /\ tx[w][e].retries < RetryBound \/ e \in Poison
    /\ f = "processed" => e \notin Poison
    /\ accepted' = IF f = "processed" THEN [accepted EXCEPT ![e] = @ + 1]
                   ELSE accepted
    /\ tx' = [tx EXCEPT ![w][e] = Failed(@, f = "limited")]
    /\ pc' = [pc EXCEPT ![w] = "commit"]

\* The end of a transaction: locks are released, its locals forgotten.
EndTransaction(w) ==
    /\ holder' = [e \in Events |-> IF holder[e] = w THEN None ELSE holder[e]]
    /\ rank' = [rank EXCEPT ![w] = [e \in Events |-> 0]]
    /\ cand' = [cand EXCEPT ![w] = {}]
    /\ batch' = [batch EXCEPT ![w] = {}]
    /\ tx' = [tx EXCEPT ![w] = [e \in Events |-> Blank("ABSENT")]]
    /\ cnt' = [cnt EXCEPT ![w] = 0]
    /\ more' = [more EXCEPT ![w] = FALSE]

\* The transaction commits. When there is more to do the while loop goes
\* round; beyond the limit it also sends itself another wake up.
Commit(w) ==
    /\ pc[w] = "commit"
    /\ ev' = [e \in Events |-> IF holder[e] = w THEN tx[w][e] ELSE ev[e]]
    /\ EndTransaction(w)
    /\ \/ /\ more[w]
          /\ pc' = [pc EXCEPT ![w] = "select"]
          /\ total' = [total EXCEPT ![w] = @ + cnt[w]]
          /\ UNCHANGED seen
          /\ wakes' = IF total[w] + cnt[w] > MaxPerHeartbeat /\ wakes < MaxWakes
                      THEN wakes + 1 ELSE wakes
       \/ /\ ~more[w]
          /\ pc' = [pc EXCEPT ![w] = "dequeue"]
          /\ seen' = [seen EXCEPT ![w] = None]
          /\ total' = [total EXCEPT ![w] = 0]
          /\ UNCHANGED wakes
    /\ UNCHANGED <<consumer, job, history>>

\* PostgreSQL aborts one of the transactions of a lock cycle; the exception
\* ends the task (try_run_all stops at the first failed job).
Deadlocked(S) ==
    \A w \in S : /\ pc[w] = "lock"
                 /\ Cardinality(batch[w]) <= MaxEvents
                 /\ \E e \in cand[w] : IsFirst(w, e, cand[w]) /\ holder[e] \in S

DeadlockAbort(w) ==
    /\ \E S \in SUBSET Workers : w \in S /\ Deadlocked(S)
    /\ EndTransaction(w)
    /\ EndTask(w)
    /\ UNCHANGED <<ev, consumer, job, wakes, history>>

\* The worker process dies: its transaction is rolled back, what it POSTed
\* stays POSTed, and the job it claimed is gone.
Crash(w) ==
    /\ pc[w] # "idle"
    /\ crashes < MaxCrashes
    /\ crashes' = crashes + 1
    /\ EndTransaction(w)
    /\ EndTask(w)
    /\ UNCHANGED <<ev, consumer, job, wakes, accepted, late>>

----------------------------------------------------------------------------

Post(w) == \E e \in Events : \/ PostOk(w, e)
                             \/ \E f \in Failures : PostFails(w, e, f)

\* The steps a running worker takes by itself.
Work(w) ==
    \/ Dequeue(w) \/ Select(w) \/ LocksTaken(w) \/ StopSending(w)
    \/ \E e \in Events : LockRow(w, e)
    \/ Post(w) \/ Commit(w) \/ DeadlockAbort(w)

Environment ==
    \/ \E e \in Events : CommitEvent(e) \/ TruncateEvents(e) \/ Tick(e)
    \/ \E S \in SUBSET Events : DeleteOldEvents(S)
    \/ \E m \in Modes : SetMode(m)
    \/ DeleteConsumer \/ Wake \/ ExpireWake
    \/ \E w \in Workers : Crash(w)

Next == Environment \/ \E w \in Workers : StartTask(w) \/ Work(w)

Spec == Init /\ [][Next]_vars

\* celery beat keeps waking the consumer, a message is eventually taken even
\* though others expired, a running worker goes on, and time passes.
Fairness ==
    /\ WF_vars(Wake)
    /\ SF_vars(\E w \in Workers : StartTask(w))
    /\ \A w \in Workers : SF_vars(Work(w))
    /\ \A e \in Events : WF_vars(Tick(e))

FairSpec == Spec /\ Fairness

----------------------------------------------------------------------------
(* Properties *)

\* Types; what a worker holds between transactions.
TypeOK ==
    /\ ev \in [Events -> Row]
    /\ holder \in [Events -> Workers \cup {None}]
    /\ consumer \in [mode : Modes, alive : BOOLEAN]
    /\ job \in BOOLEAN
    /\ wakes \in 0 .. MaxWakes
    /\ pc \in [Workers -> {"idle", "dequeue", "select", "lock", "send", "commit"}]
    /\ seen \in [Workers -> Modes \cup {None}]
    /\ rank \in [Workers -> [Events -> Nat]]
    /\ cand \in [Workers -> SUBSET Events]
    /\ batch \in [Workers -> SUBSET Events]
    /\ tx \in [Workers -> [Events -> Row]]
    /\ cnt \in [Workers -> 0 .. MaxEvents]
    /\ total \in [Workers -> Nat]
    /\ more \in [Workers -> BOOLEAN]
    /\ accepted \in [Events -> Nat]
    /\ late \subseteq Events
    /\ crashes \in 0 .. MaxCrashes

\* README "guaranteed delivery": an event is marked SUCCESS only after the
\* consumer processed it, and given up only after retry_max + 1 attempts.
GuaranteedDelivery ==
    \A e \in Events :
        /\ ev[e].st = "SUCCESS" => accepted[e] > 0
        /\ ev[e].st = "FAILED" => RetryMax > 0 /\ ev[e].retries = RetryMax + 1

\* The version of a row that counts: the one its lock holder is working on.
Current(e) == IF holder[e] = None THEN ev[e] ELSE tx[holder[e]][e]

\* The consumer processes an event twice only when an attempt failed without
\* it noticing, or when a crash rolled the SUCCESS mark back: concurrent
\* heartbeats (select_for_update) never send the same event side by side.
DuplicatesAccounted ==
    \A e \in Events :
        Current(e).st \notin {"ABSENT", "GONE"} =>
            accepted[e] <= Current(e).retries + crashes
                           + (IF Current(e).st = "SUCCESS" THEN 1 ELSE 0)

\* IN_ORDER: an event reaches the consumer only when every earlier event has
\* reached it before, was given up or was deleted; only an event committed
\* after a later one was picked up is overtaken.
Settled(e) == accepted[e] > 0 \/ ev[e].st \in {"ABSENT", "FAILED", "GONE"}
InOrderDelivery ==
    \A d, e \in Events :
        d < e /\ accepted[e] > 0 /\ d \notin late => Settled(d)

\* The rows as the promise of EventOutbox sees them.
Outbox == INSTANCE EventOutbox WITH
    MayGiveUp <- RetryMax > 0,
    status <- [e \in Events |->
                  IF ev[e].st = "ABSENT" THEN "future"
                  ELSE IF ev[e].st \in Open THEN "pending" ELSE "closed"],
    reached <- {e \in Events : accepted[e] > 0},
    overtaken <- late

\* Delivery to an IN_ORDER consumer keeps the promise, through retries,
\* concurrent heartbeats, crashes and truncation.
ImplementsOutbox == Outbox!Spec

\* retries counts whole backoff cycles and the attempts of the current one, a
\* cycle is never longer than retry_backoff_every attempts, and a full cycle
\* has its delay set: the pacing survives crashes and concurrent heartbeats.
RetryAccounting ==
    \A e \in Events :
        LET row == ev[e] IN
        /\ row.retries = row.cycles * BackoffEvery + row.inCycle
        /\ row.inCycle <= BackoffEvery
        /\ row.inCycle = BackoffEvery => row.handle # "unset"

\* Heartbeats of an IN_ORDER consumer lock the rows in the same order, however
\* the rows change while one waits: they never wait for each other.
NoLockCycle == \A S \in SUBSET Workers : S # {} => ~Deadlocked(S)

\* A finished event is never sent again and its row is only ever deleted.
FinalIsFinal ==
    [][\A e \in Events : ev[e].st \in Final =>
          /\ ev'[e] = ev[e] \/ ev'[e].st = "GONE"
             \/ (ev[e].handle = "waiting" /\ ev'[e] = [ev[e] EXCEPT !.handle = "due"])
          /\ accepted'[e] = accepted[e]]_vars

\* With retry_max = 0 an event the target never accepts stays for ever, and an
\* IN_ORDER consumer waits behind it.
HeldUp(e) ==
    RetryMax = 0 /\ \/ e \in Poison
                    \/ /\ consumer.mode = IN_ORDER
                       /\ \E d \in Poison : d < e /\ ev[d].st \in Open

\* Every committed event is eventually sent, given up or deleted while the
\* consumer exists: no heartbeat is lost for good to a crash, an expired
\* message or a job claimed by a worker that died, and IN_ORDER_NON_BLOCKING
\* events get past one that is refused over and over.
EventuallySettled ==
    \A e \in Events :
        ev[e].st \in Open ~> (ev[e].st \notin Open \/ ~consumer.alive \/ HeldUp(e))

----------------------------------------------------------------------------
(* The inductive invariant behind the safety properties. *)

\* What every version of a row says about itself, committed or not.
RowOk(row, acc) ==
    /\ row.st = "SUCCESS" => acc > 0
    /\ row.st = "FAILED" => RetryMax > 0 /\ row.retries = RetryMax + 1
    /\ row.st \in Open /\ RetryMax > 0 => row.retries <= RetryMax
    /\ row.retries = row.cycles * BackoffEvery + row.inCycle
    /\ row.inCycle <= BackoffEvery
    /\ row.inCycle = BackoffEvery => row.handle # "unset"
RowInv ==
    \A e \in Events :
        /\ RowOk(ev[e], accepted[e])
        /\ \A w \in Workers : tx[w][e].st # "GONE" /\ RowOk(tx[w][e], accepted[e])

\* A worker has locks and rows only inside its transaction, the rows it is
\* still to send are its own, open and as committed, a locked row exists, and
\* what is final stays as it is.
LockInv ==
    \A w \in Workers, e \in Events :
        /\ pc[w] \in {"idle", "dequeue", "select"} =>
              e \notin cand[w] /\ e \notin batch[w] /\ holder[e] # w
        /\ e \in cand[w] => ev[e].st # "ABSENT"
        /\ e \in batch[w] => holder[e] = w /\ ev[e].st \in Open /\ tx[w][e] = ev[e]
        /\ holder[e] = w => ev[e].st \notin {"ABSENT", "GONE"}
                            /\ tx[w][e].st \notin {"ABSENT", "GONE"}
        /\ holder[e] = w /\ ev[e].st \in Final => tx[w][e].st = ev[e].st
        /\ accepted[e] > 0 => ev[e].st # "ABSENT"

\* At most one event fails in a transaction, and it is the last one handled.
GivesUp(w, e) == holder[e] = w /\ ev[e].st \in Open /\ tx[w][e].st = "FAILED"
OneFailure ==
    \A w \in Workers, d, e \in Events :
        GivesUp(w, d) => pc[w] = "commit" /\ (GivesUp(w, e) => d = e)

\* IN_ORDER: what a worker has locked comes before what it has yet to lock,
\* and every event it lacks that comes before one it has is settled.
OrderInv ==
    \A w \in Workers, d, e \in Events :
        /\ rank[w][d] = 0
        /\ pc[w] \in {"lock", "send"} /\ e \in cand[w] /\ d \in batch[w] => d < e
        /\ /\ pc[w] \in {"lock", "send"}
           /\ e \in cand[w] \cup batch[w]
           /\ d < e /\ d \notin late
           => d \in cand[w] \cup batch[w] \/ Settled(d)

\* A heartbeat works with the mode it loaded.
LoadedInv ==
    \A w \in Workers : pc[w] \notin {"idle", "dequeue"} => seen[w] \in Modes

DeliveryInv == RowInv /\ LockInv /\ OneFailure
InOrderInv == DeliveryInv /\ LoadedInv /\ OrderInv /\ InOrderDelivery
============================================================================
