--------------------------- MODULE DefinitionSync ---------------------------
(***************************************************************************)
(* compose_cli: definitions of data series are fetched from a server,      *)
(* compared with the definitions in a file, and the difference is applied  *)
(* with one HTTP request per operation.  Several clients do so at a time,  *)
(* any of them may be interrupted anywhere and start again, and somebody   *)
(* edits the definitions by hand.                                          *)
(***************************************************************************)
EXTENDS MetaModel

CONSTANTS
    Clients,
    Scenarios,      \* of definitions on the server at first, definitions in the file
                    \* (a Definition or Absent per series) and options of compose_cli diff
    Edits,          \* requests somebody else may send
    MaxTroubles     \* bound: interruptions of clients and requests from Edits

VARIABLES
    origin, target, options,    \* of this behaviour; they never change
    phase,      \* what a client is doing
    listed,     \* the data series in the list a client has read last
    base,       \* the definitions a client has fetched
    unread,     \* data series it has not fetched yet
    order,      \* the order of the diffs in its list
    todo,       \* the operations it has yet to apply
    failures, edits,    \* counters, bounded by MaxTroubles
    foreign,    \* others have written since the client began to fetch
    refusal     \* why the client's last push was refused

client == <<phase, listed, base, unread, order, todo, failures, foreign, refusal>>
scenario == <<origin, target, options>>
vars == <<meta, client, scenario, edits>>

(***************************************************************************)
(* Definitions.                                                            *)
(***************************************************************************)

\* A file need not name every group: perms is defined on those it names.
Definition(h, cs, gs) == [head |-> h, child |-> cs, grant |-> gs]

OnServer(s) == Definition(head[s], child[s], grant[s])

Definitions ==
    {d \in [head: Head, child: [Keys -> Child \cup {Absent}],
            grant: UNION {[gs -> SUBSET Perms] : gs \in SUBSET Groups}] :
        \A k \in Keys : d.child[k] # Absent => Shaped(k, d.child[k])}

\* References and targets are there, and every group has its permissions.
Complete(o) ==
    \A s \in Series : o[s] # Absent =>
        /\ o[s].grant \in [Groups -> SUBSET Perms]
        /\ \A k \in Keys : o[s].child[k] # Absent =>
              LET c == o[s].child[k]
              IN  /\ c.ref = NoRef \/ (c.ref \in Series /\ o[c.ref] # Absent)
                  /\ \A j \in c.targets : j \in Keys /\ o[s].child[j] # Absent

ASSUME ScenariosAssumption ==
    /\ Absent \notin Definitions
    /\ \A sc \in Scenarios : /\ {sc.origin, sc.target} \subseteq [Series -> Definitions \cup {Absent}]
                             /\ Complete(sc.origin)

ASSUME EditsAssumption == Edits \subseteq Requests

ASSUME ClientsAssumption == Clients # {}

NoDefinition == [s \in Series |-> Absent]

LiveSeries == {s \in Series : Live(s)}

(***************************************************************************)
(* The difference of two definitions.                                      *)
(***************************************************************************)

\* Mutant: whatever differs is deleted and created again.
RecreatedAlways(k, b, t) == TRUE

\* The reference of a dimension and the targets of an index cannot be updated.
Recreated(k, b, t) == \/ Kind(k) = "dimension" /\ b.ref # t.ref
                      \/ Kind(k) = "index" /\ b.targets # t.targets

Changed(b, t) == {k \in Keys : b[k] # Absent /\ t[k] # Absent /\ b[k] # t[k]}

ChildDiff(s, b, t, missing) ==
    LET again == {k \in Changed(b, t) : Recreated(k, b[k], t[k])}
    IN  {Child_("DELETE", s, k, b[k]) :
            k \in again \cup {j \in missing : b[j] # Absent /\ t[j] = Absent}}
        \cup {Child_("CREATE", s, k, t[k]) :
            k \in again \cup {j \in Keys : b[j] = Absent /\ t[j] # Absent}}
        \cup {Child_("UPDATE", s, k, t[k]) : k \in Changed(b, t) \ again}

\* Mutant: a group gets what the file gives it, whatever it had.
GrantDiffReplaces(s, b, t, revoke) ==
    {Grant_("CREATE", s, g, t[g]) : g \in DOMAIN t \ DOMAIN b}
    \cup {Grant_("UPDATE", s, g, t[g]) : g \in {h \in DOMAIN t \cap DOMAIN b : t[h] # b[h]}}

\* Mutant: a group never loses what it had.
GrantDiffMerges(s, b, t, revoke) ==
    {Grant_("CREATE", s, g, t[g]) : g \in DOMAIN t \ DOMAIN b}
    \cup {Grant_("UPDATE", s, g, t[g] \cup b[g]) : g \in {h \in DOMAIN t \cap DOMAIN b : t[h] # b[h]}}

\* A group that the file does not name becomes a DELETE.
GrantDiff(s, b, t, revoke) ==
    {Grant_("DELETE", s, g, b[g]) : g \in IF revoke THEN DOMAIN b \ DOMAIN t ELSE {}}
    \cup {Grant_("CREATE", s, g, t[g]) : g \in DOMAIN t \ DOMAIN b}
    \cup {Grant_("UPDATE", s, g, IF revoke THEN t[g] ELSE t[g] \cup b[g]) :
            g \in {h \in DOMAIN t \cap DOMAIN b : t[h] # b[h]}}

NoGroups == [g \in {} |-> {}]
Consumers == {k \in Keys : Kind(k) = "consumer"}

SeriesDiff(s, b, t) ==
    IF b = Absent THEN
        {Series_("CREATE", s, t.head)}
        \cup ChildDiff(s, Childless, t.child, {}) \cup GrantDiff(s, NoGroups, t.grant, FALSE)
    ELSE IF t = Absent THEN
        IF options.delete_in_base
        THEN {Series_("DELETE", s, b.head)}
             \cup ChildDiff(s, b.child, Childless, Keys) \cup GrantDiff(s, b.grant, NoGroups, TRUE)
        ELSE {}
    ELSE
        {Series_("UPDATE", x, t.head) : x \in IF b.head # t.head THEN {s} ELSE {}}
        \cup ChildDiff(s, b.child, t.child,
                       IF options.remove_consumers THEN Keys ELSE Keys \ Consumers)
        \cup GrantDiff(s, b.grant, t.grant, options.revoke)

(***************************************************************************)
(* What a push requests, and in which order.                               *)
(***************************************************************************)

\* A push reads each data series before it deletes and before it writes indexes.
Look(s, on) == [op |-> "GET", on |-> on, series |-> s, at |-> s, body |-> Absent]

Looks(s, b, t) ==
    {Look(s, "before deletes") : x \in {b} \ {Absent}}
    \cup IF t = Absent /\ options.delete_in_base THEN {} ELSE {Look(s, "before indexes")}

\* A DELETE of permissions is passed over.
Pushed(b, t) ==
    UNION {Looks(s, b[s], t[s]) \cup {r \in SeriesDiff(s, b[s], t[s]) : ~Is(r, "grant", "DELETE")} :
              s \in {x \in Series : b[x] # Absent \/ t[x] # Absent}}

Stage(r) == CASE r.on = "before deletes" \/ Is(r, "child", "DELETE") -> 1
              [] Is(r, "series", "DELETE") -> 2
              [] Is(r, "series", "CREATE") -> 3
              [] Is(r, "series", "UPDATE") -> 4
              [] r.on = "before indexes" \/ (r.on = "child" /\ r.op # "DELETE") -> 5
              [] r.on = "grant" -> 6

\* Within a data series: indexes go before and come after what they target.
DeleteTurn(kind) == CASE kind = "index" -> 1 [] kind = "consumer" -> 3 [] OTHER -> 2
\* Mutant: indexes are written before what they target.
WriteIndexesFirst(kind) == IF kind = "index" THEN 0 ELSE 2
WriteTurn(kind) == CASE kind = "index" -> 6 [] kind = "consumer" -> 3 [] OTHER -> 1
Turn(r) == CASE r.on = "before deletes" -> 0
             [] r.on = "before indexes" -> 5
             [] Is(r, "child", "CREATE") -> WriteTurn(Kind(r.at))
             [] Is(r, "child", "UPDATE") -> WriteTurn(Kind(r.at)) + 1
             [] Is(r, "child", "DELETE") -> DeleteTurn(Kind(r.at))
             [] OTHER -> 0

Before(r, q, o) ==
    \/ Stage(r) < Stage(q)
    \/ Stage(r) = Stage(q) /\ o[r.series] < o[q.series]
    \/ Stage(r) = Stage(q) /\ r.series = q.series /\ Turn(r) < Turn(q)

Due(c) == {r \in todo[c] : \A q \in todo[c] : ~Before(q, r, order[c])}

(***************************************************************************)
(* A client.                                                               *)
(***************************************************************************)
Orders == {o \in [Series -> 1..Cardinality(Series)] : \A s, t \in Series : s # t => o[s] # o[t]}

AnyOrder == CHOOSE o \in Orders : TRUE

Working == {"fetching", "deleting", "writing"}

\* The write of a client is foreign to all others that have read the definitions.
Disturb(others) ==
    foreign' = [d \in Clients |-> foreign[d] \/ (d \in others /\ phase[d] \in Working \cup {"done"})]

\* A url names a row: one of a deleted data series is dead for good.
ForgetDead(lists) == [d \in Clients |-> {s \in lists[d] : head'[s] # Absent}]

Blame(c, s) == CASE locked[s] -> "locked"
                 [] ~locked[s] /\ foreign[c] -> "stale"
                 [] OTHER -> "unexplained"

\* An HTTP error or an exception ends the program; the operator starts it again.
Stop(c, why) ==
    /\ phase' = [phase EXCEPT ![c] = "stopped"]
    /\ refusal' = [refusal EXCEPT ![c] = why]
    /\ base' = [base EXCEPT ![c] = NoDefinition]
    /\ unread' = [unread EXCEPT ![c] = {}]
    /\ listed' = [listed EXCEPT ![c] = {}]
    /\ todo' = [todo EXCEPT ![c] = {}]
    /\ foreign' = [foreign EXCEPT ![c] = FALSE]
    /\ order' = [order EXCEPT ![c] = AnyOrder]
    /\ UNCHANGED meta

\* The list of data series holds their names and backends, not their children.
FetchList(c) ==
    /\ phase[c] \in {"idle", "stopped"}
    /\ phase' = [phase EXCEPT ![c] = "fetching"]
    /\ listed' = [listed EXCEPT ![c] = LiveSeries]
    /\ unread' = [unread EXCEPT ![c] = LiveSeries]
    /\ base' = [base EXCEPT ![c] = [s \in Series |->
                   IF Live(s) THEN Definition(head[s], Childless, NoGroups) ELSE Absent]]
    /\ refusal' = [refusal EXCEPT ![c] = "none"]
    /\ UNCHANGED <<meta, order, todo, failures, foreign, edits, scenario>>

\* The url of a dimension's reference must be in the list read before.
Readable(c, s) ==
    /\ s \in listed[c]
    /\ \A k \in Keys : Has(s, k) => /\ child[s][k].ref \in listed[c] \cup {NoRef}
                                    /\ Gone \notin child[s][k].targets

FetchSeries(c, s) ==
    /\ phase[c] = "fetching" /\ s \in unread[c]
    /\ \/ /\ Readable(c, s)
          /\ base' = [base EXCEPT ![c][s] = Definition(@.head, child[s], grant[s])]
          /\ unread' = [unread EXCEPT ![c] = @ \ {s}]
          /\ UNCHANGED <<meta, phase, listed, order, todo, foreign, refusal>>
       \/ ~Readable(c, s) /\ Stop(c, Blame(c, s))
    /\ UNCHANGED <<failures, edits, scenario>>

Diff(c) ==
    /\ phase[c] = "fetching" /\ unread[c] = {}
    /\ phase' = [phase EXCEPT ![c] = "deleting"]
    /\ todo' = [todo EXCEPT ![c] = Pushed(base[c], target)]
    /\ \E o \in Orders : order' = [order EXCEPT ![c] = o]
    /\ base' = [base EXCEPT ![c] = NoDefinition]
    /\ UNCHANGED <<meta, listed, unread, failures, foreign, refusal, edits, scenario>>

\* Between the changes to data series and those below them the list is read again.
ReadUrls(c) ==
    /\ phase[c] = "deleting" /\ \A r \in todo[c] : Stage(r) > 4
    /\ phase' = [phase EXCEPT ![c] = "writing"]
    /\ listed' = [listed EXCEPT ![c] = LiveSeries]
    /\ UNCHANGED <<meta, base, unread, order, todo, failures, foreign, refusal, edits, scenario>>

\* A dimension is sent with the url of its reference.
Addressed(c, r) ==
    r.on = "child" /\ r.op # "DELETE" /\ Kind(r.at) = "dimension" => r.body.ref \in listed[c]

Answered(c, r) == IF r.op = "GET" THEN Live(r.series) ELSE Addressed(c, r) /\ Accepts(r)

Request(c) ==
    /\ phase[c] \in {"deleting", "writing"}
    /\ \E r \in Due(c) :
        /\ phase[c] = "deleting" => Stage(r) <= 4
        /\ \/ /\ Answered(c, r)
              /\ todo' = [todo EXCEPT ![c] = @ \ {r}]
              /\ IF r.op = "GET" THEN UNCHANGED <<meta, listed, foreign>>
                 ELSE Effect(r) /\ listed' = ForgetDead(listed) /\ Disturb(Clients \ {c})
              /\ UNCHANGED <<phase, base, unread, order, refusal>>
           \/ ~Answered(c, r) /\ Stop(c, Blame(c, r.series))
    /\ UNCHANGED <<failures, edits, scenario>>

Finish(c) ==
    /\ phase[c] = "writing" /\ todo[c] = {}
    /\ phase' = [phase EXCEPT ![c] = "done"]
    /\ listed' = [listed EXCEPT ![c] = {}]
    /\ order' = [order EXCEPT ![c] = AnyOrder]
    /\ UNCHANGED <<meta, base, unread, todo, failures, foreign, refusal, edits, scenario>>

\* The program dies, or gives up on an answer that never comes.
Fail(c) ==
    /\ phase[c] \in Working /\ failures + edits < MaxTroubles
    /\ failures' = failures + 1
    /\ Stop(c, "interrupted")
    /\ UNCHANGED <<edits, scenario>>

ClientStep(c) == FetchList(c) \/ (\E s \in Series : FetchSeries(c, s)) \/ Diff(c)
                 \/ ReadUrls(c) \/ Request(c) \/ Finish(c)

\* Somebody else's request.
Edit ==
    /\ failures + edits < MaxTroubles
    /\ \E r \in Edits : Serve(r)
    /\ edits' = edits + 1
    /\ listed' = ForgetDead(listed)
    /\ Disturb(Clients)
    /\ UNCHANGED <<phase, base, unread, order, todo, failures, refusal, scenario>>

RunMigration(s) == Migrate(s) /\ UNCHANGED <<client, edits, scenario>>

Init ==
    /\ \E sc \in Scenarios : origin = sc.origin /\ target = sc.target /\ options = sc.options
    /\ head = [s \in Series |-> IF origin[s] = Absent THEN Absent ELSE origin[s].head]
    /\ child = [s \in Series |-> IF origin[s] = Absent THEN Childless ELSE origin[s].child]
    /\ grant = [s \in Series |-> IF origin[s] = Absent THEN NoGrants ELSE origin[s].grant]
    /\ locked = [s \in Series |-> FALSE] /\ migrating = {}
    /\ phase = [c \in Clients |-> "idle"]
    /\ listed = [c \in Clients |-> {}]
    /\ base = [c \in Clients |-> NoDefinition]
    /\ unread = [c \in Clients |-> {}]
    /\ order = [c \in Clients |-> AnyOrder]
    /\ todo = [c \in Clients |-> {}]
    /\ failures = 0 /\ edits = 0
    /\ foreign = [c \in Clients |-> FALSE]
    /\ refusal = [c \in Clients |-> "none"]

Next == \/ \E c \in Clients : ClientStep(c) \/ Fail(c)
        \/ Edit
        \/ \E s \in Series : RunMigration(s)

Spec == Init /\ [][Next]_vars

\* The operator starts a stopped client again; the worker runs every task.
Fairness == /\ \A c \in Clients : WF_vars(ClientStep(c))
            /\ \A s \in Series : WF_vars(RunMigration(s))

FairSpec == Spec /\ Fairness

(***************************************************************************)
(* Files that can be applied.                                              *)
(***************************************************************************)

\* An index targets facts and dimensions.
Plain(c) == \A j \in c.targets : Kind(j) \notin {"index", "consumer"}

\* A file is sound if its references and targets are in the file, and its names
\* are unique.
SoundFile(t) ==
    \A s \in Series : t[s] # Absent =>
        \A k \in Keys : t[s].child[k] # Absent =>
            LET c == t[s].child[k]
            IN  /\ Plain(c)
                /\ Kind(k) = "dimension" => c.ref \in Series /\ t[c.ref] # Absent
                /\ Kind(k) = "index" => /\ c.targets # {}
                                        /\ \A j \in c.targets : j \in Keys /\ t[s].child[j] # Absent
                /\ \A j \in Keys \ {k} : t[s].child[j] # Absent =>
                      Name(j) # Name(k) \/ Namespace(j) # Namespace(k)

\* A dimension that an index of the file targets refers to what the file says.
Steady(t, s, k, c) ==
    /\ t[s] # Absent /\ t[s].child[k] # Absent
    /\ \E i \in Keys : t[s].child[i] # Absent /\ k \in t[s].child[i].targets
    => c.ref = t[s].child[k].ref

\* No dimension changes its reference under an index that stays: neither from
\* what was there at first nor from what others write.
SoundScenario(sc) ==
    /\ SoundFile(sc.target)
    /\ \A s \in Series, k \in Keys : sc.origin[s] # Absent /\ sc.origin[s].child[k] # Absent =>
          Plain(sc.origin[s].child[k]) /\ Steady(sc.target, s, k, sc.origin[s].child[k])
    /\ \A r \in Edits : r.on = "child" /\ r.op # "DELETE" =>
          Plain(r.body) /\ Steady(sc.target, r.series, r.at, r.body)

(***************************************************************************)
(* Safety.                                                                 *)
(***************************************************************************)

\* What one client leaves behind when nobody else has written since it began to
\* read: every data series of the file is there exactly as the file has it,
\* permissions of groups it does not name aside, and with delete_in_base nothing
\* else is.  However often it was interrupted before, and wherever.
Matches(s) ==
    IF target[s] = Absent THEN options.delete_in_base => ~Live(s)
    ELSE /\ head[s] = target[s].head
         /\ \A k \in Keys : \/ child[s][k] = target[s].child[k]
                            \/ k \in Consumers /\ target[s].child[k] = Absent /\ ~options.remove_consumers
         /\ \A g \in DOMAIN target[s].grant :
                IF options.revoke THEN grant[s][g] = target[s].grant[g]
                ELSE target[s].grant[g] \subseteq grant[s][g]
UndisturbedIsExact ==
    \A c \in Clients : phase[c] = "done" /\ ~foreign[c] => \A s \in Series : Matches(s)

\* The server never refuses a request of a push but for the lock of a migration
\* or because others have written since: whatever is to be changed, the order
\* of a push never asks for something whose precondition comes later.
PushIsAccepted == \A c \in Clients : refusal[c] # "unexplained"

\* Clients that apply one file to one server, each from what it has read in
\* between, do not undo each other: when all are done the server is what the
\* file makes of the definitions it had at first.
Outcome(s) ==
    LET had == origin[s] IN
    CASE target[s] = Absent /\ options.delete_in_base -> Absent
      [] target[s] = Absent /\ ~options.delete_in_base -> had
      [] target[s] # Absent -> Definition(
            target[s].head,
            [k \in Keys |->
                IF target[s].child[k] = Absent /\ had # Absent /\ k \in Consumers
                   /\ ~options.remove_consumers
                THEN had.child[k] ELSE target[s].child[k]],
            [g \in Groups |->
                LET before == IF had = Absent THEN {} ELSE had.grant[g] IN
                IF g \notin DOMAIN target[s].grant THEN before
                ELSE IF options.revoke THEN target[s].grant[g] ELSE target[s].grant[g] \cup before])
SyncedWhenDone ==
    edits = 0 /\ (\A c \in Clients : phase[c] = "done") =>
        \A s \in Series : IF Live(s) THEN OnServer(s) = Outcome(s) ELSE Outcome(s) = Absent

\* Deleting a child deletes its data.  One that the file keeps, and that can be
\* updated in place, is there at every moment of every push, its series too.
KeptSurvive ==
    edits = 0 => \A s \in Series : origin[s] # Absent =>
        /\ target[s] # Absent \/ ~options.delete_in_base => Live(s)
        /\ target[s] # Absent => \A k \in Keys :
              LET was == origin[s].child[k]
                  new == target[s].child[k]
              IN  was # Absent /\ new # Absent /\ was.ref = new.ref /\ was.targets = new.targets
                      => Has(s, k)

(***************************************************************************)
(* Liveness.                                                               *)
(***************************************************************************)

\* Restarted often enough, every client gets through: no interruption leaves
\* definitions behind that the next run cannot carry on from, no lock stays,
\* and two clients do not refuse each other for ever.
EventuallyDone == <>(\A c \in Clients : phase[c] = "done")
==============================================================================
