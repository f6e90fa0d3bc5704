------------------------------ MODULE MetaModel ------------------------------
(***************************************************************************)
(* The meta model of the server: data series and their children (facts,    *)
(* dimensions, user defined indexes, consumers), the group permissions on  *)
(* a data series, and the backend migration that locks it.                 *)
(*                                                                         *)
(* Rows are soft deleted and a new row under the same external id is       *)
(* another row.  The model keeps what a request can see, one entry per     *)
(* external id; a reference to a row that is deleted becomes Gone and      *)
(* stays Gone when the external id is used again, which is all that the    *)
(* primary keys tell apart.                                                *)
(*                                                                         *)
(* A request is a record.  Accepts(r) is what its view and serializer      *)
(* check, Effect(r) what it writes; ATOMIC_REQUESTS puts both in one       *)
(* transaction, at isolation level read committed.                         *)
(***************************************************************************)
EXTENDS Integers, FiniteSets

CONSTANTS
    Series,     \* external ids of data series
    Keys,       \* children: <<kind, external id>>
    Groups,     \* groups of the tenant
    Perms,      \* permissions on a data series
    Attrs,      \* values of name, optional, target, extra_config, ...
    Backends,   \* selectable storage backends
    Absent,     \* no live row under this external id
    NoRef,      \* the reference of a child that is not a dimension
    Gone        \* a row that has been deleted

Kind(k) == k[1]
Name(k) == k[2]

ASSUME KeysAssumption ==
    /\ Gone \notin Keys \cup Series
    /\ NoRef \notin Series
    /\ \A j, k \in Keys : Kind(j) = Kind(k) /\ Name(j) = Name(k) => j = k

Head  == [attr: Attrs, backend: Backends]
Child == [attr: Attrs, ref: Series \cup {NoRef, Gone}, targets: SUBSET (Keys \cup {Gone})]

ASSUME AbsentAssumption == Absent \notin Head \cup Child

Childless == [k \in Keys |-> Absent]
NoGrants  == [g \in Groups |-> {}]

VARIABLES
    head,       \* DataSeries: name, backend, extra_config
    locked,     \* DataSeries.locked
    migrating,  \* data series with a row in MetaModelTaskData
    child,      \* the live children of a data series
    grant       \* the permissions assigned to a group on a data series

meta == <<head, locked, migrating, child, grant>>

TypeOK ==
    /\ head \in [Series -> Head \cup {Absent}]
    /\ locked \in [Series -> BOOLEAN]
    /\ migrating \subseteq Series
    /\ child \in [Series -> [Keys -> Child \cup {Absent}]]
    /\ grant \in [Series -> [Groups -> SUBSET Perms]]

Live(s)   == head[s] # Absent
Has(s, k) == child[s][k] # Absent

\* locked refuses POST, PUT, PATCH and DELETE on the series and below it.
Writable(s) == Live(s) /\ ~locked[s]

(***************************************************************************)
(* Requests.                                                               *)
(***************************************************************************)
Series_(op, s, h)      == [op |-> op, on |-> "series", series |-> s, at |-> s, body |-> h]
Child_(op, s, k, c)    == [op |-> op, on |-> "child", series |-> s, at |-> k, body |-> c]
Grant_(op, s, g, p)    == [op |-> op, on |-> "grant", series |-> s, at |-> g, body |-> p]

Is(r, on, op) == r.on = on /\ r.op = op

\* The live dimensions of other live data series that refer to s.
Referring(s) ==
    {t \in Series \ {s} : Live(t) /\ \E k \in Keys : Has(t, k) /\ child[t][k].ref = s}

\* The live indexes of s that target its child k.
IndexesOn(s, k) == {i \in Keys : Has(s, i) /\ k \in child[s][i].targets}

\* External ids are unique among the indexes, among the consumers, and among
\* the dimensions and facts; for the latter every relation is asked but the
\* one of file facts.
Namespace(k) == IF Kind(k) \in {"index", "consumer"} THEN Kind(k) ELSE "structure"
NameTaken(s, k) ==
    \/ Has(s, k)
    \/ \E j \in Keys : /\ Has(s, j) /\ Name(j) = Name(k) /\ Namespace(j) = Namespace(k)
                       /\ Kind(j) # "file"

AcceptsCreateSeries(r) == ~Live(r.series)

AcceptsUpdateSeries(r) == Writable(r.series)

\* Mutant: a data series that others refer to is deleted.
AcceptsDeleteReferred(r) == Writable(r.series)

AcceptsDeleteSeries(r) == Writable(r.series) /\ Referring(r.series) = {}

AcceptsCreateChild(r) ==
    /\ Writable(r.series) /\ ~NameTaken(r.series, r.at)
    /\ Kind(r.at) = "dimension" => r.body.ref \in Series /\ Live(r.body.ref)
    /\ Kind(r.at) = "index" => /\ r.body.targets # {}
                               /\ \A k \in r.body.targets : k \in Keys /\ Has(r.series, k)

\* A dimension cannot change its reference, nor an index its targets.
AcceptsUpdateChild(r) ==
    /\ Writable(r.series) /\ Has(r.series, r.at)
    /\ r.body.ref = child[r.series][r.at].ref
    /\ r.body.targets = child[r.series][r.at].targets

AcceptsDeleteChild(r) ==
    /\ Writable(r.series) /\ Has(r.series, r.at)
    /\ IndexesOn(r.series, r.at) = {}

AcceptsGrant(r) == Writable(r.series)

Accepts(r) ==
    \/ Is(r, "series", "CREATE") /\ AcceptsCreateSeries(r)
    \/ Is(r, "series", "UPDATE") /\ AcceptsUpdateSeries(r)
    \/ Is(r, "series", "DELETE") /\ AcceptsDeleteSeries(r)
    \/ Is(r, "child", "CREATE") /\ AcceptsCreateChild(r)
    \/ Is(r, "child", "UPDATE") /\ AcceptsUpdateChild(r)
    \/ Is(r, "child", "DELETE") /\ AcceptsDeleteChild(r)
    \/ r.on = "grant" /\ AcceptsGrant(r)

(***************************************************************************)
(* What a request writes.                                                  *)
(***************************************************************************)

\* The creator gets every permission on the new row, no group has any.
CreateSeries(r) ==
    /\ head' = [head EXCEPT ![r.series] = r.body]
    /\ locked' = [locked EXCEPT ![r.series] = FALSE]
    /\ child' = [child EXCEPT ![r.series] = Childless]
    /\ grant' = [grant EXCEPT ![r.series] = NoGrants]
    /\ UNCHANGED migrating

\* Mutant: the task is not stored, so that nothing unlocks the data series.
UpdateWithoutTask(r) ==
    /\ head' = [head EXCEPT ![r.series] = r.body]
    /\ locked' = [locked EXCEPT ![r.series] = r.body.backend # head[r.series].backend]
    /\ UNCHANGED <<migrating, child, grant>>

\* A change of the backend locks the series and leaves a task for the migration.
UpdateSeries(r) ==
    LET migrates == r.body.backend # head[r.series].backend
    IN  /\ head' = [head EXCEPT ![r.series] = r.body]
        /\ locked' = [locked EXCEPT ![r.series] = migrates]
        /\ migrating' = IF migrates THEN migrating \cup {r.series} ELSE migrating
        /\ UNCHANGED <<child, grant>>

\* The trigger on data_series soft deletes the relations of all children.
DeleteSeries(r) ==
    /\ head' = [head EXCEPT ![r.series] = Absent]
    /\ child' = [s \in Series |->
                    IF s = r.series THEN Childless
                    ELSE [k \in Keys |->
                            IF child[s][k] # Absent /\ child[s][k].ref = r.series
                            THEN [child[s][k] EXCEPT !.ref = Gone] ELSE child[s][k]]]
    /\ grant' = [grant EXCEPT ![r.series] = NoGrants]
    /\ UNCHANGED <<locked, migrating>>

WriteChild(r) ==
    /\ child' = [child EXCEPT ![r.series][r.at] = r.body]
    /\ UNCHANGED <<head, locked, migrating, grant>>

\* Mutant: the relation outlives the child and points at a deleted row.
DeleteChildOnly(r) ==
    /\ child' = [child EXCEPT ![r.series][r.at] = Gone]
    /\ UNCHANGED <<head, locked, migrating, grant>>

\* The trigger on the child's table soft deletes its relation.
DeleteChild(r) ==
    /\ child' = [child EXCEPT ![r.series] =
                    [k \in Keys |->
                        IF k = r.at THEN Absent
                        ELSE IF child[r.series][k] # Absent /\ r.at \in child[r.series][k].targets
                        THEN [child[r.series][k] EXCEPT !.targets = (@ \ {r.at}) \cup {Gone}]
                        ELSE child[r.series][k]]]
    /\ UNCHANGED <<head, locked, migrating, grant>>

\* PUT removes and adds what differs from the list in the request.
PutGrant(r) ==
    /\ grant' = [grant EXCEPT ![r.series][r.at] = r.body]
    /\ UNCHANGED <<head, locked, migrating, child>>

Effect(r) ==
    \/ Is(r, "series", "CREATE") /\ CreateSeries(r)
    \/ Is(r, "series", "UPDATE") /\ UpdateSeries(r)
    \/ Is(r, "series", "DELETE") /\ DeleteSeries(r)
    \/ r.on = "child" /\ r.op \in {"CREATE", "UPDATE"} /\ WriteChild(r)
    \/ Is(r, "child", "DELETE") /\ DeleteChild(r)
    \/ r.on = "grant" /\ PutGrant(r)

\* run_meta_model_task: the migration, the unlock and the removal of the
\* task's row are one transaction.
Migrate(s) ==
    /\ s \in migrating
    /\ locked' = [locked EXCEPT ![s] = FALSE]
    /\ migrating' = migrating \ {s}
    /\ UNCHANGED <<head, child, grant>>

(***************************************************************************)
(* The server on its own: any request at any time.                         *)
(***************************************************************************)
Shaped(k, c) == /\ c \in Child
                /\ Kind(k) # "dimension" => c.ref = NoRef
                /\ Kind(k) # "index" => c.targets = {}

Requests ==
    {Series_(op, s, h) : op \in {"CREATE", "UPDATE", "DELETE"}, s \in Series, h \in Head}
    \cup {Grant_(op, s, g, p) : op \in {"CREATE", "UPDATE"}, s \in Series, g \in Groups,
                                p \in SUBSET Perms}
    \cup UNION {{Child_(op, s, k, c) : op \in {"CREATE", "UPDATE", "DELETE"}, s \in Series,
                                     c \in {b \in Child : Shaped(k, b)}} : k \in Keys}

Serve(r) == Accepts(r) /\ Effect(r)

MetaInit == /\ head = [s \in Series |-> Absent]
            /\ locked = [s \in Series |-> FALSE]
            /\ migrating = {}
            /\ child = [s \in Series |-> Childless]
            /\ grant = [s \in Series |-> NoGrants]

MetaNext == (\E r \in Requests : Serve(r)) \/ (\E s \in Series : Migrate(s))

MetaSpec == MetaInit /\ [][MetaNext]_meta

(***************************************************************************)
(* Safety.                                                                 *)
(***************************************************************************)

\* A live dimension refers to a live data series and a live index targets live
\* children of its own series, whatever was deleted and created again since:
\* the refusals of views/metamodel/data_series.py and structure.py keep every
\* definition readable.
RefsLive    == \A s \in Series, k \in Keys : Has(s, k) =>
                    child[s][k].ref = NoRef \/ (child[s][k].ref \in Series /\ Live(child[s][k].ref))
TargetsLive == \A s \in Series, i \in Keys : Has(s, i) =>
                    \A k \in child[s][i].targets : k \in Keys /\ Has(s, k)
NothingDangles == RefsLive /\ TargetsLive

\* A data series is locked exactly while the task of its migration is in the
\* database, so that every lock ends and no migration runs unlocked.
LockCoversMigration ==
    \A s \in Series : /\ locked[s] <=> s \in migrating
                      /\ s \in migrating => Live(s)
==============================================================================
