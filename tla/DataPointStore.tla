--------------------------- MODULE DataPointStore ---------------------------
(***************************************************************************)
(* One data point in the tables of its data series: the materialized row   *)
(* that ordinary reads use, the flat history that point_in_time reads use, *)
(* and the files it refers to with their rows in the file lookup table.    *)
(*                                                                         *)
(* Requests race. A request reads the point, takes a point_in_time and a   *)
(* sub_clock in two separate queries, and then upserts with a guard on     *)
(* that pair; whichever transaction comes second waits for the row lock,   *)
(* so that an upsert and its commit are one step here.                     *)
(*                                                                         *)
(* Two columns stand for the payload: "data" is any fact or dimension,     *)
(* "file" a file or image fact. A value is the write that uploaded it: a   *)
(* file's name is drawn anew for every upload. inserted_at is left out.    *)
(*                                                                         *)
(* Source: skipper/dataseries/storage/dynamic_sql (queries/                *)
(* modification_materialized, serializers, tasks/prune.py, tasks/          *)
(* truncate.py), storage/contract/file_registry.py, raw_sql/dbtime.py.     *)
(***************************************************************************)
EXTENDS Integers, FiniteSets

CONSTANTS
    Writes,      \* the write requests
    Base,        \* the write an existing row stems from
    None,        \* SQL NULL
    Backend,     \* FLAT_HISTORY or NO_HISTORY
    Kinds,       \* the kinds of write the clients make
    Chores,      \* the maintenance tasks that run: "prune", "truncate", "collect"
    Discipline,  \* bound: the races left out (see Begin, PruneHistory, Truncate)
    Ties,        \* does clock_timestamp() ever repeat a microsecond
    MaxClock     \* bound: the last microsecond

FLAT_HISTORY == "FLAT_HISTORY"
NO_HISTORY == "NO_HISTORY"
AllKinds == {"create", "bulk", "put", "patch", "delete"}

ASSUME NamesAssumption ==
    /\ IsFiniteSet(Writes) /\ Base # None /\ None \notin Nat
    /\ {Base, None} \cap Writes = {}
ASSUME BackendAssumption == Backend \in {FLAT_HISTORY, NO_HISTORY}
ASSUME KindsAssumption == Kinds \subseteq AllKinds
ASSUME BoundsAssumption ==
    /\ Chores \subseteq {"prune", "truncate", "collect"}
    /\ Discipline \subseteq {"delete", "prune", "truncate"}
    /\ Ties \in BOOLEAN
    /\ MaxClock \in Nat

VARIABLES
    clock,    \* the database server's clock_timestamp()
    subClock, \* the sequence _3_dp_sub_clock_seq
    row,      \* the row of the materialized table
    hist,     \* the rows of the flat history table
    lookups,  \* the rows of _3_file_lookup
    stored,   \* the files in the media storage
    op,       \* the write requests
    last,     \* the event that comes last in delivery order
    applied,  \* history: writes committed since the table was last truncated
    before    \* history: the writes committed when a write began

files == <<lookups, stored>>
vars == <<clock, subClock, row, hist, files, op, last, applied, before>>

----------------------------------------------------------------------------
(* Rows *)

\* What a cell holds: the write that set it.
Values == Writes \cup {Base, None}

\* del is deleted_at, 0 for NULL; sub is None on rows written before the
\* sub_clock column existed; pit = 0 is no row at all.
Absent == [pit |-> 0, sub |-> 0, del |-> 0, data |-> None, file |-> None]
BaseRow == [pit |-> 1, sub |-> 0, del |-> 0, data |-> Base, file |-> Base]
LegacyRow == [BaseRow EXCEPT !.sub = None, !.file = None]

Exists(r) == r.pit # 0
Live(r) == Exists(r) /\ r.del = 0

\* (Where two definitions with the same parameters follow one another, the
\* first is the second one gone wrong, for the section "Mutants" of README.md.)

\* (t, s) < (pit, sub), and t < pit where the row has no sub_clock.
WithoutSubClock(t, s, pit, sub) == t < pit
Newer(t, s, pit, sub) == t < pit \/ (t = pit /\ s # None /\ s < sub)

\* When the row got the state it is in.
Since(r) == IF r.del = 0 THEN r.pit ELSE r.del

WithoutDeleted(r) == [pit |-> Since(r), sub |-> r.sub,
                      data |-> r.data, file |-> r.file]
HistoryOf(r) == [pit |-> Since(r), sub |-> r.sub, deleted |-> r.del # 0,
                 data |-> r.data, file |-> r.file]

LookupOf(w, pit, sub) == [file |-> w, pit |-> pit, sub |-> sub, marked |-> FALSE]
Mark(L, M) == (L \ M) \cup {[l EXCEPT !.marked = TRUE] : l \in M \cap L}

\* steps of a request: idle, open, saved, done (committed) or rolled back.
Idle == [kind |-> "put", brings |-> {}, step |-> "idle", pit |-> 0,
         sub |-> 0, marks |-> {}]

Init ==
    /\ clock = 2 /\ subClock = 0
    /\ row \in {Absent, BaseRow}
              \cup (IF Backend = NO_HISTORY THEN {LegacyRow} ELSE {})
    /\ hist = IF Exists(row) /\ Backend = FLAT_HISTORY
              THEN {HistoryOf(row)} ELSE {}
    /\ lookups = IF row = BaseRow THEN {LookupOf(Base, 1, 0)} ELSE {}
    /\ stored = IF row = BaseRow THEN {Base} ELSE {}
    /\ op = [w \in Writes |-> Idle]
    /\ last = [kind |-> "NONE", pit |-> 0]
    /\ applied = {}
    /\ before = [w \in Writes |-> {}]

----------------------------------------------------------------------------
(* The clocks *)

\* What clock_timestamp() may answer next.
Now == {t \in {clock, clock + 1} : t <= MaxClock /\ (t = clock => Ties)}

\* PUT and PATCH draw the sub_clock in the view and the point_in_time later,
\* in impl_update; every other write draws them the other way round.
SubClockFirst(w) == op[w].kind \in {"put", "patch"}

Stamped(w) == op[w].pit # 0 /\ op[w].sub # 0
InFlight(w) == op[w].step \in {"open", "saved"}
Committed == {w \in Writes : op[w].step = "done"}

\* dbtime.now()
ReadPointInTime(w) ==
    /\ op[w].step = "open"
    /\ op[w].pit = 0
    /\ SubClockFirst(w) => op[w].sub # 0
    /\ \E t \in Now : clock' = t /\ op' = [op EXCEPT ![w].pit = t]
    /\ UNCHANGED <<subClock, row, hist, files, last, applied, before>>

\* dbtime.dp_sub_clock()
ReadSubClock(w) ==
    /\ op[w].step = "open"
    /\ op[w].sub = 0
    /\ ~SubClockFirst(w) => op[w].pit # 0
    /\ subClock' = subClock + 1
    /\ op' = [op EXCEPT ![w].sub = subClock']
    /\ UNCHANGED <<clock, row, hist, files, last, applied, before>>

----------------------------------------------------------------------------
(* Writes *)

\* A create needs an unused external id, a bulk import overwrites, and the
\* others need the point: what the request found then is not looked at again.
Accepted(kind) ==
    CASE kind = "create" -> ~Live(row)
      [] kind = "bulk" -> TRUE
      [] OTHER -> Live(row)

\* Which columns a request has in its payload.
Payloads(kind) ==
    CASE kind = "delete" -> {{}}
      [] kind = "patch" -> {{"data"}, {"file"}}
      [] OTHER -> {{"data"}, {"data", "file"}}

\* Bound: with "delete" in Discipline no two deletes overlap.
Begin(w) ==
    /\ op[w].step = "idle"
    /\ \E kind \in Kinds :
        /\ Accepted(kind)
        /\ kind = "delete" /\ "delete" \in Discipline =>
              ~\E v \in Writes : InFlight(v) /\ op[v].kind = "delete"
        /\ \E columns \in Payloads(kind) :
              op' = [op EXCEPT ![w].kind = kind, ![w].brings = columns,
                               ![w].step = "open"]
    /\ before' = [before EXCEPT ![w] = Committed]
    /\ UNCHANGED <<clock, subClock, row, hist, files, last, applied>>

\* delete_all_but_latest_for_datapoints, on the rows the transaction can see:
\* the lookups of the point that have a newer one, deleted_at or not.
AllOthers(L) == {l \in L : ~l.marked /\ \E m \in L : m # l}
Superseded(L) ==
    {l \in L : ~l.marked /\ \E m \in L : Newer(l.pit, l.sub, m.pit, m.sub)}

Uploads(w) == "file" \in op[w].brings
OwnLookup(w) ==
    IF Uploads(w) THEN {LookupOf(w, op[w].pit, op[w].sub)} ELSE {}

\* file_registry.save puts the file into the storage at once, whatever becomes
\* of the transaction, and on NO_HISTORY the superseded lookups are marked
\* before the upsert has the row lock.
SaveFiles(w) ==
    /\ op[w].step = "open"
    /\ Stamped(w)
    /\ op[w].kind # "delete"
    /\ stored' = IF Uploads(w) THEN stored \cup {w} ELSE stored
    /\ op' = [op EXCEPT ![w].step = "saved",
                        ![w].marks = IF Backend = NO_HISTORY
                                     THEN Superseded(lookups \cup OwnLookup(w))
                                     ELSE {}]
    /\ UNCHANGED <<clock, subClock, row, hist, lookups, last, applied, before>>

\* The UPDATE SET of the upsert: a PATCH sets the columns of its payload, the
\* others set all of them.
Column(w, name, old) ==
    IF name \in op[w].brings THEN w
    ELSE IF op[w].kind = "patch" THEN old ELSE None
UpsertedRow(w) ==
    [pit |-> op[w].pit, sub |-> op[w].sub, del |-> 0,
     data |-> Column(w, "data", row.data), file |-> Column(w, "file", row.file)]

\* delete_datapoint sets deleted_at and sub_clock; a point that is not there
\* any more is inserted as deleted.
DeletedRow(w) ==
    [row EXCEPT !.pit = IF Exists(row) THEN row.pit ELSE op[w].pit,
                !.sub = op[w].sub, !.del = op[w].pit]

\* The WHERE of the two ON CONFLICT clauses.
IgnoresTombstone(w) == Newer(row.pit, row.sub, op[w].pit, op[w].sub)
UpsertWins(w) == Newer(Since(row), row.sub, op[w].pit, op[w].sub)
AlwaysDeletes(w) == TRUE
DeleteWins(w) == Newer(row.pit, row.sub, op[w].pit, op[w].sub)

\* The event goes out whether the write won or not. Rows are delivered by
\* point_in_time and then id, which grows while the row is locked.
InCommitOrder(pit, kind) == [kind |-> kind, pit |-> pit]
EventAfter(pit, kind) ==
    IF last.pit <= pit THEN [kind |-> kind, pit |-> pit] ELSE last

\* The transaction's commit: the row, its version in the history, the event.
Commit(w, wins, newRow, kind) ==
    /\ row' = IF wins THEN newRow ELSE row
    /\ hist' = IF wins /\ Backend = FLAT_HISTORY
               THEN hist \cup {HistoryOf(newRow)} ELSE hist
    /\ last' = EventAfter(op[w].pit, kind)
    /\ op' = [op EXCEPT ![w].step = "done", ![w].marks = {}]
    /\ applied' = applied \cup {w}
    /\ UNCHANGED <<clock, subClock, stored, before>>

Upsert(w) ==
    /\ op[w].step = "saved"
    /\ lookups' = Mark(lookups \cup OwnLookup(w), op[w].marks)
    /\ Commit(w, UpsertWins(w), UpsertedRow(w), "CHANGED")

Delete(w) ==
    /\ op[w].step = "open"
    /\ Stamped(w)
    /\ op[w].kind = "delete"
    /\ Commit(w, DeleteWins(w), DeletedRow(w), "DELETED")
    /\ UNCHANGED lookups

\* Any failure of the request rolls back what is in the database.
RollBack(w) ==
    /\ op[w].step = "saved"
    /\ op' = [op EXCEPT ![w].step = "rolled back", ![w].marks = {}]
    /\ UNCHANGED <<clock, subClock, row, hist, files, last, applied, before>>

----------------------------------------------------------------------------
(* Maintenance tasks *)

\* prune_history: tombstones and versions older than the cutoff. Bound: with
\* "prune" in Discipline no write under way is older than it.
PruneHistory(olderThan) ==
    LET dead == row.del # 0 /\ row.del < olderThan
        left == IF dead THEN Absent ELSE row
        outdated == {h \in hist :
                        /\ h.pit < olderThan
                        /\ ~Exists(left) \/ Newer(h.pit, h.sub, left.pit, left.sub)}
        marks == IF Backend = NO_HISTORY
                 THEN {l \in lookups : dead}
                 ELSE {l \in lookups : \E h \in outdated :
                                          l.pit = h.pit /\ l.sub = h.sub}
    IN  /\ "prune" \in Chores
        /\ "prune" \in Discipline =>
              \A w \in Writes : InFlight(w) /\ op[w].pit # 0 => olderThan <= op[w].pit
        /\ row' = left
        /\ hist' = hist \ outdated
        /\ lookups' = Mark(lookups, marks)
        /\ UNCHANGED <<clock, subClock, stored, op, last, applied, before>>

\* truncate_data_series: both tables, the events and the lookups, and then the
\* DATA_SERIES_TRUNCATED event. TRUNCATE waits for the lock that every request
\* but a bulk import has on the table since it looked the point up. Bound: with
\* "truncate" in Discipline no bulk import is under way either. (The sub_clock
\* of the event only leaves a gap in the sequence.)
Truncate ==
    /\ "truncate" \in Chores
    /\ \A w \in Writes : InFlight(w) =>
          op[w].kind = "bulk" /\ "truncate" \notin Discipline
    /\ row' = Absent
    /\ hist' = {}
    /\ lookups' = Mark(lookups, lookups)
    /\ \E t \in Now :
        /\ clock' = t
        /\ last' = [kind |-> "TRUNCATED", pit |-> t]
    /\ applied' = {}
    /\ UNCHANGED <<subClock, stored, op, before>>

\* garbage_collect drops the rows marked long enough ago, commits, and removes
\* the files that no row names any more; a crash in between leaves them.
CollectGarbage(l) ==
    /\ "collect" \in Chores
    /\ l.marked
    /\ lookups' = lookups \ {l}
    /\ stored' \in {stored \ {l.file}, stored}
    /\ UNCHANGED <<clock, subClock, row, hist, op, last, applied, before>>

----------------------------------------------------------------------------

Next ==
    \/ \E w \in Writes :
        \/ Begin(w) \/ ReadPointInTime(w) \/ ReadSubClock(w)
        \/ SaveFiles(w) \/ Upsert(w) \/ Delete(w) \/ RollBack(w)
    \/ \E t \in 1..clock : PruneHistory(t)
    \/ Truncate
    \/ \E l \in lookups : CollectGarbage(l)

Spec == Init /\ [][Next]_vars

----------------------------------------------------------------------------
(* Properties *)

Version == [pit : Nat, sub : Nat \cup {None}, deleted : BOOLEAN,
            data : Values, file : Values]
Lookup == [file : Writes \cup {Base}, pit : Nat, sub : Nat, marked : BOOLEAN]

\* Every variable has its type.
TypeOK ==
    /\ clock \in Nat /\ subClock \in Nat
    /\ row \in [pit : Nat, sub : Nat \cup {None}, del : Nat,
                data : Values, file : Values]
    /\ hist \subseteq Version
    /\ lookups \subseteq Lookup
    /\ stored \subseteq Writes \cup {Base}
    /\ op \in [Writes -> [kind : AllKinds, brings : SUBSET {"data", "file"},
                          step : {"idle", "open", "saved", "done", "rolled back"},
                          pit : Nat, sub : Nat, marks : SUBSET Lookup]]
    /\ last \in [kind : {"NONE", "CHANGED", "DELETED", "TRUNCATED"}, pit : Nat]
    /\ applied \subseteq Writes
    /\ before \in [Writes -> SUBSET Writes]

\* The committed write whose (point_in_time, sub_clock) is the greatest is what
\* the row shows, in whatever order the transactions got the row lock: the
\* upsert's comment "only upsert if current date is newer".
LatestStampWins ==
    \A w \in applied :
        (\A v \in applied \ {w} : Newer(op[v].pit, op[v].sub, op[w].pit, op[w].sub))
        => IF op[w].kind = "delete" THEN ~Live(row)
           ELSE /\ Live(row)
                /\ "data" \in op[w].brings => row.data = w
                /\ "file" \in op[w].brings => row.file = w
                /\ op[w].kind # "patch" /\ ~Uploads(w) => row.file = None

\* A request that began after another one had committed is never overtaken by
\* it, although its two stamps come from two queries and PUT, PATCH and the
\* rest draw them in different orders.
LaterRequestWins ==
    \A w \in applied : \A v \in before[w] : row.sub # op[v].sub

\* What a read of the flat history "as of now" finds is what a read of the
\* materialized table finds, also after a prune.
HistoryAgrees ==
    Backend = FLAT_HISTORY =>
        LET newest == {h \in hist : \A g \in hist \ {h} :
                                       Newer(g.pit, g.sub, h.pit, h.sub)}
            found == {h \in newest : ~h.deleted}
        IN  found = (IF Live(row) THEN {HistoryOf(row)} ELSE {})

\* A consumer that handles its events in delivery order ends up with the right
\* idea of whether the point exists, although events of writes that lost are
\* sent as well.
EventsAgree == last.kind # "NONE" => (last.kind = "CHANGED" <=> Live(row))

\* A file that a reader can be pointed to, by the row or by a version in the
\* history, is in the storage: the registry's "there is no risk of dataloss".
FilesSurvive ==
    /\ Live(row) /\ row.file # None => row.file \in stored
    /\ \A h \in hist : ~h.deleted /\ h.file # None => h.file \in stored

=============================================================================
