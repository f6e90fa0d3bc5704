------------------------ MODULE DataPointStore_proofs ------------------------
(* Proofs about DataPointStore, for every value of its constants: every       *)
(* number of requests, both backends, with and without the maintenance tasks, *)
(* and with every race the bounds of the model-checking runs leave out.       *)
EXTENDS DataPointStore, TLAPS

USE NamesAssumption
USE DEF files

Steps == {"idle", "open", "saved", "done", "rolled back"}
Op == [kind : AllKinds, brings : SUBSET {"data", "file"}, step : Steps,
       pit : Nat, sub : Nat, marks : SUBSET Lookup]
RowType == [pit : Nat, sub : Nat \cup {None}, del : Nat,
            data : Values, file : Values]

\* Assigning fields of one request's record keeps the record's type.
LEMMA OpBegins ==
    ASSUME NEW f \in [Writes -> Op], NEW w \in Writes, NEW kind \in AllKinds,
           NEW brings \in SUBSET {"data", "file"}, NEW step \in Steps
    PROVE  [f EXCEPT ![w].kind = kind, ![w].brings = brings, ![w].step = step]
              \in [Writes -> Op]
<1> DEFINE F == [Writes -> Op]
<1>1. \A g \in F : [g EXCEPT ![w].kind = kind] \in F BY DEF Op
<1>2. \A g \in F : [g EXCEPT ![w].brings = brings] \in F BY DEF Op
<1>3. \A g \in F : [g EXCEPT ![w].step = step] \in F BY DEF Op
<1> HIDE DEF F
<1> QED BY <1>1, <1>2, <1>3 DEF F

\* So does a step of a request with the lookups it marks.
LEMMA OpMoves ==
    ASSUME NEW f \in [Writes -> Op], NEW w \in Writes, NEW step \in Steps,
           NEW marks \in SUBSET Lookup
    PROVE  [f EXCEPT ![w].step = step, ![w].marks = marks] \in [Writes -> Op]
<1> DEFINE F == [Writes -> Op]
<1>1. \A g \in F : [g EXCEPT ![w].step = step] \in F BY DEF Op
<1>2. \A g \in F : [g EXCEPT ![w].marks = marks] \in F BY DEF Op
<1> HIDE DEF F
<1> QED BY <1>1, <1>2 DEF F

\* Stamps are numbers.
LEMMA ClockType == TypeOK => clock \in Nat /\ subClock \in Nat
  BY DEF TypeOK

\* Marking lookups, and the lookup of an upload, give lookups again.
LEMMA MarkType ==
    ASSUME NEW L, L \subseteq Lookup, NEW M
    PROVE  Mark(L, M) \subseteq Lookup
<1>1. ASSUME NEW l \in L PROVE [l EXCEPT !.marked = TRUE] \in Lookup
  BY DEF Lookup
<1> QED BY <1>1 DEF Mark

\* The lookup of a request's upload is a lookup.
LEMMA OwnLookupType ==
    ASSUME TypeOK, NEW w \in Writes
    PROVE  OwnLookup(w) \subseteq Lookup
<1>1. op[w].pit \in Nat /\ op[w].sub \in Nat BY DEF TypeOK
<1>2. LookupOf(w, op[w].pit, op[w].sub) \in Lookup
  BY <1>1 DEF LookupOf, Lookup
<1> QED BY <1>2 DEF OwnLookup

\* The two new rows of the upserts are rows, and a row makes a version.
LEMMA NewRowType ==
    ASSUME TypeOK, NEW w \in Writes
    PROVE  UpsertedRow(w) \in RowType /\ DeletedRow(w) \in RowType
<1>1. ASSUME NEW name, NEW old \in Values PROVE Column(w, name, old) \in Values
  BY DEF Column, Values
<1>2. row.data \in Values /\ row.file \in Values BY DEF TypeOK
<1>3. op[w].pit \in Nat /\ op[w].sub \in Nat BY DEF TypeOK
<1>4. UpsertedRow(w) \in RowType
  BY <1>1, <1>2, <1>3 DEF UpsertedRow, RowType
<1>5. DeletedRow(w) \in RowType
  BY <1>3 DEF DeletedRow, RowType, TypeOK, Exists
<1> QED BY <1>4, <1>5

\* The version of a row is a version.
LEMMA VersionType ==
    ASSUME NEW r \in RowType
    PROVE  HistoryOf(r) \in Version
  BY DEF HistoryOf, Version, RowType, Since

\* The event that comes last is an event.
LEMMA EventType ==
    ASSUME TypeOK, NEW pit \in Nat, NEW kind \in {"CHANGED", "DELETED"}
    PROVE  EventAfter(pit, kind)
              \in [kind : {"NONE", "CHANGED", "DELETED", "TRUNCATED"}, pit : Nat]
  BY DEF EventAfter, TypeOK

\* A commit keeps every variable it writes in its type.
LEMMA CommitType ==
    ASSUME TypeOK, NEW w \in Writes, NEW wins, NEW newRow \in RowType,
           NEW kind \in {"CHANGED", "DELETED"}, Commit(w, wins, newRow, kind),
           lookups' \subseteq Lookup
    PROVE  TypeOK'
<1>1. row' \in RowType BY DEF Commit, TypeOK, RowType
<1>2. hist' \subseteq Version
  BY VersionType DEF Commit, TypeOK
<1>3. op[w].pit \in Nat BY DEF TypeOK
<1>4. last' \in [kind : {"NONE", "CHANGED", "DELETED", "TRUNCATED"}, pit : Nat]
  BY <1>3, EventType DEF Commit
<1>5. op' \in [Writes -> Op]
  <2> op \in [Writes -> Op] BY DEF TypeOK, Op, Steps
  <2>1. op' = [op EXCEPT ![w].step = "done", ![w].marks = {}] BY DEF Commit
  <2> QED BY <2>1, OpMoves DEF Steps
<1> QED BY <1>1, <1>2, <1>4, <1>5 DEF Commit, TypeOK, RowType, Op, Steps

\* Everything has its type at first,
LEMMA InitType == Init => TypeOK
<1> SUFFICES ASSUME Init PROVE TypeOK OBVIOUS
<1>1. Absent \in RowType /\ BaseRow \in RowType /\ LegacyRow \in RowType
  BY DEF Absent, BaseRow, LegacyRow, RowType, Values
<1>2. row \in RowType BY <1>1 DEF Init
<1>3. hist \subseteq Version BY <1>2, VersionType DEF Init
<1>4. lookups \subseteq Lookup
  <2> LookupOf(Base, 1, 0) \in Lookup BY DEF LookupOf, Lookup
  <2> QED BY DEF Init
<1>5. stored \subseteq Writes \cup {Base} BY DEF Init
<1>6. op \in [Writes -> Op] BY DEF Init, Idle, Op, Steps, AllKinds
<1>7. /\ clock \in Nat /\ subClock \in Nat /\ applied \subseteq Writes
      /\ before \in [Writes -> SUBSET Writes]
      /\ last \in [kind : {"NONE", "CHANGED", "DELETED", "TRUNCATED"}, pit : Nat]
  BY DEF Init
<1> QED BY <1>2, <1>3, <1>4, <1>5, <1>6, <1>7 DEF TypeOK, RowType, Op, Steps

\* and after every step.
LEMMA StepType == TypeOK /\ [Next]_vars => TypeOK'
<1> SUFFICES ASSUME TypeOK, [Next]_vars PROVE TypeOK' OBVIOUS
<1>0. op \in [Writes -> Op] BY DEF TypeOK, Op, Steps
<1>1. ASSUME NEW w \in Writes, Begin(w) PROVE TypeOK'
  <2>1. PICK kind \in Kinds : \E columns \in Payloads(kind) :
              op' = [op EXCEPT ![w].kind = kind, ![w].brings = columns,
                               ![w].step = "open"]
    BY <1>1 DEF Begin
  <2>2. PICK columns \in Payloads(kind) :
              op' = [op EXCEPT ![w].kind = kind, ![w].brings = columns,
                               ![w].step = "open"]
    BY <2>1
  <2>3. kind \in AllKinds BY KindsAssumption
  <2>4. columns \in SUBSET {"data", "file"} BY DEF Payloads
  <2>5. op' \in [Writes -> Op]
    BY <1>0, <2>2, <2>3, <2>4, OpBegins DEF Steps
  <2>6. before' \in [Writes -> SUBSET Writes]
    BY <1>1 DEF Begin, TypeOK, Committed
  <2> QED BY <1>1, <2>5, <2>6 DEF Begin, TypeOK, Op, Steps
<1>2. ASSUME NEW w \in Writes, ReadPointInTime(w) PROVE TypeOK'
  <2>1. PICK t \in Now : clock' = t /\ op' = [op EXCEPT ![w].pit = t]
    BY <1>2 DEF ReadPointInTime
  <2>2. t \in Nat BY ClockType DEF Now
  <2>3. op' \in [Writes -> Op] BY <1>0, <2>1, <2>2 DEF Op
  <2> QED BY <1>2, <2>1, <2>2, <2>3 DEF ReadPointInTime, TypeOK, Op, Steps
<1>3. ASSUME NEW w \in Writes, ReadSubClock(w) PROVE TypeOK'
  <2>1. subClock' \in Nat BY <1>3, ClockType DEF ReadSubClock
  <2>2. op' \in [Writes -> Op] BY <1>0, <1>3, <2>1 DEF ReadSubClock, Op
  <2> QED BY <1>3, <2>1, <2>2 DEF ReadSubClock, TypeOK, Op, Steps
<1>4. ASSUME NEW w \in Writes, SaveFiles(w) PROVE TypeOK'
  <2>1. lookups \cup OwnLookup(w) \subseteq Lookup
    BY OwnLookupType DEF TypeOK
  <2> DEFINE marks == IF Backend = NO_HISTORY
                      THEN Superseded(lookups \cup OwnLookup(w)) ELSE {}
  <2>2. marks \in SUBSET Lookup BY <2>1 DEF Superseded
  <2>3. op' = [op EXCEPT ![w].step = "saved", ![w].marks = marks]
    BY <1>4 DEF SaveFiles
  <2> HIDE DEF marks
  <2>4. op' \in [Writes -> Op] BY <1>0, <2>2, <2>3, OpMoves DEF Steps
  <2> QED BY <1>4, <2>4 DEF SaveFiles, TypeOK, Op, Steps
<1>5. ASSUME NEW w \in Writes, Upsert(w) PROVE TypeOK'
  <2>1. lookups \cup OwnLookup(w) \subseteq Lookup
    BY OwnLookupType DEF TypeOK
  <2>2. lookups' \subseteq Lookup BY <1>5, <2>1, MarkType DEF Upsert
  <2> QED BY <1>5, <2>2, NewRowType, CommitType DEF Upsert
<1>6. ASSUME NEW w \in Writes, Delete(w) PROVE TypeOK'
  <2>1. lookups' \subseteq Lookup BY <1>6 DEF Delete, TypeOK
  <2> QED BY <1>6, <2>1, NewRowType, CommitType DEF Delete
<1>7. ASSUME NEW w \in Writes, RollBack(w) PROVE TypeOK'
  <2>0. op' = [op EXCEPT ![w].step = "rolled back", ![w].marks = {}]
    BY <1>7 DEF RollBack
  <2>1. op' \in [Writes -> Op] BY <1>0, <2>0, OpMoves DEF Steps
  <2> QED BY <1>7, <2>1 DEF RollBack, TypeOK, Op, Steps
<1>8. ASSUME NEW t \in 1 .. clock, PruneHistory(t) PROVE TypeOK'
  <2>1. Absent \in RowType BY DEF Absent, RowType, Values
  <2>2. row' \in RowType BY <1>8, <2>1 DEF PruneHistory, TypeOK, RowType
  <2>3. lookups' \subseteq Lookup BY <1>8, MarkType DEF PruneHistory, TypeOK
  <2>4. hist' \subseteq Version BY <1>8 DEF PruneHistory, TypeOK
  <2> QED BY <1>8, <2>2, <2>3, <2>4 DEF PruneHistory, TypeOK, RowType
<1>9. CASE Truncate
  <2>1. row' \in RowType BY <1>9 DEF Truncate, Absent, RowType, Values
  <2>2. lookups' \subseteq Lookup BY <1>9, MarkType DEF Truncate, TypeOK
  <2>3. PICK t \in Now : clock' = t /\ last' = [kind |-> "TRUNCATED", pit |-> t]
    BY <1>9 DEF Truncate
  <2>4. t \in Nat BY ClockType DEF Now
  <2> QED BY <1>9, <2>1, <2>2, <2>3, <2>4 DEF Truncate, TypeOK, RowType
<1>10. ASSUME NEW l \in lookups, CollectGarbage(l) PROVE TypeOK'
  BY <1>10 DEF CollectGarbage, TypeOK
<1>11. CASE UNCHANGED vars
  BY <1>11 DEF vars, TypeOK
<1> QED BY <1>1, <1>2, <1>3, <1>4, <1>5, <1>6, <1>7, <1>8, <1>9, <1>10, <1>11
        DEF Next

\* Every variable keeps its type, whatever the requests and the tasks do.
THEOREM TypeCorrect == Spec => []TypeOK
  BY InitType, StepType, PTL DEF Spec

----------------------------------------------------------------------------
(* LaterRequestWins. Stamps grow with real time: the clock does not go back,
   the sequence does not repeat, and a request that began after another had
   committed draws both of its stamps later. The version in the row carries the
   stamps of the write it stems from, so that the write finds it older. *)

\* No stamp is ahead of its clock, sub_clocks are unique, and requests have
\* stamps from when they are drawn on.
StampsInv ==
    /\ \A w \in Writes : op[w].pit <= clock /\ op[w].sub <= subClock
    /\ \A v, w \in Writes : op[v].sub = op[w].sub /\ op[v].sub # 0 => v = w
    /\ \A w \in Writes : op[w].step = "idle" => op[w].pit = 0 /\ op[w].sub = 0
    /\ \A w \in Writes : op[w].step \in {"saved", "done", "rolled back"} => Stamped(w)

\* What was committed when a write began has older stamps.
OrderInv ==
    \A w \in Writes : \A v \in before[w] :
        /\ op[v].step = "done"
        /\ op[w].pit # 0 => op[v].pit <= op[w].pit
        /\ op[w].sub # 0 => op[v].sub < op[w].sub

\* The row's version has the stamps of the committed write it stems from.
RowInv ==
    /\ row.pit <= Since(row)
    /\ row.sub # None => row.sub <= subClock
    /\ \A w \in Writes : op[w].sub # 0 /\ row.sub = op[w].sub =>
          op[w].step = "done" /\ Since(row) = op[w].pit

AppliedInv == \A w \in applied : op[w].step = "done"

OvertakeInv ==
    TypeOK /\ StampsInv /\ OrderInv /\ RowInv /\ AppliedInv /\ LaterRequestWins

\* Nothing has been written at first.
LEMMA InitOvertake == Init => OvertakeInv
<1> SUFFICES ASSUME Init PROVE OvertakeInv OBVIOUS
<1>1. \A w \in Writes : op[w].pit = 0 /\ op[w].sub = 0 /\ op[w].step = "idle"
  BY DEF Init, Idle
<1>2. StampsInv
  <2>1. clock = 2 /\ subClock = 0 BY DEF Init
  <2>2. \A w \in Writes : op[w].pit <= clock /\ op[w].sub <= subClock
    BY <1>1, <2>1
  <2> QED BY <1>1, <2>2 DEF StampsInv
<1>3. OrderInv BY DEF OrderInv, Init
<1>4. RowInv
  <2>1. row \in {Absent, BaseRow, LegacyRow} /\ subClock = 0 BY DEF Init
  <2>2. Absent.pit = 0 /\ Absent.sub = 0 /\ Absent.del = 0 BY DEF Absent
  <2>3. BaseRow.pit = 1 /\ BaseRow.sub = 0 /\ BaseRow.del = 0 BY DEF BaseRow
  <2>4. LegacyRow.pit = 1 /\ LegacyRow.sub = None /\ LegacyRow.del = 0
    BY DEF LegacyRow, BaseRow
  <2>5. row.pit \in Nat /\ row.del = 0 /\ row.sub \in {0, None}
    BY <2>1, <2>2, <2>3, <2>4
  <2> QED BY <1>1, <2>1, <2>5 DEF RowInv, Since
<1>5. AppliedInv /\ LaterRequestWins
  BY DEF AppliedInv, LaterRequestWins, Init
<1> QED BY InitType, <1>2, <1>3, <1>4, <1>5 DEF OvertakeInv

\* A step that only moves the clock, or drops the row, or what hangs on it.
LEMMA TaskOvertake ==
    ASSUME OvertakeInv, TypeOK', row' \in {row, Absent}, clock <= clock',
           applied' \subseteq applied, UNCHANGED <<subClock, op, before>>
    PROVE  OvertakeInv'
<1> USE DEF OvertakeInv
<1> /\ clock \in Nat /\ clock' \in Nat /\ subClock \in Nat
    /\ op \in [Writes -> Op]
    /\ before \in [Writes -> SUBSET Writes]
    /\ applied \subseteq Writes
  BY DEF TypeOK, Op, Steps
<1>1. \A w \in Writes : op[w].pit \in Nat /\ op[w].sub \in Nat BY DEF Op
<1>2. StampsInv'
  <2>1. \A w \in Writes : op[w].pit <= clock'
    <3> SUFFICES ASSUME NEW w \in Writes PROVE op[w].pit <= clock' OBVIOUS
    <3> op[w].pit <= clock BY DEF StampsInv
    <3> QED BY <1>1
  <2> QED BY <2>1 DEF StampsInv, Stamped
<1>3. OrderInv' BY DEF OrderInv
<1>4. RowInv' BY DEF RowInv, Absent, Since
<1>5. AppliedInv' BY DEF AppliedInv
<1>6. LaterRequestWins'
  <2> SUFFICES ASSUME NEW w \in applied', NEW v \in before[w]
               PROVE  row'.sub # op[v].sub
    BY DEF LaterRequestWins
  <2>1. w \in Writes /\ v \in Writes OBVIOUS
  <2>2. op[v].sub # 0 BY <2>1 DEF OrderInv, StampsInv, Stamped
  <2>3. row.sub # op[v].sub BY DEF LaterRequestWins
  <2> QED BY <2>2, <2>3 DEF Absent
<1> QED BY <1>2, <1>3, <1>4, <1>5, <1>6

\* A step of request w alone, short of its commit, and what it may do: draw a
\* point_in_time, draw a sub_clock, or begin.
Proceeds(w) ==
    /\ op[w].step \in {"idle", "open", "saved"}
    /\ op'[w].step \in {"open", "saved", "rolled back"}
    /\ op'[w].step \in {"saved", "rolled back"} =>
          op'[w].pit # 0 /\ op'[w].sub # 0
    /\ \A v \in Writes \ {w} : op'[v] = op[v] /\ before'[v] = before[v]
PitDrawn(w) ==
    /\ clock <= clock'
    /\ \/ op'[w].pit = op[w].pit
       \/ op[w].pit = 0 /\ op'[w].pit = clock'
SubDrawn(w) ==
    \/ op'[w].sub = op[w].sub /\ subClock' = subClock
    \/ op[w].sub = 0 /\ op'[w].sub = subClock + 1 /\ subClock' = subClock + 1
BeforeSet(w) ==
    \/ before'[w] = before[w]
    \/ /\ op[w].step = "idle" /\ before'[w] = Committed
       /\ op'[w].pit = op[w].pit /\ op'[w].sub = op[w].sub

\* A request that has not committed yet and does not touch the row.
LEMMA RequestOvertake ==
    ASSUME OvertakeInv, TypeOK', NEW w \in Writes,
           Proceeds(w), PitDrawn(w), SubDrawn(w), BeforeSet(w),
           UNCHANGED <<row, applied>>
    PROVE  OvertakeInv'
<1> USE DEF OvertakeInv
<1>c. clock \in Nat /\ clock' \in Nat /\ subClock \in Nat /\ subClock' \in Nat
  BY ClockType DEF TypeOK
<1>0. /\ op \in [Writes -> Op] /\ op' \in [Writes -> Op]
      /\ before \in [Writes -> SUBSET Writes]
      /\ before' \in [Writes -> SUBSET Writes]
      /\ applied \subseteq Writes
  BY DEF TypeOK, Op, Steps
<1>1. \A v \in Writes : /\ op[v].pit \in Nat /\ op[v].sub \in Nat
                        /\ op'[v].pit \in Nat /\ op'[v].sub \in Nat
  BY <1>0 DEF Op
<1>p. /\ clock <= clock' /\ subClock <= subClock'
      /\ op'[w].pit = op[w].pit \/ (op[w].pit = 0 /\ op'[w].pit = clock')
  BY <1>c DEF PitDrawn, SubDrawn
<1>s. \/ op'[w].sub = op[w].sub
      \/ op[w].sub = 0 /\ op'[w].sub = subClock + 1 /\ subClock' = subClock + 1
  BY DEF SubDrawn
<1>u. \A v \in Writes \ {w} : op'[v] = op[v] /\ before'[v] = before[v]
  BY DEF Proceeds
<1>b. \A v \in Writes : op[v].pit <= clock /\ op[v].sub <= subClock
  BY DEF StampsInv
<1>2. StampsInv'
  <2>1. \A v \in Writes : op'[v].pit <= clock' /\ op'[v].sub <= subClock'
    <3> SUFFICES ASSUME NEW v \in Writes
                 PROVE  op'[v].pit <= clock' /\ op'[v].sub <= subClock'
      OBVIOUS
    <3>1. op'[v].pit = op[v].pit \/ op'[v].pit = clock' BY <1>p, <1>u
    <3>2. \/ op'[v].sub = op[v].sub
          \/ op'[v].sub = subClock + 1 /\ subClock' = subClock + 1
      BY <1>s, <1>u
    <3>3. op'[v].pit <= clock' BY <1>c, <1>1, <1>p, <1>b, <3>1
    <3>4. op'[v].sub <= subClock' BY <1>c, <1>1, <1>p, <1>b, <3>2
    <3> QED BY <3>3, <3>4
  <2>2. ASSUME NEW v \in Writes, NEW u \in Writes,
               op'[v].sub = op'[u].sub, op'[v].sub # 0
        PROVE  v = u
    <3>1. op[v].sub = op[u].sub /\ op[v].sub # 0 => v = u BY DEF StampsInv
    <3>2. CASE op'[w].sub = op[w].sub BY <1>u, <2>2, <3>1, <3>2
    <3>3. CASE op'[w].sub = subClock + 1
      <4>1. \A x \in Writes \ {w} : op'[x].sub # subClock + 1
        BY <1>c, <1>1, <1>b, <1>u
      <4> QED BY <1>u, <2>2, <3>1, <3>3, <4>1
    <3> QED BY <1>s, <3>2, <3>3
  <2>3. ASSUME NEW v \in Writes, op'[v].step = "idle"
        PROVE  op'[v].pit = 0 /\ op'[v].sub = 0
    <3>1. v # w BY <2>3 DEF Proceeds
    <3> QED BY <1>u, <2>3, <3>1 DEF StampsInv
  <2>4. ASSUME NEW v \in Writes,
               op'[v].step \in {"saved", "done", "rolled back"}
        PROVE  op'[v].pit # 0 /\ op'[v].sub # 0
    <3>1. CASE v = w BY <2>4, <3>1 DEF Proceeds
    <3>2. CASE v # w BY <1>u, <2>4, <3>2 DEF StampsInv, Stamped
    <3> QED BY <3>1, <3>2
  <2> QED BY <2>1, <2>2, <2>3, <2>4 DEF StampsInv, Stamped
<1>3. OrderInv'
  <2> SUFFICES ASSUME NEW u \in Writes, NEW v \in before'[u]
               PROVE  /\ op'[v].step = "done"
                      /\ op'[u].pit # 0 => op'[v].pit <= op'[u].pit
                      /\ op'[u].sub # 0 => op'[v].sub < op'[u].sub
    BY DEF OrderInv
  <2>0. v \in Writes BY <1>0
  <2>1. op[v].step = "done"
    <3>1. CASE u = w /\ before'[w] = Committed BY <3>1 DEF Committed
    <3>2. CASE u = w /\ before'[w] = before[w] BY <3>2 DEF OrderInv
    <3>3. CASE u # w BY <1>u, <3>3 DEF OrderInv
    <3> QED BY <3>1, <3>2, <3>3 DEF BeforeSet
  <2>2. v # w /\ op'[v] = op[v]
    <3>1. v # w BY <2>1 DEF Proceeds
    <3> QED BY <1>u, <2>0, <3>1
  <2>3. op[v].pit <= clock /\ op[v].sub <= subClock BY <1>b, <2>0
  <2>4. CASE u # w BY <1>u, <2>1, <2>2, <2>4 DEF OrderInv
  <2>5. CASE u = w /\ v \in before[w]
    <3>1. /\ op[w].pit # 0 => op[v].pit <= op[w].pit
          /\ op[w].sub # 0 => op[v].sub < op[w].sub
      BY <2>5 DEF OrderInv
    <3>2. op[v].pit \in Nat /\ op[v].sub \in Nat /\ op[w].pit \in Nat BY <1>1, <2>0
    <3>3. op'[w].pit # 0 => op[v].pit <= op'[w].pit
      BY <1>c, <1>p, <2>3, <3>1, <3>2
    <3>4. op'[w].sub # 0 => op[v].sub < op'[w].sub
      BY <1>c, <1>s, <2>3, <3>1, <3>2
    <3> QED BY <2>1, <2>2, <2>5, <3>3, <3>4
  <2>6. CASE u = w /\ v \notin before[w]
    <3>1. op[w].step = "idle" /\ op'[w].pit = op[w].pit /\ op'[w].sub = op[w].sub
      BY <2>6 DEF BeforeSet
    <3>2. op[w].pit = 0 /\ op[w].sub = 0 BY <3>1 DEF StampsInv
    <3> QED BY <2>1, <2>2, <2>6, <3>1, <3>2
  <2> QED BY <2>4, <2>5, <2>6
<1>4. RowInv'
  <2>1. row.pit <= Since(row) /\ (row.sub # None => row.sub <= subClock)
    BY DEF RowInv
  <2>2. row.sub # None => row.sub <= subClock'
    <3>1. row.sub \in Nat \cup {None} BY DEF TypeOK
    <3>2. CASE row.sub \in Nat BY <1>c, <1>p, <2>1, <3>2
    <3> QED BY <3>1, <3>2
  <2>3. ASSUME NEW v \in Writes, op'[v].sub # 0, row.sub = op'[v].sub
        PROVE  op'[v].step = "done" /\ Since(row) = op'[v].pit
    <3>1. CASE v # w BY <1>u, <2>3, <3>1 DEF RowInv
    <3>2. CASE v = w
      <4>1. row.sub # None BY <1>1, <2>3
      <4>2. op'[w].sub # subClock + 1 BY <1>c, <1>1, <2>1, <2>3, <3>2, <4>1
      <4>3. op[w].sub = op'[w].sub BY <1>s, <4>2
      <4>4. op[w].step = "done" BY <2>3, <3>2, <4>3 DEF RowInv
      <4> QED BY <4>4 DEF Proceeds
    <3> QED BY <3>1, <3>2
  <2> QED BY <2>1, <2>2, <2>3 DEF RowInv, Since
<1>5. AppliedInv' BY <1>0, <1>u DEF AppliedInv, Proceeds
<1>6. LaterRequestWins'
  <2> SUFFICES ASSUME NEW u \in applied, NEW v \in before'[u]
               PROVE  row.sub # op'[v].sub
    BY DEF LaterRequestWins
  <2>1. u \in Writes /\ u # w BY <1>0 DEF AppliedInv, Proceeds
  <2>2. v \in before[u] BY <1>u, <2>1
  <2>3. v \in Writes /\ op[v].step = "done" BY <1>0, <2>1, <2>2 DEF OrderInv
  <2>4. op'[v] = op[v] BY <1>u, <2>3 DEF Proceeds
  <2> QED BY <2>2, <2>4 DEF LaterRequestWins
<1> QED BY <1>2, <1>3, <1>4, <1>5, <1>6

\* A commit: the row either stays, because the write's stamps do not exceed
\* those of its version, or becomes the version of the write.
LEMMA CommitOvertake ==
    ASSUME OvertakeInv, TypeOK', NEW w \in Writes,
           op[w].step \in {"open", "saved"}, Stamped(w),
           NEW wins, NEW newRow \in RowType, NEW kind,
           Commit(w, wins, newRow, kind),
           Newer(Since(row), row.sub, op[w].pit, op[w].sub) => wins,
           wins => /\ newRow.sub = op[w].sub /\ Since(newRow) = op[w].pit
                   /\ newRow.pit <= op[w].pit
    PROVE  OvertakeInv'
<1> USE DEF OvertakeInv
<1>0. /\ op \in [Writes -> Op] /\ before \in [Writes -> SUBSET Writes]
      /\ applied \subseteq Writes
  BY DEF TypeOK, Op, Steps
<1>1. \A v \in Writes : op[v].pit \in Nat /\ op[v].sub \in Nat
  BY <1>0 DEF Op
<1>2. /\ UNCHANGED <<clock, subClock, before>>
      /\ row' = IF wins THEN newRow ELSE row
      /\ applied' = applied \cup {w}
  BY DEF Commit
<1>3. /\ \A v \in Writes : op'[v].pit = op[v].pit /\ op'[v].sub = op[v].sub
      /\ \A v \in Writes \ {w} : op'[v].step = op[v].step
      /\ op'[w].step = "done"
  BY <1>0 DEF Commit, Op
<1>4. \A v \in Writes : op[v].step = "done" => v # w
  OBVIOUS
<1>5. StampsInv'
  <2>0. \A v \in Writes : op[v].pit <= clock /\ op[v].sub <= subClock
    BY DEF StampsInv
  <2>1. \A v \in Writes : op'[v].pit <= clock' /\ op'[v].sub <= subClock'
    BY <1>2, <1>3, <2>0
  <2>2. ASSUME NEW v \in Writes, NEW u \in Writes,
               op'[v].sub = op'[u].sub, op'[v].sub # 0
        PROVE  v = u
    <3>1. op[v].sub = op[u].sub /\ op[v].sub # 0 BY <1>3, <2>2
    <3> QED BY <3>1 DEF StampsInv
  <2>3. ASSUME NEW v \in Writes, op'[v].step = "idle"
        PROVE  op'[v].pit = 0 /\ op'[v].sub = 0
    <3>1. op[v].step = "idle" BY <1>3, <2>3
    <3> QED BY <1>3, <3>1 DEF StampsInv
  <2>4. ASSUME NEW v \in Writes,
               op'[v].step \in {"saved", "done", "rolled back"}
        PROVE  op'[v].pit # 0 /\ op'[v].sub # 0
    <3>1. op[v].step \in {"saved", "done", "rolled back"} \/ v = w
      BY <1>3, <2>4
    <3>2. Stamped(v) BY <3>1 DEF StampsInv
    <3> QED BY <1>3, <3>2 DEF Stamped
  <2> QED BY <2>1, <2>2, <2>3, <2>4 DEF StampsInv, Stamped
<1>6. OrderInv'
  <2> SUFFICES ASSUME NEW u \in Writes, NEW v \in before[u]
               PROVE  /\ op'[v].step = "done"
                      /\ op'[u].pit # 0 => op'[v].pit <= op'[u].pit
                      /\ op'[u].sub # 0 => op'[v].sub < op'[u].sub
    BY <1>2 DEF OrderInv
  <2>1. v \in Writes BY <1>0
  <2>2. op[v].step = "done" BY DEF OrderInv
  <2> QED BY <1>3, <1>4, <2>1, <2>2 DEF OrderInv
<1>7. RowInv'
  <2>1. CASE wins
    <3>1. row' = newRow BY <1>2, <2>1
    <3>2. row'.sub = op[w].sub /\ Since(row') = op[w].pit /\ row'.pit <= op[w].pit
      BY <2>1, <3>1
    <3>3. op[w].sub # 0 /\ op[w].sub <= subClock BY DEF StampsInv, Stamped
    <3>4. \A v \in Writes : op'[v].sub # 0 /\ row'.sub = op'[v].sub => v = w
      BY <1>3, <3>2, <3>3 DEF StampsInv
    <3> QED BY <1>2, <1>3, <3>2, <3>3, <3>4 DEF RowInv, Since
  <2>2. CASE ~wins
    <3>1. row' = row BY <1>2, <2>2
    <3> QED BY <1>2, <1>3, <1>4, <3>1 DEF RowInv, Since
  <2> QED BY <2>1, <2>2
<1>8. AppliedInv' BY <1>0, <1>2, <1>3 DEF AppliedInv
<1>9. LaterRequestWins'
  <2> SUFFICES ASSUME NEW u \in applied', NEW v \in before[u]
               PROVE  row'.sub # op[v].sub
    <3> \A u \in applied' : before[u] \subseteq Writes BY <1>0, <1>2
    <3> QED BY <1>2, <1>3 DEF LaterRequestWins
  <2>1. u \in Writes /\ v \in Writes BY <1>0, <1>2
  <2>2. op[v].step = "done" /\ v # w BY <1>4, <2>1 DEF OrderInv
  <2>3. op[v].sub # 0 BY <2>1, <2>2 DEF StampsInv, Stamped
  <2>4. CASE wins
    <3>1. row'.sub = op[w].sub BY <1>2, <2>4
    <3> QED BY <2>1, <2>2, <2>3, <3>1 DEF StampsInv
  <2>5. CASE ~wins /\ u \in applied
    BY <1>2, <2>5 DEF LaterRequestWins
  <2>6. CASE ~wins /\ u = w
    <3> SUFFICES ASSUME row.sub = op[v].sub PROVE FALSE BY <1>2, <2>6
    <3>1. Since(row) = op[v].pit BY <2>1, <2>3 DEF RowInv
    <3>2. op[w].pit # 0 /\ op[w].sub # 0 BY DEF Stamped
    <3>3. op[v].pit <= op[w].pit /\ op[v].sub < op[w].sub
      BY <2>6, <3>2 DEF OrderInv
    <3>4. op[v].sub # None BY <1>1, <2>1
    <3>5. Newer(op[v].pit, op[v].sub, op[w].pit, op[w].sub)
      BY <1>1, <2>1, <3>3, <3>4 DEF Newer
    <3> QED BY <2>6, <3>1, <3>5
  <2> QED BY <1>2, <2>4, <2>5, <2>6
<1> QED BY <1>5, <1>6, <1>7, <1>8, <1>9

\* What the two upserts write has the stamps of their request, and a delete,
\* which compares with the row's point_in_time also where the row is deleted,
\* wins whenever an upsert would.
LEMMA UpsertStamps ==
    ASSUME TypeOK, NEW w \in Writes, RowInv, Stamped(w)
    PROVE  /\ UpsertedRow(w).sub = op[w].sub /\ Since(UpsertedRow(w)) = op[w].pit
           /\ UpsertedRow(w).pit = op[w].pit
           /\ DeletedRow(w).sub = op[w].sub /\ Since(DeletedRow(w)) = op[w].pit
           /\ DeleteWins(w) => DeletedRow(w).pit <= op[w].pit
           /\ UpsertWins(w) => DeleteWins(w)
<1>1. /\ op[w].pit \in Nat /\ op[w].sub \in Nat /\ op[w].pit # 0
      /\ row \in RowType
  BY DEF TypeOK, RowType, Stamped
<1>2. /\ row.pit \in Nat /\ row.del \in Nat /\ row.sub \in Nat \cup {None}
      /\ row.pit <= Since(row) /\ Since(row) \in Nat
  BY <1>1 DEF RowType, RowInv, Since
<1>3. /\ UpsertedRow(w).sub = op[w].sub /\ Since(UpsertedRow(w)) = op[w].pit
      /\ UpsertedRow(w).pit = op[w].pit
  BY DEF UpsertedRow, Since
<1>4. /\ DeletedRow(w).sub = op[w].sub /\ DeletedRow(w).del = op[w].pit
      /\ DeletedRow(w).pit = IF Exists(row) THEN row.pit ELSE op[w].pit
  BY <1>1 DEF DeletedRow, RowType
<1>5. Since(DeletedRow(w)) = op[w].pit BY <1>1, <1>4 DEF Since
<1>6. DeleteWins(w) => DeletedRow(w).pit <= op[w].pit
  BY <1>1, <1>2, <1>4 DEF DeleteWins, Newer
<1>7. UpsertWins(w) => DeleteWins(w)
  <2>1. CASE row.sub = None BY <1>1, <1>2, <2>1 DEF UpsertWins, DeleteWins, Newer
  <2>2. CASE row.sub \in Nat BY <1>1, <1>2, <2>2 DEF UpsertWins, DeleteWins, Newer
  <2> QED BY <1>2, <2>1, <2>2
<1> QED BY <1>3, <1>4, <1>5, <1>6, <1>7

\* No step lets a request be undone by one that it follows.
LEMMA StepOvertake == OvertakeInv /\ [Next]_vars => OvertakeInv'
<1> SUFFICES ASSUME OvertakeInv, [Next]_vars PROVE OvertakeInv' OBVIOUS
<1>0. TypeOK /\ StampsInv /\ RowInv /\ TypeOK'
  BY StepType DEF OvertakeInv
<1>t. clock \in Nat /\ subClock \in Nat /\ op \in [Writes -> Op]
  BY <1>0 DEF TypeOK, Op, Steps
<1>b. before \in [Writes -> SUBSET Writes] BY <1>0 DEF TypeOK
<1>1. ASSUME NEW w \in Writes, Begin(w) PROVE OvertakeInv'
  <2>1. PICK kind \in Kinds : \E columns \in Payloads(kind) :
              op' = [op EXCEPT ![w].kind = kind, ![w].brings = columns,
                               ![w].step = "open"]
    BY <1>1 DEF Begin
  <2>2. PICK columns \in Payloads(kind) :
              op' = [op EXCEPT ![w].kind = kind, ![w].brings = columns,
                               ![w].step = "open"]
    BY <2>1
  <2>3. /\ op[w].step = "idle" /\ op'[w].step = "open"
        /\ op'[w].pit = op[w].pit /\ op'[w].sub = op[w].sub
        /\ \A v \in Writes \ {w} : op'[v] = op[v]
    BY <1>1, <1>t, <2>2 DEF Begin, Op
  <2>4. /\ before'[w] = Committed
        /\ \A v \in Writes \ {w} : before'[v] = before[v]
    BY <1>1, <1>b DEF Begin
  <2>5. UNCHANGED <<clock, subClock, row, applied>> BY <1>1 DEF Begin
  <2>6. Proceeds(w) BY <2>3, <2>4 DEF Proceeds
  <2>7. PitDrawn(w) /\ SubDrawn(w) /\ BeforeSet(w)
    BY <1>t, <2>3, <2>4, <2>5 DEF PitDrawn, SubDrawn, BeforeSet
  <2> QED BY <1>0, <2>5, <2>6, <2>7, RequestOvertake
<1>2. ASSUME NEW w \in Writes, ReadPointInTime(w) PROVE OvertakeInv'
  <2>1. PICK t \in Now : clock' = t /\ op' = [op EXCEPT ![w].pit = t]
    BY <1>2 DEF ReadPointInTime
  <2>2. clock <= clock' BY <1>t, <2>1 DEF Now
  <2>3. /\ op[w].step = "open" /\ op'[w].step = "open"
        /\ op[w].pit = 0 /\ op'[w].pit = clock' /\ op'[w].sub = op[w].sub
        /\ \A v \in Writes \ {w} : op'[v] = op[v]
    BY <1>2, <1>t, <2>1 DEF ReadPointInTime, Op
  <2>4. UNCHANGED <<subClock, row, applied, before>>
    BY <1>2 DEF ReadPointInTime
  <2>5. Proceeds(w) BY <2>3, <2>4 DEF Proceeds
  <2>6. PitDrawn(w) /\ SubDrawn(w) /\ BeforeSet(w)
    BY <2>2, <2>3, <2>4 DEF PitDrawn, SubDrawn, BeforeSet
  <2> QED BY <1>0, <2>4, <2>5, <2>6, RequestOvertake
<1>3. ASSUME NEW w \in Writes, ReadSubClock(w) PROVE OvertakeInv'
  <2>1. /\ op[w].step = "open" /\ op'[w].step = "open"
        /\ op[w].sub = 0 /\ op'[w].sub = subClock' /\ op'[w].pit = op[w].pit
        /\ subClock' = subClock + 1
        /\ \A v \in Writes \ {w} : op'[v] = op[v]
    BY <1>3, <1>t DEF ReadSubClock, Op
  <2>2. UNCHANGED <<clock, row, applied, before>> BY <1>3 DEF ReadSubClock
  <2>3. Proceeds(w) BY <2>1, <2>2 DEF Proceeds
  <2>4. PitDrawn(w) /\ SubDrawn(w) /\ BeforeSet(w)
    BY <1>t, <2>1, <2>2 DEF PitDrawn, SubDrawn, BeforeSet
  <2> QED BY <1>0, <2>2, <2>3, <2>4, RequestOvertake
<1>4. ASSUME NEW w \in Writes, SaveFiles(w) \/ RollBack(w) PROVE OvertakeInv'
  <2>1. Stamped(w) BY <1>0, <1>4 DEF SaveFiles, RollBack, StampsInv
  <2>2. /\ op[w].step \in {"open", "saved"}
        /\ op'[w].step \in {"saved", "rolled back"}
        /\ op'[w].pit = op[w].pit /\ op'[w].sub = op[w].sub
        /\ \A v \in Writes \ {w} : op'[v] = op[v]
    <3>1. CASE SaveFiles(w)
      <4> DEFINE marks == IF Backend = NO_HISTORY
                          THEN Superseded(lookups \cup OwnLookup(w)) ELSE {}
      <4>1. op' = [op EXCEPT ![w].step = "saved", ![w].marks = marks]
            /\ op[w].step = "open"
        BY <3>1 DEF SaveFiles
      <4> HIDE DEF marks
      <4> QED BY <1>t, <4>1 DEF Op
    <3>2. CASE RollBack(w) BY <1>t, <3>2 DEF RollBack, Op
    <3> QED BY <1>4, <3>1, <3>2
  <2>3. UNCHANGED <<clock, subClock, row, applied, before>>
    BY <1>4 DEF SaveFiles, RollBack
  <2>4. Proceeds(w) BY <2>1, <2>2, <2>3 DEF Proceeds, Stamped
  <2>5. clock <= clock' /\ subClock <= subClock' BY <1>t, <2>3
  <2>6. PitDrawn(w) BY <2>2, <2>3, <2>5 DEF PitDrawn
  <2>7. SubDrawn(w) BY <2>2, <2>3, <2>5 DEF SubDrawn
  <2>8. BeforeSet(w) BY <2>2, <2>3 DEF BeforeSet
  <2> QED BY <1>0, <2>3, <2>4, <2>6, <2>7, <2>8, RequestOvertake
<1>5. ASSUME NEW w \in Writes, Upsert(w) PROVE OvertakeInv'
  <2>1. Stamped(w) BY <1>0, <1>5 DEF Upsert, StampsInv
  <2>2. op[w].pit <= op[w].pit BY <1>t DEF Op
  <2> QED BY <1>0, <1>5, <2>1, <2>2, NewRowType, UpsertStamps, CommitOvertake
          DEF Upsert, UpsertWins
<1>6. ASSUME NEW w \in Writes, Delete(w) PROVE OvertakeInv'
  <2>1. Stamped(w) /\ op[w].step = "open" BY <1>6 DEF Delete
  <2>2. Newer(Since(row), row.sub, op[w].pit, op[w].sub) => DeleteWins(w)
    BY <1>0, <2>1, UpsertStamps DEF UpsertWins
  <2> QED BY <1>0, <1>6, <2>1, <2>2, NewRowType, UpsertStamps, CommitOvertake
          DEF Delete
<1>7. ASSUME NEW t \in 1 .. clock, PruneHistory(t) PROVE OvertakeInv'
  <2>1. row' \in {row, Absent} BY <1>7 DEF PruneHistory
  <2>2. UNCHANGED <<clock, subClock, op, applied, before>>
    BY <1>7 DEF PruneHistory
  <2>3. clock <= clock' BY <1>t, <2>2
  <2> QED BY <1>0, <2>1, <2>2, <2>3, TaskOvertake
<1>8. CASE Truncate
  <2>1. row' = Absent /\ applied' = {} /\ UNCHANGED <<subClock, op, before>>
    BY <1>8 DEF Truncate
  <2>2. clock <= clock' BY <1>8, <1>t DEF Truncate, Now
  <2> QED BY <1>0, <2>1, <2>2, TaskOvertake
<1>9. ASSUME NEW l \in lookups, CollectGarbage(l) PROVE OvertakeInv'
  <2>1. UNCHANGED <<clock, subClock, row, op, applied, before>>
    BY <1>9 DEF CollectGarbage
  <2>2. clock <= clock' BY <1>t, <2>1
  <2> QED BY <1>0, <2>1, <2>2, TaskOvertake
<1>10. CASE UNCHANGED vars
  <2>1. UNCHANGED <<clock, subClock, row, op, applied, before>>
    BY <1>10 DEF vars
  <2>2. clock <= clock' BY <1>t, <2>1
  <2> QED BY <1>0, <2>1, <2>2, TaskOvertake
<1> QED BY <1>1, <1>2, <1>3, <1>4, <1>5, <1>6, <1>7, <1>8, <1>9, <1>10 DEF Next

\* A request that began after another one had committed is never overtaken by
\* it: with any number of requests, also where deletes overlap, tombstones are
\* pruned under writes, or the table is truncated under a bulk import.
THEOREM NeverOvertaken == Spec => []LaterRequestWins
<1>1. Init => OvertakeInv BY InitOvertake
<1>2. OvertakeInv /\ [Next]_vars => OvertakeInv' BY StepOvertake
<1>3. OvertakeInv => LaterRequestWins BY DEF OvertakeInv
<1> QED BY <1>1, <1>2, <1>3, PTL DEF Spec

=============================================================================
