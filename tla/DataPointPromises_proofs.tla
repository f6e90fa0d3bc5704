---------------------- MODULE DataPointPromises_proofs ----------------------
(* What the row, the history, the events and the files show in the end, for   *)
(* any number of requests: the write with the greatest stamps, and no file    *)
(* that is marked for removal. Each theorem names the races it has to leave   *)
(* out (Discipline), and no more of them than it needs.                       *)
EXTENDS DataPointStore_proofs

USE NamesAssumption
USE DEF files

\* The write under way is newer than what the row shows.
RowBefore(w) == Newer(Since(row), row.sub, op[w].pit, op[w].sub)

\* What the row shows if it stems from a write.
RowShows(w) ==
    IF op[w].kind = "delete" THEN row.del # 0
    ELSE /\ row.del = 0
         /\ "data" \in op[w].brings => row.data = w
         /\ "file" \in op[w].brings => row.file = w
         /\ op[w].kind # "patch" /\ ~Uploads(w) => row.file = None

----------------------------------------------------------------------------
(* What a step does to all that is shown *)

\* A request begins, draws a stamp, saves its files or is rolled back.
Begins(w) ==
    /\ op[w].step = "idle" /\ op'[w].step = "open"
    /\ before'[w] = Committed
    /\ op'[w].kind = "delete" =>
          \A v \in Writes : ~(InFlight(v) /\ op[v].kind = "delete")
Goes(w) ==
    /\ op[w].step \in {"open", "saved"}
    /\ op'[w].step \in {"open", "saved", "rolled back"}
    /\ op'[w].kind = op[w].kind /\ before'[w] = before[w]
    /\ op[w].kind = "delete" => op[w].step = "saved" \/ op'[w].step = "open"
Moves(w) ==
    /\ UNCHANGED <<row, hist, last, applied>>
    /\ clock <= clock'
    /\ \A v \in Writes \ {w} : op'[v] = op[v] /\ before'[v] = before[v]
    /\ Begins(w) \/ Goes(w)
    /\ \/ op'[w].pit = op[w].pit
       \/ op[w].pit = 0 /\ op'[w].pit = clock' /\ (~Ties => clock < clock')
    /\ op[w].sub # 0 => op'[w].sub = op[w].sub

\* A request commits, and wins if the row is older.
Commits(w) ==
    /\ op[w].step \in {"open", "saved"} /\ op'[w].step = "done" /\ Stamped(w)
    /\ \A v \in Writes : /\ op'[v].pit = op[v].pit /\ op'[v].sub = op[v].sub
                         /\ op'[v].kind = op[v].kind /\ op'[v].brings = op[v].brings
                         /\ v # w => op'[v] = op[v]
    /\ UNCHANGED <<clock, before>>
    /\ applied' = applied \cup {w}
    /\ RowBefore(w) =>
          /\ row'.sub = op[w].sub /\ Since(row)' = op[w].pit /\ row'.pit # 0
          /\ RowShows(w)'
          /\ hist' = IF Backend = FLAT_HISTORY THEN hist \cup {HistoryOf(row)'} ELSE hist
    /\ ~RowBefore(w) => UNCHANGED <<row, hist>>
    /\ last' = EventAfter(op[w].pit, IF op[w].kind = "delete" THEN "DELETED" ELSE "CHANGED")

Steady == UNCHANGED <<clock, row, hist, op, last, applied, before>>

\* Deletes that do not overlap know one another: one began after the other had
\* committed. A tombstone in the row stems from one of them.
DeletesInv ==
    /\ \A w \in Writes : op[w].kind = "delete" => op[w].step \in {"open", "done"}
    /\ \A v, w \in Writes :
          v # w /\ op[v].kind = "delete" /\ op[w].kind = "delete" /\ op[w].step = "open"
          => v \in before[w]
    /\ row.del # 0 => \E d \in Writes :
          /\ op[d].kind = "delete" /\ op[d].step = "done"
          /\ op[d].pit = row.del /\ op[d].sub = row.sub

\* Every write is newer than what was there before all of them.
RowStart ==
    /\ 2 <= clock
    /\ \A w \in Writes : op[w].pit # 0 => 2 <= op[w].pit
    /\ row.pit = 0 => row.sub = 0 /\ row.del = 0
    /\ applied = {} /\ row.pit # 0 => row.pit = 1 /\ row.del = 0
    /\ row.sub = None => applied = {} /\ row.pit # 0

ShownInv == OvertakeInv /\ DeletesInv /\ RowStart

\* The types of what is compared.
LEMMA Numbers ==
    TypeOK => /\ clock \in Nat /\ row \in RowType /\ op \in [Writes -> Op]
              /\ \A w \in Writes : op[w].pit \in Nat /\ op[w].sub \in Nat
              /\ row.pit \in Nat /\ row.del \in Nat /\ row.sub \in Nat \cup {None}
              /\ Since(row) \in Nat /\ last.pit \in Nat
              /\ before \in [Writes -> SUBSET Writes] /\ applied \subseteq Writes
<1> SUFFICES ASSUME TypeOK
             PROVE  /\ clock \in Nat /\ row \in RowType /\ op \in [Writes -> Op]
                    /\ \A w \in Writes : op[w].pit \in Nat /\ op[w].sub \in Nat
                    /\ row.pit \in Nat /\ row.del \in Nat /\ row.sub \in Nat \cup {None}
                    /\ Since(row) \in Nat /\ last.pit \in Nat
                    /\ before \in [Writes -> SUBSET Writes] /\ applied \subseteq Writes
  OBVIOUS
<1>1. /\ clock \in Nat /\ row \in RowType /\ op \in [Writes -> Op] /\ last.pit \in Nat
      /\ before \in [Writes -> SUBSET Writes] /\ applied \subseteq Writes
  BY DEF TypeOK, RowType, Op, Steps
<1>2. row.pit \in Nat /\ row.del \in Nat /\ row.sub \in Nat \cup {None}
  BY <1>1 DEF RowType
<1>3. \A w \in Writes : op[w].pit \in Nat /\ op[w].sub \in Nat
  BY <1>1 DEF Op
<1>4. QED
  BY <1>1, <1>2, <1>3 DEF Since

\* Where deletes do not overlap, a delete wins only if an upsert would: the
\* tombstone it meets is of a delete that had committed before it began.
LEMMA DeleteLikeUpsert ==
    ASSUME OvertakeInv, DeletesInv, NEW w \in Writes,
           op[w].kind = "delete", op[w].step = "open", Stamped(w)
    PROVE  DeleteWins(w) <=> RowBefore(w)
<1>1. TypeOK /\ RowInv /\ OrderInv
  BY DEF OvertakeInv
<1>2. RowBefore(w) => DeleteWins(w)
  BY <1>1, UpsertStamps DEF RowBefore, UpsertWins
<1>3. CASE row.del = 0
  BY <1>3 DEF DeleteWins, RowBefore, Since
<1>4. CASE row.del # 0
  <2>1. PICK d \in Writes : /\ op[d].kind = "delete" /\ op[d].step = "done"
                            /\ op[d].pit = row.del /\ op[d].sub = row.sub
    BY <1>4 DEF DeletesInv
  <2>2. d \in before[w]
    BY <2>1 DEF DeletesInv
  <2>3. op[d].pit <= op[w].pit /\ op[d].sub < op[w].sub
    BY <1>1, <2>2 DEF OrderInv, Stamped
  <2>4. /\ op[w].pit \in Nat /\ op[w].sub \in Nat /\ row.del \in Nat
        /\ row.sub \in Nat
    BY <1>1, <2>1, Numbers
  <2>5. row.sub # None
    BY <2>4
  <2>6. RowBefore(w)
    BY <1>4, <2>1, <2>3, <2>4, <2>5 DEF RowBefore, Newer, Since
  <2>7. QED
    BY <1>2, <2>6
<1>5. QED
  BY <1>2, <1>3, <1>4

\* An upsert commits: it wins exactly if its stamps are the newer ones.
LEMMA UpsertCommits ==
    ASSUME OvertakeInv, DeletesInv, NEW w \in Writes, Upsert(w)
    PROVE  Commits(w)
<1>1. TypeOK /\ RowInv /\ op \in [Writes -> Op] /\ Stamped(w) /\ op[w].step = "saved"
  BY Numbers DEF OvertakeInv, Upsert, StampsInv
<1>2. op[w].kind # "delete"
  BY <1>1 DEF DeletesInv
<1>3. /\ row' = IF RowBefore(w) THEN UpsertedRow(w) ELSE row
      /\ hist' = IF RowBefore(w) /\ Backend = FLAT_HISTORY
                 THEN hist \cup {HistoryOf(UpsertedRow(w))} ELSE hist
      /\ last' = EventAfter(op[w].pit, "CHANGED")
      /\ applied' = applied \cup {w}
      /\ UNCHANGED <<clock, before>>
  BY DEF Upsert, Commit, UpsertWins, RowBefore
<1>4. op' = [op EXCEPT ![w].step = "done", ![w].marks = {}]
  BY DEF Upsert, Commit
<1>5. /\ op'[w].step = "done"
      /\ \A v \in Writes : /\ op'[v].pit = op[v].pit /\ op'[v].sub = op[v].sub
                           /\ op'[v].kind = op[v].kind /\ op'[v].brings = op[v].brings
                           /\ v # w => op'[v] = op[v]
  BY <1>1, <1>4 DEF Op
<1>6. ASSUME RowBefore(w)
      PROVE  /\ row'.sub = op[w].sub /\ Since(row)' = op[w].pit /\ row'.pit # 0
             /\ RowShows(w)' /\ HistoryOf(row)' = HistoryOf(UpsertedRow(w))
  <2>1. row' = UpsertedRow(w)
    BY <1>3, <1>6
  <2>2. row'.sub = op[w].sub /\ row'.pit = op[w].pit /\ row'.del = 0
    BY <2>1 DEF UpsertedRow
  <2>3. /\ "data" \in op[w].brings => row'.data = w
        /\ "file" \in op[w].brings => row'.file = w
        /\ op[w].kind # "patch" /\ "file" \notin op[w].brings => row'.file = None
    BY <2>1 DEF UpsertedRow, Column
  <2>4. RowShows(w)'
    BY <1>2, <1>5, <2>2, <2>3 DEF RowShows, Uploads
  <2>5. QED
    BY <1>1, <2>1, <2>2, <2>4 DEF Since, HistoryOf, Stamped
<1>7. QED
  BY <1>1, <1>2, <1>3, <1>5, <1>6 DEF Commits

\* So does a delete, where deletes do not overlap.
LEMMA DeleteCommits ==
    ASSUME OvertakeInv, DeletesInv, NEW w \in Writes, Delete(w)
    PROVE  Commits(w)
<1>1. /\ TypeOK /\ RowInv /\ op \in [Writes -> Op] /\ Stamped(w)
      /\ op[w].step = "open" /\ op[w].kind = "delete"
  BY Numbers DEF OvertakeInv, Delete
<1>2. DeleteWins(w) <=> RowBefore(w)
  BY <1>1, DeleteLikeUpsert
<1>3. /\ row' = IF RowBefore(w) THEN DeletedRow(w) ELSE row
      /\ hist' = IF RowBefore(w) /\ Backend = FLAT_HISTORY
                 THEN hist \cup {HistoryOf(DeletedRow(w))} ELSE hist
      /\ last' = EventAfter(op[w].pit, "DELETED")
      /\ applied' = applied \cup {w}
      /\ UNCHANGED <<clock, before>>
  BY <1>2 DEF Delete, Commit
<1>4. op' = [op EXCEPT ![w].step = "done", ![w].marks = {}]
  BY DEF Delete, Commit
<1>5. /\ op'[w].step = "done"
      /\ \A v \in Writes : /\ op'[v].pit = op[v].pit /\ op'[v].sub = op[v].sub
                           /\ op'[v].kind = op[v].kind /\ op'[v].brings = op[v].brings
                           /\ v # w => op'[v] = op[v]
  BY <1>1, <1>4 DEF Op
<1>6. ASSUME RowBefore(w)
      PROVE  /\ row'.sub = op[w].sub /\ Since(row)' = op[w].pit /\ row'.pit # 0
             /\ RowShows(w)' /\ HistoryOf(row)' = HistoryOf(DeletedRow(w))
  <2>1. row' = DeletedRow(w)
    BY <1>3, <1>6
  <2>2. row \in RowType /\ op[w].pit # 0
    BY <1>1, Numbers DEF Stamped
  <2>3. /\ row'.sub = op[w].sub /\ row'.del = op[w].pit
        /\ row'.pit = IF Exists(row) THEN row.pit ELSE op[w].pit
    BY <2>1, <2>2 DEF DeletedRow, RowType
  <2>4. row'.pit # 0
    BY <2>2, <2>3 DEF Exists
  <2>5. RowShows(w)'
    BY <1>1, <1>5, <2>2, <2>3 DEF RowShows
  <2>6. QED
    BY <2>1, <2>2, <2>3, <2>4, <2>5 DEF Since, HistoryOf
<1>7. QED
  BY <1>1, <1>3, <1>5, <1>6 DEF Commits

\* The clock may stand still.
LEMMA StandsStill == \A t \in Nat : t <= t
  OBVIOUS

\* A request moves with every action of its own but the commit.
LEMMA RequestMoves ==
    ASSUME OvertakeInv, DeletesInv, "delete" \in Discipline, NEW w \in Writes,
           \/ Begin(w) \/ ReadPointInTime(w) \/ ReadSubClock(w)
           \/ SaveFiles(w) \/ RollBack(w)
    PROVE  Moves(w)
<1>0. /\ TypeOK /\ clock \in Nat /\ op \in [Writes -> Op]
      /\ before \in [Writes -> SUBSET Writes]
  BY Numbers DEF OvertakeInv
<1>1. CASE Begin(w)
  <2>1. PICK kind \in Kinds :
            /\ kind = "delete" /\ "delete" \in Discipline =>
                  ~\E v \in Writes : InFlight(v) /\ op[v].kind = "delete"
            /\ \E columns \in Payloads(kind) :
                  op' = [op EXCEPT ![w].kind = kind, ![w].brings = columns,
                                   ![w].step = "open"]
    BY <1>1 DEF Begin
  <2>2. PICK columns \in Payloads(kind) :
              op' = [op EXCEPT ![w].kind = kind, ![w].brings = columns,
                               ![w].step = "open"]
    BY <2>1
  <2>3. /\ op[w].step = "idle" /\ op'[w].step = "open" /\ op'[w].kind = kind
        /\ op'[w].pit = op[w].pit /\ op'[w].sub = op[w].sub
        /\ \A v \in Writes \ {w} : op'[v] = op[v]
    <3>1. op[w].step = "idle"
      BY <1>1 DEF Begin
    <3>2. /\ op'[w].step = "open" /\ op'[w].kind = kind
          /\ op'[w].pit = op[w].pit /\ op'[w].sub = op[w].sub
          /\ \A v \in Writes \ {w} : op'[v] = op[v]
      BY <1>0, <2>2 DEF Op
    <3>3. QED
      BY <3>1, <3>2
  <2>4. before'[w] = Committed /\ \A v \in Writes \ {w} : before'[v] = before[v]
    BY <1>0, <1>1 DEF Begin
  <2>5. UNCHANGED <<clock, row, hist, last, applied>>
    BY <1>1 DEF Begin
  <2>6. clock <= clock'
    BY <1>0, <2>5
  <2>7. op'[w].kind = "delete" =>
          \A v \in Writes : ~(InFlight(v) /\ op[v].kind = "delete")
    BY <2>1, <2>3
  <2>8. QED
    BY <2>3, <2>4, <2>5, <2>6, <2>7 DEF Moves, Begins
<1>2. CASE ReadPointInTime(w)
  <2>1. PICK t \in Now : clock' = t /\ op' = [op EXCEPT ![w].pit = t]
    BY <1>2 DEF ReadPointInTime
  <2>2. clock <= clock' /\ (~Ties => clock < clock')
    BY <1>0, <2>1 DEF Now
  <2>3. /\ op[w].step = "open" /\ op'[w].step = "open" /\ op'[w].kind = op[w].kind
        /\ op[w].pit = 0 /\ op'[w].pit = clock' /\ op'[w].sub = op[w].sub
        /\ \A v \in Writes \ {w} : op'[v] = op[v]
    BY <1>2, <1>0, <2>1 DEF ReadPointInTime, Op
  <2>4. QED
    BY <1>2, <2>2, <2>3 DEF Moves, Goes, ReadPointInTime
<1>3. CASE ReadSubClock(w)
  <2>1. /\ op[w].step = "open" /\ op'[w].step = "open" /\ op'[w].kind = op[w].kind
        /\ op[w].sub = 0 /\ op'[w].pit = op[w].pit
        /\ \A v \in Writes \ {w} : op'[v] = op[v]
    BY <1>3, <1>0 DEF ReadSubClock, Op
  <2>2. clock <= clock'
    BY <1>0, <1>3 DEF ReadSubClock
  <2>3. QED
    BY <1>3, <2>1, <2>2 DEF Moves, Goes, ReadSubClock
<1>4. CASE SaveFiles(w) \/ RollBack(w)
  <2>0. clock <= clock'
    <3>1. clock \in Nat
      BY <1>0
    <3>2. clock' = clock
      BY <1>4 DEF SaveFiles, RollBack
    <3>3. QED
      BY ONLY <3>1, <3>2, StandsStill
  <2>1. ASSUME NEW next \in {"saved", "rolled back"}, NEW kept,
               op' = [op EXCEPT ![w].step = next, ![w].marks = kept]
        PROVE  /\ op'[w].step = next
               /\ op'[w].pit = op[w].pit /\ op'[w].sub = op[w].sub
               /\ op'[w].kind = op[w].kind
               /\ \A v \in Writes \ {w} : op'[v] = op[v]
    BY <1>0, <2>1 DEF Op
  <2>2. /\ op[w].step \in {"open", "saved"} /\ op'[w].step \in {"saved", "rolled back"}
        /\ op'[w].pit = op[w].pit /\ op'[w].sub = op[w].sub /\ op'[w].kind = op[w].kind
        /\ \A v \in Writes \ {w} : op'[v] = op[v]
    <3>1. CASE SaveFiles(w)
      <4>1. PICK kept : op' = [op EXCEPT ![w].step = "saved", ![w].marks = kept]
        BY <3>1 DEF SaveFiles
      <4>2. op[w].step = "open"
        BY <3>1 DEF SaveFiles
      <4>3. QED
        BY <2>1, <4>1, <4>2
    <3>2. CASE RollBack(w)
      <4>1. op' = [op EXCEPT ![w].step = "rolled back", ![w].marks = {}]
        BY <3>2 DEF RollBack
      <4>2. op[w].step = "saved"
        BY <3>2 DEF RollBack
      <4>3. QED
        BY <2>1, <4>1, <4>2
    <3>3. QED
      BY <1>4, <3>1, <3>2
  <2>3. op[w].kind = "delete" => op[w].step = "saved"
    BY <1>4 DEF SaveFiles, RollBack
  <2>4. UNCHANGED <<clock, row, hist, last, applied, before>>
    BY <1>4 DEF SaveFiles, RollBack
  <2>5. QED
    BY <2>0, <2>2, <2>3, <2>4 DEF Moves, Goes
<1>5. QED
  BY <1>1, <1>2, <1>3, <1>4

\* All there is to know of a step, but for the lookups and the stored files.
LEMMA StepShown ==
    ASSUME OvertakeInv, DeletesInv, "delete" \in Discipline, [Next]_vars
    PROVE  \/ \E w \in Writes : Moves(w) \/ Commits(w)
           \/ \E t \in 1 .. clock : PruneHistory(t)
           \/ Truncate
           \/ Steady
<1>1. ASSUME NEW l \in lookups, CollectGarbage(l) PROVE Steady
  BY <1>1 DEF CollectGarbage, Steady
<1>2. CASE UNCHANGED vars
  BY <1>2 DEF vars, Steady
<1>3. QED
  BY <1>1, <1>2, RequestMoves, UpsertCommits, DeleteCommits DEF Next

----------------------------------------------------------------------------
(* ShownInv is inductive *)

\* The first row, if any, stems from no write.
LEMMA InitShown == Init => ShownInv
<1> SUFFICES ASSUME Init PROVE ShownInv
  OBVIOUS
<1>1. OvertakeInv
  BY InitOvertake
<1>2. \A w \in Writes : op[w].pit = 0 /\ op[w].kind = "put"
  BY DEF Init, Idle
<1>3. row.del = 0 /\ (row.pit # 0 => row.pit = 1) /\ (row.pit = 0 => row.sub = 0)
      /\ (row.sub = None => row.pit # 0)
  <2>1. row \in {Absent, BaseRow, LegacyRow}
    BY DEF Init
  <2>2. /\ Absent.pit = 0 /\ Absent.sub = 0 /\ Absent.del = 0
        /\ BaseRow.pit = 1 /\ BaseRow.sub = 0 /\ BaseRow.del = 0
        /\ LegacyRow.pit = 1 /\ LegacyRow.del = 0
    BY DEF Absent, BaseRow, LegacyRow
  <2>3. QED
    BY <2>1, <2>2
<1>4. DeletesInv
  BY <1>2, <1>3 DEF DeletesInv
<1>5. RowStart
  BY <1>2, <1>3 DEF RowStart, Init
<1>6. QED
  BY <1>1, <1>4, <1>5 DEF ShownInv

\* Deletes that do not overlap know of one another.
LEMMA StepDeletes ==
    ASSUME OvertakeInv, TypeOK', DeletesInv, "delete" \in Discipline, [Next]_vars
    PROVE  DeletesInv'
<1>0. /\ TypeOK /\ OrderInv /\ before \in [Writes -> SUBSET Writes]
  BY Numbers DEF OvertakeInv
<1>1. ASSUME NEW w \in Writes, Moves(w) PROVE DeletesInv'
  <2>1. row' = row /\ \A v \in Writes \ {w} : op'[v] = op[v] /\ before'[v] = before[v]
    BY <1>1 DEF Moves
  <2>2. op[w].step # "done" /\ op'[w].step # "done"
    BY <1>1 DEF Moves, Begins, Goes
  <2>3. op'[w].kind = "delete" => op'[w].step = "open"
    BY <1>1 DEF Moves, Begins, Goes, DeletesInv
  <2>4. ASSUME NEW u \in Writes, NEW v \in Writes, u # v,
               op'[u].kind = "delete", op'[v].kind = "delete", op'[v].step = "open"
        PROVE  u \in before'[v]
    <3>1. CASE u # w /\ v # w
      BY <2>1, <2>4, <3>1 DEF DeletesInv
    <3>2. CASE v = w /\ Begins(w)
      <4>1. op[u].kind = "delete" /\ op[u].step \in {"open", "done"}
        BY <2>1, <2>4, <3>2 DEF DeletesInv
      <4>2. op[u].step = "done"
        BY <2>4, <3>2, <4>1 DEF Begins, InFlight
      <4>3. QED
        BY <3>2, <4>2 DEF Begins, Committed
    <3>3. CASE u = w /\ Begins(w)
      <4>1. InFlight(v) /\ op[v].kind = "delete"
        BY <2>1, <2>4, <3>3 DEF InFlight
      <4>2. QED
        BY <2>4, <3>3, <4>1 DEF Begins
    <3>4. CASE (u = w \/ v = w) /\ Goes(w)
      <4>1. op[w].kind = "delete" /\ op[w].step = "open"
        BY <2>4, <3>4 DEF Goes, DeletesInv
      <4>2. op[u].kind = "delete" /\ op[v].kind = "delete" /\ op[v].step = "open"
        BY <2>1, <2>4, <3>4, <4>1
      <4>3. before'[v] = before[v]
        BY <2>1, <3>4 DEF Goes
      <4>4. QED
        BY <2>4, <4>2, <4>3 DEF DeletesInv
    <3>5. QED
      BY <1>1, <3>1, <3>2, <3>3, <3>4 DEF Moves
  <2>5. row'.del # 0 => \E d \in Writes :
          /\ op'[d].kind = "delete" /\ op'[d].step = "done"
          /\ op'[d].pit = row'.del /\ op'[d].sub = row'.sub
    BY <2>1, <2>2 DEF DeletesInv
  <2>6. \A v \in Writes : op'[v].kind = "delete" => op'[v].step \in {"open", "done"}
    BY <2>1, <2>3 DEF DeletesInv
  <2>7. QED
    BY <2>4, <2>5, <2>6 DEF DeletesInv
<1>2. ASSUME NEW w \in Writes, Commits(w) PROVE DeletesInv'
  <2>1. /\ op'[w].step = "done" /\ before' = before
        /\ \A v \in Writes : /\ op'[v].pit = op[v].pit /\ op'[v].sub = op[v].sub
                             /\ op'[v].kind = op[v].kind
                             /\ v # w => op'[v] = op[v]
    BY <1>2 DEF Commits
  <2>2. ASSUME row'.del # 0
        PROVE  \E d \in Writes :
                  /\ op'[d].kind = "delete" /\ op'[d].step = "done"
                  /\ op'[d].pit = row'.del /\ op'[d].sub = row'.sub
    <3>1. CASE RowBefore(w)
      <4>1. op'[w].kind = "delete"
        BY <1>2, <2>2, <3>1 DEF Commits, RowShows
      <4>2. row'.del = op[w].pit /\ row'.sub = op[w].sub
        BY <1>2, <2>2, <3>1 DEF Commits, Since
      <4>3. QED
        BY <2>1, <4>1, <4>2
    <3>2. CASE ~RowBefore(w)
      <4>1. row' = row
        BY <1>2, <3>2 DEF Commits
      <4>2. QED
        BY <2>1, <2>2, <4>1 DEF DeletesInv
    <3>3. QED
      BY <3>1, <3>2
  <2>3. QED
    BY <2>1, <2>2 DEF DeletesInv
<1>3. ASSUME row' = row \/ row'.del = 0, UNCHANGED <<op, before>> PROVE DeletesInv'
  BY <1>3 DEF DeletesInv
<1>4. ASSUME NEW t \in 1 .. clock, PruneHistory(t) PROVE DeletesInv'
  BY <1>3, <1>4 DEF PruneHistory, Absent
<1>5. CASE Truncate
  BY <1>3, <1>5 DEF Truncate, Absent
<1>6. CASE Steady
  BY <1>3, <1>6 DEF Steady
<1>7. QED
  BY <1>1, <1>2, <1>4, <1>5, <1>6, StepShown

\* The first row is older than every stamp that is drawn.
LEMMA StepStart ==
    ASSUME OvertakeInv, DeletesInv, RowStart, "delete" \in Discipline, [Next]_vars
    PROVE  RowStart'
<1>0. /\ TypeOK /\ clock \in Nat /\ row.pit \in Nat /\ Since(row) \in Nat
      /\ \A v \in Writes : op[v].pit \in Nat /\ op[v].sub \in Nat
      /\ TypeOK'
  BY Numbers, StepType DEF OvertakeInv
<1>1. clock' \in Nat
  BY <1>0 DEF TypeOK
<1>2. ASSUME NEW w \in Writes, Moves(w) PROVE RowStart'
  <2>1. \A v \in Writes : op'[v].pit # 0 => 2 <= op'[v].pit
    BY <1>0, <1>1, <1>2 DEF Moves, RowStart
  <2>2. QED
    BY <1>0, <1>1, <1>2, <2>1 DEF Moves, RowStart
<1>3. ASSUME NEW w \in Writes, Commits(w) PROVE RowStart'
  <2>1. /\ clock' = clock /\ applied' = applied \cup {w}
        /\ \A v \in Writes : op'[v].pit = op[v].pit
    BY <1>3 DEF Commits
  <2>2. 2 <= op[w].pit
    BY <1>3 DEF Commits, Stamped, RowStart
  <2>3. CASE RowBefore(w)
    <3>1. row'.sub = op[w].sub /\ row'.pit # 0
      BY <1>3, <2>3 DEF Commits
    <3>2. row'.sub # None
      BY <1>0, <3>1
    <3>3. QED
      BY <2>1, <3>1, <3>2 DEF RowStart
  <2>4. CASE ~RowBefore(w)
    <3>1. row' = row
      BY <1>3, <2>4 DEF Commits
    <3>2. applied # {} \/ row.pit = 0
      BY <1>0, <2>2, <2>4 DEF RowStart, RowBefore, Newer, Since
    <3>3. QED
      BY <2>1, <3>1, <3>2 DEF RowStart
  <2>5. QED
    BY <2>3, <2>4
<1>4. ASSUME NEW t \in 1 .. clock, PruneHistory(t) PROVE RowStart'
  BY <1>4 DEF PruneHistory, RowStart, Absent
<1>5. CASE Truncate
  <2>1. /\ row'.pit = 0 /\ row'.sub = 0 /\ row'.del = 0 /\ applied' = {} /\ op' = op
    BY <1>5 DEF Truncate, Absent
  <2>2. 2 <= clock'
    BY <1>0, <1>1, <1>5 DEF Truncate, Now, RowStart
  <2>3. QED
    BY <2>1, <2>2 DEF RowStart
<1>6. CASE Steady
  BY <1>6 DEF Steady, RowStart
<1>7. QED
  BY <1>2, <1>3, <1>4, <1>5, <1>6, StepShown

\* Both stay so with every step,
LEMMA StepShownInv ==
    ASSUME "delete" \in Discipline
    PROVE  ShownInv /\ [Next]_vars => ShownInv'
<1> SUFFICES ASSUME ShownInv, [Next]_vars PROVE ShownInv'
  OBVIOUS
<1>1. OvertakeInv /\ DeletesInv /\ RowStart
  BY DEF ShownInv
<1>2. OvertakeInv'
  BY <1>1, StepOvertake
<1>3. TypeOK'
  BY <1>2 DEF OvertakeInv
<1>4. QED
  BY <1>1, <1>2, <1>3, StepDeletes, StepStart DEF ShownInv

\* and hold at all times.
LEMMA ShownInvariant ==
    ASSUME "delete" \in Discipline
    PROVE  Spec => []ShownInv
BY InitShown, StepShownInv, PTL DEF Spec

\* What ShownInv says of a commit that wins and of one that does not.
LEMMA CommitFacts ==
    ASSUME ShownInv, NEW w \in Writes, Commits(w)
    PROVE  /\ 2 <= op[w].pit /\ op[w].pit \in Nat /\ op[w].sub \in Nat
           /\ row.pit = 0 => RowBefore(w)
           /\ applied = {} => RowBefore(w)
           /\ ~RowBefore(w) => /\ row.sub \in Nat
                               /\ \/ op[w].pit < Since(row)
                                  \/ op[w].pit = Since(row) /\ op[w].sub <= row.sub
<1>1. /\ TypeOK /\ op[w].pit \in Nat /\ op[w].sub \in Nat
      /\ row.pit \in Nat /\ Since(row) \in Nat /\ row.sub \in Nat \cup {None}
  BY Numbers DEF ShownInv, OvertakeInv
<1>2. 2 <= op[w].pit
  BY DEF Commits, Stamped, ShownInv, RowStart
<1>3. row.pit = 0 => RowBefore(w)
  BY <1>1, <1>2 DEF ShownInv, RowStart, RowBefore, Newer, Since
<1>4. applied = {} => RowBefore(w)
  BY <1>1, <1>2, <1>3 DEF ShownInv, RowStart, RowBefore, Newer, Since
<1>5. ASSUME ~RowBefore(w)
      PROVE  /\ row.sub \in Nat
             /\ \/ op[w].pit < Since(row)
                \/ op[w].pit = Since(row) /\ op[w].sub <= row.sub
  <2>1. row.sub # None
    BY <1>4, <1>5 DEF ShownInv, RowStart
  <2>2. row.sub \in Nat
    BY <1>1, <2>1
  <2>3. QED
    BY <1>1, <1>5, <2>1, <2>2 DEF RowBefore, Newer
<1>6. QED
  BY <1>1, <1>2, <1>3, <1>4, <1>5

----------------------------------------------------------------------------
(* HistoryAgrees. The row's version is in the history, everything else there  *)
(* is older than it, and a tombstone that is pruned takes all of it along.    *)

HistInv ==
    Backend = FLAT_HISTORY =>
        /\ row.sub # None
        /\ row.pit # 0 => HistoryOf(row) \in hist
        /\ \A h \in hist : /\ row.pit # 0
                           /\ h.sub # None
                           /\ \/ h = HistoryOf(row)
                              \/ Newer(h.pit, h.sub, Since(row), row.sub)

\* The stamps of a version are numbers.
LEMMA VersionNumbers ==
    ASSUME TypeOK, NEW h \in hist
    PROVE  h.pit \in Nat /\ h.sub \in Nat \cup {None}
BY DEF TypeOK, Version

\* At first the history has the version of the row, if any.
LEMMA InitHist == Init => HistInv
<1> SUFFICES ASSUME Init, Backend = FLAT_HISTORY PROVE HistInv
  BY DEF HistInv
<1>1. row \in {Absent, BaseRow}
  BY DEF Init, FLAT_HISTORY, NO_HISTORY
<1>2. Absent.pit = 0 /\ Absent.sub = 0 /\ BaseRow.pit = 1 /\ BaseRow.sub = 0
  BY DEF Absent, BaseRow
<1>3. row.sub # None /\ HistoryOf(row).sub = row.sub
  BY <1>1, <1>2 DEF HistoryOf
<1>4. hist = IF row.pit # 0 THEN {HistoryOf(row)} ELSE {}
  BY DEF Init, Exists
<1>5. QED
  BY <1>3, <1>4 DEF HistInv

\* The older of two versions is older than what the newer one is older than.
LEMMA NewerTransitive ==
    ASSUME NEW p1 \in Nat, NEW s1 \in Nat, NEW p2 \in Nat, NEW s2 \in Nat,
           NEW p3 \in Nat, NEW s3 \in Nat,
           Newer(p1, s1, p2, s2), Newer(p2, s2, p3, s3)
    PROVE  Newer(p1, s1, p3, s3)
BY DEF Newer

\* Of two stamps at most one is newer.
LEMMA NewerAsymmetric ==
    ASSUME NEW p1 \in Nat, NEW s1 \in Nat, NEW p2 \in Nat, NEW s2 \in Nat,
           Newer(p1, s1, p2, s2)
    PROVE  ~Newer(p2, s2, p1, s1)
BY DEF Newer

\* No step adds a version that is newer than the row.
LEMMA StepHist ==
    ASSUME ShownInv, HistInv, "delete" \in Discipline, [Next]_vars
    PROVE  HistInv'
<1> SUFFICES ASSUME Backend = FLAT_HISTORY PROVE HistInv'
  BY DEF HistInv
<1>0. /\ TypeOK /\ row.pit \in Nat /\ row.del \in Nat /\ Since(row) \in Nat
      /\ row.sub \in Nat \cup {None}
      /\ OvertakeInv /\ DeletesInv /\ RowInv
  BY Numbers DEF ShownInv, OvertakeInv
<1>h. /\ row.sub # None
      /\ row.pit # 0 => HistoryOf(row) \in hist
      /\ \A h \in hist : /\ row.pit # 0
                         /\ h.sub # None
                         /\ \/ h = HistoryOf(row)
                            \/ Newer(h.pit, h.sub, Since(row), row.sub)
  BY DEF HistInv
<1>1. ASSUME UNCHANGED <<row, hist>> PROVE HistInv'
  BY <1>1 DEF HistInv
<1>2. ASSUME NEW w \in Writes, Commits(w), RowBefore(w) PROVE HistInv'
  <2>1. /\ row'.sub = op[w].sub /\ Since(row)' = op[w].pit /\ row'.pit # 0
        /\ hist' = hist \cup {HistoryOf(row)'}
        /\ op[w].sub \in Nat /\ op[w].pit \in Nat
    BY <1>2, CommitFacts DEF Commits
  <2>2. row'.sub # None /\ HistoryOf(row)'.sub # None
    BY <2>1 DEF HistoryOf
  <2>3. ASSUME NEW h \in hist PROVE h.sub # None /\ Newer(h.pit, h.sub, op[w].pit, op[w].sub)
    <3>1. h.pit \in Nat /\ h.sub \in Nat /\ row.sub \in Nat
      BY <1>0, <1>h, VersionNumbers
    <3>2. CASE h = HistoryOf(row)
      BY <1>2, <3>1, <3>2 DEF RowBefore, HistoryOf
    <3>3. CASE Newer(h.pit, h.sub, Since(row), row.sub)
      <4>1. Newer(Since(row), row.sub, op[w].pit, op[w].sub)
        BY <1>2 DEF RowBefore
      <4>2. QED
        BY <1>0, <2>1, <3>1, <3>3, <4>1 DEF Newer
    <3>4. QED
      BY <1>h, <3>1, <3>2, <3>3
  <2>4. \A h \in hist' : /\ h.sub # None
                         /\ \/ h = HistoryOf(row)'
                            \/ Newer(h.pit, h.sub, Since(row)', row'.sub)
    BY <2>1, <2>2, <2>3
  <2>5. QED
    BY <2>1, <2>2, <2>4 DEF HistInv
<1>3. ASSUME NEW t \in 1 .. clock, PruneHistory(t), row.del # 0, row.del < t
      PROVE  HistInv'
  <2>1. row' = Absent
    BY <1>3 DEF PruneHistory
  <2>2. \A h \in hist : h.pit <= row.del
    <3> SUFFICES ASSUME NEW h \in hist PROVE h.pit <= row.del
      OBVIOUS
    <3>1. h.pit \in Nat /\ Since(row) = row.del
      BY <1>0, <1>3, VersionNumbers DEF Since
    <3>2. h = HistoryOf(row) => h.pit = row.del
      BY <3>1 DEF HistoryOf
    <3>3. QED
      BY <1>0, <1>h, <3>1, <3>2 DEF Newer
  <2>3. hist' = {}
    <3>1. hist' = hist \ {h \in hist : /\ h.pit < t
                                       /\ \/ ~Exists(Absent)
                                          \/ Newer(h.pit, h.sub, Absent.pit, Absent.sub)}
      BY <1>3 DEF PruneHistory
    <3>2. ~Exists(Absent)
      BY DEF Exists, Absent
    <3>3. \A h \in hist : h.pit < t
      <4> SUFFICES ASSUME NEW h \in hist PROVE h.pit < t
        OBVIOUS
      <4>1. h.pit \in Nat /\ t \in Nat /\ h.pit <= row.del
        BY <1>0, <2>2, VersionNumbers DEF OvertakeInv
      <4>2. QED
        BY <1>0, <1>3, <4>1
    <3>4. QED
      BY <3>1, <3>2, <3>3
  <2>4. QED
    BY <2>1, <2>3 DEF HistInv, Absent
<1>4. ASSUME NEW t \in 1 .. clock, PruneHistory(t), ~(row.del # 0 /\ row.del < t)
      PROVE  HistInv'
  <2>1. row' = row
    BY <1>4 DEF PruneHistory
  <2>2. /\ hist' \subseteq hist
        /\ \A h \in hist : h \notin hist' => /\ h.pit < t
                                             /\ ~Exists(row) \/ Newer(h.pit, h.sub, row.pit, row.sub)
    BY <1>4 DEF PruneHistory
  <2>3. ASSUME row.pit # 0, HistoryOf(row) \notin hist' PROVE FALSE
    <3>1. /\ HistoryOf(row).pit = Since(row) /\ HistoryOf(row).sub = row.sub
          /\ HistoryOf(row) \in hist
      BY <1>h, <2>3 DEF HistoryOf
    <3>2. Since(row) < t /\ Newer(Since(row), row.sub, row.pit, row.sub)
      BY <2>2, <2>3, <3>1 DEF Exists
    <3>3. row.del = 0
      BY <1>0, <1>4, <3>2 DEF Since
    <3>4. row.sub \in Nat
      BY <1>0, <1>h
    <3>5. QED
      BY <1>0, <3>2, <3>3, <3>4 DEF Since, Newer
  <2>4. QED
    BY <1>h, <2>1, <2>2, <2>3 DEF HistInv
<1>5. CASE Truncate
  BY <1>5 DEF Truncate, HistInv, Absent
<1>6. ASSUME NEW w \in Writes, Moves(w) \/ Commits(w) PROVE HistInv'
  BY <1>1, <1>2, <1>6 DEF Moves, Commits
<1>7. QED
  BY <1>0, <1>1, <1>3, <1>4, <1>5, <1>6, StepShown DEF Steady

\* What a read of the history as of now finds is what the materialized table
\* has, after any number of writes and prunes: where deletes do not overlap.
THEOREM HistoryAlwaysAgrees ==
    ASSUME "delete" \in Discipline
    PROVE  Spec => []HistoryAgrees
<1>1. ShownInv /\ HistInv => HistoryAgrees
  <2> SUFFICES ASSUME ShownInv, HistInv, Backend = FLAT_HISTORY PROVE HistoryAgrees
    BY DEF HistoryAgrees
  <2> DEFINE newest == {h \in hist : \A g \in hist \ {h} :
                                        Newer(g.pit, g.sub, h.pit, h.sub)}
             version == HistoryOf(row)
  <2>0. TypeOK /\ Since(row) \in Nat /\ row.sub \in Nat
    BY Numbers DEF ShownInv, OvertakeInv, HistInv
  <2>1. version.pit = Since(row) /\ version.sub = row.sub /\ (version.deleted <=> row.del # 0)
    BY DEF HistoryOf
  <2> HIDE DEF version
  <2>2. row.pit = 0 => hist = {}
    BY DEF HistInv
  <2>3. row.pit # 0 => newest = {version}
    <3> SUFFICES ASSUME row.pit # 0 PROVE newest = {version}
      OBVIOUS
    <3>1. version \in hist /\ \A g \in hist \ {version} : Newer(g.pit, g.sub, version.pit, version.sub)
      BY <2>1 DEF HistInv, version
    <3>2. ASSUME NEW h \in newest, h # version PROVE FALSE
      <4>1. /\ Newer(h.pit, h.sub, version.pit, version.sub)
            /\ Newer(version.pit, version.sub, h.pit, h.sub)
            /\ h \in hist
        BY <3>1, <3>2
      <4>2. h.pit \in Nat /\ h.sub \in Nat
        BY <2>0, <4>1, VersionNumbers DEF HistInv
      <4>3. QED
        BY <2>0, <2>1, <4>1, <4>2, NewerAsymmetric
    <3>3. QED
      BY <3>1, <3>2
  <2>4. {h \in newest : ~h.deleted} = IF Live(row) THEN {version} ELSE {}
    BY <2>1, <2>2, <2>3 DEF Live, Exists
  <2>5. QED
    BY <2>4 DEF HistoryAgrees, version
<1>2. ShownInv /\ HistInv /\ [Next]_vars => HistInv'
  BY StepHist
<1>3. QED
  BY <1>1, <1>2, InitHist, ShownInvariant, PTL DEF Spec

----------------------------------------------------------------------------
(* LatestStampWins. The row is not older than any write applied, and shows    *)
(* the one that it has the stamps of. Where it is pruned, the writes that     *)
(* come are newer than those that were, the latest of which was a delete.     *)

Greatest(w) == \A v \in applied \ {w} : Newer(op[v].pit, op[v].sub, op[w].pit, op[w].sub)

LatestInv ==
    /\ \A v \in applied : row.pit # 0 =>
          op[v].sub = row.sub \/ Newer(op[v].pit, op[v].sub, Since(row), row.sub)
    /\ applied # {} /\ row.pit # 0 =>
          \E v \in applied : op[v].sub = row.sub /\ RowShows(v)
    /\ row.pit = 0 => \A v \in applied :
          /\ op[v].pit < clock
          /\ \A w \in Writes : op[w].step \in {"open", "saved"} /\ op[w].pit # 0 =>
                op[v].pit < op[w].pit
          /\ Greatest(v) => op[v].kind = "delete"

\* What is applied has stamps of its own, and the row those of one of them.
LEMMA AppliedFacts ==
    ASSUME ShownInv, NEW v \in applied
    PROVE  /\ v \in Writes /\ op[v].step = "done"
           /\ op[v].pit \in Nat /\ op[v].sub \in Nat /\ op[v].sub # 0
           /\ \A w \in Writes : op[v].sub = op[w].sub => v = w
           /\ op[v].sub = row.sub => op[v].pit = Since(row)
<1>1. TypeOK /\ v \in Writes /\ op[v].pit \in Nat /\ op[v].sub \in Nat
  BY Numbers DEF ShownInv, OvertakeInv
<1>2. op[v].step = "done" /\ op[v].sub # 0
  BY <1>1 DEF ShownInv, OvertakeInv, AppliedInv, StampsInv, Stamped
<1>3. QED
  BY <1>1, <1>2 DEF ShownInv, OvertakeInv, StampsInv, RowInv

\* The greatest of the writes applied is the one the row shows, if any.
LEMMA GreatestShown ==
    ASSUME ShownInv, LatestInv, row.pit # 0, NEW w \in applied, Greatest(w)
    PROVE  RowShows(w)
<1>1. PICK v \in applied : op[v].sub = row.sub /\ RowShows(v)
  BY DEF LatestInv
<1>2. /\ op[v].pit \in Nat /\ op[v].sub \in Nat /\ op[v].pit = Since(row)
      /\ op[w].pit \in Nat /\ op[w].sub \in Nat
  BY <1>1, AppliedFacts
<1>3. CASE v # w
  <2>1. Newer(op[v].pit, op[v].sub, op[w].pit, op[w].sub)
    BY <1>3 DEF Greatest
  <2>2. op[w].sub # row.sub
    BY <1>1, <1>3, AppliedFacts
  <2>3. Newer(op[w].pit, op[w].sub, op[v].pit, op[v].sub)
    BY <1>1, <1>2, <2>2 DEF LatestInv
  <2>4. QED
    BY <1>2, <2>1, <2>3, NewerAsymmetric
<1>4. QED
  BY <1>1, <1>3

\* LatestInv only looks at the committed writes' stamps and kinds.
LEMMA MovesLatest ==
    ASSUME ShownInv, TypeOK', LatestInv, NEW w \in Writes, Moves(w)
    PROVE  LatestInv'
<1>0. TypeOK /\ clock \in Nat /\ clock' \in Nat /\ clock <= clock'
  BY Numbers DEF ShownInv, OvertakeInv, Moves, TypeOK
<1>1. \A v \in applied : v \in Writes /\ v # w /\ op[v].pit \in Nat
  BY AppliedFacts DEF Moves, Begins, Goes
<1>2. /\ row' = row /\ applied' = applied
      /\ \A v \in Writes \ {w} : op'[v] = op[v]
  BY DEF Moves
<1>3. \A v \in applied : op'[v] = op[v]
  BY <1>1, <1>2
<1>4. ASSUME NEW v \in applied PROVE (Greatest(v)' <=> Greatest(v)) /\ (RowShows(v)' <=> RowShows(v))
  BY <1>2, <1>3 DEF Greatest, RowShows, Uploads
<1>5. ASSUME row.pit = 0, NEW v \in applied, NEW u \in Writes,
             op'[u].step \in {"open", "saved"}, op'[u].pit # 0
      PROVE  op[v].pit < op'[u].pit
  <2>1. CASE u # w
    BY <1>2, <1>5, <2>1 DEF LatestInv
  <2>2. CASE u = w /\ op'[w].pit = op[w].pit
    <3>1. op[w].step \in {"open", "saved"}
      BY <1>5, <2>2 DEF Moves, Begins, Goes, ShownInv, OvertakeInv, StampsInv
    <3>2. QED
      BY <1>5, <2>2, <3>1 DEF LatestInv
  <2>3. CASE u = w /\ op'[w].pit = clock'
    <3>1. op[v].pit < clock
      BY <1>5 DEF LatestInv
    <3>2. QED
      BY <1>0, <1>1, <2>3, <3>1
  <2>4. QED
    BY <2>1, <2>2, <2>3 DEF Moves
<1>6. ASSUME row.pit = 0, NEW v \in applied PROVE op[v].pit < clock'
  <2>1. op[v].pit < clock
    BY <1>6 DEF LatestInv
  <2>2. QED
    BY <1>0, <1>1, <2>1
<1>7. QED
  BY <1>2, <1>3, <1>4, <1>5, <1>6 DEF LatestInv, Since

\* A commit leaves a row with the stamps of all that was applied, at least.
LEMMA CommitsLatest ==
    ASSUME ShownInv, LatestInv, NEW w \in Writes, Commits(w)
    PROVE  LatestInv'
<1>0. /\ TypeOK /\ Since(row) \in Nat
      /\ op[w].pit \in Nat /\ op[w].sub \in Nat
  BY Numbers DEF ShownInv, OvertakeInv
<1>1. \A v \in applied : v \in Writes /\ v # w
  BY AppliedFacts DEF Commits
<1>2. /\ applied' = applied \cup {w}
      /\ \A v \in Writes : /\ op'[v].pit = op[v].pit /\ op'[v].sub = op[v].sub
                           /\ op'[v].kind = op[v].kind /\ op'[v].brings = op[v].brings
  BY DEF Commits
<1>3. CASE RowBefore(w)
  <2>1. row'.sub = op[w].sub /\ Since(row)' = op[w].pit /\ row'.pit # 0 /\ RowShows(w)'
    BY <1>3 DEF Commits
  <2>2. ASSUME NEW v \in applied PROVE Newer(op[v].pit, op[v].sub, op[w].pit, op[w].sub)
    <3>1. op[v].pit \in Nat /\ op[v].sub \in Nat
      BY AppliedFacts
    <3>2. CASE row.pit = 0
      <4>1. op[v].pit < op[w].pit
        BY <3>2 DEF LatestInv, Commits, Stamped
      <4>2. QED
        BY <4>1 DEF Newer
    <3>3. CASE row.pit # 0 /\ op[v].sub = row.sub
      BY <1>3, <3>3, AppliedFacts DEF RowBefore
    <3>4. CASE row.pit # 0 /\ op[v].sub # row.sub
      <4>1. Newer(op[v].pit, op[v].sub, Since(row), row.sub)
        BY <3>4 DEF LatestInv
      <4>2. row.sub \in Nat
        BY <1>0, Numbers DEF ShownInv, RowStart
      <4>3. Newer(Since(row), row.sub, op[w].pit, op[w].sub)
        BY <1>3 DEF RowBefore
      <4>4. QED
        BY <1>0, <3>1, <4>1, <4>2, <4>3, NewerTransitive
    <3>5. QED
      BY <3>2, <3>3, <3>4
  <2>3. QED
    BY <1>1, <1>2, <2>1, <2>2 DEF LatestInv
<1>4. CASE ~RowBefore(w)
  <2>1. row' = row /\ row.pit # 0 /\ applied # {}
    BY <1>4, CommitFacts DEF Commits
  <2>2. op[w].sub = row.sub \/ Newer(op[w].pit, op[w].sub, Since(row), row.sub)
    <3>1. /\ row.sub \in Nat /\ op[w].sub # None
          /\ \/ op[w].pit < Since(row)
             \/ op[w].pit = Since(row) /\ op[w].sub <= row.sub
      BY <1>0, <1>4, CommitFacts
    <3>2. QED
      BY <1>0, <3>1 DEF Newer
  <2>3. PICK v \in applied : op[v].sub = row.sub /\ RowShows(v)
    BY <2>1 DEF LatestInv
  <2>4. v \in applied' /\ op'[v].sub = row'.sub /\ RowShows(v)'
    BY <1>1, <1>2, <2>1, <2>3 DEF RowShows, Uploads
  <2>5. \A u \in applied' :
          op'[u].sub = row'.sub \/ Newer(op'[u].pit, op'[u].sub, Since(row)', row'.sub)
    BY <1>1, <1>2, <2>1, <2>2 DEF LatestInv, Since
  <2>6. QED
    BY <2>1, <2>4, <2>5 DEF LatestInv
<1>5. QED
  BY <1>3, <1>4

\* Pruning takes no tombstone that a write under way could miss.
LEMMA PruneLatest ==
    ASSUME ShownInv, LatestInv, "prune" \in Discipline,
           NEW t \in 1 .. clock, PruneHistory(t)
    PROVE  LatestInv'
<1>0. TypeOK /\ clock \in Nat /\ row.del \in Nat /\ t \in Nat /\ t <= clock
  BY Numbers DEF ShownInv, OvertakeInv
<1>1. UNCHANGED <<clock, op, applied>>
  BY DEF PruneHistory
<1>2. CASE row.del # 0 /\ row.del < t
  <2>1. row' = Absent /\ row'.pit = 0 /\ row.pit # 0
    BY <1>2 DEF PruneHistory, Absent, ShownInv, RowStart
  <2>2. ASSUME NEW v \in applied PROVE op[v].pit <= row.del
    <3>1. op[v].pit \in Nat /\ op[v].sub \in Nat /\ Since(row) = row.del
      BY <1>2, AppliedFacts DEF Since
    <3>2. CASE op[v].sub = row.sub
      BY <1>0, <3>1, <3>2, AppliedFacts
    <3>3. CASE op[v].sub # row.sub
      BY <1>0, <2>1, <3>1, <3>3 DEF LatestInv, Newer
    <3>4. QED
      BY <3>2, <3>3
  <2>3. ASSUME NEW v \in applied, NEW w \in Writes,
               op[w].step \in {"open", "saved"}, op[w].pit # 0
        PROVE  op[v].pit < op[w].pit
    <3>1. t <= op[w].pit
      BY <2>3 DEF PruneHistory, InFlight
    <3>2. op[v].pit \in Nat /\ op[w].pit \in Nat /\ op[v].pit <= row.del
      BY <1>0, <2>2, AppliedFacts, Numbers
    <3>3. QED
      BY <1>0, <1>2, <3>1, <3>2
  <2>4. ASSUME NEW v \in applied PROVE op[v].pit < clock
    <3>1. op[v].pit \in Nat /\ op[v].pit <= row.del
      BY <2>2, AppliedFacts
    <3>2. QED
      BY <1>0, <1>2, <3>1
  <2>5. ASSUME NEW v \in applied, Greatest(v) PROVE op[v].kind = "delete"
    <3>1. RowShows(v)
      BY <2>1, <2>5, GreatestShown
    <3>2. QED
      BY <1>2, <3>1 DEF RowShows
  <2>6. QED
    BY <1>1, <2>1, <2>3, <2>4, <2>5 DEF LatestInv, Greatest
<1>3. CASE ~(row.del # 0 /\ row.del < t)
  <2>1. row' = row
    BY <1>3 DEF PruneHistory
  <2>2. QED
    BY <1>1, <2>1 DEF LatestInv, Greatest, RowShows, Since, Uploads
<1>4. QED
  BY <1>2, <1>3

\* So the greatest stamps stay those of the row.
LEMMA StepLatest ==
    ASSUME ShownInv, LatestInv, {"delete", "prune"} \subseteq Discipline, [Next]_vars
    PROVE  LatestInv'
<1>1. TypeOK' /\ OvertakeInv /\ DeletesInv
  BY StepType DEF ShownInv, OvertakeInv
<1>2. CASE Truncate
  BY <1>2 DEF Truncate, LatestInv, Absent
<1>3. CASE Steady
  BY <1>3 DEF Steady, LatestInv, Greatest, RowShows, Since, Uploads
<1>4. QED
  BY <1>1, <1>2, <1>3, StepShown, MovesLatest, CommitsLatest, PruneLatest

\* The committed write with the greatest stamps is what the row shows, in
\* whatever order the writes got the row lock: where deletes do not overlap and
\* nothing is pruned that is newer than a write under way.
THEOREM LatestAlwaysWins ==
    ASSUME {"delete", "prune"} \subseteq Discipline
    PROVE  Spec => []LatestStampWins
<1>1. Init => LatestInv
  BY DEF Init, LatestInv
<1>2. ShownInv /\ LatestInv => LatestStampWins
  <2> SUFFICES ASSUME ShownInv, LatestInv, NEW w \in applied, Greatest(w)
               PROVE  IF op[w].kind = "delete" THEN ~Live(row)
                      ELSE /\ Live(row)
                           /\ "data" \in op[w].brings => row.data = w
                           /\ "file" \in op[w].brings => row.file = w
                           /\ op[w].kind # "patch" /\ ~Uploads(w) => row.file = None
    BY DEF LatestStampWins, Greatest
  <2>1. CASE row.pit # 0
    BY <2>1, GreatestShown DEF RowShows, Live, Exists
  <2>2. CASE row.pit = 0
    BY <2>2 DEF LatestInv, Live, Exists
  <2>3. QED
    BY <2>1, <2>2
<1>3. ShownInv /\ LatestInv /\ [Next]_vars => LatestInv'
  BY StepLatest
<1>4. "delete" \in Discipline
  OBVIOUS
<1>5. QED
  BY <1>1, <1>2, <1>3, <1>4, ShownInvariant, PTL DEF Spec

----------------------------------------------------------------------------
(* EventsAgree. The event that is delivered last is the one of the write the  *)
(* row shows: two writes have one microsecond never, and an event of a write  *)
(* that lost is earlier. What comes after a prune or a truncate comes later.  *)

UniqueStamps ==
    \A v, w \in Writes : op[v].pit = op[w].pit /\ op[v].pit # 0 => v = w

EventInv ==
    /\ UniqueStamps
    /\ last.pit <= clock
    /\ last.kind = "NONE" => last.pit = 0 /\ applied = {}
    /\ last.kind # "NONE" /\ row.pit # 0 =>
          last.pit = Since(row) /\ (last.kind = "CHANGED" <=> row.del = 0)
    /\ row.pit = 0 =>
          /\ last.kind # "CHANGED"
          /\ \A w \in Writes : op[w].step \in {"open", "saved"} /\ op[w].pit # 0 =>
                last.pit <= op[w].pit

\* A request before its commit has sent no event,
LEMMA MovesEvents ==
    ASSUME ShownInv, TypeOK', EventInv, ~Ties, NEW w \in Writes, Moves(w)
    PROVE  EventInv'
<1>0. /\ TypeOK /\ clock \in Nat /\ clock' \in Nat /\ clock <= clock' /\ last.pit \in Nat
      /\ \A v \in Writes : op[v].pit \in Nat
  BY Numbers DEF ShownInv, OvertakeInv, Moves, TypeOK
<1>1. /\ row' = row /\ applied' = applied /\ last' = last
      /\ \A v \in Writes \ {w} : op'[v] = op[v]
      /\ \/ op'[w].pit = op[w].pit
         \/ op[w].pit = 0 /\ op'[w].pit = clock' /\ clock < clock'
  BY DEF Moves
<1>2. \A v \in Writes : op[v].pit <= clock
  BY DEF ShownInv, OvertakeInv, StampsInv
<1>3. last'.pit <= clock'
  BY <1>0, <1>1 DEF EventInv
<1>4. UniqueStamps'
  <2> SUFFICES ASSUME NEW u \in Writes, NEW v \in Writes, u # v,
                      op'[u].pit = op'[v].pit, op'[u].pit # 0
               PROVE  FALSE
    BY DEF UniqueStamps
  <2>1. CASE op'[w].pit = op[w].pit
    BY <1>1, <2>1 DEF EventInv, UniqueStamps
  <2>2. CASE op'[w].pit = clock' /\ clock < clock'
    <3>1. \A x \in Writes \ {w} : op'[x].pit # clock'
      <4> SUFFICES ASSUME NEW x \in Writes \ {w} PROVE op[x].pit # clock'
        BY <1>1
      <4>1. op[x].pit <= clock /\ op[x].pit \in Nat
        BY <1>0, <1>2
      <4>2. QED
        BY <1>0, <2>2, <4>1
    <3>2. u # w /\ v # w
      BY <2>2, <3>1
    <3>3. QED
      BY <1>1, <3>2 DEF EventInv, UniqueStamps
  <2>3. QED
    BY <1>1, <2>1, <2>2
<1>5. ASSUME row.pit = 0, NEW u \in Writes, op'[u].step \in {"open", "saved"}, op'[u].pit # 0
      PROVE  last.pit <= op'[u].pit
  <2>1. CASE u # w
    BY <1>1, <1>5, <2>1 DEF EventInv
  <2>2. CASE u = w /\ op'[w].pit = op[w].pit
    <3>1. op[w].step \in {"open", "saved"}
      BY <1>5, <2>2 DEF Moves, Begins, Goes, ShownInv, OvertakeInv, StampsInv
    <3>2. QED
      BY <1>5, <2>2, <3>1 DEF EventInv
  <2>3. CASE u = w /\ op'[w].pit = clock'
    BY <1>1, <1>3, <2>3
  <2>4. QED
    BY <1>1, <2>1, <2>2, <2>3
<1>6. QED
  BY <1>1, <1>3, <1>4, <1>5 DEF EventInv, Since

\* a commit sends that of what it wrote,
LEMMA CommitsEvents ==
    ASSUME ShownInv, LatestInv, EventInv, NEW w \in Writes, Commits(w)
    PROVE  EventInv'
<1>0. /\ TypeOK /\ clock \in Nat /\ Since(row) \in Nat /\ last.pit \in Nat
      /\ op[w].pit \in Nat /\ 2 <= op[w].pit /\ op[w].pit <= clock
  BY Numbers, CommitFacts DEF ShownInv, OvertakeInv, StampsInv
<1>1. /\ clock' = clock /\ applied' # {}
      /\ \A v \in Writes : op'[v].pit = op[v].pit
      /\ op[w].step \in {"open", "saved"} /\ op[w].pit # 0
  BY DEF Commits, Stamped
<1> DEFINE kind == IF op[w].kind = "delete" THEN "DELETED" ELSE "CHANGED"
<1>2. last' = IF last.pit <= op[w].pit THEN [kind |-> kind, pit |-> op[w].pit] ELSE last
  BY DEF Commits, EventAfter
<1>3. UniqueStamps'
  BY <1>1 DEF UniqueStamps, EventInv
<1>4. CASE RowBefore(w)
  <2>1. Since(row)' = op[w].pit /\ row'.pit # 0 /\ RowShows(w)' /\ op'[w].kind = op[w].kind
    BY <1>4 DEF Commits
  <2>2. last.pit <= op[w].pit
    <3>1. CASE last.kind = "NONE"
      BY <1>0, <3>1 DEF EventInv
    <3>2. CASE row.pit = 0
      BY <1>1, <3>2 DEF EventInv
    <3>3. CASE last.kind # "NONE" /\ row.pit # 0
      <4>1. last.pit = Since(row)
        BY <3>3 DEF EventInv
      <4>2. Since(row) <= op[w].pit
        BY <1>0, <1>4 DEF RowBefore, Newer
      <4>3. QED
        BY <4>1, <4>2
    <3>4. QED
      BY <3>1, <3>2, <3>3
  <2>3. last'.pit = op[w].pit /\ last'.kind = kind
    BY <1>2, <2>2
  <2>4. last'.kind = "CHANGED" <=> row'.del = 0
    BY <2>1, <2>3 DEF RowShows
  <2>5. QED
    BY <1>0, <1>1, <1>3, <2>1, <2>3, <2>4 DEF EventInv
<1>5. CASE ~RowBefore(w)
  <2>1. row' = row /\ row.pit # 0 /\ applied # {}
    BY <1>5, CommitFacts DEF Commits
  <2>2. last.kind # "NONE" /\ last.pit = Since(row)
    BY <2>1 DEF EventInv
  <2>3. PICK v \in applied : op[v].sub = row.sub
    BY <2>1 DEF LatestInv
  <2>4. v \in Writes /\ v # w /\ op[v].pit = Since(row)
    BY <1>1, <2>3, AppliedFacts
  <2>5. op[w].pit # Since(row)
    BY <1>1, <2>4 DEF EventInv, UniqueStamps
  <2>6. op[w].pit < last.pit
    BY <1>0, <1>5, <2>2, <2>5, CommitFacts
  <2>7. last' = last
    BY <1>0, <1>2, <2>6
  <2>8. QED
    BY <1>1, <1>3, <2>1, <2>2, <2>7 DEF EventInv, Since
<1>6. QED
  BY <1>4, <1>5

\* pruning sends none,
LEMMA PruneEvents ==
    ASSUME ShownInv, EventInv, "prune" \in Discipline,
           NEW t \in 1 .. clock, PruneHistory(t)
    PROVE  EventInv'
<1>0. TypeOK /\ clock \in Nat /\ row.del \in Nat /\ t \in Nat /\ last.pit \in Nat
  BY Numbers DEF ShownInv, OvertakeInv
<1>1. UNCHANGED <<clock, op, applied, last>>
  BY DEF PruneHistory
<1>2. CASE row.del # 0 /\ row.del < t
  <2>1. row' = Absent /\ row'.pit = 0 /\ row.pit # 0
    BY <1>2 DEF PruneHistory, Absent, ShownInv, RowStart
  <2>2. last.kind # "NONE"
    BY <1>2, <2>1 DEF EventInv, ShownInv, RowStart
  <2>3. last.pit = row.del /\ last.kind # "CHANGED"
    BY <1>2, <2>1, <2>2 DEF EventInv, Since
  <2>4. ASSUME NEW w \in Writes, op[w].step \in {"open", "saved"}, op[w].pit # 0
        PROVE  last.pit <= op[w].pit
    <3>1. t <= op[w].pit /\ op[w].pit \in Nat
      BY <1>0, <2>4, Numbers DEF PruneHistory, InFlight
    <3>2. QED
      BY <1>0, <1>2, <2>3, <3>1
  <2>5. QED
    BY <1>1, <2>1, <2>2, <2>3, <2>4 DEF EventInv, UniqueStamps
<1>3. CASE ~(row.del # 0 /\ row.del < t)
  <2>1. row' = row
    BY <1>3 DEF PruneHistory
  <2>2. QED
    BY <1>1, <2>1 DEF EventInv, UniqueStamps, Since
<1>4. QED
  BY <1>2, <1>3

\* and so the last event is that of the row.
LEMMA StepEvents ==
    ASSUME ShownInv, LatestInv, EventInv, ~Ties,
           {"delete", "prune", "truncate"} \subseteq Discipline, [Next]_vars
    PROVE  EventInv'
<1>1. TypeOK' /\ OvertakeInv /\ DeletesInv
  BY StepType DEF ShownInv, OvertakeInv
<1>2. CASE Truncate
  <2>1. PICK t \in Now : clock' = t /\ last' = [kind |-> "TRUNCATED", pit |-> t]
    BY <1>2 DEF Truncate
  <2>2. last'.kind = "TRUNCATED" /\ last'.pit = clock' /\ clock' \in Nat
    BY <1>1, <2>1 DEF TypeOK
  <2>3. /\ row'.pit = 0 /\ op' = op
        /\ \A w \in Writes : op[w].step \notin {"open", "saved"}
    BY <1>2 DEF Truncate, Absent, InFlight
  <2>4. clock' <= clock'
    BY <2>2
  <2>5. QED
    BY <2>2, <2>3, <2>4 DEF EventInv, UniqueStamps
<1>3. CASE Steady
  BY <1>3 DEF Steady, EventInv, UniqueStamps, Since
<1>4. QED
  BY <1>1, <1>2, <1>3, StepShown, MovesEvents, CommitsEvents, PruneEvents

\* A consumer that handles its events in delivery order ends up with the right
\* idea of whether the data point exists, whatever lost, was pruned or was
\* truncated: where the runs' races are left out and no two stamps are equal.
THEOREM EventsAlwaysAgree ==
    ASSUME {"delete", "prune", "truncate"} \subseteq Discipline, ~Ties
    PROVE  Spec => []EventsAgree
<1>1. Init => LatestInv
  BY DEF Init, LatestInv
<1>2. Init => EventInv
  BY DEF Init, Idle, EventInv, UniqueStamps
<1>3. EventInv => EventsAgree
  <2> SUFFICES ASSUME EventInv, last.kind # "NONE" PROVE last.kind = "CHANGED" <=> Live(row)
    BY DEF EventsAgree
  <2>1. QED
    BY DEF EventInv, Live, Exists
<1>4. ShownInv /\ LatestInv /\ [Next]_vars => LatestInv'
  BY StepLatest
<1>5. ShownInv /\ LatestInv /\ EventInv /\ [Next]_vars => EventInv'
  BY StepEvents
<1>6. "delete" \in Discipline
  OBVIOUS
<1>7. QED
  BY <1>1, <1>2, <1>3, <1>4, <1>5, <1>6, ShownInvariant, PTL DEF Spec


----------------------------------------------------------------------------
(* Files on the backend without history: what the row refers to is never      *)
(* marked, although a request picks the lookups it marks before it has the    *)
(* row lock, and marks them when its write has lost.                          *)


\* The row, which then has a sub_clock, is not older than a lookup.
Covers(l) ==
    /\ row.pit # 0 /\ row.sub # None
    /\ \/ l.pit = Since(row) /\ l.sub = row.sub
       \/ Newer(l.pit, l.sub, Since(row), row.sub)

Under(l) == row.pit # 0 /\ row.sub # None /\ Newer(l.pit, l.sub, Since(row), row.sub)

\* Every lookup is of the first row or of a committed write, and a file has one.
LookupInv ==
    /\ \A l \in lookups :
          \/ l.file = Base /\ l.pit = 1 /\ l.sub = 0
          \/ /\ l.file \in Writes /\ op[l.file].step = "done"
             /\ l.pit = op[l.file].pit /\ l.sub = op[l.file].sub
    /\ \A l, m \in lookups : l.file = m.file => l = m

\* No lookup is newer than the row, nor than the writes to come where there
\* is no row.
RowCovers ==
    /\ \A l \in lookups : row.pit # 0 => Covers(l)
    /\ row.pit = 0 => \A l \in lookups :
          /\ l.pit < clock
          /\ \A w \in Writes : op[w].step \in {"open", "saved"} /\ op[w].pit # 0 =>
                l.pit < op[w].pit

\* What a request has picked to be marked is older than itself or the row.
MarksInv ==
    \A w \in Writes : op[w].step = "saved" => \A l \in op[w].marks :
        Under(l) \/ Newer(l.pit, l.sub, op[w].pit, op[w].sub)

UploadInv ==
    /\ hist = {}
    /\ \A w \in Writes : op[w].kind # "patch"
    /\ \A w \in Writes : op[w].step = "saved" /\ Uploads(w) => w \in stored

\* The file of the row is stored, and its lookup is there and not marked.
FileInv ==
    Live(row) /\ row.file # None =>
        row.file \in stored /\ LookupOf(row.file, row.pit, row.sub) \in lookups

FilesInv == LookupInv /\ RowCovers /\ MarksInv /\ UploadInv /\ FileInv

\* The races that are left out, as the run does; a PATCH does lose files.
Setting ==
    /\ {"delete", "prune", "truncate"} \subseteq Discipline
    /\ ~Ties /\ Backend = NO_HISTORY /\ "patch" \notin Kinds

\* The stamps of a lookup are numbers.
LEMMA LookupNumbers ==
    ASSUME TypeOK, NEW l, l \in lookups \/ \E w \in Writes : l \in op[w].marks
    PROVE  l \in Lookup /\ l.pit \in Nat /\ l.sub \in Nat
<1>1. ASSUME NEW w \in Writes, l \in op[w].marks PROVE l \in Lookup
  <2>1. op[w] \in Op
    BY Numbers
  <2>2. QED
    BY <1>1, <2>1 DEF Op
<1>2. l \in Lookup
  BY <1>1 DEF TypeOK
<1>3. QED
  BY <1>2 DEF Lookup

\* At first the file of the row is registered and stored.
LEMMA InitFiles == Setting /\ Init => FilesInv
<1> SUFFICES ASSUME Setting, Init PROVE FilesInv
  OBVIOUS
<1>1. \A w \in Writes : op[w].kind = "put" /\ op[w].step = "idle"
  BY DEF Init, Idle
<1>2. hist = {}
  BY DEF Init, Setting, FLAT_HISTORY, NO_HISTORY
<1>3. CASE row = BaseRow
  <2>1. row.pit = 1 /\ row.sub = 0 /\ row.del = 0 /\ row.file = Base
    BY <1>3 DEF BaseRow
  <2>2. /\ lookups = {LookupOf(Base, 1, 0)} /\ stored = {Base}
        /\ LookupOf(Base, 1, 0).file = Base /\ LookupOf(Base, 1, 0).pit = 1
        /\ LookupOf(Base, 1, 0).sub = 0
    BY <1>3 DEF Init, LookupOf
  <2>3. row.sub # None
    BY <2>1
  <2>4. QED
    BY <1>1, <1>2, <2>1, <2>2, <2>3
       DEF FilesInv, LookupInv, RowCovers, MarksInv, UploadInv, FileInv, Covers, Since
<1>4. CASE row # BaseRow
  <2>1. row \in {Absent, LegacyRow} /\ lookups = {}
    BY <1>4 DEF Init
  <2>2. row.file = None
    <3>1. Absent.file = None
      BY DEF Absent
    <3>2. LegacyRow.file = None
      BY DEF LegacyRow, BaseRow
    <3>3. QED
      BY <2>1, <3>1, <3>2
  <2>3. QED
    BY <1>1, <1>2, <2>1, <2>2
       DEF FilesInv, LookupInv, RowCovers, MarksInv, UploadInv, FileInv
<1>5. QED
  BY <1>3, <1>4

\* A request that begins, draws a stamp or is rolled back marks nothing.
LEMMA MovesFiles ==
    ASSUME ShownInv, TypeOK', FilesInv, NEW w \in Writes, Moves(w),
           op'[w].step # "saved", op'[w].kind # "patch", UNCHANGED files
    PROVE  FilesInv'
<1>0. TypeOK /\ clock \in Nat /\ clock' \in Nat /\ clock <= clock'
  BY Numbers DEF ShownInv, OvertakeInv, Moves, TypeOK
<1>1. /\ UNCHANGED <<row, hist, lookups, stored>>
      /\ \A v \in Writes \ {w} : op'[v] = op[v]
      /\ op[w].step # "done"
  BY DEF Moves, Begins, Goes
<1>2. LookupInv'
  BY <1>1 DEF FilesInv, LookupInv
<1>3. RowCovers'
  <2>1. \A l \in lookups : Covers(l)' <=> Covers(l)
    BY <1>1 DEF Covers, Since
  <2>2. ASSUME row.pit = 0, NEW l \in lookups
        PROVE  l.pit < clock'
    <3>1. l.pit < clock /\ l.pit \in Nat
      BY <1>0, <2>2, LookupNumbers DEF FilesInv, RowCovers
    <3>2. QED
      BY <1>0, <3>1
  <2>3. ASSUME row.pit = 0, NEW l \in lookups, NEW u \in Writes,
               op'[u].step \in {"open", "saved"}, op'[u].pit # 0
        PROVE  l.pit < op'[u].pit
    <3>1. CASE u # w
      BY <1>1, <2>3, <3>1 DEF FilesInv, RowCovers
    <3>2. CASE u = w /\ op'[w].pit = op[w].pit
      <4>1. op[w].step \in {"open", "saved"}
        BY <2>3, <3>2 DEF Moves, Begins, Goes, ShownInv, OvertakeInv, StampsInv
      <4>2. QED
        BY <2>3, <3>2, <4>1 DEF FilesInv, RowCovers
    <3>3. CASE u = w /\ op'[w].pit = clock'
      BY <2>2, <2>3, <3>3
    <3>4. QED
      BY <3>1, <3>2, <3>3 DEF Moves
  <2>4. QED
    BY <1>1, <2>1, <2>2, <2>3 DEF FilesInv, RowCovers
<1>4. MarksInv' /\ UploadInv'
  BY <1>1 DEF FilesInv, MarksInv, UploadInv, Under, Since, Uploads
<1>5. FileInv'
  BY <1>1 DEF FilesInv, FileInv
<1>6. QED
  BY <1>2, <1>3, <1>4, <1>5 DEF FilesInv

\* What SaveFiles picks has a newer lookup: that of the request itself, or one
\* that the row is not older than.
LEMMA SavesFiles ==
    ASSUME ShownInv, TypeOK', Setting, FilesInv, NEW w \in Writes, SaveFiles(w)
    PROVE  FilesInv'
<1>0. /\ TypeOK /\ op \in [Writes -> Op] /\ op[w].pit \in Nat /\ op[w].sub \in Nat
      /\ Since(row) \in Nat /\ row.sub \in Nat \cup {None} /\ Stamped(w)
      /\ OwnLookup(w) \subseteq Lookup
  BY Numbers, OwnLookupType DEF ShownInv, OvertakeInv, SaveFiles
<1>1. /\ UNCHANGED <<clock, row, hist, lookups>>
      /\ stored \subseteq stored' /\ (Uploads(w) => w \in stored')
      /\ op[w].step = "open"
  BY DEF SaveFiles
<1>2. op' = [op EXCEPT ![w].step = "saved",
                       ![w].marks = Superseded(lookups \cup OwnLookup(w))]
  BY DEF SaveFiles, Setting
<1>3. /\ \A v \in Writes \ {w} : op'[v] = op[v]
      /\ op'[w].step = "saved" /\ op'[w].marks = Superseded(lookups \cup OwnLookup(w))
      /\ op'[w].pit = op[w].pit /\ op'[w].sub = op[w].sub
      /\ op'[w].kind = op[w].kind /\ op'[w].brings = op[w].brings
  <2> DEFINE marks == Superseded(lookups \cup OwnLookup(w))
  <2>1. op' = [op EXCEPT ![w].step = "saved", ![w].marks = marks]
    BY <1>2
  <2> HIDE DEF marks
  <2>2. \A v \in Writes \ {w} : op'[v] = op[v]
    BY <1>0, <2>1
  <2>3. op'[w] = [op[w] EXCEPT !.step = "saved", !.marks = marks] /\ op[w] \in Op
    BY <1>0, <2>1
  <2>4. /\ op'[w].step = "saved" /\ op'[w].marks = marks
        /\ op'[w].pit = op[w].pit /\ op'[w].sub = op[w].sub
        /\ op'[w].kind = op[w].kind /\ op'[w].brings = op[w].brings
    BY <2>3 DEF Op
  <2>5. QED
    BY <2>2, <2>4 DEF marks
<1>4. ASSUME NEW l \in Superseded(lookups \cup OwnLookup(w))
      PROVE  Under(l) \/ Newer(l.pit, l.sub, op[w].pit, op[w].sub)
  <2>1. PICK m \in lookups \cup OwnLookup(w) : Newer(l.pit, l.sub, m.pit, m.sub)
    BY DEF Superseded
  <2>2. l \in Lookup /\ m \in Lookup
    BY <1>0 DEF Superseded, TypeOK
  <2>3. l.pit \in Nat /\ l.sub \in Nat /\ m.pit \in Nat /\ m.sub \in Nat
    BY <2>2 DEF Lookup
  <2>4. CASE m \in OwnLookup(w)
    BY <2>1, <2>4 DEF OwnLookup, LookupOf
  <2>5. CASE m \in lookups /\ row.pit = 0
    <3>1. m.pit < op[w].pit
      BY <1>0, <1>1, <2>5 DEF FilesInv, RowCovers, Stamped
    <3>2. QED
      BY <1>0, <2>1, <2>3, <3>1 DEF Newer
  <2>6. CASE m \in lookups /\ row.pit # 0
    <3>1. Covers(m)
      BY <2>6 DEF FilesInv, RowCovers
    <3>2. CASE m.pit = Since(row) /\ m.sub = row.sub
      BY <2>1, <2>6, <3>1, <3>2 DEF Under, Covers
    <3>3. CASE Newer(m.pit, m.sub, Since(row), row.sub)
      <4>1. row.sub \in Nat
        BY <1>0, <3>1 DEF Covers
      <4>2. QED
        BY <1>0, <2>1, <2>3, <2>6, <3>1, <3>3, <4>1, NewerTransitive DEF Under, Covers
    <3>4. QED
      BY <3>1, <3>2, <3>3 DEF Covers
  <2>7. QED
    BY <2>4, <2>5, <2>6
<1>5. LookupInv' /\ RowCovers'
  BY <1>1, <1>3 DEF FilesInv, LookupInv, RowCovers, Covers, Since
<1>6. MarksInv'
  BY <1>1, <1>3, <1>4 DEF FilesInv, MarksInv, Under, Since
<1>7. UploadInv' /\ FileInv'
  BY <1>1, <1>3 DEF FilesInv, UploadInv, FileInv, Uploads
<1>8. QED
  BY <1>5, <1>6, <1>7 DEF FilesInv

\* The commits, with what they do to the lookups.
Marked(w) ==
    \/ op[w].step = "open" /\ lookups' = lookups
    \/ op[w].step = "saved" /\ lookups' = Mark(lookups \cup OwnLookup(w), op[w].marks)

\* Which file the row has then.
FileSet(w) ==
    RowBefore(w) => \/ row'.del # 0
                    \/ /\ row'.del = 0 /\ op[w].step = "saved" /\ row'.pit = op[w].pit
                       /\ row'.file = IF Uploads(w) THEN w ELSE None

\* The lookups a commit starts from, and what becomes of each.
Old(w) == lookups \cup IF op[w].step = "saved" THEN OwnLookup(w) ELSE {}
After(w, k) ==
    IF op[w].step = "saved" /\ k \in op[w].marks THEN [k EXCEPT !.marked = TRUE] ELSE k

\* Marking changes nothing else of a lookup.
LEMMA MarkedAre ==
    ASSUME TypeOK, NEW w \in Writes, Marked(w)
    PROVE  /\ lookups' = {After(w, k) : k \in Old(w)}
           /\ \A k \in Old(w) : /\ k \in Lookup
                                /\ After(w, k).file = k.file /\ After(w, k).pit = k.pit
                                /\ After(w, k).sub = k.sub
<1>1. Old(w) \subseteq Lookup
  BY OwnLookupType DEF TypeOK, Old
<1>2. CASE op[w].step = "open"
  BY <1>1, <1>2 DEF Marked, Old, After
<1>3. CASE op[w].step = "saved"
  <2>1. lookups' = Mark(Old(w), op[w].marks)
    BY <1>3 DEF Marked, Old
  <2>2. lookups' = {After(w, k) : k \in Old(w)}
    BY <1>3, <2>1 DEF Mark, After
  <2>3. QED
    BY <1>1, <2>2 DEF After, Lookup
<1>4. QED
  BY <1>2, <1>3 DEF Marked

\* A commit leaves the file of its row unmarked.
LEMMA CommitsFiles ==
    ASSUME ShownInv, LatestInv, TypeOK', Setting, FilesInv,
           NEW w \in Writes, Commits(w), Marked(w), FileSet(w), stored' = stored
    PROVE  FilesInv'
<1>0. /\ TypeOK /\ op[w].pit \in Nat /\ op[w].sub \in Nat /\ op[w].pit # 0
      /\ Since(row) \in Nat /\ row.sub \in Nat \cup {None}
      /\ op[w].step # "done" /\ op[w].step \in {"open", "saved"}
  BY Numbers DEF ShownInv, OvertakeInv, Commits, Stamped
<1>1. /\ clock' = clock /\ op'[w].step = "done"
      /\ \A v \in Writes : /\ op'[v].pit = op[v].pit /\ op'[v].sub = op[v].sub
                           /\ op'[v].kind = op[v].kind /\ op'[v].brings = op[v].brings
                           /\ v # w => op'[v] = op[v]
  BY DEF Commits
<1>2. /\ lookups' = {After(w, k) : k \in Old(w)}
      /\ \A k \in Old(w) : /\ k \in Lookup /\ k.pit \in Nat /\ k.sub \in Nat
                           /\ After(w, k).file = k.file /\ After(w, k).pit = k.pit
                           /\ After(w, k).sub = k.sub
  <2>1. /\ lookups' = {After(w, k) : k \in Old(w)}
        /\ \A k \in Old(w) : /\ k \in Lookup
                             /\ After(w, k).file = k.file /\ After(w, k).pit = k.pit
                             /\ After(w, k).sub = k.sub
    BY <1>0, MarkedAre
  <2>2. \A k \in Lookup : k.pit \in Nat /\ k.sub \in Nat
    BY DEF Lookup
  <2>3. QED
    BY <2>1, <2>2
<1>3. \A k \in Old(w) : \/ k \in lookups
                         \/ /\ k = LookupOf(w, op[w].pit, op[w].sub)
                            /\ op[w].step = "saved" /\ Uploads(w)
  <2> SUFFICES ASSUME NEW k \in Old(w), k \notin lookups
               PROVE  k = LookupOf(w, op[w].pit, op[w].sub) /\ op[w].step = "saved" /\ Uploads(w)
    OBVIOUS
  <2>1. op[w].step = "saved" /\ k \in OwnLookup(w)
    BY DEF Old
  <2>2. QED
    BY <2>1 DEF OwnLookup
<1>4. LET own == LookupOf(w, op[w].pit, op[w].sub)
      IN  own.file = w /\ own.pit = op[w].pit /\ own.sub = op[w].sub
  BY DEF LookupOf
<1>5. LookupInv'
  <2>1. ASSUME NEW k \in Old(w)
        PROVE  \/ k.file = Base /\ k.pit = 1 /\ k.sub = 0
               \/ /\ k.file \in Writes /\ op'[k.file].step = "done"
                  /\ k.pit = op'[k.file].pit /\ k.sub = op'[k.file].sub
    BY <1>1, <1>3, <1>4 DEF FilesInv, LookupInv
  <2>2. ASSUME NEW k \in Old(w), NEW m \in Old(w), k.file = m.file PROVE k = m
    <3>1. \A l \in lookups : l.file # w
      BY <1>0 DEF FilesInv, LookupInv
    <3>2. QED
      BY <1>3, <1>4, <2>2, <3>1 DEF FilesInv, LookupInv
  <2>3. QED
    BY <1>2, <2>1, <2>2 DEF LookupInv
<1>6. ASSUME RowBefore(w)
      PROVE  /\ row'.pit # 0 /\ row'.sub = op[w].sub /\ Since(row)' = op[w].pit
             /\ row'.sub # None
             /\ \A k \in lookups : Newer(k.pit, k.sub, op[w].pit, op[w].sub)
  <2>1. row'.pit # 0 /\ row'.sub = op[w].sub /\ Since(row)' = op[w].pit
    BY <1>6 DEF Commits
  <2>2. ASSUME NEW k \in lookups PROVE Newer(k.pit, k.sub, op[w].pit, op[w].sub)
    <3>1. k.pit \in Nat /\ k.sub \in Nat
      BY <1>0, LookupNumbers
    <3>2. CASE row.pit = 0
      BY <1>0, <3>2 DEF FilesInv, RowCovers, Newer
    <3>3. CASE row.pit # 0
      <4>1. Covers(k) /\ Newer(Since(row), row.sub, op[w].pit, op[w].sub)
        BY <1>6, <3>3 DEF FilesInv, RowCovers, RowBefore
      <4>2. row.sub \in Nat
        BY <1>0, <4>1 DEF Covers
      <4>3. CASE k.pit = Since(row) /\ k.sub = row.sub
        BY <4>1, <4>3
      <4>4. CASE Newer(k.pit, k.sub, Since(row), row.sub)
        BY <1>0, <3>1, <4>1, <4>2, <4>4 DEF Newer
      <4>5. QED
        BY <4>1, <4>3, <4>4 DEF Covers
    <3>4. QED
      BY <3>2, <3>3
  <2>3. row'.sub # None
    BY <1>0, <2>1
  <2>4. QED
    BY <2>1, <2>2, <2>3
<1>7. ASSUME ~RowBefore(w)
      PROVE  /\ row' = row /\ row.pit # 0 /\ row.sub \in Nat
             /\ \/ op[w].pit < Since(row)
                \/ op[w].pit = Since(row) /\ op[w].sub <= row.sub
  BY <1>7, CommitFacts DEF Commits
<1>8. RowCovers'
  <2>1. row'.pit # 0
    BY <1>6, <1>7
  <2>2. ASSUME NEW k \in Old(w)
        PROVE  \/ k.pit = Since(row)' /\ k.sub = row'.sub
               \/ Newer(k.pit, k.sub, Since(row)', row'.sub)
    <3>1. CASE RowBefore(w)
      BY <1>3, <1>4, <1>6, <3>1
    <3>2. CASE ~RowBefore(w) /\ k \in lookups
      BY <1>7, <3>2 DEF FilesInv, RowCovers, Covers, Since
    <3>3. CASE ~RowBefore(w) /\ k.pit = op[w].pit /\ k.sub = op[w].sub
      <4>1. Since(row)' = Since(row) /\ row'.sub = row.sub /\ op[w].sub # None
        BY <1>0, <1>7, <3>3 DEF Since
      <4>2. QED
        BY <1>0, <1>7, <3>3, <4>1 DEF Newer
    <3>4. QED
      BY <1>3, <1>4, <3>1, <3>2, <3>3
  <2>3. row'.sub # None
    BY <1>6, <1>7
  <2>4. ASSUME NEW l \in lookups' PROVE Covers(l)'
    <3>1. PICK k \in Old(w) : l = After(w, k)
      BY <1>2
    <3>2. l.pit = k.pit /\ l.sub = k.sub
      BY <1>2, <3>1
    <3>3. QED
      BY <2>1, <2>2, <2>3, <3>2 DEF Covers
  <2>5. QED
    BY <2>1, <2>4 DEF RowCovers
<1>9. MarksInv'
  <2> SUFFICES ASSUME NEW v \in Writes, op'[v].step = "saved", NEW l \in op'[v].marks
               PROVE  Under(l)' \/ Newer(l.pit, l.sub, op'[v].pit, op'[v].sub)
    BY DEF MarksInv
  <2>1. v # w /\ op'[v] = op[v]
    BY <1>0, <1>1
  <2>2. Under(l) \/ Newer(l.pit, l.sub, op[v].pit, op[v].sub)
    BY <2>1 DEF FilesInv, MarksInv
  <2>3. CASE Under(l) /\ RowBefore(w)
    <3>1. l.pit \in Nat /\ l.sub \in Nat /\ row.sub \in Nat
      BY <1>0, <2>1, <2>3, LookupNumbers DEF Under
    <3>2. Newer(l.pit, l.sub, Since(row), row.sub) /\ Newer(Since(row), row.sub, op[w].pit, op[w].sub)
      BY <2>3 DEF Under, RowBefore
    <3>3. Newer(l.pit, l.sub, op[w].pit, op[w].sub)
      BY <1>0, <3>1, <3>2 DEF Newer
    <3>4. QED
      BY <1>6, <2>3, <3>3 DEF Under
  <2>4. CASE Under(l) /\ ~RowBefore(w)
    BY <1>7, <2>4 DEF Under, Since
  <2>5. QED
    BY <2>1, <2>2, <2>3, <2>4
<1>10. UploadInv'
  <2>1. hist' = hist
    BY DEF Commits, Setting, FLAT_HISTORY, NO_HISTORY
  <2>2. QED
    BY <1>0, <1>1, <2>1 DEF FilesInv, UploadInv, Uploads
<1>11. FileInv'
  <2> SUFFICES ASSUME Live(row)', row'.file # None
               PROVE  /\ row'.file \in stored
                      /\ LookupOf(row'.file, row'.pit, row'.sub) \in lookups'
    BY DEF FileInv
  <2>1. \A k \in Old(w) : ~(op[w].step = "saved" /\ k \in op[w].marks) => k \in lookups'
    BY <1>2 DEF After
  <2>2. CASE RowBefore(w)
    <3>1. /\ op[w].step = "saved" /\ row'.pit = op[w].pit /\ Uploads(w) /\ row'.file = w
      BY <2>2 DEF FileSet, Live
    <3>2. w \in stored
      BY <3>1 DEF FilesInv, UploadInv
    <3> DEFINE own == LookupOf(w, op[w].pit, op[w].sub)
    <3>3. own \in Old(w) /\ own.pit = op[w].pit /\ own.sub = op[w].sub
      BY <3>1, <1>4 DEF Old, OwnLookup
    <3>4. own \notin op[w].marks
      <4> SUFFICES ASSUME own \in op[w].marks PROVE FALSE
        OBVIOUS
      <4>1. ~Newer(op[w].pit, op[w].sub, op[w].pit, op[w].sub)
        BY <1>0 DEF Newer
      <4>2. Under(own)
        BY <3>1, <3>3, <4>1 DEF FilesInv, MarksInv
      <4>3. Newer(op[w].pit, op[w].sub, Since(row), row.sub) /\ row.sub \in Nat
        BY <1>0, <3>3, <4>2 DEF Under
      <4>4. Newer(Since(row), row.sub, op[w].pit, op[w].sub)
        BY <2>2 DEF RowBefore
      <4>5. QED
        BY <1>0, <4>3, <4>4, NewerAsymmetric
    <3>5. own \in lookups'
      BY <2>1, <3>3, <3>4
    <3>6. QED
      BY <1>6, <2>2, <3>1, <3>2, <3>5
  <2>3. CASE ~RowBefore(w)
    <3>1. row' = row /\ Live(row) /\ row.file # None /\ row.pit = Since(row)
      BY <1>7, <2>3 DEF Live, Exists, Since
    <3> DEFINE of == LookupOf(row.file, row.pit, row.sub)
    <3>2. row.file \in stored /\ of \in lookups
      BY <3>1 DEF FilesInv, FileInv
    <3>3. of \in Old(w) /\ of.pit = row.pit /\ of.sub = row.sub
      BY <3>2 DEF Old, LookupOf
    <3>4. op[w].step = "saved" => of \notin op[w].marks
      <4> SUFFICES ASSUME op[w].step = "saved", of \in op[w].marks PROVE FALSE
        OBVIOUS
      <4>1. Under(of) \/ Newer(of.pit, of.sub, op[w].pit, op[w].sub)
        BY DEF FilesInv, MarksInv
      <4>2. row.sub \in Nat
        BY <1>7, <2>3
      <4>3. ~Under(of)
        BY <1>0, <3>1, <3>3, <4>2 DEF Under, Newer
      <4>4. RowBefore(w)
        BY <3>1, <3>3, <4>1, <4>3 DEF RowBefore
      <4>5. QED
        BY <2>3, <4>4
    <3>5. QED
      BY <2>1, <3>1, <3>2, <3>3, <3>4
  <2>4. QED
    BY <2>2, <2>3
<1>12. QED
  BY <1>5, <1>8, <1>9, <1>10, <1>11 DEF FilesInv

\* Marking every lookup changes neither files nor stamps.
LEMMA AllMarked ==
    ASSUME TypeOK, FilesInv, lookups' = Mark(lookups, lookups), UNCHANGED op
    PROVE  /\ LookupInv'
           /\ \A l \in lookups' : \E k \in lookups : l.pit = k.pit /\ l.sub = k.sub
<1>1. ASSUME NEW l \in lookups'
      PROVE  \E k \in lookups : /\ l = [k EXCEPT !.marked = TRUE]
                                /\ l.file = k.file /\ l.pit = k.pit /\ l.sub = k.sub
  <2>1. PICK k \in lookups : l = [k EXCEPT !.marked = TRUE]
    BY DEF Mark
  <2>2. k \in Lookup
    BY DEF TypeOK
  <2>3. QED
    BY <2>1, <2>2 DEF Lookup
<1>2. \A l \in lookups' : \/ l.file = Base /\ l.pit = 1 /\ l.sub = 0
                          \/ /\ l.file \in Writes /\ op[l.file].step = "done"
                             /\ l.pit = op[l.file].pit /\ l.sub = op[l.file].sub
  BY <1>1 DEF FilesInv, LookupInv
<1>3. ASSUME NEW l \in lookups', NEW m \in lookups', l.file = m.file PROVE l = m
  <2>1. PICK k \in lookups : l = [k EXCEPT !.marked = TRUE] /\ l.file = k.file
    BY <1>1
  <2>2. PICK j \in lookups : m = [j EXCEPT !.marked = TRUE] /\ m.file = j.file
    BY <1>1
  <2>3. k = j
    BY <1>3, <2>1, <2>2 DEF FilesInv, LookupInv
  <2>4. QED
    BY <2>1, <2>2, <2>3
<1>4. QED
  BY <1>1, <1>2, <1>3 DEF LookupInv

\* A prune that takes the row marks all lookups; what is under way is newer.
LEMMA PruneFiles ==
    ASSUME ShownInv, TypeOK', Setting, FilesInv, NEW t \in 1 .. clock, PruneHistory(t)
    PROVE  FilesInv'
<1>0. TypeOK /\ clock \in Nat /\ row.del \in Nat /\ t \in Nat /\ t <= clock
  BY Numbers DEF ShownInv, OvertakeInv
<1>1. UNCHANGED <<clock, stored, op>> /\ hist' = {}
  BY DEF PruneHistory, FilesInv, UploadInv
<1>2. CASE row.del # 0 /\ row.del < t
  <2>1. row' = Absent /\ row'.pit = 0 /\ row'.file = None /\ row.pit # 0
    BY <1>2 DEF PruneHistory, Absent, ShownInv, RowStart
  <2>2. lookups' = Mark(lookups, lookups)
    BY <1>2 DEF PruneHistory, Setting
  <2>4. ASSUME NEW k \in lookups PROVE k.pit <= row.del /\ k.pit \in Nat
    <3>1. k.pit \in Nat /\ k.sub \in Nat /\ Since(row) = row.del /\ Covers(k)
      BY <1>0, <1>2, <2>1, LookupNumbers DEF Since, FilesInv, RowCovers
    <3>2. QED
      BY <1>0, <3>1 DEF Covers, Newer
  <2>5. ASSUME NEW w \in Writes, op[w].step \in {"open", "saved"}, op[w].pit # 0
        PROVE  row.del < op[w].pit
    <3>1. t <= op[w].pit /\ op[w].pit \in Nat
      BY <1>0, <2>5, Numbers DEF PruneHistory, InFlight, Setting
    <3>2. QED
      BY <1>0, <1>2, <3>1
  <2>6. LookupInv'
    BY <1>0, <1>1, <2>2, AllMarked
  <2>7. RowCovers'
    <3>1. ASSUME NEW l \in lookups'
          PROVE  /\ l.pit < clock
                 /\ \A w \in Writes : op[w].step \in {"open", "saved"} /\ op[w].pit # 0 =>
                       l.pit < op[w].pit
      <4>1. l.pit <= row.del /\ l.pit \in Nat
        BY <1>0, <1>1, <2>2, <2>4, AllMarked
      <4>2. l.pit < clock
        BY <1>0, <1>2, <4>1
      <4>3. ASSUME NEW w \in Writes, op[w].step \in {"open", "saved"}, op[w].pit # 0
            PROVE  l.pit < op[w].pit
        <5>1. row.del < op[w].pit /\ op[w].pit \in Nat
          BY <1>0, <2>5, <4>3, Numbers
        <5>2. QED
          BY <1>0, <4>1, <5>1
      <4>4. QED
        BY <4>2, <4>3
    <3>2. QED
      BY <1>1, <2>1, <3>1 DEF RowCovers
  <2>8. MarksInv'
    <3> SUFFICES ASSUME NEW w \in Writes, op[w].step = "saved", NEW l \in op[w].marks
                 PROVE  Newer(l.pit, l.sub, op[w].pit, op[w].sub)
      BY <1>1 DEF MarksInv
    <3>1. CASE Under(l)
      <4>1. /\ l.pit \in Nat /\ l.sub \in Nat /\ row.sub \in Nat /\ Since(row) = row.del
            /\ op[w].pit \in Nat
        BY <1>0, <1>2, <3>1, LookupNumbers, Numbers DEF Under, Since
      <4>2. l.pit <= row.del
        BY <1>0, <3>1, <4>1 DEF Under, Newer
      <4>3. row.del < op[w].pit
        BY <2>5 DEF ShownInv, OvertakeInv, StampsInv, Stamped
      <4>4. QED
        BY <1>0, <4>1, <4>2, <4>3 DEF Newer
    <3>2. QED
      BY <3>1 DEF FilesInv, MarksInv
  <2>9. UploadInv' /\ FileInv'
    BY <1>1, <2>1 DEF FilesInv, UploadInv, FileInv, Uploads
  <2>10. QED
    BY <2>6, <2>7, <2>8, <2>9 DEF FilesInv
<1>3. CASE ~(row.del # 0 /\ row.del < t)
  <2>1. row' = row /\ lookups' = lookups
    BY <1>3 DEF PruneHistory, Mark, Setting
  <2>2. QED
    BY <1>1, <2>1 DEF FilesInv, LookupInv, RowCovers, Covers, MarksInv, UploadInv,
                      FileInv, Under, Since, Uploads
<1>4. QED
  BY <1>2, <1>3

\* A truncation marks everything, and leaves no row.
LEMMA TruncateFiles ==
    ASSUME ShownInv, TypeOK', Setting, FilesInv, Truncate
    PROVE  FilesInv'
<1>0. TypeOK /\ clock \in Nat
  BY Numbers DEF ShownInv, OvertakeInv
<1>1. /\ row' = Absent /\ row'.pit = 0 /\ row'.file = None /\ hist' = {}
      /\ UNCHANGED <<stored, op>> /\ lookups' = Mark(lookups, lookups)
  BY DEF Truncate, Absent
<1>2. clock' = clock + 1
  BY <1>0 DEF Truncate, Now, Setting
<1>3. \A w \in Writes : op[w].step \notin {"open", "saved"}
  BY DEF Truncate, InFlight, Setting
<1>4. LookupInv' /\ \A l \in lookups' : \E k \in lookups : l.pit = k.pit /\ l.sub = k.sub
  BY <1>0, <1>1, AllMarked
<1>5. ASSUME NEW k \in lookups PROVE k.pit <= clock /\ k.pit \in Nat
  <2>1. k.pit \in Nat
    BY <1>0, LookupNumbers
  <2>2. k.pit = 1 \/ \E w \in Writes : k.pit = op[w].pit
    BY DEF FilesInv, LookupInv
  <2>3. 2 <= clock /\ \A w \in Writes : op[w].pit <= clock
    BY DEF ShownInv, RowStart, OvertakeInv, StampsInv
  <2>4. QED
    BY <1>0, <2>1, <2>2, <2>3
<1>6. \A k \in lookups : k.pit < clock'
  BY <1>0, <1>2, <1>5
<1>7. RowCovers' /\ MarksInv'
  BY <1>1, <1>3, <1>4, <1>6 DEF RowCovers, MarksInv
<1>8. UploadInv' /\ FileInv'
  BY <1>1 DEF FilesInv, UploadInv, FileInv, Uploads
<1>9. QED
  BY <1>4, <1>7, <1>8 DEF FilesInv

\* The garbage collector takes marked lookups, and with them files that are
\* neither of the row nor of a request that has saved them and not committed.
LEMMA CollectFiles ==
    ASSUME ShownInv, FilesInv, NEW l \in lookups, CollectGarbage(l)
    PROVE  FilesInv'
<1>1. /\ UNCHANGED <<clock, row, hist, op>> /\ lookups' \subseteq lookups
      /\ l.marked /\ lookups' = lookups \ {l} /\ stored \ {l.file} \subseteq stored'
  BY DEF CollectGarbage
<1>2. LookupInv' /\ RowCovers' /\ MarksInv'
  BY <1>1 DEF FilesInv, LookupInv, RowCovers, MarksInv, Covers, Under, Since
<1>3. UploadInv'
  <2>1. ASSUME NEW w \in Writes, op[w].step = "saved" PROVE l.file # w
    BY <2>1 DEF FilesInv, LookupInv
  <2>2. QED
    BY <1>1, <2>1 DEF FilesInv, UploadInv, Uploads
<1>4. FileInv'
  <2> SUFFICES ASSUME Live(row), row.file # None
               PROVE  row.file \in stored' /\ LookupOf(row.file, row.pit, row.sub) \in lookups'
    BY <1>1 DEF FileInv
  <2> DEFINE of == LookupOf(row.file, row.pit, row.sub)
  <2>1. /\ row.file \in stored /\ of \in lookups /\ of.file = row.file /\ ~of.marked
    BY DEF FilesInv, FileInv, LookupOf
  <2>2. l # of
    BY <1>1, <2>1
  <2>3. l.file # row.file
    BY <2>1, <2>2 DEF FilesInv, LookupInv
  <2>4. QED
    BY <1>1, <2>1, <2>2, <2>3
<1>5. QED
  BY <1>2, <1>3, <1>4 DEF FilesInv

\* So no step marks or removes a file the row refers to.
LEMMA StepFiles ==
    ASSUME ShownInv, LatestInv, Setting, FilesInv, [Next]_vars
    PROVE  FilesInv'
<1>0. /\ TypeOK /\ TypeOK' /\ OvertakeInv /\ DeletesInv /\ "delete" \in Discipline
      /\ op \in [Writes -> Op]
  BY StepType, Numbers DEF ShownInv, OvertakeInv, Setting
<1>1. ASSUME NEW w \in Writes, Begin(w) \/ ReadPointInTime(w) \/ ReadSubClock(w) \/ RollBack(w)
      PROVE  FilesInv'
  <2>1. Moves(w)
    BY <1>0, <1>1, RequestMoves
  <2>2. UNCHANGED files
    BY <1>1 DEF Begin, ReadPointInTime, ReadSubClock, RollBack
  <2>3. op'[w].step # "saved" /\ op'[w].kind # "patch"
    <3>1. CASE Begin(w)
      <4>1. PICK kind \in Kinds : \E columns \in Payloads(kind) :
              op' = [op EXCEPT ![w].kind = kind, ![w].brings = columns, ![w].step = "open"]
        BY <3>1 DEF Begin
      <4>2. PICK columns \in Payloads(kind) :
              op' = [op EXCEPT ![w].kind = kind, ![w].brings = columns, ![w].step = "open"]
        BY <4>1
      <4>3. op'[w].step = "open" /\ op'[w].kind = kind
        BY <1>0, <4>2 DEF Op
      <4>4. QED
        BY <4>3 DEF Setting
    <3>2. CASE ReadPointInTime(w)
      <4>1. PICK t \in Now : op' = [op EXCEPT ![w].pit = t]
        BY <3>2 DEF ReadPointInTime
      <4>2. op'[w].step = op[w].step /\ op'[w].kind = op[w].kind /\ op[w].step = "open"
        BY <1>0, <3>2, <4>1 DEF ReadPointInTime, Op
      <4>3. QED
        BY <4>2 DEF FilesInv, UploadInv
    <3>3. CASE ReadSubClock(w)
      <4>1. op'[w].step = op[w].step /\ op'[w].kind = op[w].kind /\ op[w].step = "open"
        BY <1>0, <3>3 DEF ReadSubClock, Op
      <4>2. QED
        BY <4>1 DEF FilesInv, UploadInv
    <3>4. CASE RollBack(w)
      <4>1. op'[w].step = "rolled back" /\ op'[w].kind = op[w].kind
        BY <1>0, <3>4 DEF RollBack, Op
      <4>2. QED
        BY <4>1 DEF FilesInv, UploadInv
    <3>5. QED
      BY <1>1, <3>1, <3>2, <3>3, <3>4
  <2>4. QED
    BY <1>0, <2>1, <2>2, <2>3, MovesFiles
<1>2. ASSUME NEW w \in Writes, Upsert(w) PROVE FilesInv'
  <2>1. Commits(w) /\ Marked(w) /\ stored' = stored
    BY <1>0, <1>2, UpsertCommits DEF Upsert, Marked, Commit
  <2>2. FileSet(w)
    <3> SUFFICES ASSUME RowBefore(w)
                 PROVE  /\ row'.del = 0 /\ op[w].step = "saved" /\ row'.pit = op[w].pit
                        /\ row'.file = IF Uploads(w) THEN w ELSE None
      BY DEF FileSet
    <3>1. row' = UpsertedRow(w) /\ op[w].step = "saved" /\ op[w].kind # "patch"
      BY <1>2 DEF Upsert, Commit, UpsertWins, RowBefore, FilesInv, UploadInv
    <3>2. QED
      BY <3>1 DEF UpsertedRow, Column, Uploads
  <2>3. QED
    BY <1>0, <2>1, <2>2, CommitsFiles
<1>3. ASSUME NEW w \in Writes, Delete(w) PROVE FilesInv'
  <2>1. Commits(w) /\ Marked(w) /\ stored' = stored
    BY <1>0, <1>3, DeleteCommits DEF Delete, Marked, Commit
  <2>2. op'[w].kind = "delete"
    BY <1>3, <2>1 DEF Commits, Delete
  <2>3. FileSet(w)
    BY <2>1, <2>2 DEF FileSet, Commits, RowShows
  <2>4. QED
    BY <1>0, <2>1, <2>3, CommitsFiles
<1>4. CASE UNCHANGED vars
  BY <1>4 DEF vars, FilesInv, LookupInv, RowCovers, Covers, MarksInv, UploadInv,
              FileInv, Under, Since, Uploads
<1>5. QED
  BY <1>0, <1>1, <1>2, <1>3, <1>4, SavesFiles, PruneFiles, TruncateFiles, CollectFiles
     DEF Next

\* A file that the row refers to is in the storage, whatever races uploads,
\* deletes and clean up run: on the backend without history, where nobody
\* PATCHes and the races named by Setting are left out.
THEOREM FilesAlwaysSurvive ==
    ASSUME Setting
    PROVE  Spec => []FilesSurvive
<1>1. Init => LatestInv
  BY DEF Init, LatestInv
<1>2. Init => FilesInv
  BY InitFiles
<1>3. FilesInv => FilesSurvive
  BY DEF FilesInv, FileInv, UploadInv, FilesSurvive
<1>4. ShownInv /\ LatestInv /\ [Next]_vars => LatestInv'
  BY StepLatest DEF Setting
<1>5. ShownInv /\ LatestInv /\ FilesInv /\ [Next]_vars => FilesInv'
  BY StepFiles
<1>6. "delete" \in Discipline
  BY DEF Setting
<1>7. QED
  BY <1>1, <1>2, <1>3, <1>4, <1>5, <1>6, ShownInvariant, PTL DEF Spec

=============================================================================
