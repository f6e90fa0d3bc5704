------------------------ MODULE DefinitionSync_proofs ------------------------
(***************************************************************************)
(* The definitions of the server are sound after every sequence of         *)
(* requests and migrations, whatever the sets of data series, children,    *)
(* groups and backends: for the server on its own, and for the clients and *)
(* the server together, whatever files they apply, however many they are   *)
(* and wherever they are interrupted, and whatever others edit meanwhile.  *)
(***************************************************************************)
EXTENDS DefinitionSync, TLAPS

(***************************************************************************)
(* The server on its own.                                                  *)
(*                                                                         *)
(* Nothing dangles and every lock ends only because a data series that is  *)
(* not live has no children: NoOrphans is what the two need to be inductive. *)
(***************************************************************************)
\* A data series that is deleted takes its children along.
NoOrphans == \A s \in Series, k \in Keys : Has(s, k) => Live(s)

\* A child has the shape of its kind.
ChildrenShaped == \A s \in Series, k \in Keys : Has(s, k) => Shaped(k, child[s][k])

IInv == TypeOK /\ NothingDangles /\ LockCoversMigration /\ NoOrphans /\ ChildrenShaped

-----------------------------------------------------------------------------
\* What a request that is served can be, with the checks that let it through.
LEMMA ServedRequest ==
    ASSUME NEW r \in Requests, Serve(r)
    PROVE  /\ r.series \in Series
           /\ \/ r.body \in Head /\ AcceptsCreateSeries(r) /\ CreateSeries(r)
              \/ r.body \in Head /\ AcceptsUpdateSeries(r) /\ UpdateSeries(r)
              \/ AcceptsDeleteSeries(r) /\ DeleteSeries(r)
              \/ /\ r.at \in Keys /\ Shaped(r.at, r.body)
                 /\ AcceptsCreateChild(r) \/ AcceptsUpdateChild(r)
                 /\ WriteChild(r)
              \/ r.at \in Keys /\ AcceptsDeleteChild(r) /\ DeleteChild(r)
              \/ r.at \in Groups /\ r.body \in SUBSET Perms /\ AcceptsGrant(r) /\ PutGrant(r)
<1>1. CASE \E op \in {"CREATE", "UPDATE", "DELETE"}, s \in Series, h \in Head :
              r = Series_(op, s, h)
  <2>1. r.on = "series" /\ r.series \in Series /\ r.body \in Head
    BY <1>1 DEF Series_
  <2>2. QED
    BY <2>1 DEF Serve, Accepts, Effect, Is
<1>2. CASE \E k \in Keys : \E op \in {"CREATE", "UPDATE", "DELETE"}, s \in Series,
              c \in {b \in Child : Shaped(k, b)} : r = Child_(op, s, k, c)
  <2>1. r.on = "child" /\ r.series \in Series /\ r.at \in Keys /\ Shaped(r.at, r.body)
    BY <1>2 DEF Child_
  <2>2. QED
    BY <2>1 DEF Serve, Accepts, Effect, Is
<1>3. CASE \E op \in {"CREATE", "UPDATE"}, s \in Series, g \in Groups, p \in SUBSET Perms :
              r = Grant_(op, s, g, p)
  <2>1. /\ r.on = "grant" /\ r.series \in Series
        /\ r.at \in Groups /\ r.body \in SUBSET Perms
    BY <1>3 DEF Grant_
  <2>2. QED
    BY <2>1 DEF Serve, Accepts, Effect, Is
<1>4. QED
  BY <1>1, <1>2, <1>3 DEF Requests

-----------------------------------------------------------------------------

\* The server begins without definitions.
LEMMA InitIInv == MetaInit => IInv
BY DEF MetaInit, IInv, TypeOK, NothingDangles, RefsLive, TargetsLive, LockCoversMigration,
       NoOrphans, ChildrenShaped, Has, Live, Childless, NoGrants

\* A new data series has no children, and others may refer to it.
LEMMA CreateSeriesKeeps ==
    ASSUME IInv, NEW r, r.series \in Series, r.body \in Head,
           AcceptsCreateSeries(r), CreateSeries(r)
    PROVE  IInv'
<1> DEFINE s == r.series
<1>1. TypeOK'
  BY DEF IInv, TypeOK, CreateSeries, Childless, NoGrants
<1>2. /\ \A t \in Series : Live(t) => Live(t)'
      /\ Live(s)'
  BY AbsentAssumption DEF IInv, TypeOK, CreateSeries, Live
<1>3. \A t \in Series : child'[t] = IF t = s THEN Childless ELSE child[t]
  BY DEF IInv, TypeOK, CreateSeries
<1>4. \A t \in Series, k \in Keys : Has(t, k)' <=> t # s /\ Has(t, k)
  BY <1>3 DEF Has, Childless
<1>5. NothingDangles'
  <2>1. RefsLive'
    BY <1>2, <1>3, <1>4 DEF IInv, NothingDangles, RefsLive
  <2>2. TargetsLive'
    BY <1>3, <1>4 DEF IInv, NothingDangles, TargetsLive
  <2>3. QED
    BY <2>1, <2>2 DEF NothingDangles
<1>6. LockCoversMigration'
  BY <1>2 DEF IInv, TypeOK, LockCoversMigration, AcceptsCreateSeries, CreateSeries
<1>7. NoOrphans' /\ ChildrenShaped'
  BY <1>2, <1>3, <1>4 DEF IInv, NoOrphans, ChildrenShaped
<1>8. QED
  BY <1>1, <1>5, <1>6, <1>7 DEF IInv

\* An update changes neither the children nor what is live.
LEMMA UpdateSeriesKeeps ==
    ASSUME IInv, NEW r, r.series \in Series, r.body \in Head,
           AcceptsUpdateSeries(r), UpdateSeries(r)
    PROVE  IInv'
<1>1. TypeOK'
  BY DEF IInv, TypeOK, UpdateSeries, Head
<1>2. child' = child /\ \A t \in Series : Live(t)' <=> Live(t)
  BY AbsentAssumption DEF IInv, TypeOK, UpdateSeries, AcceptsUpdateSeries, Writable, Live
<1>3. NothingDangles' /\ NoOrphans' /\ ChildrenShaped'
  BY <1>2 DEF IInv, NothingDangles, RefsLive, TargetsLive, NoOrphans, ChildrenShaped, Has
<1>4. r.series \notin migrating
  BY DEF IInv, LockCoversMigration, AcceptsUpdateSeries, Writable
<1>5. LockCoversMigration'
  <2> SUFFICES ASSUME NEW t \in Series
               PROVE  (locked[t] <=> t \in migrating)' /\ (t \in migrating => Live(t))'
    BY DEF LockCoversMigration
  <2>1. (locked[t] <=> t \in migrating) /\ (t \in migrating => Live(t)) /\ Live(r.series)
    BY DEF IInv, LockCoversMigration, AcceptsUpdateSeries, Writable
  <2>2. QED
    BY <1>2, <1>4, <2>1 DEF IInv, TypeOK, UpdateSeries
<1>6. QED
  BY <1>1, <1>3, <1>5 DEF IInv

\* Nothing refers to a data series that may be deleted.
LEMMA DeleteSeriesKeeps ==
    ASSUME IInv, NEW r, r.series \in Series, AcceptsDeleteSeries(r), DeleteSeries(r)
    PROVE  IInv'
<1> DEFINE s == r.series
<1>1. \A t \in Series \ {s}, k \in Keys : Has(t, k) => child[t][k].ref # s
  BY DEF IInv, NoOrphans, AcceptsDeleteSeries, Referring
<1>2. \A t \in Series, k \in Keys :
         child'[t][k] = IF t = s THEN Absent ELSE child[t][k]
  BY <1>1 DEF DeleteSeries, Childless, Has
<1>3. \A t \in Series : Live(t)' <=> t # s /\ Live(t)
  BY DEF IInv, TypeOK, DeleteSeries, Live
<1>4. TypeOK'
  <2>1. child' \in [Series -> [Keys -> Child \cup {Absent}]]
    <3>1. \A t \in Series : child'[t] \in [Keys -> Child \cup {Absent}]
      BY <1>1 DEF IInv, TypeOK, DeleteSeries, Childless, Has
    <3>2. child' = [t \in Series |-> child'[t]]
      BY DEF DeleteSeries
    <3>3. QED
      BY <3>1, <3>2
  <2>2. QED
    BY <2>1 DEF IInv, TypeOK, DeleteSeries, NoGrants
<1>5. \A t \in Series, k \in Keys : Has(t, k)' <=> t # s /\ Has(t, k)
  BY <1>2 DEF Has
<1>6. RefsLive'
  BY <1>1, <1>2, <1>3, <1>5 DEF IInv, NothingDangles, RefsLive
<1>7. TargetsLive'
  BY <1>2, <1>5 DEF IInv, NothingDangles, TargetsLive
<1>8. NoOrphans' /\ ChildrenShaped'
  BY <1>2, <1>3, <1>5 DEF IInv, NoOrphans, ChildrenShaped
<1>9. LockCoversMigration'
  BY <1>3 DEF IInv, LockCoversMigration, AcceptsDeleteSeries, Writable, DeleteSeries
<1>10. QED
  BY <1>4, <1>6, <1>7, <1>8, <1>9 DEF IInv, NothingDangles

\* A child is written with a live reference and live targets.
LEMMA WriteChildKeeps ==
    ASSUME IInv, NEW r, r.series \in Series, r.at \in Keys, Shaped(r.at, r.body),
           AcceptsCreateChild(r) \/ AcceptsUpdateChild(r), WriteChild(r)
    PROVE  IInv'
<1> DEFINE s == r.series
           k == r.at
           c == r.body
<1>1. \A t \in Series, j \in Keys :
         child'[t][j] = IF t = s /\ j = k THEN c ELSE child[t][j]
  BY DEF IInv, TypeOK, WriteChild
<1>2. TypeOK'
  BY DEF IInv, TypeOK, WriteChild, Shaped
<1>3. Live(s) /\ \A t \in Series : Live(t)' <=> Live(t)
  BY DEF AcceptsCreateChild, AcceptsUpdateChild, Writable, WriteChild, Live
<1>4. \A t \in Series, j \in Keys : Has(t, j)' <=> (t = s /\ j = k) \/ Has(t, j)
  BY <1>1, AbsentAssumption DEF Has, Shaped
<1>5. c.ref = NoRef \/ (c.ref \in Series /\ Live(c.ref))
  BY DEF IInv, NothingDangles, RefsLive, AcceptsCreateChild, AcceptsUpdateChild, Shaped
<1>6. \A j \in c.targets : j \in Keys /\ Has(s, j)
  BY DEF IInv, NothingDangles, TargetsLive, AcceptsCreateChild, AcceptsUpdateChild, Shaped
<1>7. RefsLive'
  BY <1>1, <1>3, <1>4, <1>5 DEF IInv, NothingDangles, RefsLive
<1>8. TargetsLive'
  BY <1>1, <1>4, <1>6 DEF IInv, NothingDangles, TargetsLive
<1>9. NoOrphans' /\ ChildrenShaped'
  BY <1>1, <1>3, <1>4 DEF IInv, NoOrphans, ChildrenShaped
<1>10. LockCoversMigration'
  BY <1>3 DEF IInv, LockCoversMigration, WriteChild
<1>11. QED
  BY <1>2, <1>7, <1>8, <1>9, <1>10 DEF IInv, NothingDangles

\* No index targets a child that may be deleted.
LEMMA DeleteChildKeeps ==
    ASSUME IInv, NEW r, r.series \in Series, r.at \in Keys,
           AcceptsDeleteChild(r), DeleteChild(r)
    PROVE  IInv'
<1> DEFINE s == r.series
           k == r.at
<1>1. \A i \in Keys : Has(s, i) => k \notin child[s][i].targets
  BY DEF AcceptsDeleteChild, IndexesOn
<1>2. \A t \in Series, j \in Keys :
         child'[t][j] = IF t = s /\ j = k THEN Absent ELSE child[t][j]
  BY <1>1 DEF IInv, TypeOK, DeleteChild, Has
<1>3. TypeOK'
  <2>1. child'[s] \in [Keys -> Child \cup {Absent}]
    BY <1>1 DEF IInv, TypeOK, DeleteChild, Has
  <2>2. child' = [child EXCEPT ![s] = child'[s]]
    BY DEF IInv, TypeOK, DeleteChild
  <2>3. QED
    BY <2>1, <2>2 DEF IInv, TypeOK, DeleteChild
<1>4. \A t \in Series : Live(t)' <=> Live(t)
  BY DEF DeleteChild, Live
<1>5. \A t \in Series, j \in Keys : Has(t, j)' <=> ~(t = s /\ j = k) /\ Has(t, j)
  BY <1>2 DEF Has
<1>6. RefsLive'
  BY <1>2, <1>4, <1>5 DEF IInv, NothingDangles, RefsLive
<1>7. TargetsLive'
  BY <1>1, <1>2, <1>5 DEF IInv, NothingDangles, TargetsLive
<1>8. NoOrphans' /\ ChildrenShaped'
  BY <1>2, <1>4, <1>5 DEF IInv, NoOrphans, ChildrenShaped
<1>9. LockCoversMigration'
  BY <1>4 DEF IInv, LockCoversMigration, DeleteChild
<1>10. QED
  BY <1>3, <1>6, <1>7, <1>8, <1>9 DEF IInv, NothingDangles

\* Permissions and the end of a migration touch no definition.
LEMMA PutGrantKeeps ==
    ASSUME IInv, NEW r, r.series \in Series, r.at \in Groups, r.body \in SUBSET Perms,
           PutGrant(r)
    PROVE  IInv'
<1>1. TypeOK'
  BY DEF IInv, TypeOK, PutGrant
<1>2. UNCHANGED <<head, locked, migrating, child>>
  BY DEF PutGrant
<1>3. QED
  BY <1>1, <1>2 DEF IInv, NothingDangles, RefsLive, TargetsLive, LockCoversMigration,
                    NoOrphans, ChildrenShaped, Has, Live

\* A migration only takes the lock away.
LEMMA MigrateKeeps ==
    ASSUME IInv, NEW s \in Series, Migrate(s)
    PROVE  IInv'
<1>1. TypeOK'
  BY DEF IInv, TypeOK, Migrate
<1>2. NothingDangles' /\ NoOrphans' /\ ChildrenShaped'
  BY DEF IInv, NothingDangles, RefsLive, TargetsLive, NoOrphans, ChildrenShaped, Has, Live,
         Migrate
<1>3. LockCoversMigration'
  BY DEF IInv, TypeOK, LockCoversMigration, Live, Migrate
<1>4. QED
  BY <1>1, <1>2, <1>3 DEF IInv

\* Whatever is asked of it, the server keeps its definitions sound.
LEMMA ServeKeeps ==
    ASSUME IInv, NEW r \in Requests, Serve(r)
    PROVE  IInv'
BY ServedRequest, CreateSeriesKeeps, UpdateSeriesKeeps, DeleteSeriesKeeps,
   WriteChildKeeps, DeleteChildKeeps, PutGrantKeeps

\* Nothing else touches them.
LEMMA StutterKeeps == IInv /\ UNCHANGED meta => IInv'
BY DEF meta, IInv, TypeOK, NothingDangles, RefsLive, TargetsLive, LockCoversMigration,
       NoOrphans, ChildrenShaped, Has, Live

\* Every step of the server keeps the invariant,
LEMMA StepIInv == IInv /\ [MetaNext]_meta => IInv'
<1> SUFFICES ASSUME IInv, [MetaNext]_meta PROVE IInv'
  OBVIOUS
<1>1. QED
  BY ServeKeeps, MigrateKeeps, StutterKeeps DEF MetaNext

\* and so it holds at all times.
LEMMA Inductive == MetaSpec => []IInv
BY InitIInv, StepIInv, PTL DEF MetaSpec

-----------------------------------------------------------------------------
\* Every row is of its type: a dead reference is Gone and nothing else.
THEOREM TypeCorrect == MetaSpec => []TypeOK
<1>1. IInv => TypeOK
  BY DEF IInv
<1>2. QED
  BY <1>1, Inductive, PTL

\* The refusals of the views and serializers keep every reference of a dimension
\* and every target of an index alive, however often external ids are deleted
\* and used again.
THEOREM DefinitionsReadable == MetaSpec => []NothingDangles
<1>1. IInv => NothingDangles
  BY DEF IInv
<1>2. QED
  BY <1>1, Inductive, PTL

\* A lock and the task that will take it away come and go together, and a data
\* series that waits for its migration cannot be deleted.
THEOREM LocksEnd == MetaSpec => []LockCoversMigration
<1>1. IInv => LockCoversMigration
  BY DEF IInv
<1>2. QED
  BY <1>1, Inductive, PTL

-----------------------------------------------------------------------------
(***************************************************************************)
(* The clients and the server together.                                    *)
(*                                                                         *)
(* The clients' part is that what they send is a request of the meta model *)
(* at all: of the series and children they have fetched or were given,     *)
(* in the shape of their kind, with the permissions of a group.            *)
(***************************************************************************)
USE ScenariosAssumption, EditsAssumption

\* What a client may have in its list.
Asked == Requests \cup {Look(s, "before deletes") : s \in Series}
                  \cup {Look(s, "before indexes") : s \in Series}

Held == Definitions \cup {Absent}

ClientInv ==
    /\ target \in [Series -> Held]
    /\ base \in [Clients -> [Series -> Held]]
    /\ unread \in [Clients -> SUBSET Series]
    /\ \A c \in Clients, s \in Series : s \in unread[c] => base[c][s] # Absent
    /\ todo \in [Clients -> SUBSET Asked]

SyncInv == IInv /\ ClientInv

ShapedChildren == {f \in [Keys -> Child \cup {Absent}] :
                      \A k \in Keys : f[k] # Absent => Shaped(k, f[k])}

Grants == UNION {[gs -> SUBSET Perms] : gs \in SUBSET Groups}

-----------------------------------------------------------------------------
\* What a definition is made of.
LEMMA DefinitionParts ==
    ASSUME NEW d \in Definitions
    PROVE  d.head \in Head /\ d.child \in ShapedChildren /\ d.grant \in Grants
BY DEF Definitions, ShapedChildren, Grants

\* A definition is made of a head, children of the right shape and permissions.
LEMMA DefinitionMade ==
    ASSUME NEW h \in Head, NEW cs \in ShapedChildren, NEW gs \in Grants
    PROVE  Definition(h, cs, gs) \in Definitions /\ Definition(h, cs, gs) # Absent
<1>1. Definition(h, cs, gs) \in Definitions
  BY DEF Definition, Definitions, ShapedChildren, Grants
<1>2. QED
  BY <1>1

\* No children and no groups are children and permissions.
LEMMA NoneParts == Childless \in ShapedChildren /\ NoGroups \in Grants
<1>1. Childless \in ShapedChildren
  BY DEF Childless, ShapedChildren
<1>2. NoGroups \in [{} -> SUBSET Perms]
  BY DEF NoGroups
<1>3. QED
  BY <1>1, <1>2 DEF Grants

\* A child that has its shape makes requests.
LEMMA ChildAsked ==
    ASSUME NEW s \in Series, NEW k \in Keys, NEW c, c # Absent,
           NEW f \in ShapedChildren, c = f[k],
           NEW op \in {"CREATE", "UPDATE", "DELETE"}
    PROVE  Child_(op, s, k, c) \in Requests
<1>1. c \in {b \in Child : Shaped(k, b)}
  BY DEF ShapedChildren, Shaped
<1>2. QED
  BY <1>1 DEF Requests

\* A difference of children consists of requests.
LEMMA ChildDiffAsked ==
    ASSUME NEW s \in Series, NEW b \in ShapedChildren, NEW t \in ShapedChildren,
           NEW missing \in SUBSET Keys
    PROVE  ChildDiff(s, b, t, missing) \subseteq Requests
<1> SUFFICES ASSUME NEW r \in ChildDiff(s, b, t, missing) PROVE r \in Requests
  OBVIOUS
<1>1. CASE \E k \in Keys : b[k] # Absent /\ r = Child_("DELETE", s, k, b[k])
  BY <1>1, ChildAsked
<1>2. CASE \E k \in Keys, op \in {"CREATE", "UPDATE"} :
              t[k] # Absent /\ r = Child_(op, s, k, t[k])
  BY <1>2, ChildAsked
<1>3. Changed(b, t) \subseteq {k \in Keys : b[k] # Absent /\ t[k] # Absent}
  BY DEF Changed
<1>4. QED
  BY <1>1, <1>2, <1>3 DEF ChildDiff

\* So does one of permissions, but for those the push passes over.
LEMMA GrantDiffAsked ==
    ASSUME NEW s \in Series, NEW b \in Grants, NEW t \in Grants, NEW revoke,
           NEW r \in GrantDiff(s, b, t, revoke), ~Is(r, "grant", "DELETE")
    PROVE  r \in Requests
<1>1. /\ DOMAIN b \subseteq Groups /\ \A g \in DOMAIN b : b[g] \in SUBSET Perms
      /\ DOMAIN t \subseteq Groups /\ \A g \in DOMAIN t : t[g] \in SUBSET Perms
  BY DEF Grants
<1>2. \A g, p : Is(Grant_("DELETE", s, g, p), "grant", "DELETE")
  BY DEF Is, Grant_
<1>3. PICK op \in {"CREATE", "UPDATE"}, g \in Groups, p \in SUBSET Perms : r = Grant_(op, s, g, p)
  <2>1. CASE \E g \in DOMAIN b : r = Grant_("DELETE", s, g, b[g])
    BY <1>2, <2>1
  <2>2. CASE \E g \in DOMAIN t : r = Grant_("CREATE", s, g, t[g])
    BY <1>1, <2>2
  <2>3. CASE \E g \in DOMAIN t \cap DOMAIN b :
                r = Grant_("UPDATE", s, g, IF revoke THEN t[g] ELSE t[g] \cup b[g])
    BY <1>1, <2>3
  <2>4. \/ \E g \in IF revoke THEN DOMAIN b \ DOMAIN t ELSE {} : r = Grant_("DELETE", s, g, b[g])
        \/ \E g \in DOMAIN t \ DOMAIN b : r = Grant_("CREATE", s, g, t[g])
        \/ \E g \in DOMAIN t \cap DOMAIN b :
                r = Grant_("UPDATE", s, g, IF revoke THEN t[g] ELSE t[g] \cup b[g])
    BY DEF GrantDiff
  <2>5. QED
    BY <2>1, <2>2, <2>3, <2>4
<1>4. QED
  BY <1>3 DEF Requests

\* The whole difference of a data series.
LEMMA SeriesDiffAsked ==
    ASSUME NEW s \in Series, NEW b \in Held, NEW t \in Held, b # Absent \/ t # Absent,
           NEW r \in SeriesDiff(s, b, t), ~Is(r, "grant", "DELETE")
    PROVE  r \in Requests
<1>1. \A h \in Head, op \in {"CREATE", "UPDATE", "DELETE"} : Series_(op, s, h) \in Requests
  BY DEF Requests
<1>2. CASE b = Absent
  <2>1. t.head \in Head /\ t.child \in ShapedChildren /\ t.grant \in Grants
    BY <1>2, DefinitionParts DEF Held
  <2>2. ChildDiff(s, Childless, t.child, {}) \subseteq Requests
    BY <2>1, NoneParts, ChildDiffAsked
  <2>3. r \in GrantDiff(s, NoGroups, t.grant, FALSE) => r \in Requests
    BY <2>1, NoneParts, GrantDiffAsked
  <2>4. r \in {Series_("CREATE", s, t.head)} \cup ChildDiff(s, Childless, t.child, {})
              \cup GrantDiff(s, NoGroups, t.grant, FALSE)
    BY <1>2 DEF SeriesDiff
  <2>5. QED
    BY <1>1, <2>1, <2>2, <2>3, <2>4
<1>3. CASE b # Absent /\ t = Absent
  <2>1. b.head \in Head /\ b.child \in ShapedChildren /\ b.grant \in Grants
    BY <1>3, DefinitionParts DEF Held
  <2>2. ChildDiff(s, b.child, Childless, Keys) \subseteq Requests
    BY <2>1, NoneParts, ChildDiffAsked
  <2>3. r \in GrantDiff(s, b.grant, NoGroups, TRUE) => r \in Requests
    BY <2>1, NoneParts, GrantDiffAsked
  <2>4. r \in {Series_("DELETE", s, b.head)} \cup ChildDiff(s, b.child, Childless, Keys)
              \cup GrantDiff(s, b.grant, NoGroups, TRUE)
    BY <1>3 DEF SeriesDiff
  <2>5. QED
    BY <1>1, <2>1, <2>2, <2>3, <2>4
<1>4. CASE b # Absent /\ t # Absent
  <2> DEFINE missing == IF options.remove_consumers THEN Keys ELSE Keys \ Consumers
  <2>1. /\ b.head \in Head /\ b.child \in ShapedChildren /\ b.grant \in Grants
        /\ t.head \in Head /\ t.child \in ShapedChildren /\ t.grant \in Grants
    BY <1>4, DefinitionParts DEF Held
  <2>2. ChildDiff(s, b.child, t.child, missing) \subseteq Requests
    BY <2>1, ChildDiffAsked
  <2>3. r \in GrantDiff(s, b.grant, t.grant, options.revoke) => r \in Requests
    BY <2>1, GrantDiffAsked
  <2>4. \/ r = Series_("UPDATE", s, t.head)
        \/ r \in ChildDiff(s, b.child, t.child, missing)
        \/ r \in GrantDiff(s, b.grant, t.grant, options.revoke)
    BY <1>4 DEF SeriesDiff
  <2>5. QED
    BY <1>1, <2>1, <2>2, <2>3, <2>4
<1>5. QED
  BY <1>2, <1>3, <1>4

\* And of all data series: the list of a push.
LEMMA PushedAsked ==
    ASSUME NEW b \in [Series -> Held], NEW t \in [Series -> Held]
    PROVE  Pushed(b, t) \subseteq Asked
<1> SUFFICES ASSUME NEW s \in Series, b[s] # Absent \/ t[s] # Absent,
                    NEW r \in Looks(s, b[s], t[s])
                              \cup {q \in SeriesDiff(s, b[s], t[s]) : ~Is(q, "grant", "DELETE")}
             PROVE  r \in Asked
  BY DEF Pushed
<1>1. CASE r \in Looks(s, b[s], t[s])
  <2>1. r = Look(s, "before deletes") \/ r = Look(s, "before indexes")
    BY <1>1 DEF Looks
  <2>2. QED
    BY <2>1 DEF Asked
<1>2. CASE r \in SeriesDiff(s, b[s], t[s]) /\ ~Is(r, "grant", "DELETE")
  <2>1. b[s] \in Held /\ t[s] \in Held
    OBVIOUS
  <2>2. r \in Requests
    BY <1>2, <2>1, SeriesDiffAsked
  <2>3. QED
    BY <2>2 DEF Asked
<1>3. QED
  BY <1>1, <1>2

-----------------------------------------------------------------------------
\* The server starts with the definitions of the scenario, which are complete.
LEMMA InitSyncInv == Init => SyncInv
<1> SUFFICES ASSUME Init PROVE SyncInv
  OBVIOUS
<1>1. /\ origin \in [Series -> Held] /\ target \in [Series -> Held]
      /\ Complete(origin)
  BY DEF Init, Held
<1>2. \A s \in Series : origin[s] # Absent =>
         /\ origin[s].head \in Head /\ origin[s].child \in ShapedChildren
         /\ origin[s].grant \in [Groups -> SUBSET Perms]
  BY <1>1, DefinitionParts DEF Held, Complete
<1>3. \A s \in Series : Live(s) <=> origin[s] # Absent
  BY <1>2, AbsentAssumption DEF Init, Live
<1>4. \A s \in Series, k \in Keys : Has(s, k) => origin[s] # Absent /\ child[s][k] = origin[s].child[k]
  BY DEF Init, Has, Childless
<1>5. TypeOK
  <2>1. \A s \in Series : child[s] \in [Keys -> Child \cup {Absent}]
    BY <1>2 DEF Init, Childless, ShapedChildren
  <2>2. QED
    BY <1>2, <2>1 DEF Init, TypeOK, NoGrants
<1>6. RefsLive
  BY <1>1, <1>3, <1>4 DEF RefsLive, Complete, Has
<1>7. TargetsLive
  <2> SUFFICES ASSUME NEW s \in Series, NEW i \in Keys, Has(s, i), NEW k \in child[s][i].targets
               PROVE  k \in Keys /\ Has(s, k)
    BY DEF TargetsLive
  <2>1. origin[s] # Absent /\ child[s][i] = origin[s].child[i] /\ origin[s].child[i] # Absent
    BY <1>4 DEF Has
  <2>2. k \in Keys /\ origin[s].child[k] # Absent
    BY <1>1, <2>1 DEF Complete
  <2>3. child[s] = origin[s].child
    BY <2>1 DEF Init
  <2>4. QED
    BY <2>2, <2>3 DEF Has
<1>8. LockCoversMigration /\ NoOrphans /\ ChildrenShaped
  <2>1. LockCoversMigration
    BY DEF Init, LockCoversMigration
  <2>2. NoOrphans
    BY <1>3, <1>4 DEF NoOrphans
  <2>3. ChildrenShaped
    BY <1>2, <1>4 DEF ChildrenShaped, Has, ShapedChildren
  <2>4. QED
    BY <2>1, <2>2, <2>3
<1>9. ClientInv
  BY <1>1 DEF Init, ClientInv, NoDefinition, Held
<1>10. QED
  BY <1>5, <1>6, <1>7, <1>8, <1>9 DEF SyncInv, IInv, NothingDangles

\* A client that ends forgets all it knew, and has changed nothing by that.
LEMMA StopKeeps ==
    ASSUME SyncInv, NEW c \in Clients, NEW why, Stop(c, why), UNCHANGED scenario
    PROVE  SyncInv'
<1>1. IInv'
  BY StutterKeeps DEF SyncInv, Stop
<1>2. NoDefinition \in [Series -> Held]
  BY DEF NoDefinition, Held
<1>3. ClientInv'
  BY <1>2 DEF SyncInv, ClientInv, Stop, scenario
<1>4. QED
  BY <1>1, <1>3 DEF SyncInv

\* What is fetched is what a request could have written.
LEMMA FetchKeeps ==
    ASSUME SyncInv, NEW c \in Clients,
           FetchList(c) \/ \E s \in Series : FetchSeries(c, s)
    PROVE  SyncInv'
<1>1. CASE FetchList(c)
  <2> DEFINE D == [s \in Series |->
                     IF Live(s) THEN Definition(head[s], Childless, NoGroups) ELSE Absent]
  <2>1. \A s \in Series : Live(s) => head[s] \in Head
    BY DEF SyncInv, IInv, TypeOK, Live
  <2>2. D \in [Series -> Held]
    BY <2>1, NoneParts, DefinitionMade DEF Held
  <2>3. \A s \in LiveSeries : D[s] # Absent
    BY <2>1, NoneParts, DefinitionMade DEF LiveSeries
  <2>4. base' = [base EXCEPT ![c] = D] /\ unread' = [unread EXCEPT ![c] = LiveSeries]
    BY <1>1 DEF FetchList
  <2>5. LiveSeries \subseteq Series
    BY DEF LiveSeries
  <2> HIDE DEF D
  <2>6. ClientInv'
    BY <1>1, <2>2, <2>3, <2>4, <2>5 DEF FetchList, SyncInv, ClientInv, scenario
  <2>7. IInv'
    BY <1>1, StutterKeeps DEF SyncInv, FetchList
  <2>8. QED
    BY <2>6, <2>7 DEF SyncInv
<1>2. ASSUME NEW s \in Series, FetchSeries(c, s) PROVE SyncInv'
  <2>1. CASE Stop(c, Blame(c, s))
    BY <1>2, <2>1, StopKeeps DEF FetchSeries, scenario
  <2>2. CASE ~Stop(c, Blame(c, s))
    <3> DEFINE d == Definition(base[c][s].head, child[s], grant[s])
    <3>1. base[c][s] \in Definitions
      BY <1>2 DEF FetchSeries, SyncInv, ClientInv, Held
    <3>2. child[s] \in ShapedChildren
      BY DEF SyncInv, IInv, TypeOK, ChildrenShaped, Has, ShapedChildren
    <3>3. grant[s] \in Grants
      BY DEF SyncInv, IInv, TypeOK, Grants
    <3>4. d \in Held /\ d # Absent
      BY <3>1, <3>2, <3>3, DefinitionParts, DefinitionMade DEF Held
    <3>5. /\ base' = [base EXCEPT ![c][s] = d]
          /\ unread' = [unread EXCEPT ![c] = @ \ {s}]
          /\ UNCHANGED <<meta, todo, target>>
      BY <1>2, <2>2 DEF FetchSeries, scenario
    <3> HIDE DEF d
    <3>6. ClientInv'
      BY <3>4, <3>5 DEF SyncInv, ClientInv
    <3>7. IInv'
      BY <3>5, StutterKeeps DEF SyncInv
    <3>8. QED
      BY <3>6, <3>7 DEF SyncInv
  <2>3. QED
    BY <2>1, <2>2
<1>3. QED
  BY <1>1, <1>2

\* The difference turns what was fetched into what is asked.
LEMMA DiffKeeps ==
    ASSUME SyncInv, NEW c \in Clients, Diff(c)
    PROVE  SyncInv'
<1>1. Pushed(base[c], target) \subseteq Asked
  BY PushedAsked DEF SyncInv, ClientInv
<1>2. NoDefinition \in [Series -> Held]
  BY DEF NoDefinition, Held
<1>3. unread[c] = {}
  BY DEF Diff
<1>4. ClientInv'
  BY <1>1, <1>2, <1>3 DEF Diff, SyncInv, ClientInv, scenario
<1>5. IInv'
  BY StutterKeeps DEF Diff, SyncInv
<1>6. QED
  BY <1>4, <1>5 DEF SyncInv

\* What is asked is served, or ends the push.
LEMMA RequestKeeps ==
    ASSUME SyncInv, NEW c \in Clients, Request(c)
    PROVE  SyncInv'
<1>1. PICK r \in Due(c) :
         \/ /\ Answered(c, r)
            /\ todo' = [todo EXCEPT ![c] = @ \ {r}]
            /\ IF r.op = "GET" THEN UNCHANGED meta ELSE Effect(r)
            /\ UNCHANGED <<base, unread>>
         \/ Stop(c, Blame(c, r.series))
  BY DEF Request
<1>2. UNCHANGED scenario
  BY DEF Request
<1>3. CASE Stop(c, Blame(c, r.series))
  BY <1>2, <1>3, StopKeeps
<1>4. CASE ~Stop(c, Blame(c, r.series))
  <2>1. ClientInv'
    BY <1>1, <1>2, <1>4 DEF SyncInv, ClientInv, scenario
  <2>2. r \in Asked
    BY DEF Due, SyncInv, ClientInv
  <2>3. CASE r.op = "GET"
    BY <1>1, <1>4, <2>1, <2>3, StutterKeeps DEF SyncInv
  <2>4. CASE r.op # "GET"
    <3>1. r \in Requests
      <4>1. r \in Requests \/ \E s, on : r = Look(s, on)
        BY <2>2 DEF Asked
      <4>2. \A s, on : Look(s, on).op = "GET"
        BY DEF Look
      <4>3. QED
        BY <2>4, <4>1, <4>2
    <3>2. Serve(r)
      BY <1>1, <1>4, <2>4 DEF Answered, Serve
    <3>3. QED
      BY <2>1, <3>1, <3>2, ServeKeeps DEF SyncInv
  <2>5. QED
    BY <2>3, <2>4
<1>5. QED
  BY <1>3, <1>4

\* No step of a client breaks anything.
LEMMA ClientStepKeeps ==
    ASSUME SyncInv, NEW c \in Clients, ClientStep(c) \/ Fail(c)
    PROVE  SyncInv'
<1>1. CASE Fail(c)
  BY <1>1, StopKeeps DEF Fail
<1>2. CASE ReadUrls(c) \/ Finish(c)
  <2>1. UNCHANGED <<meta, base, unread, todo, target>>
    BY <1>2 DEF ReadUrls, Finish, scenario
  <2>2. QED
    BY <2>1, StutterKeeps DEF SyncInv, ClientInv
<1>3. QED
  BY <1>1, <1>2, FetchKeeps, DiffKeeps, RequestKeeps DEF ClientStep

\* Nor does an edit of somebody else, or the end of a migration.
LEMMA StepSyncInv == SyncInv /\ [Next]_vars => SyncInv'
<1> SUFFICES ASSUME SyncInv, [Next]_vars PROVE SyncInv'
  OBVIOUS
<1>1. ASSUME NEW c \in Clients, ClientStep(c) \/ Fail(c) PROVE SyncInv'
  BY <1>1, ClientStepKeeps
<1>2. CASE Edit
  <2>1. PICK r \in Requests : Serve(r)
    BY <1>2 DEF Edit
  <2>2. IInv'
    BY <2>1, ServeKeeps DEF SyncInv
  <2>3. ClientInv'
    BY <1>2 DEF Edit, SyncInv, ClientInv, scenario
  <2>4. QED
    BY <2>2, <2>3 DEF SyncInv
<1>3. ASSUME NEW s \in Series, RunMigration(s) PROVE SyncInv'
  <2>1. IInv'
    BY <1>3, MigrateKeeps DEF RunMigration, SyncInv
  <2>2. ClientInv'
    BY <1>3 DEF RunMigration, SyncInv, ClientInv, client, scenario
  <2>3. QED
    BY <2>1, <2>2 DEF SyncInv
<1>4. CASE UNCHANGED vars
  BY <1>4, StutterKeeps DEF vars, client, scenario, SyncInv, ClientInv
<1>5. QED
  BY <1>1, <1>2, <1>3, <1>4 DEF Next

\* So both hold at all times.
LEMMA SyncInductive == Spec => []SyncInv
BY InitSyncInv, StepSyncInv, PTL DEF Spec

-----------------------------------------------------------------------------
\* No file, no interruption and no edit stores a definition that is not of its
\* type: all that a client sends is a request of the meta model.
THEOREM SyncTypeCorrect == Spec => []TypeOK
<1>1. SyncInv => TypeOK
  BY DEF SyncInv, IInv
<1>2. QED
  BY <1>1, SyncInductive, PTL

\* In the middle of a push, too, no dimension refers to a deleted data series and
\* no index targets a deleted dimension or fact: what others fetch can be read.
THEOREM SyncReadable == Spec => []NothingDangles
<1>1. SyncInv => NothingDangles
  BY DEF SyncInv, IInv
<1>2. QED
  BY <1>1, SyncInductive, PTL

\* A data series that a push has told to change its backend is locked exactly as
\* long as the task that will unlock it is stored.
THEOREM SyncLocksEnd == Spec => []LockCoversMigration
<1>1. SyncInv => LockCoversMigration
  BY DEF SyncInv, IInv
<1>2. QED
  BY <1>1, SyncInductive, PTL
===============================================================================
