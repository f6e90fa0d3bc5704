------------------------ MODULE DefinitionPush_proofs ------------------------
(***************************************************************************)
(* What a push achieves, for any file, any number of clients, and wherever *)
(* they are interrupted.                                                   *)
(*                                                                         *)
(* The file is taken apart into demands: that a data series is gone, its   *)
(* head, each of its children, the permissions of each group.  A demand    *)
(* that the server does not meet is minded by a client: it has not begun,  *)
(* or what it has fetched tells of the difference, or it has the request   *)
(* that meets the demand in its list.  Undisturbed, a client minds every   *)
(* such demand itself (UndisturbedInv); if nobody but clients of the same  *)
(* file writes, one of them does (OutcomeInv).  Both rest on the order of  *)
(* a push: what it deletes and creates again, and what it creates empty,   *)
(* is followed by requests that fill it (Ordered).                         *)
(***************************************************************************)
EXTENDS DefinitionSync_proofs

-----------------------------------------------------------------------------
(***************************************************************************)
(* What a client has yet to ask for, and what the file demands.            *)
(***************************************************************************)
Asks(T, on, op, s, x) == \E r \in T : Is(r, on, op) /\ r.series = s /\ r.at = x

Writes(T, on, s, x) == Asks(T, on, "CREATE", s, x) \/ Asks(T, on, "UPDATE", s, x)

\* A consumer that the file does not name stays, unless asked otherwise.
Exempt(s, k) ==
    k \in Consumers /\ target[s].child[k] = Absent /\ ~options.remove_consumers

\* Every request of a push carries what the file has, and deletes only what the
\* file does not have or has in another form.
Intended(r) ==
    LET t == target[r.series]
    IN  /\ Is(r, "series", "DELETE") => t = Absent /\ options.delete_in_base
        /\ r.on = "series" /\ r.op # "DELETE" =>
              t # Absent /\ r.body = t.head
        /\ Is(r, "child", "DELETE") =>
              IF t = Absent THEN options.delete_in_base ELSE ~Exempt(r.series, r.at)
        /\ r.on = "child" /\ r.op # "DELETE" =>
              t # Absent /\ t.child[r.at] # Absent /\ r.body = t.child[r.at]
        /\ r.on = "grant" =>
              /\ t # Absent /\ r.at \in DOMAIN t.grant
              /\ t.grant[r.at] \subseteq r.body
              /\ options.revoke => r.body = t.grant[r.at]

\* What is created empty is filled, what is deleted is created again.
Ordered(T) ==
    \A s \in Series :
        /\ Asks(T, "series", "CREATE", s, s) =>
              /\ \A k \in Keys : target[s].child[k] # Absent => Asks(T, "child", "CREATE", s, k)
              /\ \A g \in DOMAIN target[s].grant : Writes(T, "grant", s, g)
        /\ \A k \in Keys :
              /\ Asks(T, "child", "DELETE", s, k)
              /\ target[s] # Absent
              /\ target[s].child[k] # Absent
              => Asks(T, "child", "CREATE", s, k)

Phases == {"idle", "stopped", "done"} \cup Working

Reasons == {"none", "interrupted", "locked", "stale", "unexplained"}

ClientTypes ==
    /\ phase \in [Clients -> Phases]
    /\ listed \in [Clients -> SUBSET Series]
    /\ foreign \in [Clients -> BOOLEAN]
    /\ refusal \in [Clients -> Reasons]
    /\ edits \in Nat

PushInv ==
    /\ ClientTypes
    /\ \A c \in Clients :
        /\ phase[c] \notin {"deleting", "writing"} => todo[c] = {}
        /\ \A r \in todo[c] : Intended(r)
        /\ Ordered(todo[c])

\* The demands of a file.
Demands ==
    {i \in [on: {"gone", "series", "child", "grant"}, series: Series, at: Series \cup Keys \cup Groups] :
        LET t == target[i.series]
        IN  \/ i.on = "gone" /\ t = Absent /\ options.delete_in_base
            \/ i.on = "series" /\ t # Absent
            \/ i.on = "child" /\ t # Absent /\ i.at \in Keys /\ ~Exempt(i.series, i.at)
            \/ i.on = "grant" /\ t # Absent /\ i.at \in DOMAIN t.grant}

\* One that the server does not meet.
Wrong(i) ==
    LET s == i.series
        t == target[s]
    IN  \/ i.on = "gone" /\ Live(s)
        \/ i.on = "series" /\ head[s] # t.head
        \/ i.on = "child" /\ child[s][i.at] # t.child[i.at]
        \/ i.on = "grant" /\ ~(IF options.revoke THEN grant[s][i.at] = t.grant[i.at]
                               ELSE t.grant[i.at] \subseteq grant[s][i.at])

\* One that is yet to be asked for.
Pending(T, i) ==
    LET s == i.series
    IN  \/ i.on = "gone" /\ Asks(T, "series", "DELETE", s, s)
        \/ i.on = "series" /\ Writes(T, "series", s, s)
        \/ i.on = "child" /\ IF target[s].child[i.at] = Absent
                             THEN Asks(T, "child", "DELETE", s, i.at)
                             ELSE Writes(T, "child", s, i.at)
        \/ i.on = "grant" /\ Writes(T, "grant", s, i.at)

\* One that the definitions fetched do not meet, or have not told of yet.
Told(b, u, i) ==
    LET s == i.series
        t == target[s]
    IN  \/ i.on = "gone" /\ b[s] # Absent
        \/ i.on = "series" /\ (b[s] = Absent \/ b[s].head # t.head)
        \/ i.on = "child" /\ \/ s \in u
                             \/ b[s] = Absent /\ t.child[i.at] # Absent
                             \/ b[s] # Absent /\ b[s].child[i.at] # t.child[i.at]
        \/ i.on = "grant" /\ \/ s \in u
                             \/ b[s] = Absent
                             \/ b[s] # Absent /\ (i.at \in DOMAIN b[s].grant =>
                                                    b[s].grant[i.at] # t.grant[i.at])

\* The client will see to it.
Minds(c, i) == \/ phase[c] \in {"idle", "stopped"}
               \/ phase[c] = "fetching" /\ Told(base[c], unread[c], i)
               \/ Pending(todo[c], i)

UndisturbedInv == \A c \in Clients : ~foreign[c] =>
                     \A i \in Demands : Wrong(i) => Minds(c, i)

-----------------------------------------------------------------------------
KeptSeries(s) == origin[s] # Absent /\ (target[s] # Absent \/ ~options.delete_in_base)
KeptChild(s, k) ==
    /\ origin[s] # Absent /\ target[s] # Absent
    /\ origin[s].child[k] # Absent /\ target[s].child[k] # Absent
    /\ origin[s].child[k].ref = target[s].child[k].ref
    /\ origin[s].child[k].targets = target[s].child[k].targets
\* The child is there, as far as it cannot be updated.
Keeps(s, k, cs) == /\ cs[k] # Absent
                   /\ cs[k].ref = target[s].child[k].ref
                   /\ cs[k].targets = target[s].child[k].targets

KeptInv ==
    edits = 0 =>
        /\ \A s \in Series : KeptSeries(s) => Live(s)
        /\ \A s \in Series, k \in Keys : KeptChild(s, k) => Keeps(s, k, child[s])
        /\ \A c \in Clients, s \in Series : phase[c] = "fetching" /\ KeptSeries(s) =>
              /\ base[c][s] # Absent
              /\ s \notin unread[c] =>
                    \A k \in Keys : KeptChild(s, k) => Keeps(s, k, base[c][s].child)
        /\ \A c \in Clients : \A r \in todo[c] :
              /\ Is(r, "series", "DELETE") => ~KeptSeries(r.series)
              /\ Is(r, "child", "DELETE") => ~KeptChild(r.series, r.at)

-----------------------------------------------------------------------------
\* The permissions a group had at first, and those it can have until it has what
\* the file adds to them.
GrantBefore(s, g) == IF origin[s] = Absent THEN {} ELSE origin[s].grant[g]
Between(s, g, p) == p = GrantBefore(s, g) \/ p = target[s].grant[g] \cup GrantBefore(s, g)

\* A data series that the file does not have, and that is not to be deleted.
LeftAlone(s) == target[s] = Absent /\ ~options.delete_in_base =>
                   IF origin[s] = Absent THEN ~Live(s) ELSE OnServer(s) = origin[s]

\* What the file says nothing about is as it was at first.
Remains(s) ==
    /\ ~Live(s) => grant[s] = NoGrants
    /\ target[s] # Absent /\ Live(s) =>
        /\ \A g \in Groups :
              IF g \notin DOMAIN target[s].grant THEN grant[s][g] = GrantBefore(s, g)
              ELSE ~options.revoke => Between(s, g, grant[s][g])
        /\ \A k \in Keys : Exempt(s, k) =>
              child[s][k] = IF origin[s] = Absent THEN Absent ELSE origin[s].child[k]

\* So it is in what a client has fetched, and in what it sends.
ReadSo(c, s) ==
    /\ phase[c] = "fetching" /\ target[s] # Absent /\ base[c][s] # Absent /\ s \notin unread[c]
    => /\ DOMAIN base[c][s].grant = Groups
       /\ \A g \in DOMAIN target[s].grant : ~options.revoke => Between(s, g, base[c][s].grant[g])
SentSo(r) ==
    r.on = "grant" /\ ~options.revoke =>
        r.body = target[r.series].grant[r.at] \cup GrantBefore(r.series, r.at)

OutcomeInv ==
    edits = 0 =>
        /\ \A s \in Series : LeftAlone(s) /\ Remains(s)
        /\ \A c \in Clients, s \in Series : ReadSo(c, s)
        /\ \A c \in Clients : \A r \in todo[c] : SentSo(r)
        /\ \A i \in Demands : Wrong(i) => \E c \in Clients : Minds(c, i)

-----------------------------------------------------------------------------
\* What a request can be.
LEMMA RequestParts ==
    ASSUME NEW r \in Requests
    PROVE  /\ r.series \in Series
           /\ r.on \in {"series", "child", "grant"}
           /\ r.op \in {"CREATE", "UPDATE", "DELETE"}
           /\ r.on = "series" => r.at = r.series /\ r.body \in Head
           /\ r.on = "child" => r.at \in Keys /\ Shaped(r.at, r.body)
           /\ r.on = "grant" => r.at \in Groups /\ r.body \in SUBSET Perms /\ r.op # "DELETE"
<1>1. CASE \E op \in {"CREATE", "UPDATE", "DELETE"}, s \in Series, h \in Head :
              r = Series_(op, s, h)
  BY <1>1 DEF Series_
<1>2. CASE \E k \in Keys : \E op \in {"CREATE", "UPDATE", "DELETE"}, s \in Series,
              c \in {b \in Child : Shaped(k, b)} : r = Child_(op, s, k, c)
  BY <1>2 DEF Child_
<1>3. CASE \E op \in {"CREATE", "UPDATE"}, s \in Series, g \in Groups, p \in SUBSET Perms :
              r = Grant_(op, s, g, p)
  BY <1>3 DEF Grant_
<1>4. QED
  BY <1>1, <1>2, <1>3 DEF Requests

\* What a client may have in its list is a look at a data series or a request.
LEMMA AskedParts ==
    ASSUME NEW r \in Asked
    PROVE  /\ r.series \in Series
           /\ r.op = "GET" => /\ r.on \in {"before deletes", "before indexes"}
                              /\ r.at = r.series
           /\ r.op # "GET" => r \in Requests
<1>1. CASE r \in Requests
  BY <1>1, RequestParts
<1>2. ASSUME NEW s \in Series, NEW on \in {"before deletes", "before indexes"}, r = Look(s, on)
      PROVE  r.series = s /\ r.at = s /\ r.op = "GET" /\ r.on = on
  BY <1>2 DEF Look
<1>3. QED
  BY <1>1, <1>2 DEF Asked

\* What a request that is served does to the definitions, and only to its own.
Wrote(r) ==
    LET s == r.series
        k == r.at
    IN  /\ \A t \in Series \ {s} : head'[t] = head[t] /\ child'[t] = child[t] /\ grant'[t] = grant[t]
        /\ Is(r, "series", "CREATE") =>
              ~Live(s) /\ head'[s] = r.body /\ child'[s] = Childless /\ grant'[s] = NoGrants
        /\ Is(r, "series", "UPDATE") =>
              Live(s) /\ head'[s] = r.body /\ child'[s] = child[s] /\ grant'[s] = grant[s]
        /\ Is(r, "series", "DELETE") =>
              Live(s) /\ head'[s] = Absent /\ child'[s] = Childless /\ grant'[s] = NoGrants
        /\ r.on # "series" => Live(s) /\ head'[s] = head[s]
        /\ Is(r, "child", "CREATE") => ~Has(s, k)
        /\ Is(r, "child", "UPDATE") =>
              Has(s, k) /\ r.body.ref = child[s][k].ref /\ r.body.targets = child[s][k].targets
        /\ Is(r, "child", "DELETE") =>
              Has(s, k) /\ child'[s] = [child[s] EXCEPT ![k] = Absent]
        /\ r.on = "child" => grant'[s] = grant[s]
        /\ r.on = "child" /\ r.op # "DELETE" => child'[s] = [child[s] EXCEPT ![k] = r.body]
        /\ r.on = "grant" =>
              child'[s] = child[s] /\ grant'[s] = [grant[s] EXCEPT ![k] = r.body]

\* A request that is served writes what it says, and nothing else.
LEMMA ServedWrites ==
    ASSUME IInv, NEW r \in Requests, Serve(r)
    PROVE  Wrote(r)
<1> DEFINE s == r.series
           k == r.at
<1>1. /\ s \in Series
      /\ r.on \in {"series", "child", "grant"} /\ r.op \in {"CREATE", "UPDATE", "DELETE"}
      /\ r.on = "series" => r.body \in Head
      /\ r.on = "child" => k \in Keys
      /\ r.on = "grant" => k \in Groups
  BY RequestParts
<1>2. TypeOK
  BY DEF IInv
<1>3. CASE Is(r, "series", "CREATE")
  <2>1. AcceptsCreateSeries(r) /\ CreateSeries(r)
    BY <1>3 DEF Serve, Accepts, Effect, Is
  <2>2. QED
    BY <1>1, <1>2, <1>3, <2>1 DEF Wrote, Is, AcceptsCreateSeries, CreateSeries, TypeOK
<1>4. CASE Is(r, "series", "UPDATE")
  <2>1. AcceptsUpdateSeries(r) /\ UpdateSeries(r)
    BY <1>4 DEF Serve, Accepts, Effect, Is
  <2>2. QED
    BY <1>1, <1>2, <1>4, <2>1 DEF Wrote, Is, AcceptsUpdateSeries, Writable, UpdateSeries, TypeOK
<1>5. CASE Is(r, "series", "DELETE")
  <2>1. AcceptsDeleteSeries(r) /\ DeleteSeries(r)
    BY <1>5 DEF Serve, Accepts, Effect, Is
  <2>2. \A t \in Series \ {s}, j \in Keys : Has(t, j) => child[t][j].ref # s
    BY <2>1 DEF IInv, NoOrphans, AcceptsDeleteSeries, Referring
  <2>3. ASSUME NEW t \in Series \ {s} PROVE child'[t] = child[t]
    <3>1. child'[t] = [j \in Keys |-> IF child[t][j] # Absent /\ child[t][j].ref = s
                                      THEN [child[t][j] EXCEPT !.ref = Gone] ELSE child[t][j]]
      BY <2>1 DEF DeleteSeries
    <3>2. child'[t] = [j \in Keys |-> child[t][j]]
      BY <2>2, <3>1 DEF Has
    <3>3. QED
      BY <1>2, <3>2 DEF TypeOK
  <2>4. child'[s] = Childless
    BY <1>1, <2>1 DEF DeleteSeries
  <2>5. QED
    BY <1>1, <1>2, <1>5, <2>1, <2>3, <2>4
       DEF Wrote, Is, AcceptsDeleteSeries, Writable, DeleteSeries, TypeOK
<1>6. CASE r.on = "child" /\ r.op # "DELETE"
  <2>1. /\ Is(r, "child", "CREATE") => AcceptsCreateChild(r)
        /\ Is(r, "child", "UPDATE") => AcceptsUpdateChild(r)
        /\ WriteChild(r)
    BY <1>1, <1>6 DEF Serve, Accepts, Effect, Is
  <2>2. Live(s)
    BY <1>1, <1>6, <2>1 DEF Is, AcceptsCreateChild, AcceptsUpdateChild, Writable
  <2>3. /\ Is(r, "child", "CREATE") => ~Has(s, k)
        /\ Is(r, "child", "UPDATE") =>
              Has(s, k) /\ r.body.ref = child[s][k].ref /\ r.body.targets = child[s][k].targets
    BY <2>1 DEF AcceptsCreateChild, AcceptsUpdateChild, NameTaken
  <2>4. /\ \A t \in Series \ {s} : head'[t] = head[t] /\ child'[t] = child[t] /\ grant'[t] = grant[t]
        /\ head'[s] = head[s] /\ grant'[s] = grant[s]
        /\ child'[s] = [child[s] EXCEPT ![k] = r.body]
    BY <1>1, <1>2, <2>1 DEF WriteChild, TypeOK
  <2>5. QED
    BY <1>6, <2>2, <2>3, <2>4 DEF Wrote, Is
<1>7. CASE Is(r, "child", "DELETE")
  <2>1. AcceptsDeleteChild(r) /\ DeleteChild(r)
    BY <1>7 DEF Serve, Accepts, Effect, Is
  <2>2. \A i \in Keys : child[s][i] # Absent => k \notin child[s][i].targets
    BY <2>1 DEF AcceptsDeleteChild, IndexesOn, Has
  <2>3. child'[s] = [j \in Keys |-> IF j = k THEN Absent ELSE child[s][j]]
    <3>1. child'[s] = [j \in Keys |->
                        IF j = k THEN Absent
                        ELSE IF child[s][j] # Absent /\ k \in child[s][j].targets
                        THEN [child[s][j] EXCEPT !.targets = (@ \ {k}) \cup {Gone}]
                        ELSE child[s][j]]
      BY <1>1, <1>2, <2>1 DEF DeleteChild, TypeOK
    <3>2. QED
      BY <2>2, <3>1
  <2>4. child'[s] = [child[s] EXCEPT ![k] = Absent]
    BY <1>1, <1>2, <2>3 DEF TypeOK
  <2>5. \A t \in Series \ {s} : child'[t] = child[t]
    BY <1>1, <1>2, <2>1 DEF DeleteChild, TypeOK
  <2>6. UNCHANGED <<head, grant>> /\ Live(s) /\ Has(s, k)
    BY <2>1 DEF DeleteChild, AcceptsDeleteChild, Writable
  <2>7. QED
    BY <1>7, <2>4, <2>5, <2>6 DEF Wrote, Is
<1>8. CASE r.on = "grant"
  <2>1. AcceptsGrant(r) /\ PutGrant(r)
    BY <1>8 DEF Serve, Accepts, Effect, Is
  <2>2. QED
    BY <1>1, <1>2, <1>8, <2>1 DEF Wrote, Is, AcceptsGrant, Writable, PutGrant, TypeOK
<1>9. QED
  BY <1>1, <1>3, <1>4, <1>5, <1>6, <1>7, <1>8 DEF Is

\* What comes first in a push: what is due comes after nothing that is left.
LEMMA DueStage ==
    ASSUME NEW c \in Clients, NEW r \in Due(c), NEW q \in todo[c]
    PROVE  ~(Stage(q) < Stage(r))
BY DEF Due, Before

\* In which stage of a push a request comes.
LEMMA Stages ==
    ASSUME NEW r \in Asked
    PROVE  /\ r.on = "before deletes" => Stage(r) = 1
           /\ Is(r, "child", "DELETE") => Stage(r) = 1
           /\ Is(r, "series", "DELETE") => Stage(r) = 2
           /\ Is(r, "series", "CREATE") => Stage(r) = 3
           /\ Is(r, "series", "UPDATE") => Stage(r) = 4
           /\ r.on = "before indexes" => Stage(r) = 5
           /\ r.on = "child" /\ r.op # "DELETE" => Stage(r) = 5
           /\ r.on = "grant" => Stage(r) = 6
BY DEF Stage, Is
-----------------------------------------------------------------------------
(***************************************************************************)
(* What a difference asks for, and why.                                    *)
(***************************************************************************)

\* Why the difference of two sets of children asks for what it asks for.
LEMMA ChildDiffMeant ==
    ASSUME NEW s, NEW b, NEW t, NEW missing \in SUBSET Keys, NEW r \in ChildDiff(s, b, t, missing)
    PROVE  /\ r.on = "child" /\ r.series = s /\ r.at \in Keys
           /\ r.op \in {"CREATE", "UPDATE", "DELETE"}
           /\ r.op = "DELETE" =>
                 /\ b[r.at] # Absent /\ r.body = b[r.at]
                 /\ t[r.at] = Absent => r.at \in missing
                 /\ t[r.at] # Absent => Recreated(r.at, b[r.at], t[r.at])
           /\ r.op = "CREATE" =>
                 /\ t[r.at] # Absent /\ r.body = t[r.at]
                 /\ b[r.at] # Absent => Recreated(r.at, b[r.at], t[r.at])
           /\ r.op = "UPDATE" =>
                 /\ t[r.at] # Absent /\ r.body = t[r.at]
                 /\ b[r.at] # Absent /\ ~Recreated(r.at, b[r.at], t[r.at])
<1> DEFINE again == {k \in Changed(b, t) : Recreated(k, b[k], t[k])}
<1>1. Changed(b, t) \subseteq {k \in Keys : b[k] # Absent /\ t[k] # Absent}
  BY DEF Changed
<1>2. \/ \E k \in again \cup {j \in missing : b[j] # Absent /\ t[j] = Absent} :
            r = Child_("DELETE", s, k, b[k])
      \/ \E k \in again \cup {j \in Keys : b[j] = Absent /\ t[j] # Absent} :
            r = Child_("CREATE", s, k, t[k])
      \/ \E k \in Changed(b, t) \ again : r = Child_("UPDATE", s, k, t[k])
  BY DEF ChildDiff
<1>3. CASE \E k \in again \cup {j \in missing : b[j] # Absent /\ t[j] = Absent} :
              r = Child_("DELETE", s, k, b[k])
  BY <1>1, <1>3 DEF Child_
<1>4. CASE \E k \in again \cup {j \in Keys : b[j] = Absent /\ t[j] # Absent} :
              r = Child_("CREATE", s, k, t[k])
  BY <1>1, <1>4 DEF Child_
<1>5. CASE \E k \in Changed(b, t) \ again : r = Child_("UPDATE", s, k, t[k])
  BY <1>1, <1>5 DEF Child_
<1>6. QED
  BY <1>2, <1>3, <1>4, <1>5

\* What the difference of two sets of children asks for.
LEMMA ChildDiffAsks ==
    ASSUME NEW s, NEW b, NEW t, NEW missing \in SUBSET Keys, NEW k \in Keys, NEW T,
           ChildDiff(s, b, t, missing) \subseteq T
    PROVE  /\ b[k] = Absent /\ t[k] # Absent => Asks(T, "child", "CREATE", s, k)
           /\ b[k] # Absent /\ t[k] # Absent /\ b[k] # t[k] =>
                 IF Recreated(k, b[k], t[k])
                 THEN Asks(T, "child", "DELETE", s, k) /\ Asks(T, "child", "CREATE", s, k)
                 ELSE Asks(T, "child", "UPDATE", s, k)
           /\ b[k] # Absent /\ t[k] = Absent /\ k \in missing => Asks(T, "child", "DELETE", s, k)
<1>1. ASSUME NEW op, NEW c, Child_(op, s, k, c) \in ChildDiff(s, b, t, missing)
      PROVE  Asks(T, "child", op, s, k)
  BY <1>1 DEF Asks, Is, Child_
<1>2. CASE b[k] = Absent /\ t[k] # Absent
  <2>1. Child_("CREATE", s, k, t[k]) \in ChildDiff(s, b, t, missing)
    BY <1>2 DEF ChildDiff
  <2>2. QED
    BY <1>1, <1>2, <2>1
<1>3. CASE b[k] # Absent /\ t[k] # Absent /\ b[k] # t[k]
  <2>1. k \in Changed(b, t)
    BY <1>3 DEF Changed
  <2>2. IF Recreated(k, b[k], t[k])
        THEN /\ Child_("DELETE", s, k, b[k]) \in ChildDiff(s, b, t, missing)
             /\ Child_("CREATE", s, k, t[k]) \in ChildDiff(s, b, t, missing)
        ELSE Child_("UPDATE", s, k, t[k]) \in ChildDiff(s, b, t, missing)
    BY <2>1 DEF ChildDiff
  <2>3. QED
    BY <1>1, <1>3, <2>2
<1>4. CASE b[k] # Absent /\ t[k] = Absent /\ k \in missing
  <2>1. Child_("DELETE", s, k, b[k]) \in ChildDiff(s, b, t, missing)
    BY <1>4 DEF ChildDiff
  <2>2. QED
    BY <1>1, <1>4, <2>1
<1>5. QED
  BY <1>2, <1>3, <1>4

\* A DELETE of permissions is what a push passes over.
LEMMA GrantDeleted == \A s, g, p : Is(Grant_("DELETE", s, g, p), "grant", "DELETE")
BY DEF Is, Grant_

\* Permissions that differ from those of the file are asked for.
LEMMA GrantDiffAsks ==
    ASSUME NEW s, NEW b, NEW t, NEW revoke, NEW g \in DOMAIN t, NEW T,
           {r \in GrantDiff(s, b, t, revoke) : ~Is(r, "grant", "DELETE")} \subseteq T,
           g \in DOMAIN b => b[g] # t[g]
    PROVE  Writes(T, "grant", s, g)
<1>1. ASSUME NEW op \in {"CREATE", "UPDATE"}, NEW p, Grant_(op, s, g, p) \in GrantDiff(s, b, t, revoke)
      PROVE  Asks(T, "grant", op, s, g)
  <2>1. ~Is(Grant_(op, s, g, p), "grant", "DELETE")
    BY DEF Is, Grant_
  <2>2. Grant_(op, s, g, p) \in T
    BY <1>1, <2>1
  <2>3. QED
    BY <2>2 DEF Asks, Is, Grant_
<1>2. CASE g \in DOMAIN b
  <2>1. Grant_("UPDATE", s, g, IF revoke THEN t[g] ELSE t[g] \cup b[g]) \in GrantDiff(s, b, t, revoke)
    BY <1>2 DEF GrantDiff
  <2>2. QED
    BY <1>1, <2>1 DEF Writes
<1>3. CASE g \notin DOMAIN b
  <2>1. Grant_("CREATE", s, g, t[g]) \in GrantDiff(s, b, t, revoke)
    BY <1>3 DEF GrantDiff
  <2>2. QED
    BY <1>1, <2>1 DEF Writes
<1>4. QED
  BY <1>2, <1>3

\* Why a request is in the list of a push.
Meant(b, r) ==
    LET s == r.series
        t == target[s]
        k == r.at
    IN  /\ r.on = "before deletes" => b[s] # Absent
        /\ r.on = "before indexes" =>
              /\ b[s] # Absent \/ t # Absent
              /\ ~(t = Absent /\ options.delete_in_base)
        /\ r.op = "GET" => r.body = Absent
        /\ Is(r, "series", "CREATE") => b[s] = Absent /\ t # Absent /\ r.body = t.head
        /\ Is(r, "series", "UPDATE") => b[s] # Absent /\ t # Absent /\ r.body = t.head
        /\ Is(r, "series", "DELETE") =>
              b[s] # Absent /\ t = Absent /\ options.delete_in_base /\ r.body = b[s].head
        /\ Is(r, "child", "DELETE") =>
              /\ b[s] # Absent /\ b[s].child[k] # Absent /\ r.body = b[s].child[k]
              /\ t = Absent => options.delete_in_base
              /\ t # Absent /\ t.child[k] = Absent => ~Exempt(s, k)
              /\ t # Absent /\ t.child[k] # Absent => Recreated(k, b[s].child[k], t.child[k])
        /\ Is(r, "child", "CREATE") =>
              /\ t # Absent /\ t.child[k] # Absent /\ r.body = t.child[k]
              /\ b[s] # Absent /\ b[s].child[k] # Absent => Recreated(k, b[s].child[k], t.child[k])
        /\ Is(r, "child", "UPDATE") =>
              /\ t # Absent /\ t.child[k] # Absent /\ r.body = t.child[k]
              /\ b[s] # Absent /\ b[s].child[k] # Absent
              /\ ~Recreated(k, b[s].child[k], t.child[k])
        /\ r.on = "grant" =>
              /\ t # Absent /\ k \in DOMAIN t.grant /\ r.op \in {"CREATE", "UPDATE"}
              /\ r.op = "CREATE" => /\ b[s] # Absent => k \notin DOMAIN b[s].grant
                                    /\ r.body = t.grant[k]
              /\ r.op = "UPDATE" =>
                    /\ b[s] # Absent /\ k \in DOMAIN b[s].grant
                    /\ r.body = IF options.revoke THEN t.grant[k] ELSE t.grant[k] \cup b[s].grant[k]

\* Why the difference of two data series asks for what it asks for.
LEMMA SeriesDiffMeant ==
    ASSUME target \in [Series -> Held], NEW b \in [Series -> Held], NEW s \in Series,
           b[s] # Absent \/ target[s] # Absent,
           NEW r \in SeriesDiff(s, b[s], target[s]), ~Is(r, "grant", "DELETE")
    PROVE  r.series = s /\ Meant(b, r)
<1> DEFINE t == target[s]
           missing == IF options.remove_consumers THEN Keys ELSE Keys \ Consumers
<1>2. CASE b[s] = Absent
  <2>1. \/ r = Series_("CREATE", s, t.head)
        \/ r \in ChildDiff(s, Childless, t.child, {})
        \/ r \in GrantDiff(s, NoGroups, t.grant, FALSE)
    BY <1>2 DEF SeriesDiff
  <2>2. CASE r = Series_("CREATE", s, t.head)
    BY <1>2, <2>2 DEF Series_, Meant, Is
  <2>3. CASE r \in ChildDiff(s, Childless, t.child, {})
    <3>1. /\ r.on = "child" /\ r.series = s /\ r.at \in Keys /\ r.op \in {"CREATE", "UPDATE", "DELETE"}
          /\ r.op = "DELETE" => Childless[r.at] # Absent
          /\ r.op = "CREATE" => t.child[r.at] # Absent /\ r.body = t.child[r.at]
          /\ r.op = "UPDATE" => Childless[r.at] # Absent
      BY <2>3, ChildDiffMeant
    <3>2. Childless[r.at] = Absent
      BY <3>1 DEF Childless
    <3>3. QED
      BY <1>2, <3>1, <3>2 DEF Meant, Is
  <2>4. CASE r \in GrantDiff(s, NoGroups, t.grant, FALSE)
    <3>1. PICK g \in DOMAIN t.grant : r = Grant_("CREATE", s, g, t.grant[g])
      BY <2>4 DEF GrantDiff, NoGroups
    <3>2. QED
      BY <1>2, <3>1 DEF Grant_, Meant, Is
  <2>5. QED
    BY <2>1, <2>2, <2>3, <2>4
<1>3. CASE b[s] # Absent /\ t = Absent
  <2>1. /\ options.delete_in_base
        /\ \/ r = Series_("DELETE", s, b[s].head)
           \/ r \in ChildDiff(s, b[s].child, Childless, Keys)
           \/ r \in GrantDiff(s, b[s].grant, NoGroups, TRUE)
    BY <1>3 DEF SeriesDiff
  <2>2. CASE r = Series_("DELETE", s, b[s].head)
    BY <1>3, <2>1, <2>2 DEF Series_, Meant, Is
  <2>3. CASE r \in ChildDiff(s, b[s].child, Childless, Keys)
    <3>1. /\ r.on = "child" /\ r.series = s /\ r.at \in Keys /\ r.op \in {"CREATE", "UPDATE", "DELETE"}
          /\ r.op = "DELETE" => b[s].child[r.at] # Absent /\ r.body = b[s].child[r.at]
          /\ r.op = "CREATE" => Childless[r.at] # Absent
          /\ r.op = "UPDATE" => Childless[r.at] # Absent
      BY <2>3, ChildDiffMeant
    <3>2. Childless[r.at] = Absent
      BY <3>1 DEF Childless
    <3>3. QED
      BY <1>3, <2>1, <3>1, <3>2 DEF Meant, Is
  <2>4. CASE r \in GrantDiff(s, b[s].grant, NoGroups, TRUE)
    <3>1. PICK g : r = Grant_("DELETE", s, g, b[s].grant[g])
      BY <2>4 DEF GrantDiff, NoGroups
    <3>2. QED
      BY <3>1, GrantDeleted
  <2>5. QED
    BY <2>1, <2>2, <2>3, <2>4
<1>4. CASE b[s] # Absent /\ t # Absent
  <2>1. \/ r = Series_("UPDATE", s, t.head)
        \/ r \in ChildDiff(s, b[s].child, t.child, missing)
        \/ r \in GrantDiff(s, b[s].grant, t.grant, options.revoke)
    BY <1>4 DEF SeriesDiff
  <2>2. CASE r = Series_("UPDATE", s, t.head)
    BY <1>4, <2>2 DEF Series_, Meant, Is
  <2>3. CASE r \in ChildDiff(s, b[s].child, t.child, missing)
    <3>1. /\ r.on = "child" /\ r.series = s /\ r.at \in Keys
          /\ r.op \in {"CREATE", "UPDATE", "DELETE"}
          /\ r.op = "DELETE" =>
                /\ b[s].child[r.at] # Absent /\ r.body = b[s].child[r.at]
                /\ t.child[r.at] = Absent => r.at \in missing
                /\ t.child[r.at] # Absent => Recreated(r.at, b[s].child[r.at], t.child[r.at])
          /\ r.op = "CREATE" =>
                /\ t.child[r.at] # Absent /\ r.body = t.child[r.at]
                /\ b[s].child[r.at] # Absent => Recreated(r.at, b[s].child[r.at], t.child[r.at])
          /\ r.op = "UPDATE" =>
                /\ t.child[r.at] # Absent /\ r.body = t.child[r.at]
                /\ b[s].child[r.at] # Absent /\ ~Recreated(r.at, b[s].child[r.at], t.child[r.at])
      BY <2>3, ChildDiffMeant
    <3>2. r.at \in missing => ~Exempt(s, r.at)
      BY <3>1 DEF Exempt
    <3>3. QED
      BY <1>4, <3>1, <3>2 DEF Meant, Is
  <2>4. CASE r \in GrantDiff(s, b[s].grant, t.grant, options.revoke)
    <3>1. CASE \E g : r = Grant_("DELETE", s, g, b[s].grant[g])
      BY <3>1, GrantDeleted
    <3>2. CASE \E g \in DOMAIN t.grant \ DOMAIN b[s].grant : r = Grant_("CREATE", s, g, t.grant[g])
      BY <1>4, <3>2 DEF Grant_, Meant, Is
    <3>3. CASE \E g \in DOMAIN t.grant \cap DOMAIN b[s].grant :
                  r = Grant_("UPDATE", s, g, IF options.revoke THEN t.grant[g]
                                             ELSE t.grant[g] \cup b[s].grant[g])
      BY <1>4, <3>3 DEF Grant_, Meant, Is
    <3>4. QED
      BY <2>4, <3>1, <3>2, <3>3 DEF GrantDiff
  <2>5. QED
    BY <2>1, <2>2, <2>3, <2>4
<1>5. QED
  BY <1>2, <1>3, <1>4

\* Why a push asks for what it asks for.
LEMMA PushedMeant ==
    ASSUME target \in [Series -> Held], NEW b \in [Series -> Held],
           NEW r \in Pushed(b, target)
    PROVE  Meant(b, r)
<1>1. PICK s \in Series :
         /\ b[s] # Absent \/ target[s] # Absent
         /\ r \in Looks(s, b[s], target[s])
                   \cup {q \in SeriesDiff(s, b[s], target[s]) : ~Is(q, "grant", "DELETE")}
  BY DEF Pushed
<1>2. CASE r \in Looks(s, b[s], target[s])
  <2>1. CASE r = Look(s, "before deletes") /\ b[s] # Absent
    BY <1>1, <2>1 DEF Look, Meant, Is
  <2>2. CASE r = Look(s, "before indexes") /\ ~(target[s] = Absent /\ options.delete_in_base)
    BY <1>1, <2>2 DEF Look, Meant, Is
  <2>3. QED
    BY <1>2, <2>1, <2>2 DEF Looks
<1>3. QED
  BY <1>1, <1>2, SeriesDiffMeant

\* Whatever differs is asked for.
LEMMA PushedAsks ==
    ASSUME NEW b, NEW s \in Series,
           b[s] # Absent \/ target[s] # Absent
    PROVE  LET t == target[s]
               T == Pushed(b, target)
           IN  /\ b[s] = Absent =>
                     /\ Asks(T, "series", "CREATE", s, s)
                     /\ \A k \in Keys : t.child[k] # Absent => Asks(T, "child", "CREATE", s, k)
                     /\ \A g \in DOMAIN t.grant : Writes(T, "grant", s, g)
               /\ t = Absent /\ options.delete_in_base =>
                     /\ Asks(T, "series", "DELETE", s, s)
                     /\ \A k \in Keys : b[s].child[k] # Absent => Asks(T, "child", "DELETE", s, k)
               /\ b[s] # Absent /\ t # Absent =>
                     /\ b[s].head # t.head => Asks(T, "series", "UPDATE", s, s)
                     /\ \A k \in Keys :
                           /\ b[s].child[k] = Absent /\ t.child[k] # Absent =>
                                 Asks(T, "child", "CREATE", s, k)
                           /\ /\ b[s].child[k] # Absent /\ t.child[k] # Absent
                              /\ b[s].child[k] # t.child[k]
                              => IF Recreated(k, b[s].child[k], t.child[k])
                                 THEN /\ Asks(T, "child", "DELETE", s, k)
                                      /\ Asks(T, "child", "CREATE", s, k)
                                 ELSE Asks(T, "child", "UPDATE", s, k)
                           /\ b[s].child[k] # Absent /\ t.child[k] = Absent /\ ~Exempt(s, k) =>
                                 Asks(T, "child", "DELETE", s, k)
                     /\ \A g \in DOMAIN t.grant :
                           (g \in DOMAIN b[s].grant => b[s].grant[g] # t.grant[g]) =>
                              Writes(T, "grant", s, g)
<1> DEFINE t == target[s]
           T == Pushed(b, target)
           D == SeriesDiff(s, b[s], t)
           missing == IF options.remove_consumers THEN Keys ELSE Keys \ Consumers
<1>1. {r \in D : ~Is(r, "grant", "DELETE")} \subseteq T
  BY DEF Pushed
<1>2. ASSUME NEW q \in D, ~Is(q, "grant", "DELETE") PROVE q \in T
  BY <1>1, <1>2
<1>3. ASSUME NEW op, NEW h, Series_(op, s, h) \in D
      PROVE  Asks(T, "series", op, s, s)
  <2>1. ~Is(Series_(op, s, h), "grant", "DELETE")
    BY DEF Is, Series_
  <2>2. Series_(op, s, h) \in T
    BY <1>2, <1>3, <2>1
  <2>3. QED
    BY <2>2 DEF Asks, Is, Series_
<1>4. ASSUME NEW f, NEW m \in SUBSET Keys, ChildDiff(s, f, t.child, m) \subseteq D
      PROVE  ChildDiff(s, f, t.child, m) \subseteq T
  <2> SUFFICES ASSUME NEW r \in ChildDiff(s, f, t.child, m) PROVE r \in T
    OBVIOUS
  <2>1. r.on = "child"
    BY ChildDiffMeant
  <2>2. QED
    BY <1>2, <1>4, <2>1 DEF Is
<1>5. ASSUME NEW f, ChildDiff(s, f, Childless, Keys) \subseteq D
      PROVE  ChildDiff(s, f, Childless, Keys) \subseteq T
  <2> SUFFICES ASSUME NEW r \in ChildDiff(s, f, Childless, Keys) PROVE r \in T
    OBVIOUS
  <2>1. r.on = "child"
    BY ChildDiffMeant
  <2>2. QED
    BY <1>2, <1>5, <2>1 DEF Is
<1>6. \A k \in Keys : Childless[k] = Absent
  BY DEF Childless
<1>7. CASE b[s] = Absent
  <2>1. /\ Series_("CREATE", s, t.head) \in D
        /\ ChildDiff(s, Childless, t.child, {}) \subseteq D
        /\ GrantDiff(s, NoGroups, t.grant, FALSE) \subseteq D
    BY <1>7 DEF SeriesDiff
  <2>2. Asks(T, "series", "CREATE", s, s)
    BY <1>3, <2>1
  <2>3. ChildDiff(s, Childless, t.child, {}) \subseteq T
    BY <1>4, <2>1
  <2>4. ASSUME NEW k \in Keys, t.child[k] # Absent PROVE Asks(T, "child", "CREATE", s, k)
    BY <1>6, <2>3, <2>4, ChildDiffAsks
  <2>5. ASSUME NEW g \in DOMAIN t.grant PROVE Writes(T, "grant", s, g)
    <3>1. {r \in GrantDiff(s, NoGroups, t.grant, FALSE) : ~Is(r, "grant", "DELETE")} \subseteq T
      BY <1>1, <2>1
    <3>2. g \notin DOMAIN NoGroups
      BY DEF NoGroups
    <3>3. QED
      BY <3>1, <3>2, GrantDiffAsks
  <2>6. QED
    BY <1>7, <2>2, <2>4, <2>5
<1>8. CASE b[s] # Absent /\ t = Absent
  <2>1. SUFFICES ASSUME options.delete_in_base
                 PROVE  /\ Asks(T, "series", "DELETE", s, s)
                        /\ \A k \in Keys : b[s].child[k] # Absent => Asks(T, "child", "DELETE", s, k)
    BY <1>8
  <2>2. Series_("DELETE", s, b[s].head) \in D /\ ChildDiff(s, b[s].child, Childless, Keys) \subseteq D
    BY <1>8, <2>1 DEF SeriesDiff
  <2>3. Asks(T, "series", "DELETE", s, s)
    BY <1>3, <2>2
  <2>4. ChildDiff(s, b[s].child, Childless, Keys) \subseteq T
    BY <1>5, <2>2
  <2>5. ASSUME NEW k \in Keys, b[s].child[k] # Absent PROVE Asks(T, "child", "DELETE", s, k)
    BY <1>6, <2>4, <2>5, ChildDiffAsks
  <2>6. QED
    BY <2>3, <2>5
<1>9. CASE b[s] # Absent /\ t # Absent
  <2>1. /\ b[s].head # t.head => Series_("UPDATE", s, t.head) \in D
        /\ ChildDiff(s, b[s].child, t.child, missing) \subseteq D
        /\ GrantDiff(s, b[s].grant, t.grant, options.revoke) \subseteq D
    BY <1>9 DEF SeriesDiff
  <2>2. b[s].head # t.head => Asks(T, "series", "UPDATE", s, s)
    BY <1>3, <2>1
  <2>3. missing \in SUBSET Keys /\ \A k \in Keys : t.child[k] = Absent /\ ~Exempt(s, k) => k \in missing
    BY DEF Exempt
  <2>4. ChildDiff(s, b[s].child, t.child, missing) \subseteq T
    BY <1>4, <2>1, <2>3
  <2>5. ASSUME NEW k \in Keys
        PROVE  /\ b[s].child[k] = Absent /\ t.child[k] # Absent => Asks(T, "child", "CREATE", s, k)
               /\ b[s].child[k] # Absent /\ t.child[k] # Absent /\ b[s].child[k] # t.child[k] =>
                     IF Recreated(k, b[s].child[k], t.child[k])
                     THEN Asks(T, "child", "DELETE", s, k) /\ Asks(T, "child", "CREATE", s, k)
                     ELSE Asks(T, "child", "UPDATE", s, k)
               /\ b[s].child[k] # Absent /\ t.child[k] = Absent /\ k \in missing =>
                     Asks(T, "child", "DELETE", s, k)
    <3> HIDE DEF T, missing
    <3> QED
      BY <2>3, <2>4, ChildDiffAsks
  <2>6. ASSUME NEW g \in DOMAIN t.grant, g \in DOMAIN b[s].grant => b[s].grant[g] # t.grant[g]
        PROVE  Writes(T, "grant", s, g)
    <3>1. {r \in GrantDiff(s, b[s].grant, t.grant, options.revoke) : ~Is(r, "grant", "DELETE")} \subseteq T
      BY <1>1, <2>1
    <3>2. QED
      BY <2>6, <3>1, GrantDiffAsks
  <2>7. QED
    BY <1>9, <2>2, <2>3, <2>5, <2>6
<1>10. QED
  BY <1>7, <1>8, <1>9

-----------------------------------------------------------------------------
(***************************************************************************)
(* A list as it is when the push begins.                                   *)
(***************************************************************************)

\* A push carries what the file has.
LEMMA PushedIntended ==
    ASSUME target \in [Series -> Held], NEW b \in [Series -> Held], NEW r \in Pushed(b, target)
    PROVE  Intended(r)
<1>1. r \in Asked
  BY PushedAsked
<1>2. Meant(b, r)
  BY PushedMeant
<1>3. r.on \in {"series", "child"} => r.op \in {"CREATE", "UPDATE", "DELETE"}
  BY <1>1, AskedParts, RequestParts
<1>4. QED
  BY <1>2, <1>3 DEF Meant, Intended, Is, Exempt

\* A push fills what it creates, and creates again what it deletes.
LEMMA PushedOrdered ==
    ASSUME target \in [Series -> Held], NEW b \in [Series -> Held]
    PROVE  Ordered(Pushed(b, target))
<1> DEFINE T == Pushed(b, target)
<1> SUFFICES ASSUME NEW s \in Series
             PROVE  /\ Asks(T, "series", "CREATE", s, s) =>
                          /\ \A k \in Keys : target[s].child[k] # Absent => Asks(T, "child", "CREATE", s, k)
                          /\ \A g \in DOMAIN target[s].grant : Writes(T, "grant", s, g)
                    /\ \A k \in Keys :
                          /\ Asks(T, "child", "DELETE", s, k)
                          /\ target[s] # Absent
                          /\ target[s].child[k] # Absent
                          => Asks(T, "child", "CREATE", s, k)
  BY DEF Ordered
<1>1. ASSUME Asks(T, "series", "CREATE", s, s) PROVE b[s] = Absent /\ target[s] # Absent
  <2>1. PICK r \in T : Is(r, "series", "CREATE") /\ r.series = s
    BY <1>1 DEF Asks
  <2>2. Meant(b, r)
    BY PushedMeant
  <2>3. QED
    BY <2>1, <2>2 DEF Meant
<1>2. ASSUME NEW k \in Keys, Asks(T, "child", "DELETE", s, k),
             target[s] # Absent, target[s].child[k] # Absent
      PROVE  Asks(T, "child", "CREATE", s, k)
  <2>1. PICK r \in T : Is(r, "child", "DELETE") /\ r.series = s /\ r.at = k
    BY <1>2 DEF Asks
  <2>2. Meant(b, r)
    BY PushedMeant
  <2>3. b[s] # Absent /\ b[s].child[k] # Absent /\ Recreated(k, b[s].child[k], target[s].child[k])
    BY <1>2, <2>1, <2>2 DEF Meant
  <2>4. b[s].child[k] # target[s].child[k]
    BY <2>3 DEF Recreated
  <2>5. QED
    BY <1>2, <2>3, <2>4, PushedAsks
<1>3. QED
  BY <1>1, <1>2, PushedAsks

\* What the definitions fetched do not meet is in the list.
LEMMA PushedTold ==
    ASSUME NEW b, NEW i \in Demands, Told(b, {}, i)
    PROVE  Pending(Pushed(b, target), i)
<1> DEFINE s == i.series
           t == target[s]
           T == Pushed(b, target)
<1>1. s \in Series
  BY DEF Demands
<1>2. CASE i.on = "gone"
  BY <1>1, <1>2, PushedAsks DEF Demands, Told, Pending
<1>3. CASE i.on = "series"
  BY <1>1, <1>3, PushedAsks DEF Demands, Told, Pending, Writes
<1>4. CASE i.on = "child"
  <2>1. t # Absent /\ i.at \in Keys /\ ~Exempt(s, i.at)
    BY <1>4 DEF Demands
  <2>2. \/ b[s] = Absent /\ t.child[i.at] # Absent
        \/ b[s] # Absent /\ b[s].child[i.at] # t.child[i.at]
    BY <1>4 DEF Told
  <2>3. IF t.child[i.at] = Absent THEN Asks(T, "child", "DELETE", s, i.at)
        ELSE Asks(T, "child", "CREATE", s, i.at) \/ Asks(T, "child", "UPDATE", s, i.at)
    BY <1>1, <2>1, <2>2, PushedAsks
  <2>4. QED
    BY <1>4, <2>3 DEF Pending, Writes
<1>5. CASE i.on = "grant"
  <2>1. t # Absent /\ i.at \in DOMAIN t.grant
    BY <1>5 DEF Demands
  <2>2. b[s] = Absent \/ (i.at \in DOMAIN b[s].grant => b[s].grant[i.at] # t.grant[i.at])
    BY <1>5 DEF Told
  <2>3. Writes(T, "grant", s, i.at)
    BY <1>1, <2>1, <2>2, PushedAsks
  <2>4. QED
    BY <1>5, <2>3 DEF Pending
<1>6. QED
  BY <1>2, <1>3, <1>4, <1>5 DEF Demands

\* A push that has nothing left to ask for leaves nothing pending.
LEMMA NothingPending ==
    ASSUME NEW i PROVE ~Pending({}, i)
BY DEF Pending, Writes, Asks

-----------------------------------------------------------------------------
(***************************************************************************)
(* The list shrinks in an order that keeps it sound.                       *)
(***************************************************************************)

\* Whatever is due first, the rest still fills what has been emptied.
LEMMA OrderedKept ==
    ASSUME NEW c \in Clients, todo[c] \subseteq Asked, Ordered(todo[c]), NEW r \in Due(c)
    PROVE  Ordered(todo[c] \ {r})
<1> DEFINE T == todo[c]
           U == T \ {r}
<1>0. r \in T /\ r \in Asked
  BY DEF Due
<1>1. \A on, op, s, x : Asks(U, on, op, s, x) => Asks(T, on, op, s, x)
  BY DEF Asks
<1>2. ASSUME NEW on, NEW op, NEW s, NEW x, Asks(T, on, op, s, x), ~Asks(U, on, op, s, x)
      PROVE  r.on = on /\ r.op = op
  BY <1>2 DEF Asks, Is
<1>3. ASSUME NEW q \in T, Stage(q) < Stage(r) PROVE FALSE
  BY <1>3, DueStage
<1>4. ASSUME NEW s, Asks(T, "series", "CREATE", s, s), r.on = "grant" \/ Is(r, "child", "CREATE") PROVE FALSE
  <2>1. PICK q \in T : Is(q, "series", "CREATE")
    BY <1>4 DEF Asks
  <2>2. Stage(q) = 3 /\ Stage(r) \in {5, 6}
    BY <1>0, <1>4, <2>1, Stages DEF Is
  <2>3. QED
    BY <1>3, <2>2
<1>5. ASSUME NEW s, NEW k, Asks(T, "child", "DELETE", s, k), Is(r, "child", "CREATE") PROVE FALSE
  <2>1. PICK q \in T : Is(q, "child", "DELETE")
    BY <1>5 DEF Asks
  <2>2. Stage(q) = 1 /\ Stage(r) = 5
    BY <1>0, <1>5, <2>1, Stages DEF Is
  <2>3. QED
    BY <1>3, <2>2
<1>6. ASSUME NEW s \in Series, Asks(U, "series", "CREATE", s, s)
      PROVE  /\ \A k \in Keys : target[s].child[k] # Absent => Asks(U, "child", "CREATE", s, k)
             /\ \A g \in DOMAIN target[s].grant : Writes(U, "grant", s, g)
  <2>1. Asks(T, "series", "CREATE", s, s)
    BY <1>1, <1>6
  <2>2. r.on # "grant" /\ ~(r.on = "child" /\ r.op = "CREATE")
    BY <1>4, <2>1 DEF Is
  <2>3. /\ \A k \in Keys : target[s].child[k] # Absent => Asks(T, "child", "CREATE", s, k)
        /\ \A g \in DOMAIN target[s].grant : Writes(T, "grant", s, g)
    BY <2>1 DEF Ordered
  <2>4. QED
    BY <1>2, <2>2, <2>3 DEF Writes
<1>7. ASSUME NEW s \in Series, NEW k \in Keys, Asks(U, "child", "DELETE", s, k),
             target[s] # Absent, target[s].child[k] # Absent
      PROVE  Asks(U, "child", "CREATE", s, k)
  <2>1. Asks(T, "child", "DELETE", s, k)
    BY <1>1, <1>7
  <2>2. ~(r.on = "child" /\ r.op = "CREATE")
    BY <1>5, <2>1 DEF Is
  <2>3. Asks(T, "child", "CREATE", s, k)
    BY <1>7, <2>1 DEF Ordered
  <2>4. QED
    BY <1>2, <2>2, <2>3
<1>8. QED
  BY <1>6, <1>7 DEF Ordered

\* Groups and children that a file names are those of the server.
LEMMA FileParts ==
    ASSUME target \in [Series -> Held], NEW s \in Series, target[s] # Absent
    PROVE  /\ target[s].head \in Head /\ target[s].child \in ShapedChildren
           /\ DOMAIN target[s].grant \subseteq Groups
           /\ \A g \in DOMAIN target[s].grant : target[s].grant[g] \in SUBSET Perms
<1>1. target[s] \in Definitions
  BY DEF Held
<1>2. QED
  BY <1>1, DefinitionParts DEF Grants

\* What is asked of T and no longer of the rest is what has just been asked.
LEMMA AskedLast ==
    ASSUME NEW T, NEW r, NEW on, NEW op, NEW s, NEW x, Asks(T, on, op, s, x)
    PROVE  \/ Asks(T \ {r}, on, op, s, x)
           \/ r.on = on /\ r.op = op /\ r.series = s /\ r.at = x
BY DEF Asks, Is

\* A request that is served leaves a demand unmet only if it was unmet and
\* nothing in the list was to meet it.
LEMMA ServedDemand ==
    ASSUME IInv, NEW c \in Clients, target \in [Series -> Held],
           todo[c] \subseteq Asked, Ordered(todo[c]), \A q \in todo[c] : Intended(q),
           NEW r \in Due(c), r \in Requests, Wrote(r), UNCHANGED scenario,
           NEW i \in Demands, Wrong(i)', ~Pending(todo[c] \ {r}, i)
    PROVE  Wrong(i) /\ ~Pending(todo[c], i)
<1> DEFINE s == i.series
           t == target[s]
           T == todo[c]
           U == T \ {r}
<1>1. /\ s \in Series /\ r \in T /\ Intended(r)
      /\ target' = target /\ options' = options
  BY DEF Demands, Due, scenario
<1>2. /\ r.series \in Series
      /\ r.on \in {"series", "child", "grant"}
      /\ r.op \in {"CREATE", "UPDATE", "DELETE"}
      /\ r.on = "series" => r.at = r.series
      /\ r.on = "child" => r.at \in Keys
      /\ r.on = "grant" => r.at \in Groups /\ r.op # "DELETE"
  BY RequestParts
<1>3. child[s] \in [Keys -> Child \cup {Absent}] /\ grant[s] \in [Groups -> SUBSET Perms]
  BY <1>1 DEF IInv, TypeOK
<1>4. CASE r.series # s
  <2>1. head'[s] = head[s] /\ child'[s] = child[s] /\ grant'[s] = grant[s]
    BY <1>1, <1>4 DEF Wrote
  <2>2. Wrong(i)
    BY <1>1, <2>1 DEF Wrong, Live
  <2>3. \A on, op, x : Asks(T, on, op, s, x) => Asks(U, on, op, s, x)
    BY <1>4, AskedLast
  <2>4. ~Pending(T, i)
    BY <2>3 DEF Pending, Writes
  <2>5. QED
    BY <2>2, <2>4
<1>5. ASSUME i.on = "gone", r.series = s PROVE Wrong(i) /\ ~Pending(T, i)
  <2>1. t = Absent
    BY <1>5 DEF Demands
  <2>2. Is(r, "series", "DELETE") \/ Is(r, "child", "DELETE")
    BY <1>1, <1>2, <1>5, <2>1 DEF Intended, Is
  <2>3. ~Is(r, "series", "DELETE")
    BY <1>5 DEF Wrote, Wrong, Live
  <2>4. head'[s] = head[s] /\ r.on = "child"
    BY <1>5, <2>2, <2>3 DEF Wrote, Is
  <2>5. Wrong(i)
    BY <1>5, <2>4 DEF Wrong, Live
  <2>6. Asks(T, "series", "DELETE", s, s) => Asks(U, "series", "DELETE", s, s)
    BY <2>4, AskedLast
  <2>7. QED
    BY <1>5, <2>5, <2>6 DEF Pending
<1>6. ASSUME i.on # "gone", r.series = s PROVE ~Is(r, "series", "DELETE")
  BY <1>1, <1>6 DEF Demands, Intended
<1>7. ASSUME i.on = "series", r.series = s PROVE Wrong(i) /\ ~Pending(T, i)
  <2>1. r.on # "series"
    <3>1. SUFFICES ASSUME r.on = "series" PROVE FALSE
      OBVIOUS
    <3>2. head'[s] = t.head
      BY <1>1, <1>2, <1>6, <1>7, <3>1 DEF Wrote, Is, Intended
    <3>3. QED
      BY <1>1, <1>7, <3>2 DEF Wrong
  <2>2. head'[s] = head[s]
    BY <1>7, <2>1 DEF Wrote
  <2>3. Wrong(i)
    BY <1>1, <1>7, <2>2 DEF Wrong
  <2>4. \A op : Asks(T, "series", op, s, s) => Asks(U, "series", op, s, s)
    BY <2>1, AskedLast
  <2>5. QED
    BY <1>7, <2>3, <2>4 DEF Pending, Writes
<1>8. ASSUME i.on = "child", r.series = s PROVE Wrong(i) /\ ~Pending(T, i)
  <2> DEFINE k == i.at
  <2>1. t # Absent /\ k \in Keys
    BY <1>8 DEF Demands
  <2>2. child'[s][k] # t.child[k]
    BY <1>1, <1>8 DEF Wrong
  <2>3. IF t.child[k] = Absent THEN ~Asks(U, "child", "DELETE", s, k)
        ELSE ~Asks(U, "child", "CREATE", s, k) /\ ~Asks(U, "child", "UPDATE", s, k)
    BY <1>8 DEF Pending, Writes
  <2>4. ~Is(r, "series", "CREATE")
    <3>1. SUFFICES ASSUME Is(r, "series", "CREATE") PROVE FALSE
      OBVIOUS
    <3>2. child'[s][k] = Absent
      BY <1>8, <2>1, <3>1 DEF Wrote, Childless
    <3>3. Asks(T, "series", "CREATE", s, s)
      BY <1>1, <1>2, <1>8, <3>1 DEF Asks, Is
    <3>4. Asks(T, "child", "CREATE", s, k)
      BY <1>1, <2>1, <2>2, <3>2, <3>3 DEF Ordered
    <3>5. Asks(U, "child", "CREATE", s, k)
      BY <3>1, <3>4, AskedLast DEF Is
    <3>6. QED
      BY <2>2, <2>3, <3>2, <3>5
  <2>5. ~(r.on = "child" /\ r.at = k)
    <3>1. SUFFICES ASSUME r.on = "child", r.at = k PROVE FALSE
      OBVIOUS
    <3>2. CASE r.op = "DELETE"
      <4>1. child'[s][k] = Absent
        BY <1>3, <1>8, <2>1, <3>1, <3>2 DEF Wrote, Is
      <4>2. Asks(T, "child", "DELETE", s, k)
        BY <1>1, <1>8, <3>1, <3>2 DEF Asks, Is
      <4>3. Asks(T, "child", "CREATE", s, k)
        BY <1>1, <2>1, <2>2, <4>1, <4>2 DEF Ordered
      <4>4. Asks(U, "child", "CREATE", s, k)
        BY <3>2, <4>3, AskedLast
      <4>5. QED
        BY <2>2, <2>3, <4>1, <4>4
    <3>3. CASE r.op # "DELETE"
      <4>1. child'[s][k] = r.body /\ r.body = t.child[k]
        BY <1>1, <1>3, <1>8, <2>1, <3>1, <3>3 DEF Wrote, Intended
      <4>2. QED
        BY <2>2, <4>1
    <3>4. QED
      BY <3>2, <3>3
  <2>6. child'[s][k] = child[s][k]
    <3>1. CASE r.on = "child"
      BY <1>2, <1>3, <1>8, <2>1, <2>5, <3>1 DEF Wrote, Is
    <3>2. CASE r.on # "child"
      BY <1>2, <1>6, <1>8, <2>4, <3>2 DEF Wrote, Is
    <3>3. QED
      BY <3>1, <3>2
  <2>7. Wrong(i)
    BY <1>8, <2>2, <2>6 DEF Wrong
  <2>8. \A op : Asks(T, "child", op, s, k) => Asks(U, "child", op, s, k)
    BY <2>5, AskedLast
  <2>9. QED
    BY <1>8, <2>7, <2>8 DEF Pending, Writes
<1>9. ASSUME i.on = "grant", r.series = s PROVE Wrong(i) /\ ~Pending(T, i)
  <2> DEFINE g == i.at
  <2>1. t # Absent /\ g \in DOMAIN t.grant
    BY <1>9 DEF Demands
  <2>2. g \in Groups
    BY <1>1, <2>1, FileParts
  <2>3. ~(IF options.revoke THEN grant'[s][g] = t.grant[g] ELSE t.grant[g] \subseteq grant'[s][g])
    BY <1>1, <1>9 DEF Wrong
  <2>4. ~Asks(U, "grant", "CREATE", s, g) /\ ~Asks(U, "grant", "UPDATE", s, g)
    BY <1>9 DEF Pending, Writes
  <2>5. ~Is(r, "series", "CREATE")
    <3>1. SUFFICES ASSUME Is(r, "series", "CREATE") PROVE FALSE
      OBVIOUS
    <3>2. Asks(T, "series", "CREATE", s, s)
      BY <1>1, <1>2, <1>9, <3>1 DEF Asks, Is
    <3>3. Writes(T, "grant", s, g)
      BY <1>1, <2>1, <3>2 DEF Ordered
    <3>4. QED
      BY <2>4, <3>1, <3>3, AskedLast DEF Writes, Is
  <2>6. ~(r.on = "grant" /\ r.at = g)
    <3>1. SUFFICES ASSUME r.on = "grant", r.at = g PROVE FALSE
      OBVIOUS
    <3>2. grant'[s][g] = r.body
      BY <1>3, <1>9, <2>2, <3>1 DEF Wrote
    <3>3. t.grant[g] \subseteq r.body /\ (options.revoke => r.body = t.grant[g])
      BY <1>1, <1>9, <3>1 DEF Intended
    <3>4. QED
      BY <2>3, <3>2, <3>3
  <2>7. grant'[s][g] = grant[s][g]
    <3>1. CASE r.on = "grant"
      BY <1>3, <1>9, <2>2, <2>6, <3>1 DEF Wrote
    <3>2. CASE r.on # "grant"
      BY <1>2, <1>6, <1>9, <2>5, <3>2 DEF Wrote, Is
    <3>3. QED
      BY <3>1, <3>2
  <2>8. Wrong(i)
    BY <1>9, <2>3, <2>7 DEF Wrong
  <2>9. \A op : Asks(T, "grant", op, s, g) => Asks(U, "grant", op, s, g)
    BY <2>6, AskedLast
  <2>10. QED
    BY <1>9, <2>8, <2>9 DEF Pending, Writes
<1>10. QED
  BY <1>4, <1>5, <1>7, <1>8, <1>9 DEF Demands

-----------------------------------------------------------------------------
(***************************************************************************)
(* What the steps of a client change.                                      *)
(***************************************************************************)

\* A client writes to the definitions only with a request that is served.
LEMMA RequestCases ==
    ASSUME SyncInv, NEW c \in Clients, Request(c)
    PROVE  \E r \in Due(c) :
             /\ phase[c] = "deleting" => Stage(r) <= 4
             /\ \/ Stop(c, Blame(c, r.series)) /\ ~Answered(c, r)
                \/ /\ r.op = "GET"
                   /\ todo' = [todo EXCEPT ![c] = @ \ {r}]
                   /\ UNCHANGED <<meta, listed, foreign, phase, base, unread, order, refusal>>
                \/ /\ r \in Requests /\ Wrote(r) /\ Serve(r)
                   /\ todo' = [todo EXCEPT ![c] = @ \ {r}]
                   /\ listed' = ForgetDead(listed) /\ Disturb(Clients \ {c})
                   /\ UNCHANGED <<phase, base, unread, order, refusal>>
<1>1. PICK r \in Due(c) :
         /\ phase[c] = "deleting" => Stage(r) <= 4
         /\ \/ /\ Answered(c, r)
               /\ todo' = [todo EXCEPT ![c] = @ \ {r}]
               /\ IF r.op = "GET" THEN UNCHANGED <<meta, listed, foreign>>
                  ELSE Effect(r) /\ listed' = ForgetDead(listed) /\ Disturb(Clients \ {c})
               /\ UNCHANGED <<phase, base, unread, order, refusal>>
            \/ ~Answered(c, r) /\ Stop(c, Blame(c, r.series))
  BY DEF Request
<1>2. CASE ~Answered(c, r) /\ Stop(c, Blame(c, r.series))
  BY <1>1, <1>2
<1>3. CASE Answered(c, r) /\ r.op = "GET" /\ ~Stop(c, Blame(c, r.series))
  BY <1>1, <1>3
<1>4. CASE Answered(c, r) /\ r.op # "GET"
  <2>1. r \in Requests
    BY <1>4, AskedParts DEF Due, SyncInv, ClientInv
  <2>2. /\ todo' = [todo EXCEPT ![c] = @ \ {r}]
        /\ Effect(r) /\ listed' = ForgetDead(listed) /\ Disturb(Clients \ {c})
        /\ UNCHANGED <<phase, base, unread, order, refusal>>
    BY <1>1, <1>4
  <2>3. Serve(r)
    BY <1>4, <2>2 DEF Answered, Serve
  <2>4. Wrote(r)
    BY <2>1, <2>3, ServedWrites DEF SyncInv
  <2>5. QED
    BY <1>1, <2>1, <2>2, <2>3, <2>4
<1>5. QED
  BY <1>1, <1>2, <1>3, <1>4

\* The others are as they were, but for knowing that they have been disturbed.
LEMMA OthersKeep ==
    ASSUME SyncInv, PushInv, NEW c \in Clients, ClientStep(c) \/ Fail(c), NEW d \in Clients \ {c}
    PROVE  /\ phase'[d] = phase[d] /\ base'[d] = base[d] /\ unread'[d] = unread[d]
           /\ todo'[d] = todo[d] /\ refusal'[d] = refusal[d]
           /\ \/ UNCHANGED meta /\ foreign'[d] = foreign[d] /\ listed'[d] = listed[d]
              \/ /\ ~foreign'[d] => ~foreign[d] /\ phase[d] \in {"idle", "stopped"}
                 /\ \E r \in Due(c) : r \in Requests /\ Wrote(r) /\ Serve(r)
<1>1. ASSUME NEW why, Stop(c, why)
      PROVE  /\ phase'[d] = phase[d] /\ base'[d] = base[d] /\ unread'[d] = unread[d]
             /\ todo'[d] = todo[d] /\ refusal'[d] = refusal[d]
             /\ UNCHANGED meta /\ foreign'[d] = foreign[d] /\ listed'[d] = listed[d]
  BY <1>1 DEF Stop, PushInv, ClientTypes, SyncInv, ClientInv
<1>2. CASE Request(c)
  <2>1. PICK r \in Due(c) :
             \/ Stop(c, Blame(c, r.series)) /\ ~Answered(c, r)
             \/ /\ r.op = "GET"
                /\ todo' = [todo EXCEPT ![c] = @ \ {r}]
                /\ UNCHANGED <<meta, listed, foreign, phase, base, unread, order, refusal>>
             \/ /\ r \in Requests /\ Wrote(r) /\ Serve(r)
                /\ todo' = [todo EXCEPT ![c] = @ \ {r}]
                /\ listed' = ForgetDead(listed) /\ Disturb(Clients \ {c})
                /\ UNCHANGED <<phase, base, unread, order, refusal>>
    BY <1>2, RequestCases
  <2>2. CASE Stop(c, Blame(c, r.series))
    BY <1>1, <2>2
  <2>3. CASE todo' = [todo EXCEPT ![c] = @ \ {r}] /\ UNCHANGED <<meta, listed, foreign, phase, base, unread, order, refusal>>
    BY <2>3 DEF SyncInv, ClientInv
  <2>4. CASE /\ r \in Requests /\ Wrote(r) /\ Serve(r)
             /\ todo' = [todo EXCEPT ![c] = @ \ {r}]
             /\ Disturb(Clients \ {c})
             /\ UNCHANGED <<phase, base, unread, order, refusal>>
    <3>0. todo'[d] = todo[d]
      BY <2>4 DEF SyncInv, ClientInv
    <3>1. foreign'[d] = (foreign[d] \/ phase[d] \in Working \cup {"done"})
      BY <2>4 DEF Disturb
    <3>2. ~foreign'[d] => ~foreign[d] /\ phase[d] \in {"idle", "stopped"}
      BY <3>1 DEF PushInv, ClientTypes, Phases, Working
    <3>3. QED
      BY <2>4, <3>0, <3>2
  <2>5. QED
    BY <2>1, <2>2, <2>3, <2>4
<1>3. CASE Fail(c)
  BY <1>1, <1>3 DEF Fail
<1>4. ASSUME NEW s \in Series, FetchSeries(c, s)
      PROVE  /\ phase'[d] = phase[d] /\ base'[d] = base[d] /\ unread'[d] = unread[d]
             /\ todo'[d] = todo[d] /\ refusal'[d] = refusal[d]
             /\ UNCHANGED meta /\ foreign'[d] = foreign[d] /\ listed'[d] = listed[d]
  <2>1. CASE Stop(c, Blame(c, s))
    BY <1>1, <2>1
  <2>2. CASE ~Stop(c, Blame(c, s))
    <3>1. /\ base' = [base EXCEPT ![c][s] = Definition(@.head, child[s], grant[s])]
          /\ unread' = [unread EXCEPT ![c] = @ \ {s}]
          /\ UNCHANGED <<meta, phase, listed, order, todo, foreign, refusal>>
      BY <1>4, <2>2 DEF FetchSeries
    <3>2. base'[d] = base[d] /\ unread'[d] = unread[d]
      BY <3>1 DEF SyncInv, ClientInv
    <3>3. QED
      BY <3>1, <3>2
  <2>3. QED
    BY <2>1, <2>2
<1>5. CASE FetchList(c)
  BY <1>5 DEF FetchList, PushInv, ClientTypes, SyncInv, ClientInv
<1>6. CASE Diff(c)
  BY <1>6 DEF Diff, PushInv, ClientTypes, SyncInv, ClientInv
<1>7. CASE ReadUrls(c)
  BY <1>7 DEF ReadUrls, PushInv, ClientTypes
<1>8. CASE Finish(c)
  BY <1>8 DEF Finish, PushInv, ClientTypes
<1>9. QED
  BY <1>2, <1>3, <1>4, <1>5, <1>6, <1>7, <1>8 DEF ClientStep

\* The file and the options stay.
LEMMA StepsKeepScenario ==
    ASSUME [Next]_vars
    PROVE  UNCHANGED scenario
BY DEF Next, vars, ClientStep, FetchList, FetchSeries, Diff, ReadUrls, Request, Finish, Fail,
       Edit, RunMigration

\* The clients' variables have their types at first.
LEMMA InitClientTypes == Init => ClientTypes
BY DEF Init, ClientTypes, Phases, Reasons

\* So they have when a client stops,
LEMMA StopTypes ==
    ASSUME ClientTypes, NEW c \in Clients, NEW why \in Reasons, Stop(c, why), edits' = edits
    PROVE  ClientTypes'
BY DEF ClientTypes, Stop, Phases

\* for one of the reasons a client can have,
LEMMA BlameReason ==
    ASSUME NEW c \in Clients, NEW s PROVE Blame(c, s) \in Reasons
BY DEF Blame, Reasons

\* and after every step.
LEMMA StepClientTypes ==
    ASSUME SyncInv, ClientTypes, [Next]_vars
    PROVE  ClientTypes'
<1>1. LiveSeries \in SUBSET Series
  BY DEF LiveSeries
<1>2. ASSUME UNCHANGED <<phase, refusal>>, \/ listed' = ForgetDead(listed) /\ \E D : Disturb(D)
                                          \/ UNCHANGED <<listed, foreign>>,
             edits' \in Nat
      PROVE  ClientTypes'
  BY <1>2 DEF ClientTypes, ForgetDead, Disturb
<1>3. ASSUME NEW c \in Clients, Request(c) PROVE ClientTypes'
  <2>1. PICK r \in Due(c) :
             \/ Stop(c, Blame(c, r.series))
             \/ /\ UNCHANGED <<phase, refusal>>
                /\ \/ listed' = ForgetDead(listed) /\ Disturb(Clients \ {c})
                   \/ UNCHANGED <<listed, foreign>>
    BY <1>3, RequestCases
  <2>2. edits' = edits
    BY <1>3 DEF Request
  <2>3. CASE Stop(c, Blame(c, r.series))
    BY <2>2, <2>3, StopTypes, BlameReason
  <2>4. QED
    BY <1>2, <2>1, <2>2, <2>3 DEF ClientTypes
<1>4. ASSUME NEW c \in Clients, NEW s \in Series, FetchSeries(c, s) PROVE ClientTypes'
  <2>1. edits' = edits
    BY <1>4 DEF FetchSeries
  <2>2. Stop(c, Blame(c, s)) \/ UNCHANGED <<phase, refusal, listed, foreign>>
    BY <1>4 DEF FetchSeries
  <2>3. CASE Stop(c, Blame(c, s))
    BY <2>1, <2>3, StopTypes, BlameReason
  <2>4. QED
    BY <1>2, <2>1, <2>2, <2>3 DEF ClientTypes
<1>5. ASSUME NEW c \in Clients, Fail(c) PROVE ClientTypes'
  <2>1. Stop(c, "interrupted") /\ edits' = edits
    BY <1>5 DEF Fail
  <2>2. QED
    BY <2>1, StopTypes DEF Reasons
<1>6. ASSUME NEW c \in Clients, FetchList(c) PROVE ClientTypes'
  BY <1>1, <1>6 DEF FetchList, ClientTypes, Phases, Working, Reasons
<1>7. ASSUME NEW c \in Clients, Diff(c) PROVE ClientTypes'
  BY <1>7 DEF Diff, ClientTypes, Phases, Working
<1>8. ASSUME NEW c \in Clients, ReadUrls(c) PROVE ClientTypes'
  BY <1>1, <1>8 DEF ReadUrls, ClientTypes, Phases, Working
<1>9. ASSUME NEW c \in Clients, Finish(c) PROVE ClientTypes'
  BY <1>9 DEF Finish, ClientTypes, Phases
<1>10. CASE Edit
  BY <1>2, <1>10 DEF Edit, ClientTypes
<1>11. ASSUME NEW s \in Series, RunMigration(s) PROVE ClientTypes'
  BY <1>2, <1>11 DEF RunMigration, client, ClientTypes
<1>12. CASE UNCHANGED vars
  BY <1>2, <1>12 DEF vars, client, ClientTypes
<1>13. QED
  BY <1>3, <1>4, <1>5, <1>6, <1>7, <1>8, <1>9, <1>10, <1>11, <1>12 DEF Next, ClientStep

\* No client has anything in its list at first.
LEMMA InitPushInv == Init => PushInv
<1> SUFFICES ASSUME Init PROVE PushInv
  OBVIOUS
<1>1. \A c \in Clients : todo[c] = {} /\ phase[c] = "idle"
  BY DEF Init
<1>2. Ordered({})
  BY DEF Ordered, Asks
<1>3. QED
  BY <1>1, <1>2, InitClientTypes DEF PushInv

\* A client asks only for what the file says, in an order that fills what it empties.
LEMMA StepPushInv ==
    ASSUME SyncInv, PushInv, [Next]_vars
    PROVE  PushInv'
<1>1. UNCHANGED scenario
  BY StepsKeepScenario
<1>0. ClientTypes'
  BY StepClientTypes DEF PushInv
<1>2. Ordered({})
  BY DEF Ordered, Asks
<1>3. ASSUME UNCHANGED <<phase, todo>> PROVE PushInv'
  <2>1. \A c \in Clients : \A r \in todo[c] : Intended(r)'
    BY <1>1 DEF PushInv, Intended, Exempt, scenario
  <2>2. \A c \in Clients : Ordered(todo[c])'
    BY <1>1, <1>3 DEF PushInv, Ordered, Writes, scenario
  <2>3. QED
    BY <1>0, <1>3, <2>1, <2>2 DEF PushInv
<1>4. ASSUME NEW c \in Clients, NEW T,
             todo' = [todo EXCEPT ![c] = T],
             \A d \in Clients \ {c} : phase'[d] = phase[d],
             phase'[c] \notin {"deleting", "writing"} => T = {},
             \A r \in T : Intended(r), Ordered(T)
      PROVE  PushInv'
  <2>1. todo'[c] = T /\ \A d \in Clients \ {c} : todo'[d] = todo[d]
    BY <1>4 DEF SyncInv, ClientInv
  <2>2. \A d \in Clients : \A r \in todo'[d] : Intended(r)
    BY <1>4, <2>1 DEF PushInv
  <2>3. \A d \in Clients : Ordered(todo'[d])
    BY <1>4, <2>1 DEF PushInv
  <2>4. \A d \in Clients : \A r \in todo'[d] : Intended(r)'
    BY <1>1, <2>2 DEF Intended, Exempt, scenario
  <2>5. \A d \in Clients : Ordered(todo[d])'
    BY <1>1, <2>3 DEF Ordered, Writes, scenario
  <2>6. QED
    BY <1>0, <1>4, <2>1, <2>4, <2>5 DEF PushInv
<1>5. ASSUME NEW c \in Clients, NEW why, Stop(c, why) PROVE PushInv'
  BY <1>2, <1>4, <1>5 DEF Stop, PushInv, ClientTypes
<1>6. ASSUME NEW c \in Clients, ClientStep(c) \/ Fail(c) PROVE PushInv'
  <2>1. CASE Fail(c)
    BY <1>5, <2>1 DEF Fail
  <2>2. CASE Request(c)
    <3>1. PICK r \in Due(c) :
             \/ Stop(c, Blame(c, r.series))
             \/ todo' = [todo EXCEPT ![c] = @ \ {r}] /\ phase' = phase
      BY <2>2, RequestCases
    <3>2. CASE todo' = [todo EXCEPT ![c] = @ \ {r}] /\ phase' = phase
      <4>1. Ordered(todo[c] \ {r})
        BY OrderedKept DEF PushInv, SyncInv, ClientInv
      <4>2. todo' = [todo EXCEPT ![c] = todo[c] \ {r}]
        BY <3>2
      <4>3. \A q \in todo[c] \ {r} : Intended(q)
        BY DEF PushInv
      <4>4. phase[c] \notin {"deleting", "writing"} => todo[c] \ {r} = {}
        BY DEF PushInv
      <4>5. QED
        BY <1>4, <3>2, <4>1, <4>2, <4>3, <4>4
    <3>3. QED
      BY <1>5, <3>1, <3>2
  <2>3. ASSUME NEW s \in Series, FetchSeries(c, s) PROVE PushInv'
    <3>1. Stop(c, Blame(c, s)) \/ UNCHANGED <<phase, todo>>
      BY <2>3 DEF FetchSeries
    <3>2. QED
      BY <1>3, <1>5, <3>1
  <2>4. CASE FetchList(c)
    <3>1. /\ todo[c] = {} /\ todo' = [todo EXCEPT ![c] = {}]
          /\ \A d \in Clients \ {c} : phase'[d] = phase[d]
      BY <2>4 DEF FetchList, PushInv, ClientTypes, SyncInv, ClientInv
    <3>2. QED
      BY <1>2, <1>4, <3>1
  <2>5. CASE Diff(c)
    <3>1. /\ todo' = [todo EXCEPT ![c] = Pushed(base[c], target)]
          /\ phase'[c] = "deleting"
          /\ \A d \in Clients \ {c} : phase'[d] = phase[d]
      BY <2>5 DEF Diff, PushInv, ClientTypes
    <3>2. base[c] \in [Series -> Held] /\ target \in [Series -> Held]
      BY DEF SyncInv, ClientInv
    <3>3. Ordered(Pushed(base[c], target)) /\ \A r \in Pushed(base[c], target) : Intended(r)
      BY <3>2, PushedOrdered, PushedIntended
    <3>4. QED
      BY <1>4, <3>1, <3>3
  <2>6. CASE ReadUrls(c)
    <3>1. /\ todo' = [todo EXCEPT ![c] = todo[c]]
          /\ phase'[c] = "writing"
          /\ \A d \in Clients \ {c} : phase'[d] = phase[d]
      BY <2>6 DEF ReadUrls, PushInv, ClientTypes, SyncInv, ClientInv
    <3>2. QED
      BY <1>4, <3>1 DEF PushInv
  <2>7. CASE Finish(c)
    <3>1. /\ todo[c] = {} /\ todo' = [todo EXCEPT ![c] = {}]
          /\ \A d \in Clients \ {c} : phase'[d] = phase[d]
      BY <2>7 DEF Finish, PushInv, ClientTypes, SyncInv, ClientInv
    <3>2. QED
      BY <1>2, <1>4, <3>1
  <2>8. QED
    BY <1>6, <2>1, <2>2, <2>3, <2>4, <2>5, <2>6, <2>7 DEF ClientStep
<1>7. CASE Edit
  BY <1>3, <1>7 DEF Edit
<1>8. ASSUME NEW s \in Series, RunMigration(s) PROVE PushInv'
  BY <1>3, <1>8 DEF RunMigration, client
<1>9. CASE UNCHANGED vars
  BY <1>3, <1>9 DEF vars, client
<1>10. QED
  BY <1>6, <1>7, <1>8, <1>9 DEF Next

\* So the lists of the clients are in order at all times.
LEMMA PushInductive == Spec => [](SyncInv /\ PushInv)
BY InitSyncInv, StepSyncInv, InitPushInv, StepPushInv, PTL DEF Spec

-----------------------------------------------------------------------------
(***************************************************************************)
(* Whether a client minds a demand.                                        *)
(***************************************************************************)

\* What the file demands does not change,
LEMMA DemandsKept ==
    ASSUME UNCHANGED scenario PROVE Demands' = Demands
BY DEF scenario, Demands, Exempt

\* nor does what the server does not meet,
LEMMA WrongKept ==
    ASSUME UNCHANGED <<scenario, meta>>, NEW i PROVE Wrong(i)' <=> Wrong(i)
BY DEF scenario, meta, Wrong, Live

\* nor what is yet to be asked for.
LEMMA PendingKept ==
    ASSUME UNCHANGED scenario, NEW T, NEW U, U' = T, NEW i PROVE Pending(U, i)' <=> Pending(T, i)
BY DEF scenario, Pending, Writes

\* A client that stops will begin again, and mind everything.
LEMMA StopMinds ==
    ASSUME PushInv, NEW c \in Clients, NEW why, Stop(c, why), NEW i
    PROVE  Minds(c, i)'
<1>1. phase'[c] = "stopped"
  BY DEF PushInv, ClientTypes, Stop
<1>2. QED
  BY <1>1 DEF Minds

\* What a client reads tells of every demand that is not met then.
LEMMA FetchListMinds ==
    ASSUME SyncInv, PushInv, NEW c \in Clients, FetchList(c), NEW i \in Demands, Wrong(i)
    PROVE  Minds(c, i)'
<1> DEFINE s == i.series
           d == Definition(head[s], Childless, NoGroups)
<1>1. UNCHANGED scenario /\ s \in Series
  BY DEF FetchList, Demands
<1>2. /\ phase'[c] = "fetching"
      /\ unread'[c] = LiveSeries
      /\ base'[c][s] = IF Live(s) THEN d ELSE Absent
  BY <1>1 DEF FetchList, PushInv, ClientTypes, SyncInv, ClientInv
<1>3. Live(s) => d # Absent /\ d.head = head[s]
  <2>1. Live(s) => head[s] \in Head
    BY <1>1 DEF SyncInv, IInv, TypeOK, Live
  <2>2. d.head = head[s]
    BY DEF Definition
  <2>3. QED
    BY <2>1, <2>2, NoneParts, DefinitionMade
<1>4. Live(s) <=> s \in LiveSeries
  BY <1>1 DEF LiveSeries
<1> HIDE DEF d
<1>5. Told(base'[c], unread'[c], i)
  <2>1. CASE i.on = "gone"
    BY <1>2, <1>3, <2>1 DEF Told, Wrong
  <2>2. CASE i.on = "series"
    BY <1>2, <1>3, <2>2 DEF Told, Wrong
  <2>3. CASE i.on = "child"
    <3>1. i.at \in Keys /\ child[s][i.at] # target[s].child[i.at]
      BY <2>3 DEF Demands, Wrong
    <3>2. ~Live(s) => child[s][i.at] = Absent
      BY <1>1, <3>1 DEF SyncInv, IInv, NoOrphans, Has
    <3>3. QED
      BY <1>2, <1>4, <2>3, <3>1, <3>2 DEF Told
  <2>4. CASE i.on = "grant"
    BY <1>2, <1>4, <2>4 DEF Told
  <2>5. QED
    BY <2>1, <2>2, <2>3, <2>4 DEF Demands
<1>6. Told(base[c], unread[c], i)'
  BY <1>1, <1>5 DEF Told, scenario
<1>7. QED
  BY <1>2, <1>6 DEF Minds

\* Nor is a demand lost when a data series is read.
LEMMA FetchSeriesMinds ==
    ASSUME SyncInv, PushInv, NEW c \in Clients, NEW x \in Series, FetchSeries(c, x),
           NEW i \in Demands, Wrong(i), Minds(c, i)
    PROVE  Minds(c, i)'
<1> DEFINE s == i.series
           d == Definition(base[c][x].head, child[x], grant[x])
<1>1. UNCHANGED scenario /\ s \in Series
  BY DEF FetchSeries, Demands
<1>2. CASE Stop(c, Blame(c, x))
  BY <1>2, StopMinds
<1>3. CASE ~Stop(c, Blame(c, x))
  <2>1. /\ base' = [base EXCEPT ![c][x] = d]
        /\ unread' = [unread EXCEPT ![c] = @ \ {x}]
        /\ phase' = phase /\ phase[c] = "fetching"
    BY <1>3 DEF FetchSeries
  <2>2. /\ unread'[c] = unread[c] \ {x}
        /\ base'[c] = [base[c] EXCEPT ![x] = d]
    BY <2>1 DEF SyncInv, ClientInv
  <2>3. base'[c][x] = d /\ \A y \in Series \ {x} : base'[c][y] = base[c][y]
    BY <2>2 DEF SyncInv, ClientInv
  <2>4. base[c][x] \in Definitions
    BY DEF FetchSeries, SyncInv, ClientInv, Held
  <2>5. d # Absent
    <3>1. child[x] \in ShapedChildren
      BY DEF SyncInv, IInv, TypeOK, ChildrenShaped, Has, ShapedChildren
    <3>2. grant[x] \in Grants
      BY DEF SyncInv, IInv, TypeOK, Grants
    <3>3. QED
      BY <2>4, <3>1, <3>2, DefinitionParts, DefinitionMade
  <2>6. d.head = base[c][x].head /\ d.child = child[x] /\ d.grant = grant[x]
    BY DEF Definition
  <2>7. base[c][x] # Absent
    BY <2>4, ScenariosAssumption
  <2>8. todo[c] = {}
    BY <2>1 DEF PushInv
  <2>9. Told(base[c], unread[c], i)
    BY <2>1, <2>8, NothingPending DEF Minds
  <2> HIDE DEF d
  <2>10. Told(base'[c], unread'[c], i)
    <3>1. CASE s # x
      BY <1>1, <2>2, <2>3, <2>9, <3>1 DEF Told
    <3>2. CASE s = x /\ i.on \in {"gone", "series"}
      BY <2>3, <2>5, <2>6, <2>7, <2>9, <3>2 DEF Told
    <3>3. CASE s = x /\ i.on = "child"
      BY <2>3, <2>5, <2>6, <3>3 DEF Told, Wrong
    <3>4. CASE s = x /\ i.on = "grant"
      <4>1. grant[s][i.at] # target[s].grant[i.at]
        BY <3>4 DEF Wrong
      <4>2. QED
        BY <2>3, <2>5, <2>6, <3>4, <4>1 DEF Told
    <3>5. QED
      BY <3>1, <3>2, <3>3, <3>4 DEF Demands
  <2>11. Told(base[c], unread[c], i)'
    BY <1>1, <2>10 DEF Told, scenario
  <2>12. QED
    BY <2>1, <2>11 DEF Minds
<1>4. QED
  BY <1>2, <1>3

\* When a client has made a step, it minds every demand that is not met unless it
\* was not met before and the client did not mind it then.
LEMMA StepMinds ==
    ASSUME SyncInv, PushInv, NEW c \in Clients, ClientStep(c) \/ Fail(c), UNCHANGED scenario,
           NEW i \in Demands, Wrong(i)', ~Minds(c, i)'
    PROVE  Wrong(i) /\ ~Minds(c, i)
<1>1. CASE Fail(c)
  BY <1>1, StopMinds DEF Fail
<1>2. CASE Request(c)
  <2>1. PICK r \in Due(c) :
             \/ Stop(c, Blame(c, r.series))
             \/ /\ todo' = [todo EXCEPT ![c] = @ \ {r}]
                /\ UNCHANGED <<meta, phase>>
                /\ r.op = "GET"
             \/ /\ r \in Requests /\ Wrote(r)
                /\ todo' = [todo EXCEPT ![c] = @ \ {r}]
                /\ UNCHANGED phase
    BY <1>2, RequestCases
  <2>2. ~Stop(c, Blame(c, r.series))
    BY StopMinds
  <2>3. todo[c]' = todo[c] \ {r} /\ phase' = phase
    BY <2>1, <2>2 DEF SyncInv, ClientInv
  <2>4. ~Pending(todo[c] \ {r}, i)
    <3>1. ~Pending(todo[c], i)'
      BY DEF Minds
    <3>2. QED
      BY <2>3, <3>1 DEF Pending, Writes, scenario
  <2>5. Wrong(i) /\ ~Pending(todo[c], i)
    <3>1. CASE r.op = "GET" /\ UNCHANGED meta
      <4>1. Wrong(i)
        BY <3>1, WrongKept
      <4>2. \A on, op, s, x : op # "GET" /\ Asks(todo[c], on, op, s, x) => Asks(todo[c] \ {r}, on, op, s, x)
        BY <3>1, AskedLast
      <4>3. QED
        BY <2>4, <4>1, <4>2 DEF Pending, Writes
    <3>2. CASE r \in Requests /\ Wrote(r)
      <4>1. /\ IInv /\ target \in [Series -> Held] /\ todo[c] \subseteq Asked
            /\ Ordered(todo[c]) /\ \A q \in todo[c] : Intended(q)
        BY DEF SyncInv, ClientInv, PushInv
      <4>2. QED
        BY <2>4, <3>2, <4>1, ServedDemand
    <3>3. QED
      BY <2>1, <2>2, <3>1, <3>2
  <2>6. phase[c] \in {"deleting", "writing"}
    BY <1>2 DEF Request
  <2>7. QED
    BY <2>5, <2>6 DEF Minds
<1>3. CASE FetchList(c)
  <2>1. UNCHANGED meta
    BY <1>3 DEF FetchList
  <2>2. QED
    BY <1>3, <2>1, WrongKept, FetchListMinds
<1>4. ASSUME NEW s \in Series, FetchSeries(c, s) PROVE Wrong(i) /\ ~Minds(c, i)
  <2>1. UNCHANGED meta
    BY <1>4 DEF FetchSeries, Stop
  <2>2. Wrong(i)
    BY <2>1, WrongKept
  <2>3. QED
    BY <1>4, <2>2, FetchSeriesMinds
<1>5. CASE Diff(c)
  <2>1. UNCHANGED meta
    BY <1>5 DEF Diff
  <2>2. Wrong(i)
    BY <2>1, WrongKept
  <2>3. todo[c]' = Pushed(base[c], target) /\ todo[c] = {} /\ unread[c] = {} /\ phase[c] = "fetching"
    BY <1>5 DEF Diff, SyncInv, ClientInv, PushInv
  <2>4. ~Pending(Pushed(base[c], target), i)
    <3>1. ~Pending(todo[c], i)'
      BY DEF Minds
    <3>2. QED
      BY <2>3, <3>1 DEF Pending, Writes, scenario
  <2>5. ~Told(base[c], {}, i)
    BY <2>4, PushedTold
  <2>6. QED
    BY <2>2, <2>3, <2>5, NothingPending DEF Minds
<1>6. CASE ReadUrls(c) \/ Finish(c)
  <2>1. /\ UNCHANGED <<meta, todo>> /\ phase[c] \in {"deleting", "writing"}
    BY <1>6 DEF ReadUrls, Finish
  <2>2. Wrong(i)
    BY <2>1, WrongKept
  <2>3. ~Pending(todo[c], i)
    <3>1. ~Pending(todo[c], i)'
      BY DEF Minds
    <3>2. QED
      BY <2>1, <3>1 DEF Pending, Writes, scenario
  <2>4. QED
    BY <2>1, <2>2, <2>3 DEF Minds
<1>7. QED
  BY <1>1, <1>2, <1>3, <1>4, <1>5, <1>6 DEF ClientStep

\* The others mind what they minded.
LEMMA OthersMind ==
    ASSUME SyncInv, PushInv, NEW c \in Clients, ClientStep(c) \/ Fail(c), UNCHANGED scenario,
           NEW d \in Clients \ {c}, NEW i
    PROVE  Minds(d, i)' <=> Minds(d, i)
<1>1. phase'[d] = phase[d] /\ base'[d] = base[d] /\ unread'[d] = unread[d] /\ todo'[d] = todo[d]
  BY OthersKeep
<1>2. QED
  BY <1>1 DEF Minds, Told, Pending, Writes, scenario

\* Steps that are not of a client leave what all of them know.
LEMMA NobodyMinds ==
    ASSUME UNCHANGED <<scenario, phase, base, unread, todo>>, NEW c \in Clients, NEW i
    PROVE  Minds(c, i)' <=> Minds(c, i)
BY DEF Minds, Told, Pending, Writes, scenario

-----------------------------------------------------------------------------

\* Every client has yet to begin at first.
LEMMA InitUndisturbed == Init => UndisturbedInv
BY DEF Init, UndisturbedInv, Minds

\* A client that nobody disturbs minds every demand that is not met.
LEMMA StepUndisturbed ==
    ASSUME SyncInv, PushInv, UndisturbedInv, [Next]_vars
    PROVE  UndisturbedInv'
<1>1. UNCHANGED scenario
  BY StepsKeepScenario
<1> SUFFICES ASSUME NEW d \in Clients, ~foreign'[d], NEW i \in Demands, Wrong(i)'
             PROVE  Minds(d, i)'
  BY <1>1, DemandsKept DEF UndisturbedInv
<1>2. ASSUME NEW c \in Clients, ClientStep(c) \/ Fail(c) PROVE Minds(d, i)'
  <2>1. CASE d = c
    <3>1. foreign[c] => foreign'[c] \/ Minds(c, i)'
      <4>1. ASSUME NEW why, Stop(c, why) PROVE Minds(c, i)'
        BY <4>1, StopMinds
      <4>2. CASE Request(c)
        <5>1. PICK r \in Due(c) : \/ Stop(c, Blame(c, r.series))
                                  \/ UNCHANGED foreign \/ Disturb(Clients \ {c})
          BY <4>2, RequestCases
        <5>2. QED
          BY <4>1, <5>1 DEF Disturb
      <4>3. QED
        BY <1>2, <4>1, <4>2 DEF ClientStep, Fail, FetchList, FetchSeries, Diff, ReadUrls, Finish
    <3>2. CASE foreign[c]
      BY <2>1, <3>1, <3>2
    <3>3. CASE ~foreign[c]
      BY <1>1, <1>2, <2>1, <3>3, StepMinds DEF UndisturbedInv
    <3>4. QED
      BY <3>2, <3>3
  <2>2. CASE d # c
    <3>1. \/ UNCHANGED meta /\ foreign'[d] = foreign[d]
          \/ phase[d] \in {"idle", "stopped"}
      BY <1>2, <2>2, OthersKeep
    <3>2. CASE UNCHANGED meta /\ foreign'[d] = foreign[d]
      <4>1. Wrong(i)
        BY <1>1, <3>2, WrongKept
      <4>2. Minds(d, i)
        BY <3>2, <4>1 DEF UndisturbedInv
      <4>3. QED
        BY <1>1, <1>2, <2>2, <4>2, OthersMind
    <3>3. CASE phase[d] \in {"idle", "stopped"}
      <4>1. Minds(d, i)
        BY <3>3 DEF Minds
      <4>2. QED
        BY <1>1, <1>2, <2>2, <4>1, OthersMind
    <3>4. QED
      BY <3>1, <3>2, <3>3
  <2>3. QED
    BY <2>1, <2>2
<1>3. CASE Edit
  <2>1. foreign'[d] = (foreign[d] \/ phase[d] \in Working \cup {"done"})
    BY <1>3 DEF Edit, Disturb
  <2>2. phase[d] \in {"idle", "stopped"}
    BY <2>1 DEF PushInv, ClientTypes, Phases
  <2>3. QED
    BY <1>1, <1>3, <2>2 DEF Edit, Minds
<1>4. ASSUME NEW s \in Series, RunMigration(s) PROVE Minds(d, i)'
  <2>1. UNCHANGED <<head, child, grant, client>>
    BY <1>4 DEF RunMigration, Migrate
  <2>2. Wrong(i)
    BY <1>1, <2>1 DEF Wrong, Live, scenario
  <2>3. Minds(d, i)
    BY <2>1, <2>2 DEF UndisturbedInv, client
  <2>4. QED
    BY <1>1, <2>1, <2>3, NobodyMinds DEF client
<1>5. CASE UNCHANGED vars
  <2>1. UNCHANGED <<meta, client>>
    BY <1>5 DEF vars
  <2>2. Wrong(i)
    BY <1>1, <2>1, WrongKept
  <2>3. Minds(d, i)
    BY <2>1, <2>2 DEF UndisturbedInv, client
  <2>4. QED
    BY <1>1, <2>1, <2>3, NobodyMinds DEF client
<1>6. QED
  BY <1>2, <1>3, <1>4, <1>5 DEF Next

\* A data series matches the file when it meets all demands.
LEMMA DemandsMet ==
    ASSUME target \in [Series -> Held], NEW s \in Series,
           \A i \in Demands : i.series = s => ~Wrong(i)
    PROVE  Matches(s)
<1> DEFINE Item(on, x) == [on |-> on, series |-> s, at |-> x]
           t == target[s]
<1>1. ASSUME NEW on \in {"gone", "series", "child", "grant"}, NEW x \in Series \cup Keys \cup Groups,
             Item(on, x) \in Demands
      PROVE  ~Wrong(Item(on, x))
  BY <1>1
<1>2. CASE t = Absent
  <2>1. SUFFICES ASSUME options.delete_in_base PROVE ~Live(s)
    BY <1>2 DEF Matches
  <2>2. Item("gone", s) \in Demands
    BY <1>2, <2>1 DEF Demands
  <2>3. ~Wrong(Item("gone", s))
    BY <1>1, <2>2
  <2>4. QED
    BY <2>3 DEF Wrong
<1>3. CASE t # Absent
  <2>1. head[s] = t.head
    <3>1. Item("series", s) \in Demands
      BY <1>3 DEF Demands
    <3>2. ~Wrong(Item("series", s))
      BY <1>1, <3>1
    <3>3. QED
      BY <3>2 DEF Wrong
  <2>2. ASSUME NEW k \in Keys, ~Exempt(s, k) PROVE child[s][k] = t.child[k]
    <3>1. Item("child", k) \in Demands
      BY <1>3, <2>2 DEF Demands
    <3>2. ~Wrong(Item("child", k))
      BY <1>1, <3>1
    <3>3. QED
      BY <3>2 DEF Wrong
  <2>3. ASSUME NEW g \in DOMAIN t.grant
        PROVE  IF options.revoke THEN grant[s][g] = t.grant[g] ELSE t.grant[g] \subseteq grant[s][g]
    <3>1. g \in Groups
      BY <1>3, FileParts
    <3>2. Item("grant", g) \in Demands
      BY <1>3, <3>1 DEF Demands
    <3>3. ~Wrong(Item("grant", g))
      BY <1>1, <3>1, <3>2
    <3>4. QED
      BY <3>3 DEF Wrong
  <2>4. QED
    BY <1>3, <2>1, <2>2, <2>3 DEF Matches, Exempt
<1>4. QED
  BY <1>2, <1>3

\* Done means that nothing is minded any more.
LEMMA DoneMindsNothing ==
    ASSUME PushInv, NEW c \in Clients, phase[c] = "done", NEW i
    PROVE  ~Minds(c, i)
<1>1. todo[c] = {}
  BY DEF PushInv
<1>2. QED
  BY <1>1, NothingPending DEF Minds

\* A push that ends undisturbed has made the server what the file says, whatever
\* the two were, wherever earlier pushes were interrupted, in whatever order the
\* data series come, and whatever other clients read or fail meanwhile.
THEOREM UndisturbedPushIsExact == Spec => []UndisturbedIsExact
<1>1. SyncInv /\ PushInv /\ UndisturbedInv => UndisturbedIsExact
  <2> SUFFICES ASSUME SyncInv, PushInv, UndisturbedInv,
                      NEW c \in Clients, phase[c] = "done", ~foreign[c], NEW s \in Series
               PROVE  Matches(s)
    BY DEF UndisturbedIsExact
  <2>1. \A i \in Demands : ~Wrong(i)
    BY DoneMindsNothing DEF UndisturbedInv
  <2>2. target \in [Series -> Held]
    BY DEF SyncInv, ClientInv
  <2>3. QED
    BY <2>1, <2>2, DemandsMet
<1>2. QED
  BY <1>1, PushInductive, InitUndisturbed, StepUndisturbed, PTL DEF Spec

-----------------------------------------------------------------------------
(***************************************************************************)
(* What a file keeps.                                                      *)
(***************************************************************************)

\* Nobody edits backwards.
LEMMA EditsGrow ==
    ASSUME PushInv, [Next]_vars, edits' = 0
    PROVE  edits = 0 /\ ~Edit
<1>1. edits \in Nat
  BY DEF PushInv, ClientTypes
<1>2. ~Edit
  BY <1>1 DEF Edit
<1>3. edits' = edits
  BY <1>2 DEF Next, vars, ClientStep, FetchList, FetchSeries, Diff, ReadUrls, Request, Finish, Fail,
              RunMigration
<1>4. QED
  BY <1>2, <1>3

\* At first nothing has been deleted.
LEMMA InitKept == Init => KeptInv
<1> SUFFICES ASSUME Init PROVE KeptInv
  OBVIOUS
<1>1. origin \in [Series -> Held] /\ target \in [Series -> Held] /\ Complete(origin)
  BY ScenariosAssumption DEF Init, Held
<1>2. ASSUME NEW s \in Series, KeptSeries(s) PROVE Live(s)
  <2>1. origin[s].head \in Head
    BY <1>1, <1>2, DefinitionParts DEF KeptSeries, Held
  <2>2. head[s] = origin[s].head
    BY <1>2 DEF Init, KeptSeries
  <2>3. QED
    BY <2>1, <2>2, AbsentAssumption DEF Live
<1>3. ASSUME NEW s \in Series, NEW k \in Keys, KeptChild(s, k) PROVE Keeps(s, k, child[s])
  <2>1. child[s] = origin[s].child
    BY <1>3 DEF Init, KeptChild
  <2>2. QED
    BY <1>3, <2>1 DEF Keeps, KeptChild
<1>4. QED
  BY <1>2, <1>3 DEF Init, KeptInv

\* Nothing that a push asks for takes away what is kept.
LEMMA KeptServed ==
    ASSUME IInv, NEW r \in Requests, Wrote(r), Intended(r),
           Is(r, "series", "DELETE") => ~KeptSeries(r.series),
           Is(r, "child", "DELETE") => ~KeptChild(r.series, r.at),
           NEW s \in Series
    PROVE  /\ KeptSeries(s) /\ Live(s) => Live(s)'
           /\ \A k \in Keys : KeptChild(s, k) /\ Keeps(s, k, child[s]) => Keeps(s, k, child'[s])
<1>1. /\ r.on \in {"series", "child", "grant"} /\ r.op \in {"CREATE", "UPDATE", "DELETE"}
      /\ r.on = "series" => r.body \in Head
      /\ r.on = "child" => r.at \in Keys
      /\ r.on = "child" => Shaped(r.at, r.body)
  BY RequestParts
<1>2. KeptSeries(s) /\ Live(s) => Live(s)'
  BY <1>1, AbsentAssumption DEF Wrote, Live, Is
<1>3. ASSUME NEW k \in Keys, KeptChild(s, k), Keeps(s, k, child[s]) PROVE Keeps(s, k, child'[s])
  <2>1. Has(s, k) /\ Live(s)
    BY <1>3 DEF Keeps, Has, IInv, NoOrphans
  <2>2. CASE r.series # s
    BY <1>3, <2>2 DEF Wrote, Keeps
  <2>3. CASE r.series = s /\ r.on # "child"
    <3>1. KeptSeries(s)
      BY <1>3 DEF KeptSeries, KeptChild
    <3>2. child'[s] = child[s]
      BY <1>1, <2>1, <2>3, <3>1 DEF Wrote, Is
    <3>3. QED
      BY <1>3, <3>2
  <2>4. CASE r.series = s /\ r.on = "child"
    <3>1. child[s] \in [Keys -> Child \cup {Absent}]
      BY DEF IInv, TypeOK
    <3>2. CASE r.at # k
      <4>1. child'[s][k] = child[s][k]
        BY <1>1, <2>4, <3>1, <3>2 DEF Wrote, Is
      <4>2. QED
        BY <1>3, <4>1 DEF Keeps
    <3>3. CASE r.at = k
      <4>1. r.op # "DELETE"
        BY <1>3, <2>4, <3>3 DEF Is
      <4>2. child'[s][k] = r.body
        BY <2>4, <3>1, <3>3, <4>1 DEF Wrote
      <4>3. r.body = target[s].child[k] /\ target[s].child[k] # Absent
        BY <2>4, <3>3, <4>1 DEF Intended
      <4>4. QED
        BY <4>2, <4>3 DEF Keeps
    <3>4. QED
      BY <3>2, <3>3
  <2>5. QED
    BY <2>2, <2>3, <2>4
<1>4. QED
  BY <1>2, <1>3

\* A push asks for no deletion of what was kept when it was fetched.
LEMMA KeptPushed ==
    ASSUME target \in [Series -> Held], NEW b \in [Series -> Held], NEW r \in Pushed(b, target),
           \A k \in Keys : KeptChild(r.series, k) => Keeps(r.series, k, b[r.series].child)
    PROVE  /\ Is(r, "series", "DELETE") => ~KeptSeries(r.series)
           /\ Is(r, "child", "DELETE") => ~KeptChild(r.series, r.at)
<1> DEFINE s == r.series
           k == r.at
<1>1. Meant(b, r)
  BY PushedMeant
<1>2. r \in Asked
  BY PushedAsked
<1>3. Is(r, "series", "DELETE") => ~KeptSeries(s)
  BY <1>1 DEF Meant, KeptSeries
<1>4. ASSUME Is(r, "child", "DELETE"), KeptChild(s, k) PROVE FALSE
  <2>1. k \in Keys
    BY <1>2, <1>4, AskedParts, RequestParts DEF Is
  <2>2. Keeps(s, k, b[s].child)
    BY <1>4, <2>1
  <2>3. Recreated(k, b[s].child[k], target[s].child[k])
    BY <1>1, <1>4 DEF Meant, KeptChild
  <2>4. QED
    BY <2>2, <2>3 DEF Keeps, Recreated
<1>5. QED
  BY <1>3, <1>4

\* While nobody edits, what a file keeps is there, in what clients have fetched too.
LEMMA StepKept ==
    ASSUME SyncInv, PushInv, KeptInv, [Next]_vars
    PROVE  KeptInv'
<1>1. /\ UNCHANGED scenario
      /\ origin' = origin /\ target' = target /\ options' = options
  BY StepsKeepScenario DEF scenario
<1> SUFFICES ASSUME edits' = 0 PROVE KeptInv'
  BY DEF KeptInv
<1>2. edits = 0 /\ ~Edit
  BY EditsGrow
<1>3. /\ \A s \in Series : KeptSeries(s)' <=> KeptSeries(s)
      /\ \A s \in Series, k \in Keys : KeptChild(s, k)' <=> KeptChild(s, k)
  BY <1>1 DEF KeptSeries, KeptChild
<1> DEFINE There(s) == /\ KeptSeries(s) => Live(s)
                       /\ \A k \in Keys : KeptChild(s, k) => Keeps(s, k, child[s])
           Fetched(c, s) == phase[c] = "fetching" /\ KeptSeries(s) =>
                               /\ base[c][s] # Absent
                               /\ s \notin unread[c] =>
                                     \A k \in Keys : KeptChild(s, k) => Keeps(s, k, base[c][s].child)
           Spared(r) == /\ Is(r, "series", "DELETE") => ~KeptSeries(r.series)
                        /\ Is(r, "child", "DELETE") => ~KeptChild(r.series, r.at)
<1>4. /\ \A s \in Series : There(s)
      /\ \A c \in Clients, s \in Series : Fetched(c, s)
      /\ \A c \in Clients : \A r \in todo[c] : Spared(r)
  BY <1>2 DEF KeptInv
<1>5. SUFFICES /\ \A s \in Series : There(s)'
               /\ \A c \in Clients, s \in Series : Fetched(c, s)'
               /\ \A c \in Clients : \A r \in todo'[c] : Spared(r)
  <2>1. \A c \in Clients : \A r \in todo'[c] : r \in Asked
    BY StepSyncInv DEF SyncInv, ClientInv
  <2>2. \A r : Spared(r)' <=> Spared(r)
    BY <1>1 DEF KeptSeries, KeptChild
  <2> HIDE DEF Spared
  <2>3. (\A c \in Clients : \A r \in todo'[c] : Spared(r)) => (\A c \in Clients : \A r \in todo[c] : Spared(r))'
    BY <2>2
  <2> USE DEF Spared
  <2>4. QED
    BY <2>3 DEF KeptInv
<1>6. ASSUME UNCHANGED <<head, child>> PROVE \A s \in Series : There(s)'
  BY <1>1, <1>4, <1>6 DEF KeptSeries, KeptChild, Keeps, Live
<1>7. ASSUME NEW d \in Clients, UNCHANGED <<phase[d], base[d], unread[d], todo[d]>>
      PROVE  (\A s \in Series : Fetched(d, s)') /\ (\A r \in todo'[d] : Spared(r))
  <2>1. ASSUME NEW s \in Series PROVE Fetched(d, s)'
    <3>1. Fetched(d, s)
      BY <1>4
    <3>2. QED
      BY <1>1, <1>7, <3>1 DEF KeptSeries, KeptChild, Keeps
  <2>2. \A r \in todo'[d] : Spared(r)
    BY <1>4, <1>7
  <2>3. QED
    BY <2>1, <2>2
<1>8. ASSUME NEW d \in Clients, NEW why, Stop(d, why)
      PROVE  (\A s \in Series : Fetched(d, s)') /\ (\A r \in todo'[d] : Spared(r))
  <2>1. phase'[d] = "stopped" /\ todo'[d] = {}
    BY <1>8 DEF Stop, PushInv, ClientTypes, SyncInv, ClientInv
  <2>2. QED
    BY <2>1
<1>9. ASSUME NEW c \in Clients, ClientStep(c) \/ Fail(c)
      PROVE  /\ \A s \in Series : There(s)'
             /\ \A d \in Clients, s \in Series : Fetched(d, s)'
             /\ \A d \in Clients : \A r \in todo'[d] : Spared(r)
  <2>1. \A d \in Clients \ {c} : (\A s \in Series : Fetched(d, s)') /\ (\A r \in todo'[d] : Spared(r))
    <3> SUFFICES ASSUME NEW d \in Clients \ {c}
                 PROVE  (\A s \in Series : Fetched(d, s)') /\ (\A r \in todo'[d] : Spared(r))
      OBVIOUS
    <3>1. UNCHANGED <<phase[d], base[d], unread[d], todo[d]>>
      BY <1>9, OthersKeep
    <3>2. QED
      BY <1>7, <3>1
  <2>2. SUFFICES /\ \A s \in Series : There(s)'
                 /\ \A s \in Series : Fetched(c, s)'
                 /\ \A r \in todo'[c] : Spared(r)
    BY <2>1
  <2>3. CASE Fail(c)
    <3>1. Stop(c, "interrupted") /\ UNCHANGED <<head, child>>
      BY <2>3 DEF Fail, Stop, meta
    <3>2. QED
      BY <1>6, <1>8, <3>1
  <2>4. CASE Request(c)
    <3>1. PICK r \in Due(c) :
             \/ Stop(c, Blame(c, r.series))
             \/ /\ todo' = [todo EXCEPT ![c] = @ \ {r}]
                /\ UNCHANGED <<meta, phase, base, unread>>
             \/ /\ r \in Requests /\ Wrote(r)
                /\ todo' = [todo EXCEPT ![c] = @ \ {r}]
                /\ UNCHANGED <<phase, base, unread>>
      BY <2>4, RequestCases
    <3>2. CASE Stop(c, Blame(c, r.series))
      <4>1. UNCHANGED <<head, child>>
        BY <3>2 DEF Stop, meta
      <4>2. QED
        BY <1>6, <1>8, <3>2, <4>1
    <3>3. CASE todo' = [todo EXCEPT ![c] = @ \ {r}] /\ UNCHANGED <<phase, base, unread>>
      <4>1. phase[c] # "fetching"
        BY <2>4 DEF Request
      <4>2. \A s \in Series : Fetched(c, s)'
        BY <3>3, <4>1
      <4>3. \A q \in todo'[c] : Spared(q)
        BY <1>4, <3>3 DEF SyncInv, ClientInv
      <4>4. CASE UNCHANGED meta
        BY <1>6, <4>2, <4>3, <4>4 DEF meta
      <4>5. CASE r \in Requests /\ Wrote(r)
        <5>1. r \in todo[c] /\ Intended(r) /\ Spared(r)
          BY <1>4 DEF Due, PushInv
        <5>2. ASSUME NEW s \in Series
              PROVE  /\ KeptSeries(s) /\ Live(s) => Live(s)'
                     /\ \A k \in Keys : KeptChild(s, k) /\ Keeps(s, k, child[s]) => Keeps(s, k, child'[s])
          BY <4>5, <5>1, KeptServed DEF SyncInv
        <5>3. \A s \in Series : There(s)'
          BY <1>1, <1>3, <1>4, <5>2 DEF Keeps
        <5>4. QED
          BY <4>2, <4>3, <5>3
      <4>6. QED
        BY <3>1, <3>3, <4>4, <4>5, <4>2, <4>3, <1>6 DEF meta, Stop
    <3>4. QED
      BY <3>1, <3>2, <3>3
  <2>5. ASSUME NEW x \in Series, FetchSeries(c, x)
        PROVE  /\ \A s \in Series : There(s)'
               /\ \A s \in Series : Fetched(c, s)'
               /\ \A r \in todo'[c] : Spared(r)
    <3>1. UNCHANGED <<head, child>>
      BY <2>5 DEF FetchSeries, Stop, meta
    <3>2. CASE Stop(c, Blame(c, x))
      BY <1>6, <1>8, <3>1, <3>2
    <3>3. CASE ~Stop(c, Blame(c, x))
      <4> DEFINE d == Definition(base[c][x].head, child[x], grant[x])
      <4>1. /\ base' = [base EXCEPT ![c][x] = d]
            /\ unread' = [unread EXCEPT ![c] = @ \ {x}]
            /\ UNCHANGED <<phase, todo>> /\ x \in unread[c]
        BY <2>5, <3>3 DEF FetchSeries
      <4>2. base'[c] = [base[c] EXCEPT ![x] = d] /\ unread'[c] = unread[c] \ {x}
        BY <4>1 DEF SyncInv, ClientInv
      <4>3. base'[c][x] = d /\ \A y \in Series \ {x} : base'[c][y] = base[c][y]
        BY <4>2 DEF SyncInv, ClientInv
      <4>4. d.child = child[x]
        BY DEF Definition
      <4>5. d # Absent
        <5>1. base'[c][x] # Absent \/ Definition(base[c][x].head, child[x], grant[x]) # Absent
          <6>1. base[c][x] \in Definitions
            BY <4>1 DEF SyncInv, ClientInv, Held
          <6>2. child[x] \in ShapedChildren
            BY DEF SyncInv, IInv, TypeOK, ChildrenShaped, Has, ShapedChildren
          <6>3. grant[x] \in Grants
            BY DEF SyncInv, IInv, TypeOK, Grants
          <6>4. QED
            BY <6>1, <6>2, <6>3, DefinitionParts, DefinitionMade
        <5>2. QED
          BY <4>3, <5>1
      <4> HIDE DEF d
      <4>6. ASSUME NEW s \in Series PROVE Fetched(c, s)'
        <5>1. CASE s = x
          <6>1. base'[c][s] # Absent /\ base'[c][s].child = child[s]
            BY <4>3, <4>4, <4>5, <5>1
          <6>2. ASSUME NEW k \in Keys, KeptChild(s, k)' PROVE Keeps(s, k, base[c][s].child)'
            <7>1. Keeps(s, k, child[s])
              BY <1>3, <1>4, <6>2
            <7>2. QED
              BY <1>1, <6>1, <7>1 DEF Keeps
          <6>3. QED
            BY <6>1, <6>2
        <5>2. CASE s # x
          <6>1. base'[c][s] = base[c][s] /\ (s \notin unread'[c] => s \notin unread[c])
            BY <4>2, <4>3, <5>2
          <6>2. phase'[c] = phase[c] /\ Fetched(c, s)
            BY <1>4, <4>1
          <6>3. QED
            BY <1>1, <6>1, <6>2 DEF KeptSeries, KeptChild, Keeps
        <5>3. QED
          BY <5>1, <5>2
      <4>7. \A r \in todo'[c] : Spared(r)
        BY <1>4, <4>1
      <4>8. QED
        BY <1>6, <3>1, <4>6, <4>7
    <3>4. QED
      BY <3>2, <3>3
  <2>6. CASE FetchList(c)
    <3>1. UNCHANGED <<head, child>>
      BY <2>6 DEF FetchList, meta
    <3>2. todo'[c] = {}
      BY <2>6 DEF FetchList, PushInv
    <3>3. ASSUME NEW s \in Series PROVE Fetched(c, s)'
      <4>1. /\ unread'[c] = LiveSeries
            /\ base'[c][s] = IF Live(s) THEN Definition(head[s], Childless, NoGroups) ELSE Absent
        BY <2>6 DEF FetchList, SyncInv, ClientInv
      <4>2. Live(s) => Definition(head[s], Childless, NoGroups) # Absent
        <5>1. Live(s) => head[s] \in Head
          BY DEF SyncInv, IInv, TypeOK, Live
        <5>2. QED
          BY <5>1, NoneParts, DefinitionMade
      <4>3. KeptSeries(s) => Live(s) /\ s \in LiveSeries
        BY <1>4 DEF LiveSeries
      <4>4. QED
        BY <1>3, <4>1, <4>2, <4>3
    <3>4. QED
      BY <1>6, <3>1, <3>2, <3>3
  <2>7. CASE Diff(c)
    <3>1. UNCHANGED <<head, child>>
      BY <2>7 DEF Diff, meta
    <3>2. phase'[c] = "deleting" /\ todo'[c] = Pushed(base[c], target) /\ unread[c] = {}
      BY <2>7 DEF Diff, PushInv, ClientTypes, SyncInv, ClientInv
    <3>3. ASSUME NEW r \in Pushed(base[c], target) PROVE Spared(r)
      <4>1. target \in [Series -> Held] /\ base[c] \in [Series -> Held]
        BY DEF SyncInv, ClientInv
      <4>2. r.series \in Series
        BY <4>1, PushedAsked, AskedParts
      <4>3. \A k \in Keys : KeptChild(r.series, k) => Keeps(r.series, k, base[c][r.series].child)
        <5>1. Fetched(c, r.series) /\ phase[c] = "fetching"
          BY <1>4, <2>7, <4>2 DEF Diff
        <5>2. QED
          BY <3>2, <5>1 DEF KeptSeries, KeptChild
      <4>4. QED
        BY <4>1, <4>3, KeptPushed
    <3>4. QED
      BY <1>6, <3>1, <3>2, <3>3
  <2>8. CASE ReadUrls(c) \/ Finish(c)
    <3>1. UNCHANGED <<head, child, todo>> /\ phase'[c] # "fetching"
      BY <2>8 DEF ReadUrls, Finish, meta, PushInv, ClientTypes
    <3>2. QED
      BY <1>4, <1>6, <3>1
  <2>9. QED
    BY <1>9, <2>3, <2>4, <2>5, <2>6, <2>7, <2>8 DEF ClientStep
<1>10. ASSUME NEW s \in Series, RunMigration(s)
       PROVE  UNCHANGED <<head, child, phase, base, unread, todo>>
  BY <1>10 DEF RunMigration, Migrate, client
<1>11. CASE UNCHANGED <<head, child, phase, base, unread, todo>>
  BY <1>6, <1>7, <1>11
<1>12. UNCHANGED vars => UNCHANGED <<head, child, phase, base, unread, todo>>
  BY DEF vars, meta, client
<1>13. QED
  BY <1>2, <1>9, <1>10, <1>11, <1>12 DEF Next

\* While nobody edits, no push and no interruption deletes a data series that the
\* file keeps or a child that can be updated in place: its data stays.
THEOREM KeptAlwaysSurvive == Spec => []KeptSurvive
<1>1. KeptInv => KeptSurvive
  <2> SUFFICES ASSUME KeptInv, edits = 0, NEW s \in Series, origin[s] # Absent
               PROVE  /\ target[s] # Absent \/ ~options.delete_in_base => Live(s)
                      /\ target[s] # Absent => \A k \in Keys :
                            /\ origin[s].child[k] # Absent /\ target[s].child[k] # Absent
                            /\ origin[s].child[k].ref = target[s].child[k].ref
                            /\ origin[s].child[k].targets = target[s].child[k].targets
                            => Has(s, k)
    BY DEF KeptSurvive
  <2>1. KeptSeries(s) => Live(s)
    BY DEF KeptInv
  <2>2. \A k \in Keys : KeptChild(s, k) => Has(s, k)
    BY DEF KeptInv, Keeps, Has
  <2>3. QED
    BY <2>1, <2>2 DEF KeptSeries, KeptChild
<1>2. QED
  BY <1>1, PushInductive, InitKept, StepKept, PTL DEF Spec

-----------------------------------------------------------------------------
(***************************************************************************)
(* What several clients make of the server together.                       *)
(***************************************************************************)

\* At first everything is as it was at first.
LEMMA InitOutcome == Init => OutcomeInv
<1> SUFFICES ASSUME Init PROVE OutcomeInv
  OBVIOUS
<1>1. origin \in [Series -> Held] /\ target \in [Series -> Held] /\ Complete(origin)
  BY ScenariosAssumption DEF Init, Held
<1>2. ASSUME NEW s \in Series, origin[s] = Absent
      PROVE  ~Live(s) /\ child[s] = Childless /\ grant[s] = NoGrants
  BY <1>2 DEF Init, Live
<1>3. ASSUME NEW s \in Series, origin[s] # Absent
      PROVE  OnServer(s) = origin[s] /\ child[s] = origin[s].child /\ grant[s] = origin[s].grant
  <2>1. head[s] = origin[s].head /\ child[s] = origin[s].child /\ grant[s] = origin[s].grant
    BY <1>3 DEF Init
  <2>2. origin[s] = [head |-> origin[s].head, child |-> origin[s].child, grant |-> origin[s].grant]
    BY <1>1, <1>3 DEF Held, Definitions
  <2>3. QED
    BY <2>1, <2>2 DEF OnServer, Definition
<1>4. ASSUME NEW s \in Series PROVE LeftAlone(s)
  BY <1>2, <1>3 DEF LeftAlone
<1>5. ASSUME NEW s \in Series PROVE Remains(s)
  <2>1. CASE origin[s] = Absent
    BY <1>2, <2>1 DEF Remains
  <2>2. CASE origin[s] # Absent
    <3>1. head[s] = origin[s].head /\ origin[s].head \in Head
      BY <1>1, <2>2, DefinitionParts DEF Init, Held
    <3>2. Live(s)
      BY <3>1, AbsentAssumption DEF Live
    <3>3. QED
      BY <1>3, <2>2, <3>2 DEF Remains, GrantBefore, Between
  <2>3. QED
    BY <2>1, <2>2
<1>6. \A c \in Clients : phase[c] = "idle" /\ todo[c] = {}
  BY DEF Init
<1>7. \A i \in Demands : \E c \in Clients : Minds(c, i)
  BY <1>6, ClientsAssumption DEF Minds
<1>8. \A c \in Clients, s \in Series : ReadSo(c, s)
  BY <1>6 DEF ReadSo
<1>9. QED
  BY <1>4, <1>5, <1>6, <1>7, <1>8 DEF OutcomeInv

\* What a push asks for leaves alone what the file says nothing about.
LEMMA OutcomeServed ==
    ASSUME IInv, target \in [Series -> Held], UNCHANGED scenario,
           NEW r \in Requests, Wrote(r), Intended(r), SentSo(r),
           KeptSeries(r.series) => Live(r.series),
           NEW s \in Series, LeftAlone(s), Remains(s)
    PROVE  LeftAlone(s)' /\ Remains(s)'
<1> DEFINE t == target[s]
           k == r.at
<1>1. origin' = origin /\ target' = target /\ options' = options
  BY DEF scenario
<1>2. /\ r.on \in {"series", "child", "grant"} /\ r.op \in {"CREATE", "UPDATE", "DELETE"}
      /\ r.on = "child" => k \in Keys
      /\ r.on = "grant" => k \in Groups
  BY RequestParts
<1>3. child[s] \in [Keys -> Child \cup {Absent}] /\ grant[s] \in [Groups -> SUBSET Perms]
  BY DEF IInv, TypeOK
<1>4. \A j : Exempt(s, j)' <=> Exempt(s, j)
  BY <1>1 DEF Exempt
<1>5. CASE r.series # s
  <2>1. head'[s] = head[s] /\ child'[s] = child[s] /\ grant'[s] = grant[s]
    BY <1>5 DEF Wrote
  <2>2. QED
    BY <1>1, <1>4, <2>1 DEF LeftAlone, Remains, Live, OnServer, Between, GrantBefore, NoGrants
<1>6. CASE r.series = s /\ t = Absent
  <2>1. options.delete_in_base /\ (Is(r, "series", "DELETE") \/ r.on = "child")
    BY <1>2, <1>6 DEF Intended, Is
  <2>2. ~Live(s)' => grant'[s] = NoGrants
    BY <1>6, <2>1 DEF Wrote, Live
  <2>3. QED
    BY <1>1, <1>6, <2>1, <2>2 DEF LeftAlone, Remains
<1>7. CASE r.series = s /\ t # Absent
  <2>1. ~Is(r, "series", "DELETE")
    BY <1>7 DEF Intended
  <2>2. SUFFICES Remains(s)'
    BY <1>1, <1>7 DEF LeftAlone
  <2>3. CASE Is(r, "series", "CREATE")
    <3>1. child'[s] = Childless /\ grant'[s] = NoGrants /\ ~Live(s)
      BY <1>7, <2>3 DEF Wrote
    <3>2. origin[s] = Absent
      BY <1>7, <3>1 DEF KeptSeries
    <3>3. QED
      BY <1>1, <3>1, <3>2 DEF Remains, GrantBefore, Between, NoGrants, Childless
  <2>4. CASE ~Is(r, "series", "CREATE")
    <3>1. Live(s)
      BY <1>2, <1>7, <2>1, <2>4 DEF Wrote, Is
    <3>2. ASSUME NEW g \in Groups
          PROVE  IF g \notin DOMAIN t.grant THEN grant'[s][g] = GrantBefore(s, g)
                 ELSE ~options.revoke => Between(s, g, grant'[s][g])
      <4>1. IF g \notin DOMAIN t.grant THEN grant[s][g] = GrantBefore(s, g)
            ELSE ~options.revoke => Between(s, g, grant[s][g])
        BY <1>7, <3>1 DEF Remains
      <4>2. CASE r.on = "grant" /\ k = g
        <5>1. grant'[s][g] = r.body /\ g \in DOMAIN t.grant
          BY <1>3, <1>7, <4>2 DEF Wrote, Intended
        <5>2. ~options.revoke => Between(s, g, r.body)
          BY <1>7, <4>2 DEF SentSo, Between
        <5>3. QED
          BY <5>1, <5>2
      <4>3. CASE ~(r.on = "grant" /\ k = g)
        <5>1. grant'[s][g] = grant[s][g]
          BY <1>2, <1>3, <1>7, <2>1, <2>4, <4>3 DEF Wrote, Is
        <5>2. QED
          BY <4>1, <5>1
      <4>4. QED
        BY <4>2, <4>3
    <3>3. ASSUME NEW j \in Keys, Exempt(s, j) PROVE child'[s][j] = child[s][j]
      <4>1. ~(r.on = "child" /\ k = j)
        BY <1>2, <1>7, <3>3 DEF Intended, Exempt, Is
      <4>2. QED
        BY <1>2, <1>3, <1>7, <2>1, <2>4, <4>1 DEF Wrote, Is
    <3>4. ASSUME NEW j \in Keys, Exempt(s, j)
          PROVE  child'[s][j] = IF origin[s] = Absent THEN Absent ELSE origin[s].child[j]
      BY <1>7, <3>1, <3>3, <3>4 DEF Remains
    <3>5. Live(s)'
      <4>1. r.on = "series" => r.body \in Head
        BY RequestParts
      <4>2. QED
        BY <1>2, <1>7, <2>1, <2>4, <3>1, <4>1, AbsentAssumption DEF Wrote, Live, Is
    <3>6. QED
      BY <1>1, <1>4, <3>2, <3>4, <3>5 DEF Remains, Between, GrantBefore
  <2>5. QED
    BY <2>3, <2>4
<1>8. QED
  BY <1>5, <1>6, <1>7

\* What a client reads while nobody edits.
LEMMA OutcomeFetched ==
    ASSUME SyncInv, PushInv, KeptInv, OutcomeInv, edits = 0, UNCHANGED scenario,
           NEW c \in Clients, FetchList(c) \/ \E x \in Series : FetchSeries(c, x),
           NEW s \in Series
    PROVE  ReadSo(c, s)'
<1>1. origin' = origin /\ target' = target /\ options' = options
  BY DEF scenario
<1>2. CASE FetchList(c)
  <2>1. /\ unread'[c] = LiveSeries
        /\ base'[c][s] = IF Live(s) THEN Definition(head[s], Childless, NoGroups) ELSE Absent
    BY <1>2 DEF FetchList, SyncInv, ClientInv
  <2>2. QED
    BY <2>1 DEF ReadSo, LiveSeries
<1>3. ASSUME NEW x \in Series, FetchSeries(c, x) PROVE ReadSo(c, s)'
  <2>1. CASE Stop(c, Blame(c, x))
    BY <2>1 DEF Stop, PushInv, ClientTypes, ReadSo
  <2>2. CASE ~Stop(c, Blame(c, x))
    <3> DEFINE d == Definition(base[c][x].head, child[x], grant[x])
    <3>1. /\ base' = [base EXCEPT ![c][x] = d]
          /\ unread' = [unread EXCEPT ![c] = @ \ {x}]
          /\ phase' = phase /\ phase[c] = "fetching"
      BY <1>3, <2>2 DEF FetchSeries
    <3>2. base'[c] = [base[c] EXCEPT ![x] = d] /\ unread'[c] = unread[c] \ {x}
      BY <3>1 DEF SyncInv, ClientInv
    <3>3. base'[c][x] = d /\ \A y \in Series \ {x} : base'[c][y] = base[c][y]
      BY <3>2 DEF SyncInv, ClientInv
    <3>4. d.grant = grant[x]
      BY DEF Definition
    <3> HIDE DEF d
    <3>5. ReadSo(c, s)
      BY DEF OutcomeInv
    <3>6. CASE s # x
      BY <1>1, <3>1, <3>2, <3>3, <3>5, <3>6 DEF ReadSo, Between, GrantBefore
    <3>7. CASE s = x
      <4>1. SUFFICES ASSUME target[s] # Absent
                     PROVE  /\ DOMAIN grant[s] = Groups
                            /\ \A g \in DOMAIN target[s].grant : ~options.revoke => Between(s, g, grant[s][g])
        BY <1>1, <3>3, <3>4, <3>7 DEF ReadSo, Between, GrantBefore
      <4>2. grant[s] \in [Groups -> SUBSET Perms] /\ target \in [Series -> Held]
        BY DEF SyncInv, IInv, TypeOK, ClientInv
      <4>3. ASSUME NEW g \in DOMAIN target[s].grant, ~options.revoke PROVE Between(s, g, grant[s][g])
        <5>1. g \in Groups
          BY <4>1, <4>2, FileParts
        <5>2. CASE Live(s)
          BY <4>1, <4>3, <5>1, <5>2 DEF OutcomeInv, Remains
        <5>3. CASE ~Live(s)
          <6>1. origin[s] = Absent
            BY <4>1, <5>3 DEF KeptInv, KeptSeries
          <6>2. grant[s][g] = {}
            BY <5>1, <5>3 DEF OutcomeInv, Remains, NoGrants
          <6>3. QED
            BY <6>1, <6>2 DEF Between, GrantBefore
        <5>4. QED
          BY <5>2, <5>3
      <4>4. QED
        BY <4>2, <4>3
    <3>8. QED
      BY <3>6, <3>7
  <2>3. QED
    BY <2>1, <2>2
<1>4. QED
  BY <1>2, <1>3

\* What a push sends adds the permissions of the file to those a group had at first.
LEMMA OutcomePushed ==
    ASSUME target \in [Series -> Held], NEW b \in [Series -> Held], NEW r \in Pushed(b, target),
           LET s == r.series
           IN  /\ KeptSeries(s) => b[s] # Absent
               /\ target[s] # Absent /\ b[s] # Absent =>
                     /\ DOMAIN b[s].grant = Groups
                     /\ \A g \in DOMAIN target[s].grant : ~options.revoke => Between(s, g, b[s].grant[g])
    PROVE  SentSo(r)
<1> DEFINE s == r.series
           t == target[s]
           g == r.at
<1> SUFFICES ASSUME r.on = "grant", ~options.revoke
             PROVE  r.body = t.grant[g] \cup GrantBefore(s, g)
  BY DEF SentSo
<1>1. r \in Asked /\ s \in Series
  BY PushedAsked, AskedParts
<1>2. Meant(b, r)
  BY PushedMeant
<1>3. t # Absent /\ g \in DOMAIN t.grant /\ r.op \in {"CREATE", "UPDATE"}
  BY <1>2 DEF Meant
<1>4. g \in Groups
  BY <1>1, <1>3, FileParts
<1>5. CASE r.op = "CREATE"
  <2>1. r.body = t.grant[g] /\ (b[s] # Absent => g \notin DOMAIN b[s].grant)
    BY <1>2, <1>5 DEF Meant
  <2>2. b[s] = Absent
    BY <1>3, <1>4, <2>1
  <2>3. origin[s] = Absent
    BY <1>3, <2>2 DEF KeptSeries
  <2>4. QED
    BY <2>1, <2>3 DEF GrantBefore
<1>6. CASE r.op = "UPDATE"
  <2>1. b[s] # Absent /\ r.body = t.grant[g] \cup b[s].grant[g]
    BY <1>2, <1>6 DEF Meant
  <2>2. Between(s, g, b[s].grant[g])
    BY <1>3, <2>1
  <2>3. QED
    BY <2>1, <2>2 DEF Between
<1>7. QED
  BY <1>3, <1>5, <1>6

\* No step of a client takes from another what it has yet to do.
LEMMA StepOutcome ==
    ASSUME SyncInv, PushInv, KeptInv, OutcomeInv, [Next]_vars
    PROVE  OutcomeInv'
<1>1. /\ UNCHANGED scenario
      /\ origin' = origin /\ target' = target /\ options' = options
  BY StepsKeepScenario DEF scenario
<1> SUFFICES ASSUME edits' = 0 PROVE OutcomeInv'
  BY DEF OutcomeInv
<1>2. edits = 0 /\ ~Edit
  BY EditsGrow
<1>3. /\ \A s \in Series : LeftAlone(s) /\ Remains(s)
      /\ \A c \in Clients, s \in Series : ReadSo(c, s)
      /\ \A c \in Clients : \A r \in todo[c] : SentSo(r)
      /\ \A i \in Demands : Wrong(i) => \E c \in Clients : Minds(c, i)
  BY <1>2 DEF OutcomeInv
<1>4. \A r : SentSo(r)' <=> SentSo(r)
  BY <1>1 DEF SentSo, GrantBefore
<1>5. SUFFICES /\ \A s \in Series : LeftAlone(s)' /\ Remains(s)'
               /\ \A c \in Clients, s \in Series : ReadSo(c, s)'
               /\ \A c \in Clients : \A r \in todo'[c] : SentSo(r)
               /\ \A i \in Demands : Wrong(i)' => \E c \in Clients : Minds(c, i)'
  BY <1>1, <1>4, DemandsKept DEF OutcomeInv
<1>6. ASSUME UNCHANGED <<head, child, grant>>, NEW s \in Series PROVE LeftAlone(s)' /\ Remains(s)'
  BY <1>1, <1>3, <1>6 DEF LeftAlone, Remains, Exempt, Between, GrantBefore, Live, OnServer, NoGrants
<1>7. ASSUME NEW d \in Clients, UNCHANGED <<phase[d], base[d], unread[d], todo[d]>>
      PROVE  (\A s \in Series : ReadSo(d, s)') /\ \A r \in todo'[d] : SentSo(r)
  BY <1>1, <1>3, <1>7 DEF ReadSo, Between, GrantBefore
<1>8. ASSUME NEW d \in Clients, phase'[d] # "fetching", todo'[d] \subseteq todo[d]
      PROVE  (\A s \in Series : ReadSo(d, s)') /\ \A r \in todo'[d] : SentSo(r)
  BY <1>3, <1>8 DEF ReadSo
<1>9. ASSUME NEW c \in Clients, ClientStep(c) \/ Fail(c)
      PROVE  /\ \A s \in Series : LeftAlone(s)' /\ Remains(s)'
             /\ \A d \in Clients, s \in Series : ReadSo(d, s)'
             /\ \A d \in Clients : \A r \in todo'[d] : SentSo(r)
             /\ \A i \in Demands : Wrong(i)' => \E d \in Clients : Minds(d, i)'
  <2>1. ASSUME NEW d \in Clients \ {c}
        PROVE  (\A s \in Series : ReadSo(d, s)') /\ (\A r \in todo'[d] : SentSo(r))
    <3>1. UNCHANGED <<phase[d], base[d], unread[d], todo[d]>>
      BY <1>9, OthersKeep
    <3>2. QED
      BY <1>7, <3>1
  <2>2. ASSUME NEW i \in Demands, Wrong(i)' PROVE \E d \in Clients : Minds(d, i)'
    <3>1. CASE Minds(c, i)'
      BY <3>1
    <3>2. CASE ~Minds(c, i)'
      <4>1. Wrong(i) /\ ~Minds(c, i)
        BY <1>1, <1>9, <2>2, <3>2, StepMinds
      <4>2. PICK d \in Clients : Minds(d, i)
        BY <1>3, <4>1
      <4>3. Minds(d, i)'
        BY <1>1, <1>9, <4>1, <4>2, OthersMind
      <4>4. QED
        BY <4>3
    <3>3. QED
      BY <3>1, <3>2
  <2>3. SUFFICES /\ \A s \in Series : LeftAlone(s)' /\ Remains(s)'
                 /\ \A s \in Series : ReadSo(c, s)'
                 /\ \A r \in todo'[c] : SentSo(r)
    BY <2>1, <2>2
  <2>4. ASSUME NEW why, Stop(c, why)
        PROVE  /\ UNCHANGED <<head, child, grant>>
               /\ phase'[c] # "fetching" /\ todo'[c] = {}
    BY <2>4 DEF Stop, PushInv, ClientTypes, SyncInv, ClientInv, meta
  <2>5. ASSUME NEW why, Stop(c, why)
        PROVE  /\ \A s \in Series : LeftAlone(s)' /\ Remains(s)'
               /\ \A s \in Series : ReadSo(c, s)'
               /\ \A r \in todo'[c] : SentSo(r)
    BY <1>6, <1>8, <2>4, <2>5
  <2>6. CASE Fail(c)
    BY <2>5, <2>6 DEF Fail
  <2>7. CASE Request(c)
    <3>1. PICK r \in Due(c) :
             \/ Stop(c, Blame(c, r.series))
             \/ /\ todo' = [todo EXCEPT ![c] = @ \ {r}]
                /\ UNCHANGED <<meta, phase, base, unread>>
             \/ /\ r \in Requests /\ Wrote(r)
                /\ todo' = [todo EXCEPT ![c] = @ \ {r}]
                /\ UNCHANGED <<phase, base, unread>>
      BY <2>7, RequestCases
    <3>2. CASE Stop(c, Blame(c, r.series))
      BY <2>5, <3>2
    <3>3. CASE todo' = [todo EXCEPT ![c] = @ \ {r}] /\ UNCHANGED <<phase, base, unread>>
      <4>1. todo'[c] = todo[c] \ {r} /\ phase'[c] # "fetching"
        BY <2>7, <3>3 DEF Request, SyncInv, ClientInv
      <4>2. /\ \A s \in Series : ReadSo(c, s)'
            /\ \A q \in todo'[c] : SentSo(q)
        BY <1>8, <1>3, <4>1
      <4>3. CASE UNCHANGED meta
        BY <1>6, <4>2, <4>3 DEF meta
      <4>4. CASE r \in Requests /\ Wrote(r)
        <5>1. r \in todo[c] /\ Intended(r) /\ SentSo(r)
          BY <1>3 DEF Due, PushInv
        <5>2. r.series \in Series
          BY <4>4, RequestParts
        <5>3. KeptSeries(r.series) => Live(r.series)
          BY <1>2, <5>2 DEF KeptInv
        <5>4. IInv /\ target \in [Series -> Held]
          BY DEF SyncInv, ClientInv
        <5>5. \A s \in Series : LeftAlone(s)' /\ Remains(s)'
          BY <1>1, <1>3, <4>4, <5>1, <5>3, <5>4, OutcomeServed
        <5>6. QED
          BY <4>2, <5>5
      <4>5. QED
        BY <3>1, <3>2, <2>5, <4>3, <4>4
    <3>4. QED
      BY <3>1, <3>2, <3>3
  <2>8. CASE FetchList(c) \/ \E x \in Series : FetchSeries(c, x)
    <3>1. UNCHANGED <<head, child, grant>>
      BY <2>8 DEF FetchList, FetchSeries, Stop, meta
    <3>2. todo'[c] = {}
      <4>1. CASE FetchList(c)
        BY <4>1 DEF FetchList, PushInv
      <4>2. ASSUME NEW x \in Series, FetchSeries(c, x) PROVE todo'[c] = {}
        BY <2>4, <4>2 DEF FetchSeries, PushInv
      <4>3. QED
        BY <2>8, <4>1, <4>2
    <3>3. \A s \in Series : ReadSo(c, s)'
      BY <1>1, <1>2, <2>8, OutcomeFetched
    <3>4. QED
      BY <1>6, <3>1, <3>2, <3>3
  <2>9. CASE Diff(c)
    <3>1. UNCHANGED <<head, child, grant>> /\ phase[c] = "fetching" /\ unread[c] = {}
      BY <2>9 DEF Diff, meta
    <3>2. phase'[c] # "fetching" /\ todo'[c] = Pushed(base[c], target)
      BY <2>9 DEF Diff, PushInv, ClientTypes, SyncInv, ClientInv
    <3>3. target \in [Series -> Held] /\ base[c] \in [Series -> Held]
      BY DEF SyncInv, ClientInv
    <3>4. ASSUME NEW r \in Pushed(base[c], target) PROVE SentSo(r)
      <4>1. r.series \in Series
        BY <3>3, PushedAsked, AskedParts
      <4>2. KeptSeries(r.series) => base[c][r.series] # Absent
        BY <1>2, <3>1, <4>1 DEF KeptInv
      <4>3. ReadSo(c, r.series)
        BY <1>3, <4>1
      <4>4. QED
        BY <3>1, <3>3, <4>2, <4>3, OutcomePushed DEF ReadSo
    <3>5. QED
      BY <1>6, <3>1, <3>2, <3>4 DEF ReadSo
  <2>10. CASE ReadUrls(c) \/ Finish(c)
    <3>1. UNCHANGED <<head, child, grant, todo>> /\ phase'[c] # "fetching"
      BY <2>10 DEF ReadUrls, Finish, meta, PushInv, ClientTypes
    <3>2. QED
      BY <1>6, <1>8, <3>1
  <2>11. QED
    BY <1>9, <2>6, <2>7, <2>8, <2>9, <2>10 DEF ClientStep
<1>10. CASE UNCHANGED <<head, child, grant, phase, base, unread, todo>>
  <2>1. ASSUME NEW i \in Demands, Wrong(i)' PROVE \E c \in Clients : Minds(c, i)'
    <3>1. Wrong(i)
      BY <1>1, <1>10, <2>1 DEF Wrong, Live
    <3>2. PICK c \in Clients : Minds(c, i)
      BY <1>3, <3>1
    <3>3. Minds(c, i)'
      BY <1>1, <1>10, <3>2, NobodyMinds
    <3>4. QED
      BY <3>3
  <2>2. QED
    BY <1>3, <1>6, <1>7, <1>10, <2>1
<1>11. ASSUME NEW s \in Series, RunMigration(s)
       PROVE  UNCHANGED <<head, child, grant, phase, base, unread, todo>>
  BY <1>11 DEF RunMigration, Migrate, client
<1>12. UNCHANGED vars => UNCHANGED <<head, child, grant, phase, base, unread, todo>>
  BY DEF vars, meta, client
<1>13. QED
  BY <1>2, <1>9, <1>10, <1>11, <1>12 DEF Next

\* A data series that meets all demands, and is otherwise as it was at first, is
\* what the file makes of it.
LEMMA OutcomeReached ==
    ASSUME TypeOK, target \in [Series -> Held], origin \in [Series -> Held],
           NEW s \in Series, Matches(s), LeftAlone(s), Remains(s)
    PROVE  IF Live(s) THEN OnServer(s) = Outcome(s) ELSE Outcome(s) = Absent
<1> DEFINE t == target[s]
           had == origin[s]
<1>1. CASE t = Absent /\ options.delete_in_base
  BY <1>1 DEF Matches, Outcome
<1>2. CASE t = Absent /\ ~options.delete_in_base
  <2>1. Outcome(s) = had
    BY <1>2 DEF Outcome
  <2>2. had # Absent => Live(s)
    <3>1. SUFFICES ASSUME had # Absent PROVE head[s] \in Head
      BY AbsentAssumption DEF Live
    <3>2. OnServer(s) = had
      BY <1>2, <3>1 DEF LeftAlone
    <3>3. OnServer(s).head = head[s]
      BY DEF OnServer, Definition
    <3>4. had.head \in Head
      BY <3>1, DefinitionParts DEF Held
    <3>5. QED
      BY <3>2, <3>3, <3>4
  <2>3. QED
    BY <1>2, <2>1, <2>2 DEF LeftAlone
<1>3. CASE t # Absent
  <2> DEFINE cs == [k \in Keys |->
                      IF t.child[k] = Absent /\ had # Absent /\ k \in Consumers /\ ~options.remove_consumers
                      THEN had.child[k] ELSE t.child[k]]
             before(g) == IF had = Absent THEN {} ELSE had.grant[g]
             gs == [g \in Groups |->
                      IF g \notin DOMAIN t.grant THEN before(g)
                      ELSE IF options.revoke THEN t.grant[g] ELSE t.grant[g] \cup before(g)]
  <2>1. Outcome(s) = Definition(t.head, cs, gs)
    BY <1>3 DEF Outcome
  <2>2. head[s] = t.head /\ Live(s)
    BY <1>3, FileParts, AbsentAssumption DEF Matches, Live
  <2>3. child[s] = cs
    <3>1. ASSUME NEW k \in Keys PROVE child[s][k] = cs[k]
      <4>1. CASE Exempt(s, k)
        BY <1>3, <2>2, <4>1 DEF Remains, Exempt
      <4>2. CASE ~Exempt(s, k)
        <5>1. child[s][k] = t.child[k]
          BY <1>3, <4>2 DEF Matches, Exempt
        <5>2. QED
          BY <4>2, <5>1 DEF Exempt
      <4>3. QED
        BY <4>1, <4>2
    <3>2. child[s] \in [Keys -> Child \cup {Absent}]
      BY DEF TypeOK
    <3>3. QED
      BY <3>1, <3>2
  <2>4. grant[s] = gs
    <3>1. ASSUME NEW g \in Groups PROVE grant[s][g] = gs[g]
      <4>1. IF g \notin DOMAIN t.grant THEN grant[s][g] = before(g)
            ELSE ~options.revoke => grant[s][g] = before(g) \/ grant[s][g] = t.grant[g] \cup before(g)
        BY <1>3, <2>2 DEF Remains, Between, GrantBefore
      <4>2. g \in DOMAIN t.grant =>
               IF options.revoke THEN grant[s][g] = t.grant[g] ELSE t.grant[g] \subseteq grant[s][g]
        BY <1>3 DEF Matches
      <4> HIDE DEF before
      <4>3. CASE g \notin DOMAIN t.grant
        BY <4>1, <4>3
      <4>4. CASE g \in DOMAIN t.grant
        BY <4>1, <4>2, <4>4
      <4>5. QED
        BY <4>3, <4>4
    <3>2. grant[s] \in [Groups -> SUBSET Perms]
      BY DEF TypeOK
    <3>3. QED
      BY <3>1, <3>2
  <2>5. QED
    BY <2>1, <2>2, <2>3, <2>4 DEF OnServer
<1>4. QED
  BY <1>1, <1>2, <1>3

\* The definitions at first are definitions.
LEMMA OriginKept == Spec => [](origin \in [Series -> Held])
<1>1. Init => origin \in [Series -> Held]
  BY ScenariosAssumption DEF Init, Held
<1>2. origin \in [Series -> Held] /\ [Next]_vars => (origin \in [Series -> Held])'
  BY StepsKeepScenario DEF scenario
<1>3. QED
  BY <1>1, <1>2, PTL DEF Spec

\* Clients that apply one file to one server at the same time, each interrupted
\* anywhere and started again, do not undo each other: when the last one is done
\* the server is what the file makes of the definitions it had at first, down to
\* the permissions that the file adds to.
THEOREM ClientsAgree == Spec => []SyncedWhenDone
<1>1. SyncInv /\ PushInv /\ OutcomeInv /\ origin \in [Series -> Held] => SyncedWhenDone
  <2> SUFFICES ASSUME SyncInv, PushInv, OutcomeInv, origin \in [Series -> Held],
                      edits = 0, \A c \in Clients : phase[c] = "done", NEW s \in Series
               PROVE  IF Live(s) THEN OnServer(s) = Outcome(s) ELSE Outcome(s) = Absent
    BY DEF SyncedWhenDone
  <2>1. \A i \in Demands : ~Wrong(i)
    BY DoneMindsNothing DEF OutcomeInv
  <2>2. target \in [Series -> Held] /\ TypeOK
    BY DEF SyncInv, ClientInv, IInv
  <2>3. LeftAlone(s) /\ Remains(s)
    BY DEF OutcomeInv
  <2>4. QED
    BY <2>1, <2>2, <2>3, DemandsMet, OutcomeReached
<1>2. Spec => [](SyncInv /\ PushInv /\ KeptInv)
  BY PushInductive, InitKept, StepKept, PTL DEF Spec
<1>3. QED
  BY <1>1, <1>2, OriginKept, InitOutcome, StepOutcome, PTL DEF Spec
=============================================================================
