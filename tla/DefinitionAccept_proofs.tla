----------------------- MODULE DefinitionAccept_proofs -----------------------
(***************************************************************************)
(* Why the server refuses nothing that a push asks for, but for a lock or  *)
(* because others have written since.                                      *)
(*                                                                         *)
(* The list of an undisturbed client is feasible: each request fits what   *)
(* is there, or what an earlier request of the list will have made of it.  *)
(* It is so when the list is made from accurate definitions (FitsPushed),  *)
(* and doing what is due keeps it so (FeasibleKept).  A feasible request   *)
(* that is due is accepted (DueAnswered), because the stages and turns of  *)
(* a push put indexes and references after what they need, and before what *)
(* needs them gone.                                                        *)
(*                                                                         *)
(* It takes a sound scenario: the file names what it refers to, and no     *)
(* dimension changes its reference under an index that stays.              *)
(***************************************************************************)
EXTENDS DefinitionPush_proofs

\* Nothing forbids that a child stays as it is, as far as it cannot be updated.
Stays(s, k) == \/ target[s] = Absent /\ ~options.delete_in_base
               \/ target[s] # Absent /\ Exempt(s, k)
               \/ target[s] # Absent /\ target[s].child[k] # Absent /\ Keeps(s, k, child[s])

Unique(T) == \A r, q \in T : r.on = q.on /\ r.op = q.op /\ r.series = q.series /\ r.at = q.at => r = q

\* What is asked for a data series fits what is there, or will be when it is due.
FitsSeries(T, s) ==
    /\ Asks(T, "series", "CREATE", s, s) => ~Live(s)
    /\ Asks(T, "series", "UPDATE", s, s) => Live(s)
    /\ Asks(T, "series", "DELETE", s, s) => Live(s)
    /\ Asks(T, "before deletes", "GET", s, s) => Live(s)
    /\ Asks(T, "before indexes", "GET", s, s) =>
          /\ Live(s) \/ Asks(T, "series", "CREATE", s, s)
          /\ ~(target[s] = Absent /\ options.delete_in_base)
    /\ target[s] # Absent => Live(s) \/ Asks(T, "series", "CREATE", s, s)

FitsChild(T, s, k) ==
    /\ Asks(T, "child", "DELETE", s, k) =>
          Has(s, k) /\ (target[s] # Absent /\ target[s].child[k] # Absent => ~Keeps(s, k, child[s]))
    /\ Asks(T, "child", "CREATE", s, k) => ~Has(s, k) \/ Asks(T, "child", "DELETE", s, k)
    /\ Asks(T, "child", "UPDATE", s, k) =>
          /\ Has(s, k) /\ Keeps(s, k, child[s])
          /\ ~Asks(T, "child", "DELETE", s, k) /\ ~Asks(T, "child", "CREATE", s, k)
    /\ Has(s, k) => Stays(s, k) \/ Asks(T, "child", "DELETE", s, k)
    /\ target[s] # Absent /\ target[s].child[k] # Absent =>
          Has(s, k) \/ Asks(T, "child", "CREATE", s, k)

Feasible(T) == Unique(T) /\ \A s \in Series : FitsSeries(T, s) /\ \A k \in Keys : FitsChild(T, s, k)

\* What a client has read is what is there.
Accurate(c) ==
    /\ listed[c] = LiveSeries
    /\ \A s \in Series :
          IF base[c][s] = Absent THEN ~Live(s)
          ELSE /\ Live(s) /\ base[c][s].head = head[s]
               /\ s \notin unread[c] => base[c][s].child = child[s] /\ base[c][s].grant = grant[s]

\* All definitions can be reached with the file.
Sound ==
    /\ SoundFile(target)
    /\ \A s \in Series, k \in Keys : Has(s, k) => Plain(child[s][k]) /\ Steady(target, s, k, child[s][k])
    /\ \A r \in Edits : r.on = "child" /\ r.op # "DELETE" =>
          Plain(r.body) /\ Steady(target, r.series, r.at, r.body)

Ready(c) ==
    ~foreign[c] => /\ phase[c] = "fetching" => Accurate(c)
                   /\ phase[c] = "writing" => listed[c] = LiveSeries
                   /\ phase[c] \in {"deleting", "writing"} => Feasible(todo[c])

AcceptInv ==
    /\ Sound
    /\ \A c \in Clients :
        /\ phase[c] = "writing" => \A r \in todo[c] : Stage(r) > 4
        /\ Ready(c)
        /\ refusal[c] # "unexplained"

-----------------------------------------------------------------------------
(***************************************************************************)
(* A list as it is when the push begins.                                   *)
(***************************************************************************)

\* A request is told by its fields.
LEMMA AskedRecord ==
    ASSUME NEW r \in Asked
    PROVE  r = [op |-> r.op, on |-> r.on, series |-> r.series, at |-> r.at, body |-> r.body]
<1>1. ASSUME NEW s, NEW on, r = Look(s, on)
      PROVE  r = [op |-> r.op, on |-> r.on, series |-> r.series, at |-> r.at, body |-> r.body]
  BY <1>1 DEF Look
<1>2. CASE r \in Requests
  <2>1. CASE \E op, s, h : r = Series_(op, s, h)
    BY <2>1 DEF Series_
  <2>2. CASE \E op, s, k, b : r = Child_(op, s, k, b)
    BY <2>2 DEF Child_
  <2>3. CASE \E op, s, g, p : r = Grant_(op, s, g, p)
    BY <2>3 DEF Grant_
  <2>4. QED
    BY <1>2, <2>1, <2>2, <2>3 DEF Requests
<1>3. QED
  BY <1>1, <1>2 DEF Asked

\* A push asks for each thing once.
LEMMA PushedUnique ==
    ASSUME target \in [Series -> Held], NEW b \in [Series -> Held]
    PROVE  Unique(Pushed(b, target))
<1> SUFFICES ASSUME NEW r \in Pushed(b, target), NEW q \in Pushed(b, target),
                    r.on = q.on, r.op = q.op, r.series = q.series, r.at = q.at
             PROVE  r = q
  BY DEF Unique
<1>1. r \in Asked /\ q \in Asked
  BY PushedAsked
<1>2. Meant(b, r) /\ Meant(b, q)
  BY PushedMeant
<1>3. r.body = q.body
  <2>1. \/ r.op = "GET"
        \/ r.on \in {"series", "child"} /\ r.op \in {"CREATE", "UPDATE", "DELETE"}
        \/ r.on = "grant" /\ r.op \in {"CREATE", "UPDATE"}
    BY <1>1, AskedParts, RequestParts
  <2>2. QED
    BY <1>2, <2>1 DEF Meant, Is
<1>4. QED
  BY <1>1, <1>3, AskedRecord

\* What need not be created again can be updated in place.
LEMMA KeepsUpdated ==
    ASSUME NEW k \in Keys, NEW b \in ShapedChildren, NEW s \in Series, target \in [Series -> Held],
           target[s] # Absent, b[k] # Absent, target[s].child[k] # Absent
    PROVE  Recreated(k, b[k], target[s].child[k]) <=> ~Keeps(s, k, b)
<1>1. Shaped(k, b[k]) /\ Shaped(k, target[s].child[k])
  BY FileParts DEF ShapedChildren
<1>2. QED
  BY <1>1 DEF Shaped, Recreated, Keeps

\* The difference of the file and what is there fits what is there.
LEMMA FitsPushed ==
    ASSUME SyncInv, NEW c \in Clients, Accurate(c), unread[c] = {}
    PROVE  Feasible(Pushed(base[c], target))
<1> DEFINE b == base[c]
           T == Pushed(b, target)
<1>1. target \in [Series -> Held] /\ b \in [Series -> Held]
  BY DEF SyncInv, ClientInv
<1>2. Unique(T)
  BY <1>1, PushedUnique
<1>3. ASSUME NEW s \in Series
      PROVE  IF b[s] = Absent THEN ~Live(s) /\ \A k \in Keys : ~Has(s, k)
             ELSE Live(s) /\ b[s].child = child[s] /\ child[s] \in ShapedChildren
  <2>1. \A k \in Keys : Has(s, k) => Live(s)
    BY DEF SyncInv, IInv, NoOrphans
  <2>2. child[s] \in ShapedChildren
    BY DEF SyncInv, IInv, TypeOK, ChildrenShaped, Has, ShapedChildren
  <2>3. QED
    BY <2>1, <2>2 DEF Accurate
<1>4. \A r \in T : Meant(b, r)
  BY <1>1, PushedMeant
<1> HIDE DEF b, T
<1>5. ASSUME NEW s \in Series PROVE FitsSeries(T, s)
  <2>1. Asks(T, "series", "CREATE", s, s) => b[s] = Absent
    BY <1>4 DEF Asks, Is, Meant
  <2>2. Asks(T, "series", "UPDATE", s, s) => b[s] # Absent
    BY <1>4 DEF Asks, Is, Meant
  <2>3. Asks(T, "series", "DELETE", s, s) => b[s] # Absent
    BY <1>4 DEF Asks, Is, Meant
  <2>4. Asks(T, "before deletes", "GET", s, s) => b[s] # Absent
    BY <1>4 DEF Asks, Is, Meant
  <2>5. Asks(T, "before indexes", "GET", s, s) =>
           /\ b[s] # Absent \/ target[s] # Absent
           /\ ~(target[s] = Absent /\ options.delete_in_base)
    BY <1>4 DEF Asks, Is, Meant
  <2>6. b[s] = Absent /\ target[s] # Absent => Asks(T, "series", "CREATE", s, s)
    BY PushedAsks DEF T
  <2>7. QED
    BY <1>3, <2>1, <2>2, <2>3, <2>4, <2>5, <2>6 DEF FitsSeries
<1>6. ASSUME NEW s \in Series, NEW k \in Keys PROVE FitsChild(T, s, k)
  <2> DEFINE t == target[s]
  <2>1. Asks(T, "child", "DELETE", s, k) =>
           /\ b[s] # Absent /\ b[s].child[k] # Absent
           /\ t # Absent /\ t.child[k] # Absent => Recreated(k, b[s].child[k], t.child[k])
    BY <1>4 DEF Asks, Is, Meant
  <2>2. Asks(T, "child", "CREATE", s, k) =>
           /\ t # Absent /\ t.child[k] # Absent
           /\ b[s] # Absent /\ b[s].child[k] # Absent => Recreated(k, b[s].child[k], t.child[k])
    BY <1>4 DEF Asks, Is, Meant
  <2>3. Asks(T, "child", "UPDATE", s, k) =>
           /\ t # Absent /\ t.child[k] # Absent
           /\ b[s] # Absent /\ b[s].child[k] # Absent
           /\ ~Recreated(k, b[s].child[k], t.child[k])
    BY <1>4 DEF Asks, Is, Meant
  <2>4. b[s] = Absent /\ t # Absent /\ t.child[k] # Absent => Asks(T, "child", "CREATE", s, k)
    BY PushedAsks DEF T
  <2>5. b[s] # Absent /\ t = Absent /\ options.delete_in_base /\ b[s].child[k] # Absent =>
           Asks(T, "child", "DELETE", s, k)
    BY PushedAsks DEF T
  <2>6. b[s] # Absent /\ t # Absent =>
           /\ b[s].child[k] = Absent /\ t.child[k] # Absent => Asks(T, "child", "CREATE", s, k)
           /\ b[s].child[k] # Absent /\ t.child[k] # Absent /\ b[s].child[k] # t.child[k] =>
                 IF Recreated(k, b[s].child[k], t.child[k])
                 THEN Asks(T, "child", "DELETE", s, k) /\ Asks(T, "child", "CREATE", s, k)
                 ELSE Asks(T, "child", "UPDATE", s, k)
           /\ b[s].child[k] # Absent /\ t.child[k] = Absent /\ ~Exempt(s, k) =>
                 Asks(T, "child", "DELETE", s, k)
    BY PushedAsks DEF T
  <2>7. CASE b[s] = Absent
    BY <1>3, <2>1, <2>2, <2>3, <2>4, <2>7 DEF FitsChild
  <2>8. CASE b[s] # Absent
    <3>1. b[s].child[k] = child[s][k] /\ (Has(s, k) <=> b[s].child[k] # Absent)
      BY <1>3, <2>8 DEF Has
    <3>2. t # Absent /\ Has(s, k) /\ t.child[k] # Absent =>
             (Recreated(k, child[s][k], t.child[k]) <=> ~Keeps(s, k, child[s]))
      BY <1>1, <1>3, <2>8, KeepsUpdated DEF Has
    <3>3. t # Absent /\ Has(s, k) /\ t.child[k] # Absent /\ child[s][k] = t.child[k] =>
             Keeps(s, k, child[s])
      BY DEF Keeps
    <3>4. t # Absent /\ Has(s, k) /\ t.child[k] # Absent /\ Recreated(k, child[s][k], t.child[k]) =>
             child[s][k] # t.child[k]
      BY DEF Recreated
    <3>5. /\ Asks(T, "child", "DELETE", s, k) =>
                Has(s, k) /\ (t # Absent /\ t.child[k] # Absent => ~Keeps(s, k, child[s]))
          /\ Asks(T, "child", "CREATE", s, k) => ~Has(s, k) \/ Asks(T, "child", "DELETE", s, k)
      BY <2>1, <2>2, <2>6, <2>8, <3>1, <3>2, <3>4
    <3>6. Asks(T, "child", "UPDATE", s, k) =>
             /\ Has(s, k) /\ Keeps(s, k, child[s])
             /\ ~Asks(T, "child", "DELETE", s, k) /\ ~Asks(T, "child", "CREATE", s, k)
      BY <2>1, <2>2, <2>3, <2>8, <3>1, <3>2
    <3>7. Has(s, k) => Stays(s, k) \/ Asks(T, "child", "DELETE", s, k)
      BY <2>5, <2>6, <2>8, <3>1, <3>2, <3>3 DEF Stays
    <3>8. t # Absent /\ t.child[k] # Absent => Has(s, k) \/ Asks(T, "child", "CREATE", s, k)
      BY <2>6, <2>8, <3>1
    <3>9. QED
      BY <3>5, <3>6, <3>7, <3>8 DEF FitsChild
  <2>9. QED
    BY <2>7, <2>8
<1>7. QED
  BY <1>2, <1>5, <1>6 DEF Feasible, T, b

-----------------------------------------------------------------------------
(***************************************************************************)
(* The list stays feasible while it is worked off.                         *)
(***************************************************************************)

\* What is due is after all that would be in its way.
LEMMA NothingEarlier ==
    ASSUME NEW c \in Clients, todo[c] \subseteq Asked, NEW r \in Due(c), NEW s, NEW x
    PROVE  /\ Stage(r) > 1 => /\ ~Asks(todo[c], "child", "DELETE", s, x)
                              /\ ~Asks(todo[c], "before deletes", "GET", s, x)
           /\ Stage(r) > 3 => ~Asks(todo[c], "series", "CREATE", s, x)
<1>1. ASSUME NEW q \in todo[c], Stage(r) > 1 PROVE Stage(q) # 1
  BY <1>1, DueStage
<1>2. ASSUME NEW q \in todo[c], Stage(r) > 3 PROVE Stage(q) # 3
  BY <1>2, DueStage
<1>3. ASSUME NEW q \in todo[c]
      PROVE  /\ Is(q, "child", "DELETE") \/ q.on = "before deletes" => Stage(q) = 1
             /\ Is(q, "series", "CREATE") => Stage(q) = 3
  BY Stages
<1>4. QED
  BY <1>1, <1>2, <1>3 DEF Asks, Is

\* What is left is what was there but for the request that was served.
LEMMA AskedNext ==
    ASSUME NEW c \in Clients, Unique(todo[c]), NEW r \in todo[c], todo'[c] = todo[c] \ {r},
           NEW on, NEW op, NEW s, NEW x
    PROVE  Asks(todo[c], on, op, s, x)' <=>
              /\ Asks(todo[c], on, op, s, x)
              /\ ~(r.on = on /\ r.op = op /\ r.series = s /\ r.at = x)
BY DEF Asks, Is, Unique

\* Other data series are as they were.
LEMMA FitsElsewhere ==
    ASSUME NEW c \in Clients, Feasible(todo[c]), UNCHANGED scenario,
           NEW r \in todo[c], todo'[c] = todo[c] \ {r},
           NEW s \in Series,
           \/ r.op = "GET"
           \/ r.series # s
           \/ r.on = "grant" /\ Live(s),
           head'[s] = head[s], child'[s] = child[s]
    PROVE  FitsSeries(todo[c], s)' /\ \A k \in Keys : FitsChild(todo[c], s, k)'
<1>1. target' = target /\ options' = options
  BY DEF scenario
<1>2. Unique(todo[c])
  BY DEF Feasible
<1>3. ASSUME NEW on, NEW op \in {"CREATE", "UPDATE", "DELETE"}, NEW x, on # "grant"
      PROVE  Asks(todo[c], on, op, s, x)' <=> Asks(todo[c], on, op, s, x)
  BY <1>2, <1>3, AskedNext
<1>4. ASSUME NEW on, NEW x, Asks(todo[c], on, "GET", s, x)'
      PROVE  Asks(todo[c], on, "GET", s, x)
  BY <1>2, <1>4, AskedNext
<1>5. FitsSeries(todo[c], s)'
  <2>1. FitsSeries(todo[c], s)
    BY DEF Feasible
  <2>2. Live(s)' <=> Live(s)
    BY DEF Live
  <2>3. \A op \in {"CREATE", "UPDATE", "DELETE"} :
           Asks(todo[c], "series", op, s, s)' <=> Asks(todo[c], "series", op, s, s)
    BY <1>3
  <2>4. QED
    BY <1>1, <1>4, <2>1, <2>2, <2>3 DEF FitsSeries
<1>6. ASSUME NEW k \in Keys PROVE FitsChild(todo[c], s, k)'
  <2>1. FitsChild(todo[c], s, k)
    BY DEF Feasible
  <2>2. (Has(s, k)' <=> Has(s, k)) /\ (Stays(s, k)' <=> Stays(s, k))
    BY <1>1 DEF Has, Stays, Exempt, Keeps
  <2>3. \A op \in {"CREATE", "UPDATE", "DELETE"} :
           Asks(todo[c], "child", op, s, k)' <=> Asks(todo[c], "child", op, s, k)
    BY <1>3
  <2>4. Keeps(s, k, child[s])' <=> Keeps(s, k, child[s])
    BY <1>1 DEF Keeps
  <2>5. QED
    BY <1>1, <2>1, <2>2, <2>3, <2>4 DEF FitsChild
<1>7. QED
  BY <1>5, <1>6

\* A data series that a push writes stays as the rest of the push needs it.
LEMMA FitsSeriesServed ==
    ASSUME IInv, NEW c \in Clients, UNCHANGED scenario,
           todo[c] \subseteq Asked, Ordered(todo[c]), \A q \in todo[c] : Intended(q),
           Feasible(todo[c]), NEW r \in Due(c), r \in Requests, Wrote(r), r.on = "series",
           todo'[c] = todo[c] \ {r},
           NEW s \in Series, r.series = s
    PROVE  FitsSeries(todo[c], s)' /\ \A k \in Keys : FitsChild(todo[c], s, k)'
<1> DEFINE T == todo[c]
<1>1. target' = target /\ options' = options
  BY DEF scenario
<1>2. r \in T /\ Unique(T) /\ r \in Asked /\ Intended(r) /\ FitsSeries(T, s)
  BY DEF Feasible, Due
<1>3. r.op \in {"CREATE", "UPDATE", "DELETE"} /\ r.at = s /\ r.body \in Head
  BY RequestParts
<1>4. ASSUME NEW on, NEW op, NEW x
      PROVE  Asks(todo[c], on, op, s, x)' <=>
                Asks(T, on, op, s, x) /\ ~(r.on = on /\ r.op = op /\ s = x)
  <2>1. Asks(todo[c], on, op, s, x)' <=>
           Asks(T, on, op, s, x) /\ ~(r.on = on /\ r.op = op /\ r.series = s /\ r.at = x)
    BY <1>2, AskedNext
  <2>2. QED
    BY <1>3, <2>1
<1>5. \A k \in Keys : Has(s, k) => Live(s)
  BY DEF IInv, NoOrphans
<1>6. \A k \in Keys : FitsChild(T, s, k)
  BY DEF Feasible
<1>7. /\ r.op = "CREATE" => Stage(r) = 3
      /\ r.op = "UPDATE" => Stage(r) = 4
      /\ r.op = "DELETE" => Stage(r) = 2
  BY <1>2, Stages DEF Is
<1>8. ASSUME NEW k PROVE ~Asks(T, "child", "DELETE", s, k) /\ ~Asks(T, "before deletes", "GET", s, k)
  <2>1. Stage(r) > 1
    BY <1>3, <1>7
  <2>2. QED
    BY <2>1, NothingEarlier
<1>9. CASE r.op = "CREATE"
  <2>1. ~Live(s) /\ head'[s] = r.body /\ child'[s] = Childless
    BY <1>9 DEF Wrote, Is
  <2>2. Live(s)' /\ \A k \in Keys : ~Has(s, k)'
    BY <1>3, <2>1, AbsentAssumption DEF Live, Has, Childless
  <2>3. FitsSeries(todo[c], s)'
    BY <1>1, <1>2, <1>4, <1>9, <2>2 DEF FitsSeries
  <2>4. ASSUME NEW k \in Keys PROVE FitsChild(todo[c], s, k)'
    <3>1. FitsChild(T, s, k) /\ ~Has(s, k)
      BY <1>5, <1>6, <2>1
    <3>2. target[s] # Absent /\ target[s].child[k] # Absent => Asks(T, "child", "CREATE", s, k)
      BY <3>1 DEF FitsChild
    <3>3. ~Asks(T, "child", "UPDATE", s, k)
      BY <3>1 DEF FitsChild
    <3>4. QED
      BY <1>1, <1>4, <1>8, <2>2, <3>2, <3>3 DEF FitsChild
  <2>5. QED
    BY <2>3, <2>4
<1>10. CASE r.op = "UPDATE"
  <2>1. Live(s) /\ head'[s] = r.body /\ child'[s] = child[s]
    BY <1>10 DEF Wrote, Is
  <2>2. Live(s)'
    BY <1>3, <2>1, AbsentAssumption DEF Live
  <2>3. ~Asks(T, "series", "CREATE", s, s)
    BY <1>2, <2>1 DEF FitsSeries
  <2>4. FitsSeries(todo[c], s)'
    BY <1>1, <1>2, <1>4, <1>10, <2>2, <2>3 DEF FitsSeries
  <2>5. ASSUME NEW k \in Keys PROVE FitsChild(todo[c], s, k)'
    <3>1. FitsChild(T, s, k)
      BY <1>6
    <3>2. (Has(s, k)' <=> Has(s, k)) /\ (Stays(s, k)' <=> Stays(s, k))
      BY <1>1, <2>1 DEF Has, Stays, Exempt, Keeps
    <3>3. Keeps(s, k, child[s])' <=> Keeps(s, k, child[s])
      BY <1>1, <2>1 DEF Keeps
    <3>4. \A op : Asks(todo[c], "child", op, s, k)' <=> Asks(T, "child", op, s, k)
      BY <1>4
    <3>5. QED
      BY <1>1, <3>1, <3>2, <3>3, <3>4 DEF FitsChild
  <2>6. QED
    BY <2>4, <2>5
<1>11. CASE r.op = "DELETE"
  <2>1. head'[s] = Absent /\ child'[s] = Childless
    BY <1>11 DEF Wrote, Is
  <2>2. ~Live(s)' /\ \A k \in Keys : ~Has(s, k)'
    BY <2>1 DEF Live, Has, Childless
  <2>3. target[s] = Absent /\ options.delete_in_base
    BY <1>2, <1>11 DEF Intended, Is
  <2>4. ~Asks(T, "series", "UPDATE", s, s)
    BY <2>3 DEF Asks, Intended, Is
  <2>5. ~Asks(T, "before indexes", "GET", s, s)
    BY <1>2, <2>3 DEF FitsSeries
  <2>6. \A k : ~Asks(T, "child", "CREATE", s, k) /\ ~Asks(T, "child", "UPDATE", s, k)
    BY <2>3 DEF Asks, Intended, Is
  <2>7. /\ ~Asks(todo[c], "series", "UPDATE", s, s)' /\ ~Asks(todo[c], "series", "DELETE", s, s)'
        /\ ~Asks(todo[c], "before deletes", "GET", s, s)'
        /\ ~Asks(todo[c], "before indexes", "GET", s, s)'
    BY <1>4, <1>8, <1>11, <2>4, <2>5
  <2>8. FitsSeries(todo[c], s)'
    BY <1>1, <2>2, <2>3, <2>7 DEF FitsSeries
  <2>9. \A k \in Keys : FitsChild(todo[c], s, k)'
    BY <1>1, <1>4, <1>8, <2>2, <2>3, <2>6 DEF FitsChild
  <2>10. QED
    BY <2>8, <2>9
<1>12. QED
  BY <1>3, <1>9, <1>10, <1>11

\* So does a child.
LEMMA FitsChildServed ==
    ASSUME IInv, NEW c \in Clients, UNCHANGED scenario,
           todo[c] \subseteq Asked, Ordered(todo[c]), \A q \in todo[c] : Intended(q),
           Feasible(todo[c]), NEW r \in Due(c), r \in Requests, Wrote(r), r.on = "child",
           todo'[c] = todo[c] \ {r},
           NEW s \in Series, r.series = s
    PROVE  FitsSeries(todo[c], s)' /\ \A k \in Keys : FitsChild(todo[c], s, k)'
<1> DEFINE T == todo[c]
           j == r.at
           t == target[s]
<1>1. target' = target /\ options' = options
  BY DEF scenario
<1>2. r \in T /\ Unique(T) /\ r \in Asked /\ Intended(r) /\ FitsSeries(T, s)
  BY DEF Feasible, Due
<1>3. r.op \in {"CREATE", "UPDATE", "DELETE"} /\ j \in Keys /\ Shaped(j, r.body)
  BY RequestParts
<1>4. ASSUME NEW on, NEW op, NEW x
      PROVE  Asks(todo[c], on, op, s, x)' <=>
                Asks(T, on, op, s, x) /\ ~(on = "child" /\ r.op = op /\ j = x)
  <2>1. Asks(todo[c], on, op, s, x)' <=>
           Asks(T, on, op, s, x) /\ ~(r.on = on /\ r.op = op /\ r.series = s /\ r.at = x)
    BY <1>2, AskedNext
  <2>2. QED
    BY <2>1
<1>5. \A k \in Keys : FitsChild(T, s, k)
  BY DEF Feasible
<1>6. child[s] \in [Keys -> Child \cup {Absent}]
  BY DEF IInv, TypeOK
<1>7. Live(s) /\ head'[s] = head[s] /\ Asks(T, "child", r.op, s, j)
  BY <1>2 DEF Wrote, Asks, Is
<1>8. FitsSeries(todo[c], s)'
  <2>1. Live(s)'
    BY <1>7 DEF Live
  <2>2. ~Asks(T, "series", "CREATE", s, s)
    BY <1>2, <1>7 DEF FitsSeries
  <2>3. QED
    BY <1>1, <1>2, <1>4, <2>1, <2>2 DEF FitsSeries
<1>9. ASSUME NEW k \in Keys, k # j PROVE FitsChild(todo[c], s, k)'
  <2>1. FitsChild(T, s, k)
    BY <1>5
  <2>2. child'[s][k] = child[s][k]
    BY <1>3, <1>6, <1>9 DEF Wrote, Is
  <2>3. (Has(s, k)' <=> Has(s, k)) /\ (Stays(s, k)' <=> Stays(s, k))
    BY <1>1, <2>2 DEF Has, Stays, Exempt, Keeps
  <2>4. Keeps(s, k, child[s])' <=> Keeps(s, k, child[s])
    BY <1>1, <2>2 DEF Keeps
  <2>5. ASSUME NEW op PROVE Asks(todo[c], "child", op, s, k)' <=> Asks(T, "child", op, s, k)
    BY <1>4, <1>9
  <2>6. QED
    BY <1>1, <2>1, <2>3, <2>4, <2>5 DEF FitsChild
<1>10. FitsChild(todo[c], s, j)'
  <2>1. FitsChild(T, s, j)
    BY <1>3, <1>5
  <2>2. CASE r.op = "DELETE"
    <3>1. ~Has(s, j)'
      BY <1>3, <1>6, <2>2 DEF Wrote, Is, Has
    <3>2. ~Asks(T, "child", "UPDATE", s, j)
      BY <1>7, <2>1, <2>2 DEF FitsChild
    <3>3. t # Absent /\ t.child[j] # Absent => Asks(T, "child", "CREATE", s, j)
      BY <1>3, <1>7, <2>2 DEF Ordered
    <3>4. QED
      BY <1>1, <1>4, <2>2, <3>1, <3>2, <3>3 DEF FitsChild
  <2>3. CASE r.op # "DELETE"
    <3>1. t # Absent /\ t.child[j] # Absent /\ r.body = t.child[j]
      BY <1>2, <2>3 DEF Intended
    <3>2. child'[s][j] = r.body
      BY <1>3, <1>6, <2>3 DEF Wrote
    <3>3. Has(s, j)' /\ Keeps(s, j, child[s])' /\ Stays(s, j)'
      BY <1>1, <3>1, <3>2 DEF Has, Stays, Keeps
    <3>4. ~Asks(T, "child", "DELETE", s, j)
      <4>1. CASE r.op = "CREATE"
        <5>1. Stage(r) = 5
          BY <1>2, <4>1, Stages
        <5>2. Stage(r) > 1
          BY <5>1
        <5>3. QED
          BY <5>2, NothingEarlier
      <4>2. CASE r.op = "UPDATE"
        BY <1>7, <2>1, <4>2 DEF FitsChild
      <4>3. QED
        BY <1>3, <2>3, <4>1, <4>2
    <3>5. CASE r.op = "CREATE"
      <4>1. ~Asks(T, "child", "UPDATE", s, j)
        BY <1>7, <2>1, <3>5 DEF FitsChild
      <4>2. QED
        BY <1>1, <1>4, <3>3, <3>4, <3>5, <4>1 DEF FitsChild
    <3>6. CASE r.op = "UPDATE"
      <4>1. ~Asks(T, "child", "CREATE", s, j)
        BY <1>7, <2>1, <3>6 DEF FitsChild
      <4>2. QED
        BY <1>1, <1>4, <3>3, <3>4, <3>6, <4>1 DEF FitsChild
    <3>7. QED
      BY <1>3, <2>3, <3>5, <3>6
  <2>4. QED
    BY <2>2, <2>3
<1>11. QED
  BY <1>8, <1>9, <1>10

\* What is due can be done without making the rest impossible.
LEMMA FeasibleKept ==
    ASSUME IInv, NEW c \in Clients, UNCHANGED scenario,
           todo[c] \subseteq Asked, Ordered(todo[c]), \A q \in todo[c] : Intended(q),
           Feasible(todo[c]), NEW r \in Due(c), todo'[c] = todo[c] \ {r},
           \/ r.op = "GET" /\ UNCHANGED meta
           \/ r \in Requests /\ Wrote(r)
    PROVE  Feasible(todo[c])'
<1>1. r \in todo[c]
  BY DEF Due
<1>2. Unique(todo[c])'
  BY DEF Feasible, Unique
<1>3. ASSUME NEW s \in Series PROVE FitsSeries(todo[c], s)' /\ \A k \in Keys : FitsChild(todo[c], s, k)'
  <2>1. CASE r.op = "GET" /\ UNCHANGED meta
    BY <1>1, <2>1, FitsElsewhere DEF meta
  <2>2. CASE r \in Requests /\ Wrote(r) /\ r.series # s
    <3>1. head'[s] = head[s] /\ child'[s] = child[s]
      BY <2>2 DEF Wrote
    <3>2. QED
      BY <1>1, <2>2, <3>1, FitsElsewhere
  <2>3. CASE r \in Requests /\ Wrote(r) /\ r.series = s /\ r.on = "grant"
    <3>1. head'[s] = head[s] /\ child'[s] = child[s] /\ Live(s)
      BY <2>3 DEF Wrote
    <3>2. QED
      BY <1>1, <2>3, <3>1, FitsElsewhere
  <2>4. CASE r \in Requests /\ Wrote(r) /\ r.series = s /\ r.on = "series"
    BY <2>4, FitsSeriesServed
  <2>5. CASE r \in Requests /\ Wrote(r) /\ r.series = s /\ r.on = "child"
    BY <2>5, FitsChildServed
  <2>6. r \in Requests => r.on \in {"series", "child", "grant"}
    BY RequestParts
  <2>7. QED
    BY <2>1, <2>2, <2>3, <2>4, <2>5, <2>6
<1>4. QED
  BY <1>2, <1>3 DEF Feasible

-----------------------------------------------------------------------------
(***************************************************************************)
(* What is due is accepted.                                                *)
(***************************************************************************)

\* What a file is sound for.
LEMMA SoundParts ==
    ASSUME SoundFile(target), target \in [Series -> Held], NEW s \in Series, target[s] # Absent,
           NEW k \in Keys, target[s].child[k] # Absent
    PROVE  LET c == target[s].child[k]
           IN  /\ Shaped(k, c) /\ Plain(c)
               /\ Kind(k) = "dimension" => c.ref \in Series /\ target[c.ref] # Absent
               /\ Kind(k) = "index" => c.targets # {}
               /\ \A j \in c.targets : j \in Keys /\ target[s].child[j] # Absent
               /\ \A j \in Keys : target[s].child[j] # Absent
                                  /\ Name(j) = Name(k) /\ Namespace(j) = Namespace(k) => j = k
<1>1. Shaped(k, target[s].child[k])
  BY FileParts DEF ShapedChildren
<1>2. QED
  BY <1>1 DEF SoundFile, Shaped

\* A child is deleted when no index is left on it.
LEMMA DeleteChildAccepted ==
    ASSUME SyncInv, Sound, NEW c \in Clients, \A q \in todo[c] : Intended(q), Feasible(todo[c]),
           NEW r \in Due(c), Is(r, "child", "DELETE"), ~locked[r.series]
    PROVE  Accepts(r)
<1> DEFINE s == r.series
           k == r.at
           T == todo[c]
           t == target[s]
<1>1. r \in T /\ r \in Asked /\ Intended(r) /\ target \in [Series -> Held]
  BY DEF Due, SyncInv, ClientInv
<1>2. r \in Requests /\ s \in Series /\ k \in Keys
  BY <1>1, AskedParts, RequestParts DEF Is
<1>3. Asks(T, "child", "DELETE", s, k) /\ FitsChild(T, s, k)
  BY <1>1, <1>2 DEF Asks, Feasible
<1>4. Has(s, k) /\ Live(s)
  BY <1>2, <1>3 DEF FitsChild, SyncInv, IInv, NoOrphans
<1>5. ASSUME NEW i \in Keys, Has(s, i), k \in child[s][i].targets PROVE FALSE
  <2>1. Kind(i) = "index" /\ Kind(k) \notin {"index", "consumer"}
    BY <1>2, <1>5 DEF SyncInv, IInv, ChildrenShaped, Shaped, Sound, Plain
  <2>2. Stays(s, i) \/ Asks(T, "child", "DELETE", s, i)
    BY <1>2, <1>5 DEF Feasible, FitsChild
  <2>3. ~Asks(T, "child", "DELETE", s, i)
    <3>1. SUFFICES ASSUME NEW q \in T, Is(q, "child", "DELETE"), q.series = s, q.at = i PROVE FALSE
      BY DEF Asks
    <3>2. q \in Asked
      BY DEF SyncInv, ClientInv
    <3>3. Stage(q) = 1 /\ Stage(r) = 1
      BY <1>1, <3>1, <3>2, Stages
    <3>4. Turn(q) = 1
      BY <2>1, <3>1 DEF Turn, Is, DeleteTurn
    <3>5. Turn(r) = 2
      BY <2>1 DEF Turn, Is, DeleteTurn
    <3>6. Before(q, r, order[c])
      BY <3>1, <3>3, <3>4, <3>5 DEF Before
    <3>7. QED
      BY <3>1, <3>6 DEF Due
  <2>4. t # Absent /\ t.child[i] # Absent /\ Keeps(s, i, child[s])
    <3>1. ~(t = Absent /\ ~options.delete_in_base)
      BY <1>1 DEF Intended
    <3>2. ~Exempt(s, i)
      BY <2>1 DEF Exempt, Consumers
    <3>3. QED
      BY <2>2, <2>3, <3>1, <3>2 DEF Stays
  <2>5. k \in t.child[i].targets
    BY <1>5, <2>4 DEF Keeps
  <2>6. t.child[k] # Absent
    BY <1>1, <1>2, <2>4, <2>5, SoundParts DEF Sound
  <2>7. ~Keeps(s, k, child[s])
    BY <1>3, <2>4, <2>6 DEF FitsChild
  <2>8. child[s][k].ref = t.child[k].ref
    BY <1>2, <1>4, <2>4, <2>5, <2>6 DEF Sound, Steady
  <2>9. child[s][k].targets = {} /\ t.child[k].targets = {}
    <3>1. Shaped(k, t.child[k])
      BY <1>1, <1>2, <2>4, <2>6, SoundParts DEF Sound
    <3>2. Shaped(k, child[s][k])
      BY <1>2, <1>4 DEF SyncInv, IInv, ChildrenShaped
    <3>3. QED
      BY <2>1, <3>1, <3>2 DEF Shaped
  <2>10. QED
    BY <1>4, <2>7, <2>8, <2>9 DEF Keeps, Has
<1>6. AcceptsDeleteChild(r)
  BY <1>4, <1>5 DEF AcceptsDeleteChild, Writable, IndexesOn
<1>7. QED
  BY <1>6 DEF Accepts

\* A data series is deleted when nothing is left that refers to it.
LEMMA DeleteSeriesAccepted ==
    ASSUME SyncInv, Sound, NEW c \in Clients, \A q \in todo[c] : Intended(q), Feasible(todo[c]),
           NEW r \in Due(c), Is(r, "series", "DELETE"), ~locked[r.series]
    PROVE  Accepts(r)
<1> DEFINE s == r.series
           T == todo[c]
<1>1. r \in T /\ r \in Asked /\ Intended(r) /\ target \in [Series -> Held] /\ T \subseteq Asked
  BY DEF Due, SyncInv, ClientInv
<1>2. r \in Requests /\ s \in Series /\ r.at = s
  BY <1>1, AskedParts, RequestParts DEF Is
<1>3. Live(s)
  BY <1>1, <1>2 DEF Asks, Feasible, FitsSeries
<1>4. target[s] = Absent /\ options.delete_in_base
  BY <1>1 DEF Intended
<1>5. ASSUME NEW x \in Series, NEW k \in Keys, Has(x, k), child[x][k].ref = s PROVE FALSE
  <2>1. s # NoRef
    BY <1>2, KeysAssumption
  <2>2. Kind(k) = "dimension"
    BY <1>5, <2>1 DEF SyncInv, IInv, ChildrenShaped, Shaped
  <2>3. Stage(r) > 1
    <3>1. Stage(r) = 2
      BY <1>1, Stages
    <3>2. QED
      BY <3>1
  <2>4. ~Asks(T, "child", "DELETE", x, k)
    BY <1>1, <2>3, NothingEarlier
  <2>5. Stays(x, k)
    BY <1>5, <2>4 DEF Feasible, FitsChild
  <2>6. ~Exempt(x, k)
    BY <2>2 DEF Exempt, Consumers
  <2>7. target[x] # Absent /\ target[x].child[k] # Absent /\ target[x].child[k].ref = s
    BY <1>4, <1>5, <2>5, <2>6 DEF Stays, Keeps
  <2>8. QED
    BY <1>1, <1>4, <2>2, <2>7, SoundParts DEF Sound
<1>6. AcceptsDeleteSeries(r)
  BY <1>3, <1>5 DEF AcceptsDeleteSeries, Writable, Referring
<1>7. QED
  BY <1>6 DEF Accepts

\* When children are written, all deletions have been made and every data series
\* of the file is there.
LEMMA WritingStage ==
    ASSUME SyncInv, NEW c \in Clients, \A q \in todo[c] : Intended(q), Feasible(todo[c]),
           NEW r \in Due(c), Stage(r) \in {5, 6}
    PROVE  /\ \A s \in Series : target[s] # Absent => Live(s)
           /\ \A s \in Series, k \in Keys :
                 /\ ~Asks(todo[c], "child", "DELETE", s, k)
                 /\ Has(s, k) => Stays(s, k)
           /\ Is(r, "before indexes", "GET") => Live(r.series)
<1>1. todo[c] \subseteq Asked /\ r \in todo[c] /\ r \in Asked
  BY DEF Due, SyncInv, ClientInv
<1>2. Stage(r) > 1 /\ Stage(r) > 3
  OBVIOUS
<1>3. ASSUME NEW s, NEW x
      PROVE  ~Asks(todo[c], "child", "DELETE", s, x) /\ ~Asks(todo[c], "series", "CREATE", s, x)
  BY <1>1, <1>2, NothingEarlier
<1>4. ASSUME NEW s \in Series, NEW k \in Keys, Has(s, k) PROVE Stays(s, k)
  BY <1>3, <1>4 DEF Feasible, FitsChild
<1>5. ASSUME NEW s \in Series, target[s] # Absent PROVE Live(s)
  BY <1>3, <1>5 DEF Feasible, FitsSeries
<1>6. ASSUME Is(r, "before indexes", "GET") PROVE Live(r.series)
  <2>1. r.series \in Series /\ r.at = r.series
    BY <1>1, <1>6, AskedParts DEF Is
  <2>2. Asks(todo[c], "before indexes", "GET", r.series, r.series)
    BY <1>1, <1>6, <2>1 DEF Asks
  <2>3. QED
    BY <1>3, <2>1, <2>2 DEF Feasible, FitsSeries
<1>7. QED
  BY <1>3, <1>4, <1>5, <1>6

\* A child is created under a free name, with what it refers to.
LEMMA CreateChildAccepted ==
    ASSUME SyncInv, Sound, NEW c \in Clients, \A q \in todo[c] : Intended(q), Feasible(todo[c]),
           NEW r \in Due(c), Is(r, "child", "CREATE"), ~locked[r.series]
    PROVE  Accepts(r)
<1> DEFINE s == r.series
           k == r.at
           T == todo[c]
           t == target[s]
<1>1. r \in T /\ r \in Asked /\ target \in [Series -> Held] /\ T \subseteq Asked
  BY DEF Due, SyncInv, ClientInv
<1>2. r \in Requests /\ s \in Series /\ k \in Keys
  BY <1>1, AskedParts, RequestParts DEF Is
<1>3. t # Absent /\ t.child[k] # Absent /\ r.body = t.child[k]
  BY <1>1 DEF Intended, Is
<1>4. Stage(r) = 5
  BY <1>1, Stages DEF Is
<1>5. /\ \A x \in Series : target[x] # Absent => Live(x)
      /\ \A j \in Keys : ~Asks(T, "child", "DELETE", s, j) /\ (Has(s, j) => Stays(s, j))
  BY <1>2, <1>4, WritingStage
<1>6. ~Has(s, k)
  BY <1>1, <1>2, <1>5 DEF Asks, Feasible, FitsChild
<1>7. ASSUME NEW j \in Keys, Has(s, j), Name(j) = Name(k), Namespace(j) = Namespace(k) PROVE FALSE
  <2>1. CASE Exempt(s, j)
    <3>1. Kind(j) = "consumer"
      BY <2>1 DEF Exempt, Consumers
    <3>2. Kind(k) = "consumer"
      BY <1>7, <3>1 DEF Namespace
    <3>3. QED
      BY <1>2, <1>6, <1>7, <3>1, <3>2, KeysAssumption
  <2>2. CASE t.child[j] # Absent
    <3>1. j = k
      BY <1>1, <1>2, <1>3, <1>7, <2>2, SoundParts DEF Sound
    <3>2. QED
      BY <1>6, <1>7, <3>1
  <2>3. QED
    BY <1>3, <1>5, <1>7, <2>1, <2>2 DEF Stays
<1>8. Kind(k) = "dimension" => r.body.ref \in Series /\ Live(r.body.ref)
  BY <1>1, <1>2, <1>3, <1>5, SoundParts DEF Sound
<1>9. ASSUME NEW j \in r.body.targets, Kind(k) = "index" PROVE j \in Keys /\ Has(s, j)
  <2>1. j \in Keys /\ t.child[j] # Absent
    BY <1>1, <1>2, <1>3, SoundParts DEF Sound
  <2>2. Kind(j) \notin {"index", "consumer"}
    BY <1>1, <1>2, <1>3, SoundParts DEF Sound, Plain
  <2>3. ~Asks(T, "child", "CREATE", s, j)
    <3>1. SUFFICES ASSUME NEW q \in T, Is(q, "child", "CREATE"), q.series = s, q.at = j PROVE FALSE
      BY DEF Asks
    <3>2. Stage(q) = 5 /\ Stage(r) = 5
      BY <1>1, <3>1, Stages DEF Is
    <3>3. Turn(q) = 1
      BY <2>2, <3>1 DEF Turn, Is, WriteTurn
    <3>4. Turn(r) = 6
      BY <1>9 DEF Turn, Is, WriteTurn
    <3>5. Before(q, r, order[c])
      BY <3>1, <3>2, <3>3, <3>4 DEF Before
    <3>6. QED
      BY <3>1, <3>5 DEF Due
  <2>4. QED
    BY <1>2, <1>3, <2>1, <2>3 DEF Feasible, FitsChild
<1>10. Kind(k) = "index" => r.body.targets # {}
  BY <1>1, <1>2, <1>3, SoundParts DEF Sound
<1>11. ~NameTaken(s, k)
  BY <1>6, <1>7 DEF NameTaken
<1>12. AcceptsCreateChild(r)
  BY <1>2, <1>3, <1>5, <1>8, <1>9, <1>10, <1>11 DEF AcceptsCreateChild, Writable
<1>13. QED
  BY <1>12 DEF Accepts

\* A child is updated as far as it can be.
LEMMA UpdateChildAccepted ==
    ASSUME SyncInv, NEW c \in Clients, \A q \in todo[c] : Intended(q), Feasible(todo[c]),
           NEW r \in Due(c), Is(r, "child", "UPDATE"), ~locked[r.series]
    PROVE  Accepts(r) /\ Has(r.series, r.at) /\ r.body.ref = child[r.series][r.at].ref
<1> DEFINE s == r.series
           k == r.at
<1>1. r \in todo[c] /\ r \in Asked /\ Intended(r)
  BY DEF Due, SyncInv, ClientInv
<1>2. s \in Series /\ k \in Keys
  BY <1>1, AskedParts, RequestParts DEF Is
<1>3. Has(s, k) /\ Keeps(s, k, child[s])
  BY <1>1, <1>2 DEF Asks, Feasible, FitsChild
<1>4. r.body = target[s].child[k]
  BY <1>1 DEF Intended, Is
<1>5. Live(s)
  BY <1>2, <1>3 DEF SyncInv, IInv, NoOrphans
<1>6. QED
  BY <1>3, <1>4, <1>5 DEF Accepts, AcceptsUpdateChild, Writable, Keeps

\* Nothing that is due is refused, but for a lock.
LEMMA DueAnswered ==
    ASSUME SyncInv, PushInv, Sound, NEW c \in Clients, Feasible(todo[c]),
           phase[c] = "writing" => listed[c] = LiveSeries,
           phase[c] \in {"deleting", "writing"},
           NEW r \in Due(c), phase[c] = "deleting" => Stage(r) <= 4, ~locked[r.series]
    PROVE  Answered(c, r)
<1> DEFINE s == r.series
           k == r.at
<1>1. /\ r \in todo[c] /\ r \in Asked /\ Intended(r) /\ target \in [Series -> Held]
      /\ \A q \in todo[c] : Intended(q)
  BY DEF Due, SyncInv, ClientInv, PushInv
<1>2. s \in Series
  BY <1>1, AskedParts
<1>3. CASE r.op = "GET"
  <2>1. k = s /\ r.on \in {"before deletes", "before indexes"}
    BY <1>1, <1>3, AskedParts
  <2>2. CASE r.on = "before deletes"
    <3>1. Asks(todo[c], "before deletes", "GET", s, s)
      BY <1>1, <1>3, <2>1, <2>2 DEF Asks, Is
    <3>2. QED
      BY <1>2, <1>3, <3>1 DEF Feasible, FitsSeries, Answered
  <2>3. CASE r.on = "before indexes"
    <3>1. Stage(r) = 5
      BY <1>1, <2>3, Stages
    <3>2. QED
      BY <1>1, <1>3, <2>3, <3>1, WritingStage DEF Is, Answered
  <2>4. QED
    BY <2>1, <2>2, <2>3
<1>4. CASE r.op # "GET"
  <2>1. /\ r \in Requests
        /\ r.on \in {"series", "child", "grant"} /\ r.op \in {"CREATE", "UPDATE", "DELETE"}
        /\ r.on = "series" => k = s
        /\ r.on = "child" => k \in Keys
        /\ r.on = "grant" => r.op # "DELETE"
    BY <1>1, <1>4, AskedParts, RequestParts
  <2>2. ASSUME r.on = "grant" \/ (r.on = "child" /\ r.op # "DELETE")
        PROVE  /\ phase[c] = "writing"
               /\ \A x \in Series : target[x] # Absent => Live(x)
    <3>1. Stage(r) \in {5, 6}
      BY <1>1, <2>2, Stages
    <3>2. ~(Stage(r) <= 4)
      BY <3>1
    <3>3. QED
      BY <1>1, <3>1, <3>2, WritingStage
  <2>3. Addressed(c, r)
    <3>1. SUFFICES ASSUME r.on = "child", r.op # "DELETE", Kind(k) = "dimension"
                   PROVE  r.body.ref \in listed[c]
      BY DEF Addressed
    <3>2. target[s] # Absent /\ target[s].child[k] # Absent /\ r.body = target[s].child[k]
      BY <1>1, <3>1 DEF Intended
    <3>3. r.body.ref \in Series /\ target[r.body.ref] # Absent
      BY <1>1, <1>2, <2>1, <3>1, <3>2, SoundParts DEF Sound
    <3>4. QED
      BY <2>2, <3>1, <3>3 DEF LiveSeries
  <2>4. CASE Is(r, "series", "CREATE")
    <3>1. Asks(todo[c], "series", "CREATE", s, s)
      BY <1>1, <2>1, <2>4 DEF Asks, Is
    <3>2. ~Live(s)
      BY <1>2, <3>1 DEF Feasible, FitsSeries
    <3>3. Accepts(r)
      BY <2>4, <3>2 DEF Accepts, AcceptsCreateSeries
    <3>4. QED
      BY <1>4, <2>3, <3>3 DEF Answered
  <2>5. CASE Is(r, "series", "UPDATE")
    <3>1. Asks(todo[c], "series", "UPDATE", s, s)
      BY <1>1, <2>1, <2>5 DEF Asks, Is
    <3>2. Live(s)
      BY <1>2, <3>1 DEF Feasible, FitsSeries
    <3>3. Accepts(r)
      BY <2>5, <3>2 DEF Accepts, AcceptsUpdateSeries, Writable
    <3>4. QED
      BY <1>4, <2>3, <3>3 DEF Answered
  <2>6. CASE Is(r, "series", "DELETE")
    BY <1>1, <1>4, <2>3, <2>6, DeleteSeriesAccepted DEF Answered
  <2>7. CASE Is(r, "child", "DELETE")
    BY <1>1, <1>4, <2>3, <2>7, DeleteChildAccepted DEF Answered
  <2>8. CASE Is(r, "child", "CREATE")
    BY <1>1, <1>4, <2>3, <2>8, CreateChildAccepted DEF Answered
  <2>9. CASE Is(r, "child", "UPDATE")
    BY <1>1, <1>4, <2>3, <2>9, UpdateChildAccepted DEF Answered
  <2>10. CASE r.on = "grant"
    <3>1. target[s] # Absent
      BY <1>1, <2>10 DEF Intended
    <3>2. Live(s)
      BY <1>2, <2>2, <2>10, <3>1
    <3>3. Accepts(r)
      BY <2>10, <3>2 DEF Accepts, AcceptsGrant, Writable
    <3>4. QED
      BY <1>4, <2>3, <3>3 DEF Answered
  <2>11. QED
    BY <2>1, <2>4, <2>5, <2>6, <2>7, <2>8, <2>9, <2>10 DEF Is
<1>5. QED
  BY <1>3, <1>4

-----------------------------------------------------------------------------
(***************************************************************************)
(* The definitions stay sound for the file.                                *)
(***************************************************************************)

\* The definitions at first can be reached with the file.
LEMMA InitSound ==
    ASSUME \A sc \in Scenarios : SoundScenario(sc), Init
    PROVE  Sound
<1>1. PICK sc \in Scenarios : origin = sc.origin /\ target = sc.target /\ SoundScenario(sc)
  BY DEF Init
<1>2. ASSUME NEW s \in Series, NEW k \in Keys, Has(s, k)
      PROVE  Plain(child[s][k]) /\ Steady(target, s, k, child[s][k])
  <2>1. origin[s] # Absent /\ child[s] = origin[s].child
    BY <1>2 DEF Init, Has, Childless
  <2>2. QED
    BY <1>1, <1>2, <2>1 DEF SoundScenario, Has
<1>3. QED
  BY <1>1, <1>2 DEF Sound, SoundScenario

\* So can those after a request that keeps the references of the file.
LEMMA ServedSound ==
    ASSUME IInv, Sound, target' = target, NEW r \in Requests, Wrote(r),
           r.on = "child" /\ r.op # "DELETE" =>
              Plain(r.body) /\ Steady(target, r.series, r.at, r.body)
    PROVE  Sound'
<1>1. /\ r.on \in {"series", "child", "grant"} /\ r.op \in {"CREATE", "UPDATE", "DELETE"}
      /\ r.on = "child" => r.at \in Keys
  BY RequestParts
<1>2. ASSUME NEW s \in Series, NEW k \in Keys, Has(s, k)'
      PROVE  Plain(child'[s][k]) /\ Steady(target, s, k, child'[s][k])
  <2>1. child[s] \in [Keys -> Child \cup {Absent}]
    BY DEF IInv, TypeOK
  <2>2. CASE child'[s][k] = child[s][k]
    BY <1>2, <2>2 DEF Sound, Has
  <2>3. CASE child'[s][k] # child[s][k]
    <3>1. r.series = s
      BY <2>3 DEF Wrote
    <3>2. ~(child'[s] = Childless)
      BY <1>2 DEF Has, Childless
    <3>3. r.on = "child" /\ r.at = k /\ r.op # "DELETE" /\ child'[s][k] = r.body
      BY <1>1, <1>2, <2>1, <2>3, <3>1, <3>2 DEF Wrote, Is, Has
    <3>4. QED
      BY <3>1, <3>3
  <2>4. QED
    BY <2>2, <2>3
<1>3. QED
  BY <1>2 DEF Sound, Plain, Steady, SoundFile

\* No step makes the file impossible to reach.
LEMMA StepSound ==
    ASSUME SyncInv, PushInv, Sound, [Next]_vars
    PROVE  Sound'
<1>1. target' = target
  BY StepsKeepScenario DEF scenario
<1>2. ASSUME child' = child PROVE Sound'
  BY <1>1, <1>2 DEF Sound, Has
<1>3. ASSUME NEW c \in Clients, Request(c) PROVE Sound'
  <2>1. PICK r \in Due(c) : UNCHANGED meta \/ (r \in Requests /\ Wrote(r))
    BY <1>3, RequestCases DEF Stop
  <2>2. CASE UNCHANGED meta
    BY <1>2, <2>2 DEF meta
  <2>3. CASE r \in Requests /\ Wrote(r)
    <3>1. r \in todo[c] /\ Intended(r) /\ r.series \in Series /\ (r.on = "child" => r.at \in Keys)
      BY <2>3, RequestParts DEF Due, PushInv
    <3>2. ASSUME r.on = "child", r.op # "DELETE"
          PROVE  Plain(r.body) /\ Steady(target, r.series, r.at, r.body)
      <4>1. /\ target[r.series] # Absent /\ target[r.series].child[r.at] # Absent
            /\ r.body = target[r.series].child[r.at]
        BY <3>1, <3>2 DEF Intended
      <4>2. QED
        BY <3>1, <3>2, <4>1, SoundParts DEF Steady, Sound, SyncInv, ClientInv
    <3>3. QED
      BY <1>1, <2>3, <3>2, ServedSound DEF SyncInv
  <2>4. QED
    BY <2>1, <2>2, <2>3
<1>4. CASE Edit
  <2>1. PICK r \in Edits : Serve(r)
    BY <1>4 DEF Edit
  <2>2. r \in Requests
    BY EditsAssumption
  <2>3. Wrote(r)
    BY <2>1, <2>2, ServedWrites DEF SyncInv
  <2>4. QED
    BY <1>1, <2>2, <2>3, ServedSound DEF Sound, SyncInv
<1>5. ASSUME NEW c \in Clients,
             FetchList(c) \/ (\E s \in Series : FetchSeries(c, s)) \/ Diff(c) \/ ReadUrls(c) \/ Finish(c) \/ Fail(c)
      PROVE  child' = child
  BY <1>5 DEF FetchList, FetchSeries, Diff, ReadUrls, Finish, Fail, Stop, meta
<1>6. ASSUME NEW s \in Series, RunMigration(s) PROVE child' = child
  BY <1>6 DEF RunMigration, Migrate
<1>7. UNCHANGED vars => child' = child
  BY DEF vars, meta
<1>8. QED
  BY <1>2, <1>3, <1>4, <1>5, <1>6, <1>7 DEF Next, ClientStep

-----------------------------------------------------------------------------
(***************************************************************************)
(* A client that nobody disturbs is ready for its next step.               *)
(***************************************************************************)

\* Whether a list is feasible depends on the definitions and the file only.
LEMMA FeasibleSame ==
    ASSUME UNCHANGED <<scenario, head, child>>, NEW T, NEW d \in Clients, todo'[d] = T, Feasible(T)
    PROVE  Feasible(todo[d])'
<1>1. target' = target /\ options' = options
  BY DEF scenario
<1>2. ASSUME NEW on, NEW op, NEW s, NEW x
      PROVE  Asks(todo[d], on, op, s, x)' <=> Asks(T, on, op, s, x)
  BY DEF Asks
<1>3. ASSUME NEW s \in Series, FitsSeries(T, s) PROVE FitsSeries(todo[d], s)'
  <2>1. Live(s)' <=> Live(s)
    BY DEF Live
  <2>2. QED
    BY <1>1, <1>2, <1>3, <2>1 DEF FitsSeries
<1>4. ASSUME NEW s \in Series, NEW k \in Keys, FitsChild(T, s, k) PROVE FitsChild(todo[d], s, k)'
  <2>1. (Has(s, k)' <=> Has(s, k)) /\ (Stays(s, k)' <=> Stays(s, k))
    BY <1>1 DEF Has, Stays, Exempt, Keeps
  <2>2. Keeps(s, k, child[s])' <=> Keeps(s, k, child[s])
    BY <1>1 DEF Keeps
  <2>3. QED
    BY <1>1, <1>2, <1>4, <2>1, <2>2 DEF FitsChild
<1>5. Unique(T) => Unique(todo[d])'
  BY DEF Unique
<1>6. QED
  BY <1>3, <1>4, <1>5 DEF Feasible

\* As long as nothing changes.
LEMMA ReadySame ==
    ASSUME SyncInv, NEW d \in Clients, Ready(d), UNCHANGED <<scenario, head, child, grant>>,
           UNCHANGED <<phase[d], listed[d], base[d], unread[d], todo[d]>>,
           foreign[d] => foreign'[d]
    PROVE  Ready(d)'
<1>1. Feasible(todo[d]) => Feasible(todo[d])'
  BY FeasibleSame
<1>2. Accurate(d) => Accurate(d)'
  BY DEF Accurate, LiveSeries, Live
<1>3. LiveSeries' = LiveSeries
  BY DEF LiveSeries, Live
<1>4. QED
  BY <1>1, <1>2, <1>3 DEF Ready

\* What a client fetches is there, and can be read.
LEMMA ReadyFetched ==
    ASSUME SyncInv, PushInv, NEW c \in Clients, Ready(c), refusal[c] # "unexplained",
           UNCHANGED scenario, FetchList(c) \/ \E x \in Series : FetchSeries(c, x)
    PROVE  Ready(c)' /\ refusal'[c] # "unexplained"
<1>1. CASE FetchList(c)
  <2> DEFINE D(s) == Definition(head[s], Childless, NoGroups)
  <2>1. /\ phase'[c] = "fetching" /\ listed'[c] = LiveSeries /\ unread'[c] = LiveSeries
        /\ \A s \in Series : base'[c][s] = IF Live(s) THEN D(s) ELSE Absent
        /\ refusal'[c] = "none" /\ UNCHANGED <<head, child, grant>>
    BY <1>1 DEF FetchList, PushInv, ClientTypes, SyncInv, ClientInv, meta
  <2>2. ASSUME NEW s \in Series, Live(s) PROVE D(s) # Absent /\ D(s).head = head[s]
    <3>1. head[s] \in Head
      BY <2>2 DEF SyncInv, IInv, TypeOK, Live
    <3>2. D(s).head = head[s]
      BY DEF Definition
    <3>3. QED
      BY <3>1, <3>2, NoneParts, DefinitionMade
  <2>3. LiveSeries' = LiveSeries
    BY <2>1 DEF LiveSeries, Live
  <2> HIDE DEF D
  <2>4. Accurate(c)'
    BY <2>1, <2>2, <2>3 DEF Accurate, LiveSeries, Live
  <2>5. QED
    BY <2>1, <2>4 DEF Ready
<1>2. ASSUME NEW x \in Series, FetchSeries(c, x) PROVE Ready(c)' /\ refusal'[c] # "unexplained"
  <2>1. CASE Stop(c, Blame(c, x)) /\ ~Readable(c, x)
    <3>1. phase'[c] = "stopped" /\ refusal'[c] = Blame(c, x)
      BY <2>1 DEF Stop, PushInv, ClientTypes
    <3>2. locked[x] \/ foreign[c]
      <4>1. SUFFICES ASSUME ~foreign[c] PROVE Readable(c, x)
        BY <2>1
      <4>2. Accurate(c) /\ x \in unread[c]
        BY <1>2, <4>1 DEF Ready, FetchSeries
      <4>3. Live(x) /\ listed[c] = LiveSeries
        BY <4>2 DEF Accurate, SyncInv, ClientInv
      <4>4. ASSUME NEW k \in Keys, Has(x, k)
            PROVE  child[x][k].ref \in LiveSeries \cup {NoRef} /\ Gone \notin child[x][k].targets
        BY <4>4, KeysAssumption DEF SyncInv, IInv, NothingDangles, RefsLive, TargetsLive, LiveSeries
      <4>5. QED
        BY <4>3, <4>4 DEF Readable, LiveSeries
    <3>3. QED
      BY <3>1, <3>2 DEF Ready, Blame, PushInv, ClientTypes
  <2>2. CASE ~(Stop(c, Blame(c, x)) /\ ~Readable(c, x))
    <3> DEFINE d == Definition(base[c][x].head, child[x], grant[x])
    <3>1. /\ base' = [base EXCEPT ![c][x] = d]
          /\ unread' = [unread EXCEPT ![c] = @ \ {x}]
          /\ UNCHANGED <<meta, phase, listed, foreign, refusal>>
          /\ x \in unread[c] /\ phase[c] = "fetching"
      BY <1>2, <2>2 DEF FetchSeries
    <3>2. base'[c] = [base[c] EXCEPT ![x] = d] /\ unread'[c] = unread[c] \ {x}
      BY <3>1 DEF SyncInv, ClientInv
    <3>3. base'[c][x] = d /\ \A y \in Series \ {x} : base'[c][y] = base[c][y]
      BY <3>2 DEF SyncInv, ClientInv
    <3>4. base[c][x] # Absent /\ d # Absent
      <4>1. base[c][x] \in Definitions /\ base[c][x] # Absent
        BY <3>1 DEF SyncInv, ClientInv, Held
      <4>2. child[x] \in ShapedChildren
        BY DEF SyncInv, IInv, TypeOK, ChildrenShaped, Has, ShapedChildren
      <4>3. grant[x] \in Grants
        BY DEF SyncInv, IInv, TypeOK, Grants
      <4>4. QED
        BY <4>1, <4>2, <4>3, DefinitionParts, DefinitionMade
    <3>5. d.head = base[c][x].head /\ d.child = child[x] /\ d.grant = grant[x]
      BY DEF Definition
    <3> HIDE DEF d
    <3>6. Accurate(c) => Accurate(c)'
      BY <3>1, <3>2, <3>3, <3>4, <3>5 DEF Accurate, LiveSeries, Live, meta
    <3>7. QED
      BY <3>1, <3>6 DEF Ready
  <2>3. QED
    BY <2>1, <2>2
<1>3. QED
  BY <1>1, <1>2

\* What has been fetched is compared with the file while it is accurate.
LEMMA ReadyCompared ==
    ASSUME SyncInv, PushInv, NEW c \in Clients, Ready(c), UNCHANGED scenario, Diff(c)
    PROVE  Ready(c)'
<1>1. /\ phase'[c] = "deleting" /\ todo'[c] = Pushed(base[c], target)
      /\ UNCHANGED <<head, child>> /\ foreign'[c] = foreign[c]
      /\ phase[c] = "fetching" /\ unread[c] = {}
  BY DEF Diff, PushInv, ClientTypes, SyncInv, ClientInv, meta
<1>2. ~foreign[c] => Feasible(Pushed(base[c], target))
  BY <1>1, FitsPushed DEF Ready
<1>3. ~foreign[c] => Feasible(todo[c])'
  BY <1>1, <1>2, FeasibleSame
<1>4. QED
  BY <1>1, <1>3 DEF Ready

\* The list that is read between deleting and writing is up to date.
LEMMA ReadyUrls ==
    ASSUME SyncInv, PushInv, NEW c \in Clients, Ready(c), UNCHANGED scenario, ReadUrls(c)
    PROVE  Ready(c)'
<1>1. /\ phase'[c] = "writing" /\ todo'[c] = todo[c] /\ listed'[c] = LiveSeries
      /\ UNCHANGED <<head, child>> /\ foreign'[c] = foreign[c] /\ phase[c] = "deleting"
  BY DEF ReadUrls, PushInv, ClientTypes, SyncInv, ClientInv, meta
<1>2. LiveSeries' = LiveSeries
  BY <1>1 DEF LiveSeries, Live
<1>3. ~foreign[c] => Feasible(todo[c])'
  BY <1>1, FeasibleSame DEF Ready
<1>4. QED
  BY <1>1, <1>2, <1>3 DEF Ready

\* While a client writes children and permissions no data series comes or goes.
LEMMA ListKept ==
    ASSUME SyncInv, PushInv, NEW c \in Clients, NEW r \in todo[c], Stage(r) > 4,
           r \in Requests, Wrote(r), listed' = ForgetDead(listed), listed[c] = LiveSeries
    PROVE  listed'[c] = LiveSeries'
<1>1. r \in Asked
  BY DEF SyncInv, ClientInv
<1>2. ~(r.on = "series")
  <2>1. r.on = "series" => r.op \in {"CREATE", "UPDATE", "DELETE"}
    BY RequestParts
  <2>2. r.on = "series" => Stage(r) \in {2, 3, 4}
    BY <1>1, <2>1, Stages DEF Is
  <2>3. QED
    BY <2>2
<1>3. \A s \in Series : head'[s] = head[s]
  <2>1. r.series \in Series
    BY RequestParts
  <2>2. QED
    BY <1>2, <2>1 DEF Wrote
<1>4. LiveSeries' = LiveSeries
  BY <1>3 DEF LiveSeries, Live
<1>5. listed'[c] = {s \in listed[c] : head'[s] # Absent}
  BY DEF ForgetDead
<1>6. QED
  BY <1>3, <1>4, <1>5 DEF LiveSeries, Live

\* A client that requests what is due stays ready, and is refused only for a lock
\* or because of others.
LEMMA ReadyServed ==
    ASSUME SyncInv, PushInv, Sound, NEW c \in Clients, Ready(c), refusal[c] # "unexplained",
           phase[c] = "writing" => \A q \in todo[c] : Stage(q) > 4,
           UNCHANGED scenario, Request(c)
    PROVE  /\ Ready(c)' /\ refusal'[c] # "unexplained"
           /\ phase'[c] = "writing" => phase[c] = "writing" /\ todo'[c] \subseteq todo[c]
<1>1. phase[c] \in {"deleting", "writing"}
  BY DEF Request
<1>2. PICK r \in Due(c) :
         /\ phase[c] = "deleting" => Stage(r) <= 4
         /\ \/ Stop(c, Blame(c, r.series)) /\ ~Answered(c, r)
            \/ /\ r.op = "GET"
               /\ todo' = [todo EXCEPT ![c] = @ \ {r}]
               /\ UNCHANGED <<meta, listed, foreign, phase, base, unread, order, refusal>>
            \/ /\ r \in Requests /\ Wrote(r) /\ Serve(r)
               /\ todo' = [todo EXCEPT ![c] = @ \ {r}]
               /\ listed' = ForgetDead(listed) /\ Disturb(Clients \ {c})
               /\ UNCHANGED <<phase, base, unread, order, refusal>>
  BY RequestCases
<1>3. r \in todo[c]
  BY DEF Due
<1>4. CASE Stop(c, Blame(c, r.series)) /\ ~Answered(c, r)
  <2>1. phase'[c] = "stopped" /\ refusal'[c] = Blame(c, r.series)
    BY <1>4 DEF Stop, PushInv, ClientTypes
  <2>2. locked[r.series] \/ foreign[c]
    BY <1>1, <1>2, <1>4, DueAnswered DEF Ready
  <2>3. QED
    BY <2>1, <2>2 DEF Ready, Blame
<1>5. CASE ~(Stop(c, Blame(c, r.series)) /\ ~Answered(c, r))
  <2>1. /\ todo' = [todo EXCEPT ![c] = @ \ {r}]
        /\ UNCHANGED <<phase, refusal>>
        /\ \/ r.op = "GET" /\ UNCHANGED <<meta, listed, foreign>>
           \/ /\ r \in Requests /\ Wrote(r)
              /\ listed' = ForgetDead(listed) /\ Disturb(Clients \ {c})
    BY <1>2, <1>5
  <2>2. todo'[c] = todo[c] \ {r}
    BY <2>1 DEF SyncInv, ClientInv
  <2>3. foreign'[c] = foreign[c]
    <3>1. foreign[c] \in BOOLEAN
      BY DEF PushInv, ClientTypes
    <3>2. CASE Disturb(Clients \ {c})
      BY <3>1, <3>2 DEF Disturb
    <3>3. QED
      BY <2>1, <3>2
  <2>4. ~foreign[c] => Feasible(todo[c])'
    <3>1. todo[c] \subseteq Asked /\ Ordered(todo[c]) /\ \A q \in todo[c] : Intended(q)
      BY DEF SyncInv, ClientInv, PushInv
    <3>2. ~foreign[c] => Feasible(todo[c])
      BY <1>1 DEF Ready
    <3>3. (r.op = "GET" /\ UNCHANGED meta) \/ (r \in Requests /\ Wrote(r))
      BY <2>1
    <3>4. QED
      BY <2>2, <3>1, <3>2, <3>3, FeasibleKept DEF SyncInv
  <2>5. ~foreign[c] /\ phase[c] = "writing" => listed'[c] = LiveSeries'
    <3>1. SUFFICES ASSUME ~foreign[c], phase[c] = "writing" PROVE listed'[c] = LiveSeries'
      OBVIOUS
    <3>2. listed[c] = LiveSeries /\ Stage(r) > 4
      BY <1>3, <3>1 DEF Ready
    <3>3. CASE UNCHANGED <<meta, listed>>
      BY <3>2, <3>3 DEF LiveSeries, Live, meta
    <3>4. CASE r \in Requests /\ Wrote(r) /\ listed' = ForgetDead(listed)
      BY <1>3, <3>2, <3>4, ListKept
    <3>5. QED
      BY <2>1, <3>3, <3>4
  <2>6. Ready(c)'
    BY <1>1, <2>1, <2>3, <2>4, <2>5 DEF Ready
  <2>7. QED
    BY <2>1, <2>2, <2>6
<1>6. QED
  BY <1>4, <1>5

\* Others are either as ready as before or know that they have been disturbed.
LEMMA OthersReady ==
    ASSUME SyncInv, PushInv, NEW c \in Clients, ClientStep(c) \/ Fail(c), UNCHANGED scenario,
           NEW d \in Clients \ {c}, Ready(d)
    PROVE  Ready(d)'
<1>1. /\ phase'[d] = phase[d] /\ base'[d] = base[d] /\ unread'[d] = unread[d]
      /\ todo'[d] = todo[d]
      /\ \/ UNCHANGED meta /\ foreign'[d] = foreign[d] /\ listed'[d] = listed[d]
         \/ ~foreign'[d] => phase[d] \in {"idle", "stopped"}
  BY OthersKeep
<1>2. CASE UNCHANGED meta /\ foreign'[d] = foreign[d] /\ listed'[d] = listed[d]
  BY <1>1, <1>2, ReadySame DEF meta
<1>3. CASE ~foreign'[d] => phase[d] \in {"idle", "stopped"}
  BY <1>1, <1>3 DEF Ready
<1>4. QED
  BY <1>1, <1>2, <1>3

\* Every step of a client keeps it ready, and never ends in an unexplained refusal.
LEMMA ClientReady ==
    ASSUME SyncInv, PushInv, Sound, NEW c \in Clients, Ready(c), refusal[c] # "unexplained",
           phase[c] = "writing" => \A q \in todo[c] : Stage(q) > 4,
           UNCHANGED scenario, ClientStep(c) \/ Fail(c)
    PROVE  /\ Ready(c)' /\ refusal'[c] # "unexplained"
           /\ phase'[c] = "writing" => \A q \in todo'[c] : Stage(q) > 4
<1>1. CASE FetchList(c) \/ \E s \in Series : FetchSeries(c, s)
  <2>1. phase'[c] # "writing"
    BY <1>1 DEF FetchList, FetchSeries, Stop, PushInv, ClientTypes
  <2>2. QED
    BY <1>1, <2>1, ReadyFetched
<1>2. CASE Diff(c)
  <2>1. phase'[c] # "writing" /\ refusal'[c] = refusal[c]
    BY <1>2 DEF Diff, PushInv, ClientTypes
  <2>2. QED
    BY <1>2, <2>1, ReadyCompared
<1>3. CASE ReadUrls(c)
  <2>1. refusal'[c] = refusal[c] /\ todo'[c] = todo[c] /\ \A q \in todo[c] : Stage(q) > 4
    BY <1>3 DEF ReadUrls
  <2>2. QED
    BY <1>3, <2>1, ReadyUrls
<1>4. CASE Request(c)
  BY <1>4, ReadyServed
<1>5. CASE Finish(c)
  <2>1. phase'[c] = "done" /\ refusal'[c] = refusal[c]
    BY <1>5 DEF Finish, PushInv, ClientTypes
  <2>2. QED
    BY <2>1 DEF Ready
<1>6. CASE Fail(c)
  <2>1. phase'[c] = "stopped" /\ refusal'[c] = "interrupted"
    BY <1>6 DEF Fail, Stop, PushInv, ClientTypes
  <2>2. QED
    BY <2>1 DEF Ready
<1>7. QED
  BY <1>1, <1>2, <1>3, <1>4, <1>5, <1>6 DEF ClientStep

\* Nobody has read anything at first.
LEMMA InitAccept ==
    ASSUME \A sc \in Scenarios : SoundScenario(sc), Init
    PROVE  AcceptInv
<1>1. \A c \in Clients : phase[c] = "idle" /\ refusal[c] = "none"
  BY DEF Init
<1>2. QED
  BY <1>1, InitSound DEF AcceptInv, Ready

\* The definitions stay sound, and every client ready.
LEMMA StepAccept ==
    ASSUME SyncInv, PushInv, AcceptInv, [Next]_vars
    PROVE  AcceptInv'
<1>1. UNCHANGED scenario
  BY StepsKeepScenario
<1>2. Sound'
  BY StepSound DEF AcceptInv
<1>3. ASSUME NEW c \in Clients, ClientStep(c) \/ Fail(c) PROVE AcceptInv'
  <2>1. ASSUME NEW d \in Clients \ {c}
        PROVE  /\ Ready(d)' /\ refusal'[d] # "unexplained"
               /\ phase'[d] = "writing" => \A q \in todo'[d] : Stage(q) > 4
    <3>1. Ready(d)'
      BY <1>1, <1>3, OthersReady DEF AcceptInv
    <3>2. refusal'[d] = refusal[d] /\ phase'[d] = phase[d] /\ todo'[d] = todo[d]
      BY <1>3, OthersKeep
    <3>3. QED
      BY <3>1, <3>2 DEF AcceptInv
  <2>2. /\ Ready(c)' /\ refusal'[c] # "unexplained"
        /\ phase'[c] = "writing" => \A q \in todo'[c] : Stage(q) > 4
    BY <1>1, <1>3, ClientReady DEF AcceptInv
  <2>3. ASSUME NEW d \in Clients
        PROVE  /\ Ready(d)' /\ refusal'[d] # "unexplained"
               /\ phase'[d] = "writing" => \A q \in todo'[d] : Stage(q) > 4
    BY <2>1, <2>2
  <2>4. QED
    BY <1>2, <2>3 DEF AcceptInv
<1>4. ASSUME UNCHANGED <<phase, todo, refusal>>, \A d \in Clients : Ready(d)' PROVE AcceptInv'
  BY <1>2, <1>4 DEF AcceptInv
<1>5. CASE Edit
  <2>1. ASSUME NEW d \in Clients PROVE Ready(d)'
    <3>1. phase' = phase /\ foreign'[d] = (foreign[d] \/ phase[d] \in Working \cup {"done"})
      BY <1>5 DEF Edit, Disturb
    <3>2. ~foreign'[d] => phase'[d] \in {"idle", "stopped"}
      BY <3>1 DEF PushInv, ClientTypes, Phases
    <3>3. QED
      BY <3>2 DEF Ready
  <2>2. QED
    BY <1>4, <1>5, <2>1 DEF Edit
<1>6. ASSUME UNCHANGED <<head, child, grant, client>> PROVE AcceptInv'
  <2>1. ASSUME NEW d \in Clients PROVE Ready(d)'
    BY <1>1, <1>6, ReadySame DEF AcceptInv, client
  <2>2. QED
    BY <1>4, <1>6, <2>1 DEF client
<1>7. ASSUME NEW s \in Series, RunMigration(s) PROVE AcceptInv'
  BY <1>6, <1>7 DEF RunMigration, Migrate
<1>8. CASE UNCHANGED vars
  BY <1>6, <1>8 DEF vars, meta
<1>9. QED
  BY <1>3, <1>5, <1>7, <1>8 DEF Next

\* The order of a push never asks for something whose precondition comes later:
\* of a sound file the server refuses nothing, but for the lock of a migration or
\* because others have written since.
THEOREM PushNeverRefused ==
    ASSUME \A sc \in Scenarios : SoundScenario(sc)
    PROVE  Spec => []PushIsAccepted
<1>1. Init => AcceptInv
  BY InitAccept
<1>2. SyncInv /\ PushInv /\ AcceptInv /\ [Next]_vars => AcceptInv'
  BY StepAccept
<1>3. AcceptInv => PushIsAccepted
  BY DEF AcceptInv, PushIsAccepted
<1>4. QED
  BY <1>1, <1>2, <1>3, PushInductive, PTL DEF Spec
=============================================================================
