-------------------------- MODULE MCDefinitionSync --------------------------
(* Two data series, five children, one group: small files that have one       *)
(* difficulty each.                                                           *)
EXTENDS DefinitionSync, TLC

CONSTANTS a, b, g, none, gone, noref

MCSeries == {a, b}
Float  == <<"float", "x">>
Text   == <<"text", "x">>
Dim    == <<"dimension", "d">>
Index  == <<"index", "i">>
Cons   == <<"consumer", "c">>
MCKeys == {Float, Text, Dim, Index, Cons}

Of(attr) == [attr |-> attr, ref |-> noref, targets |-> {}]
To(s)    == [attr |-> 1, ref |-> s, targets |-> {}]
On(ks)   == [attr |-> 1, ref |-> noref, targets |-> ks]

Children(f) == [k \in MCKeys |-> IF k \in DOMAIN f THEN f[k] ELSE none]
Def(backend, f, p) == [head |-> [attr |-> 1, backend |-> backend], child |-> Children(f),
                       grant |-> [h \in {g} |-> p]]
Silent(backend, f) == [head |-> [attr |-> 1, backend |-> backend], child |-> Children(f),
                       grant |-> [h \in {} |-> {}]]

\* a refers to b; an index on the fact and the dimension.
Linked == [s \in MCSeries |->
    IF s = a THEN Def(1, (Float :> Of(1)) @@ (Dim :> To(b)) @@ (Index :> On({Float})) @@ (Cons :> Of(1)), {"read"})
    ELSE Def(1, << >>, {})]
Empty == [s \in MCSeries |-> none]
\* From nothing: an index needs its target, a dimension its reference.
Fresh == [s \in MCSeries |->
    IF s = a THEN Def(1, (Dim :> To(b)) @@ (Index :> On({Dim})), {"read"}) ELSE Silent(1, << >>)]

\* The fact becomes a text and its index moves with it; b moves to another backend.
Retyped == [s \in MCSeries |->
    IF s = a THEN Def(1, (Text :> Of(2)) @@ (Index :> On({Text})), {"write"})
    ELSE Silent(2, Float :> Of(1))]
\* The dimension turns to its own data series, a consumer changes, b refers to a.
Turned == [s \in MCSeries |->
    IF s = a THEN Def(1, (Float :> Of(1)) @@ (Dim :> To(a)) @@ (Index :> On({Float}))
                             @@ (Cons :> Of(2)), {"write"})
    ELSE Silent(1, Dim :> To(a))]
\* b goes, and with it what refers to it.
Smaller == [s \in MCSeries |->
    IF s = a THEN Def(1, (Float :> Of(2)) @@ (Index :> On({Float})), {"read", "write"}) ELSE none]

Scenario(o, t, all) == [origin |-> o, target |-> t,
                        options |-> [delete_in_base |-> all, revoke |-> all, remove_consumers |-> all]]
MCScenarios == {Scenario(Empty, Fresh, FALSE),
                Scenario(Linked, Retyped, TRUE), Scenario(Linked, Turned, FALSE),
                Scenario(Linked, Smaller, TRUE), Scenario(Linked, Smaller, FALSE)}
\* The hypothesis under which no push is refused.
ASSUME MCSound == \A sc \in MCScenarios : SoundScenario(sc)

\* An index on the dimension that turns, the same before and after.
Indexed(s) == [Linked EXCEPT ![a] = Def(1, (Dim :> To(s)) @@ (Index :> On({Dim})), {"read"})]
IndexedScenarios == {Scenario(Indexed(b), Indexed(a), TRUE)}
ASSUME MCUnsound == \A sc \in IndexedScenarios : ~SoundScenario(sc)

MCEdits == {Series_("DELETE", b, [attr |-> 1, backend |-> 1]),
            Child_("CREATE", b, Dim, To(a)),
            Child_("CREATE", a, Text, Of(1))}
=============================================================================
