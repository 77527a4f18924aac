--------------------------- MODULE MCSparqlUpdates ---------------------------
(***************************************************************************)
(* The updates and queries of the run, as parse trees: one of every kind   *)
(* of update for the default graph and for a named graph, and queries put  *)
(* together from the parts a group can have.                               *)
(***************************************************************************)
EXTENDS SparqlUpdates

MCVariable == {"?x", "?y", "?z", "?g", "?n"}
MCNumber == ("0" :> 0) @@ ("1" :> 1) @@ ("2" :> 2) @@ ("3" :> 3) @@ ("4" :> 4)
AB == <<"a", "p", "b">>
BC == <<"b", "p", "c">>
CA == <<"c", "p", "a">>
A1 == <<"a", "q", "1">>
B2 == <<"b", "q", "2">>
MCTriple == {AB, BC, CA, A1, B2}
-----------------------------------------------------------------------------
Block(ts) == [name |-> "TriplesBlock", triples |-> ts]
GroupOf(parts) == [name |-> "GroupGraphPattern", part |-> parts]
Optional(parts) == [name |-> "Optional", graph |-> GroupOf(parts)]
MinusGroup(parts) == [name |-> "MinusGroup", graph |-> GroupOf(parts)]
Groups(gs) == [name |-> "Groups", graph |-> gs]
Nested(parts) == Groups(<<GroupOf(parts)>>)
InGraph(term, parts) == [name |-> "GraphGroup", term |-> term, graph |-> GroupOf(parts)]
FilterPart(e) == [name |-> "FilterPart", expr |-> e]
Bind(e, v) == [name |-> "Bind", expr |-> e, var |-> v]
Term(t) == [name |-> "Term", term |-> t]
Compare(op, l, r) == [name |-> op, expr |-> l, other |-> r]
Bound(v) == [name |-> "BOUND", arg |-> v]
Not(e) == [name |-> "Not", expr |-> e]
Exists(parts) == [name |-> "EXISTS", graph |-> GroupOf(parts)]
NotExists(parts) == [name |-> "NOTEXISTS", graph |-> GroupOf(parts)]

Select(where) ==
    [name |-> "SubSelect", where |-> where, groupby |-> <<>>, having |-> <<>>,
     projection |-> <<>>, orderby |-> <<>>, modifier |-> "", limit |-> <<>>, offset |-> 0]
Plain(v) == [evar |-> "", var |-> v, expr |-> True]
As(e, v) == [evar |-> v, var |-> "", expr |-> e]
Agg(name, v, distinct) == [name |-> name, vars |-> VarExpr(v), distinct |-> distinct]
By(v, order) == [expr |-> VarExpr(v), order |-> order]

xpy == Block(<< <<"?x", "p", "?y">> >>)
yqz == Block(<< <<"?y", "q", "?z">> >>)
xqz == Block(<< <<"?x", "q", "?z">> >>)
zpy == Block(<< <<"?z", "p", "?y">> >>)
VX == VarExpr("?x")
VY == VarExpr("?y")
VZ == VarExpr("?z")

Others == {
    Optional(<<yqz>>),
    Optional(<<yqz, FilterPart(Compare("<", VZ, Term("2")))>>),
    Optional(<<yqz, FilterPart(Bound("?x"))>>),
    Optional(<<yqz, Optional(<<xqz>>)>>),
    MinusGroup(<<yqz>>),
    MinusGroup(<<xqz, FilterPart(Bound("?y"))>>),
    InGraph("?g", <<xqz>>),
    InGraph("g", <<zpy, Optional(<<yqz>>)>>),
    Groups(<<GroupOf(<<yqz>>), GroupOf(<<xqz>>)>>),
    Nested(<<yqz, MinusGroup(<<zpy>>)>>),
    Nested(<<yqz, Optional(<<xqz>>)>>),
    Bind(VX, "?z"),
    Nested(<<Bind(VX, "?z")>>),
    FilterPart(Exists(<<xqz>>)),
    FilterPart(NotExists(<<zpy, FilterPart(Compare("=", VX, VZ))>>)),
    FilterPart([name |-> "Or", args |-> <<Compare("<", VX, VY), Compare("=", VX, Term("a"))>>]),
    Groups(<< [Select(GroupOf(<<yqz>>)) EXCEPT !.projection = <<Plain("?z")>>,
                                               !.modifier = "DISTINCT"] >>) }

Thirds == { FilterPart(Not(Bound("?z"))), MinusGroup(<<xqz>>),
            [name |-> "InlineData", res |-> <<"?y" :> "b", ("?x" :> "b") @@ ("?y" :> "c")>>] }

Firsts == { Groups(<<GroupOf(<<xpy>>), GroupOf(<<xqz>>)>>),
            Nested(<<xpy, FilterPart(Compare("=", VX, Term("a")))>>),
            Block(<< <<"?x", "p", "?y">>, <<"?y", "p", "?z">> >>) }

Counted == [Select(GroupOf(<<xpy, Optional(<<xqz>>)>>)) EXCEPT !.groupby = <<"?x">>]
\* a query with what translateQuery makes of it, and with what the properties ask of it
TranslatedQuery(q, t) ==
    [translated |-> t, algebra |-> Simplify(t), wellScoped |-> WellScoped(t),
     overGraphs |-> HasNode(t, "Graph")] @@ q

Parsed ==
    {Select(GroupOf(<<xpy, o>>)) : o \in Others}
    \cup {Select(GroupOf(<<xpy, o, t>>)) : o \in Others, t \in Thirds}
    \cup {Select(GroupOf(<<f>>)) : f \in Firsts}
    \cup {[Counted EXCEPT !.projection =
             <<Plain("?x"), As(Agg("Aggregate_Count", "?z", FALSE), "?n")>>],
          [Counted EXCEPT !.groupby = <<>>,
             !.projection = <<As(Agg("Aggregate_Sum", "?z", FALSE), "?n")>>],
          [Counted EXCEPT !.projection = <<Plain("?x"), As(Agg("Aggregate_Max", "?z", FALSE), "?n")>>,
             !.having = <<Compare("=", Agg("Aggregate_Count", "?y", TRUE), Term("1"))>>],
          [Select(GroupOf(<<xpy>>)) EXCEPT !.modifier = "DISTINCT",
             !.projection = <<Plain("?x")>>, !.orderby = <<By("?x", "ASC")>>],
          [Select(GroupOf(<<xpy, Optional(<<xqz>>)>>)) EXCEPT !.modifier = "DISTINCT",
             !.projection = <<Plain("?x"), Plain("?z")>>,
             !.orderby = <<By("?z", "DESC"), By("?x", "ASC")>>, !.limit = <<1>>],
          [Select(GroupOf(<<xpy, Optional(<<xqz>>)>>)) EXCEPT !.modifier = "DISTINCT",
             !.projection = <<Plain("?z")>>, !.orderby = <<By("?z", "ASC")>>,
             !.limit = <<1>>, !.offset = 1]}
MCQuery == {TranslatedQuery(q, Translate(q)) : q \in Parsed}
-----------------------------------------------------------------------------
NoQuads == [g \in {} |-> <<>>]
NoTemplate == [triples |-> <<>>, quads |-> NoQuads]
Data(name, triples, quad) == [name |-> name, triples |-> triples, quads |-> quad]
DeleteWhere(triples, quad) == [name |-> "DeleteWhere", triples |-> triples, quads |-> quad]
Modify(with, delete, insert, parts) ==
    [name |-> "Modify", with |-> with, delete |-> delete, insert |-> insert,
     where |-> GroupOf(parts)]
Template(ts) == [triples |-> ts, quads |-> NoQuads]
On(name, g) == [name |-> name, graphiri |-> g]
Between(name, src, dst) == [name |-> name, graph |-> <<src, dst>>]

Asked ==
    {Data("InsertData", <<AB>>, NoQuads), Data("InsertData", <<BC>>, "g" :> <<CA>>),
     Data("DeleteData", <<AB>>, NoQuads), Data("DeleteData", <<>>, "g" :> <<AB>>),
     DeleteWhere(<< <<"?x", "p", "?y">>, <<"?y", "p", "?z">> >>, NoQuads),
     DeleteWhere(<< <<"?x", "p", "?y">> >>, "g" :> << <<"?y", "p", "?z">> >>),
     DeleteWhere(<<>>, "g" :> << <<"?x", "p", "?y">>, <<"?y", "p", "?z">> >>),
     \* DELETE { ?x p ?y } INSERT { ?y p ?z } WHERE { ?x p ?y . ?y p ?z }
     Modify("", Template(<< <<"?x", "p", "?y">> >>), Template(<< <<"?y", "p", "?z">> >>),
            <<Block(<< <<"?x", "p", "?y">>, <<"?y", "p", "?z">> >>)>>),
     \* WITH <g> DELETE { ?x p ?y } WHERE { ?x p ?y OPTIONAL { ?x q ?z } FILTER(!BOUND(?z)) }
     Modify("g", Template(<< <<"?x", "p", "?y">> >>), NoTemplate,
            <<xpy, Optional(<<xqz>>), FilterPart(Not(Bound("?z")))>>),
     \* INSERT { GRAPH <g> { ?x p ?y } } WHERE { ?x p ?y MINUS { ?x q ?z } }
     Modify("", NoTemplate, [triples |-> <<>>, quads |-> "g" :> << <<"?x", "p", "?y">> >>],
            <<xpy, MinusGroup(<<xqz>>)>>)}
    \cup {On(op, g) : op \in {"Clear", "Drop"}, g \in {"DEFAULT", "NAMED", "ALL", "g"}}
    \cup {On("Create", "g")}
    \cup {Between(op, ends[1], ends[2]) : op \in {"Add", "Copy", "Move"},
            ends \in {<<"DEFAULT", "g">>, <<"g", "DEFAULT">>, <<"g", "g">>}}
\* the pattern of an update is translated with the update
TranslatedUpdate(u) == IF u.name = "Modify" THEN [u EXCEPT !.where = TranslateGroup(@)] ELSE u
MCUpdate == {TranslatedUpdate(u) : u \in Asked}
=============================================================================
