--------------------------- MODULE SparqlAlgebra ----------------------------
(***************************************************************************)
(* From the parse tree of a query to the algebra that is evaluated:        *)
(* translate and translateGroupGraphPattern, with the passes simplify      *)
(* (joins with the empty pattern), analyse (which joins may be lazy) and   *)
(* _addVars (rdflib/plugins/sparql/algebra.py).  A node is a record with   *)
(* the name of its CompValue.  Left out: property functions of the parser, *)
(* prefixes, and paths, which are single names here.                       *)
(***************************************************************************)
EXTENDS Naturals, SequencesExt

(* Solution mappings of the SPARQL engine: FrozenDict, FrozenBindings and  *)
(* the outer chain of Bindings (rdflib/plugins/sparql/sparql.py) as        *)
(* functions from variables to terms, and the operations of evalutils.py   *)
(* on sequences of them.  A sequence stands for what a generator yields,   *)
(* so that duplicates and order are kept.                                  *)

CONSTANTS Variable      \* the variables of the queries

Unbound == "unbound"    \* None: no value

Empty == [v \in {} |-> Unbound]

\* ctx[x] of QueryContext: a term stands for itself
Get(b, x) ==
    IF x \notin Variable THEN x ELSE IF x \in DOMAIN b THEN b[x] ELSE Unbound

\* merge: the second dictionary of the chain wins
Merge(b, other) == other @@ b

Compatible(b, other) == \A v \in DOMAIN b \cap DOMAIN other : b[v] = other[v]

DisjointDomain(b, other) == DOMAIN b \cap DOMAIN other = {}

ProjectTo(b, vars) == [v \in DOMAIN b \cap vars |-> b[v]]

\* forget: without what was bound before, but for the exceptions
Forget(b, before, except) ==
    [v \in {w \in DOMAIN b : w \in except \/ w \notin DOMAIN before} |-> b[v]]

\* setting a variable of a context: AlreadyBound when it has another value
CanSet(b, x, term) == Get(b, x) \in {Unbound, term}
Set(b, x, term) == IF x \in Variable THEN (x :> term) @@ b ELSE b
-----------------------------------------------------------------------------
\* for x in s: for y in Op(x): yield y
Each(Op(_), s) == FlattenSeq([i \in 1..Len(s) |-> Op(s[i])])

\* every element once, where it comes first
Dedup(s) == FoldLeft(LAMBDA t, x : IF Contains(t, x) THEN t ELSE Append(t, x), <<>>, s)

JoinSolutions(a, b) ==
    Each(LAMBDA x : Each(LAMBDA y : IF Compatible(x, y) THEN <<Merge(x, y)>> ELSE <<>>, b), a)

MinusSolutions(a, b) ==
    SelectSeq(a, LAMBDA x : \A y \in ToSet(b) : ~Compatible(x, y) \/ DisjointDomain(x, y))

(***************************************************************************)
(* The triples of a template under a solution; a triple with a variable    *)
(* that has no value is left out.                                          *)
(***************************************************************************)
FillTemplate(template, b) ==
    LET filled == [i \in 1..Len(template) |-> [j \in 1..3 |-> Get(b, template[i][j])]]
    IN SelectSeq(filled, LAMBDA t : Unbound \notin ToSet(t))

-----------------------------------------------------------------------------
BGP(triples) == [name |-> "BGP", triples |-> triples]
True == [name |-> "TrueFilter"]
Join(p1, p2) == [name |-> "Join", p1 |-> p1, p2 |-> p2]
LeftJoin(p1, p2, expr) == [name |-> "LeftJoin", p1 |-> p1, p2 |-> p2, expr |-> expr]
Minus(p1, p2) == [name |-> "Minus", p1 |-> p1, p2 |-> p2]
Union(p1, p2) == [name |-> "Union", p1 |-> p1, p2 |-> p2]
GraphNode(term, p) == [name |-> "Graph", term |-> term, p |-> p]
Filter(expr, p) == [name |-> "Filter", expr |-> expr, p |-> p, isolated |-> TRUE]
Extend(p, expr, var) == [name |-> "Extend", p |-> p, expr |-> expr, var |-> var]
ToMultiSet(p) == [name |-> "ToMultiSet", p |-> p]
Values(res) == [name |-> "values", res |-> res]
Group(p, expr) == [name |-> "Group", p |-> p, expr |-> expr]
AggregateJoin(A, p) == [name |-> "AggregateJoin", A |-> A, p |-> p]
OrderBy(p, expr) == [name |-> "OrderBy", p |-> p, expr |-> expr]
Project(p, PV) == [name |-> "Project", p |-> p, PV |-> PV]
Distinct(p) == [name |-> "Distinct", p |-> p]
Reduced(p) == [name |-> "Reduced", p |-> p]
Slice(p, start, length) == [name |-> "Slice", p |-> p, start |-> start, length |-> length]

VarExpr(v) == [name |-> "Var", var |-> v]
Aggregates == {"Aggregate_Count", "Aggregate_Sum", "Aggregate_Min", "Aggregate_Max",
               "Aggregate_Sample"}
AggVar(n) == "__agg_" \o ToString(n) \o "__"
TwoSided == {"=", "<"}
Connective == {"And", "Or"}
Existential == {"EXISTS", "NOTEXISTS"}
Unary == {"Slice", "Distinct", "Reduced", "Project", "OrderBy", "Group", "ToMultiSet"}

\* and_(*filters)
AndOf(exprs) == IF Len(exprs) = 1 THEN exprs[1] ELSE [name |-> "And", args |-> exprs]

(***************************************************************************)
(* _traverse in collectAndRemoveFilters: adjacent blocks of triples, also  *)
(* those with a filter between them, are one basic graph pattern.          *)
(***************************************************************************)
MergedBlocks(parts) ==
    FoldLeft(LAMBDA g, p :
                IF p.name # "TriplesBlock" THEN Append(g, p)
                ELSE IF g # <<>> /\ Last(g).name = "BGP"
                     THEN Append(Front(g), BGP(Last(g).triples \o p.triples))
                     ELSE Append(g, BGP(p.triples)),
             <<>>, parts)

-----------------------------------------------------------------------------
RECURSIVE ReplaceAggs(_, _, _)
\* _sample and _aggs over an expression: variables are sampled, aggregates named
ReplaceAggs(expr, A, keep) ==
    LET named(agg) == [e |-> VarExpr(AggVar(Len(A) + 1)),
                       A |-> Append(A, [res |-> AggVar(Len(A) + 1)] @@ agg)]
    IN CASE expr.name \in Aggregates -> named(expr)
         [] expr.name = "Var" /\ expr.var # keep ->
              named([name |-> "Aggregate_Sample", vars |-> expr, distinct |-> FALSE])
         [] expr.name \in TwoSided ->
              LET l == ReplaceAggs(expr.expr, A, keep)
                  r == ReplaceAggs(expr.other, l.A, keep)
              IN [e |-> [expr EXCEPT !.expr = l.e, !.other = r.e], A |-> r.A]
         [] OTHER -> [e |-> expr, A |-> A]

RECURSIVE HasAggregate(_)
HasAggregate(expr) ==
    \/ expr.name \in Aggregates
    \/ expr.name \in TwoSided /\ (HasAggregate(expr.expr) \/ HasAggregate(expr.other))

(***************************************************************************)
(* translateAggregates: the expressions of the projection, then HAVING and *)
(* ORDER BY when they aggregate, then a sample for every plain variable of *)
(* the projection, which takes the variable's name afterwards (E).  acc    *)
(* holds the query and the aggregates collected so far.                    *)
(***************************************************************************)
Exprs(es) == [i \in 1..Len(es) |-> es[i].expr]
WithExprs(es, new) == [i \in 1..Len(es) |-> [es[i] EXCEPT !.expr = new[i]]]
Collect(acc, r) == [out |-> Append(acc.out, r.e), A |-> r.A]
ReplaceEach(exprs, keep, A) ==
    FoldLeft(LAMBDA acc, i : Collect(acc, ReplaceAggs(exprs[i], acc.A, keep[i])),
             [out |-> <<>>, A |-> A], [i \in 1..Len(exprs) |-> i])
NoKeep(exprs) == [i \in 1..Len(exprs) |-> ""]

SetProjection(acc, r) == [q |-> [acc.q EXCEPT !.projection = WithExprs(@, r.out)], A |-> r.A]
SetHaving(acc, r) == [q |-> [acc.q EXCEPT !.having = r.out], A |-> r.A]
SetOrder(acc, r) == [q |-> [acc.q EXCEPT !.orderby = WithExprs(@, r.out)], A |-> r.A]

\* v.expr of a plain variable is nothing that could be replaced
AggsOfProjection(acc) ==
    SetProjection(acc, ReplaceEach(Exprs(acc.q.projection),
                                  [i \in 1..Len(acc.q.projection) |-> acc.q.projection[i].evar],
                                  acc.A))
AggsOfHaving(acc) ==
    IF \E i \in 1..Len(acc.q.having) : HasAggregate(acc.q.having[i])
    THEN SetHaving(acc, ReplaceEach(acc.q.having, NoKeep(acc.q.having), acc.A)) ELSE acc
AggsOfOrder(acc) ==
    IF \E i \in 1..Len(acc.q.orderby) : HasAggregate(acc.q.orderby[i].expr)
    THEN SetOrder(acc, ReplaceEach(Exprs(acc.q.orderby), NoKeep(acc.q.orderby), acc.A)) ELSE acc
SampleOthers(acc, plain) ==
    [q |-> acc.q,
     A |-> acc.A \o [i \in 1..Len(plain) |->
                       [name |-> "Aggregate_Sample", vars |-> VarExpr(plain[i].var),
                        distinct |-> FALSE, res |-> AggVar(Len(acc.A) + i)]],
     E |-> [i \in 1..Len(plain) |-> <<AggVar(Len(acc.A) + i), plain[i].var>>]]

TranslateAggregates(q) ==
    SampleOthers(AggsOfOrder(AggsOfHaving(AggsOfProjection([q |-> q, A |-> <<>>]))),
                 SelectSeq(q.projection, LAMBDA v : v.evar = ""))

Aggregating(q) ==
    \/ \E i \in 1..Len(q.having) : HasAggregate(q.having[i])
    \/ \E i \in 1..Len(q.orderby) : HasAggregate(q.orderby[i].expr)
    \/ \E i \in 1..Len(q.projection) :
          q.projection[i].evar # "" /\ HasAggregate(q.projection[i].expr)

-----------------------------------------------------------------------------
RECURSIVE FindVars(_), TranslateGroup(_), Translate(_), TranslateExists(_)

\* _findVars: the variables of a parse tree that SELECT * projects
FindVars(gp) ==
    IF gp.name = "SubSelect"
    THEN {IF v.evar = "" THEN v.var ELSE v.evar : v \in ToSet(gp.projection)}
    ELSE UNION {CASE p.name = "TriplesBlock" -> UNION {ToSet(t) : t \in ToSet(p.triples)}
                  [] p.name \in {"Optional", "MinusGroup"} -> FindVars(p.graph)
                  [] p.name = "GraphGroup" -> FindVars(p.graph) \cup {p.term}
                  [] p.name = "Groups" -> UNION {FindVars(g) : g \in ToSet(p.graph)}
                  [] p.name = "Bind" -> {p.var}
                  [] p.name = "InlineData" -> UNION {DOMAIN r : r \in ToSet(p.res)}
                  [] OTHER -> {}
                : p \in ToSet(gp.part)} \cap Variable

\* translateExists: the group of an EXISTS; a filter that is all of it sees the
\* variables around it (no_isolated_scope)
TranslateExists(expr) ==
    CASE expr.name \in Existential ->
           LET g == TranslateGroup(expr.graph)
           IN [name |-> expr.name,
               graph |-> IF g.name = "Filter" THEN [g EXCEPT !.isolated = FALSE] ELSE g]
      [] expr.name \in Connective ->
           [expr EXCEPT !.args = [i \in 1..Len(@) |-> TranslateExists(@[i])]]
      [] expr.name = "Not" -> [expr EXCEPT !.expr = TranslateExists(@)]
      [] OTHER -> expr

(***************************************************************************)
(* translateGroupGraphPattern: the filters of a group are taken out and    *)
(* applied to the whole group, the other parts are joined from the left.   *)
(***************************************************************************)
TranslateGroup(gp) ==
    IF gp.name = "SubSelect" THEN ToMultiSet(Translate(gp))
    ELSE LET isFilter(p) == p.name = "FilterPart"
             filters == SelectSeq(gp.part, isFilter)
             parts == MergedBlocks(SelectSeq(gp.part, LAMBDA p : ~isFilter(p)))
             add(G, p) ==
                CASE p.name = "Optional" ->
                       LET A == TranslateGroup(p.graph)
                       IN IF A.name = "Filter" THEN LeftJoin(G, A.p, A.expr)
                                               ELSE LeftJoin(G, A, True)
                  [] p.name = "MinusGroup" -> Minus(G, TranslateGroup(p.graph))
                  [] p.name = "Groups" ->
                       Join(G, FoldLeft(Union, TranslateGroup(p.graph[1]),
                                        [i \in 1..(Len(p.graph) - 1) |->
                                           TranslateGroup(p.graph[i + 1])]))
                  [] p.name = "GraphGroup" -> Join(G, GraphNode(p.term, TranslateGroup(p.graph)))
                  [] p.name = "InlineData" -> Join(G, ToMultiSet(Values(p.res)))
                  [] p.name = "BGP" -> Join(G, p)
                  [] p.name = "Bind" -> Extend(G, TranslateExists(p.expr), p.var)
             G == FoldLeft(add, BGP(<<>>), parts)
         IN IF filters = <<>> THEN G
            ELSE Filter(AndOf([i \in 1..Len(filters) |-> TranslateExists(filters[i].expr)]), G)

(***************************************************************************)
(* translate: aggregates, HAVING, projection, ORDER BY, DISTINCT and LIMIT *)
(* in the order of section 18.2.4 of the specification of SPARQL.  Every   *)
(* step wraps the pattern M made so far.                                   *)
(***************************************************************************)
NameOfColumn(v) == IF v.evar = "" THEN v.var ELSE v.evar
PV(q) == IF q.projection = <<>> THEN FindVars(q.where)
         ELSE {NameOfColumn(v) : v \in ToSet(q.projection)}

Grouped(M, q, agg) ==
    [q |-> agg.q,
     M |-> FoldLeft(LAMBDA P, e : Extend(P, VarExpr(e[1]), e[2]),
                    AggregateJoin(agg.A, Group(M, q.groupby)), agg.E)]
Having(t) ==
    IF t.q.having = <<>> THEN t ELSE [t EXCEPT !.M = Filter(AndOf(t.q.having), @)]
Extended(t) ==
    [t EXCEPT !.M = FoldLeft(LAMBDA P, v : Extend(P, v.expr, v.evar), @,
                             SelectSeq(t.q.projection, LAMBDA v : v.evar # ""))]
Ordered(t) == IF t.q.orderby = <<>> THEN t ELSE [t EXCEPT !.M = OrderBy(@, t.q.orderby)]
Projected(t) == [t EXCEPT !.M = Project(@, PV(t.q))]
Modified(t) ==
    CASE t.q.modifier = "DISTINCT" -> [t EXCEPT !.M = Distinct(@)]
      [] t.q.modifier = "REDUCED" -> [t EXCEPT !.M = Reduced(@)]
      [] OTHER -> t
Limited(t) ==
    IF t.q.limit = <<>> /\ t.q.offset = 0 THEN t.M ELSE Slice(t.M, t.q.offset, t.q.limit)

TranslateFrom(M, q) ==
    Limited(Modified(Projected(Ordered(Extended(Having(
        IF q.groupby # <<>> \/ Aggregating(q) THEN Grouped(M, q, TranslateAggregates(q))
        ELSE [q |-> q, M |-> M]))))))

Translate(query) == TranslateFrom(TranslateGroup(query.where), query)

-----------------------------------------------------------------------------
(***************************************************************************)
(* The passes over the algebra, from the leaves up.  OverChildren applies  *)
(* a pass to the patterns a node holds.                                    *)
(***************************************************************************)
RECURSIVE Simplify(_), SimplifyExpr(_)

SimplifyExpr(expr) ==
    CASE expr.name \in Existential -> [expr EXCEPT !.graph = Simplify(@)]
      [] expr.name \in Connective ->
           [expr EXCEPT !.args = [i \in 1..Len(@) |-> SimplifyExpr(@[i])]]
      [] expr.name = "Not" -> [expr EXCEPT !.expr = SimplifyExpr(@)]
      [] OTHER -> expr

\* simplify: a join with the empty pattern is its other side
Simplify(n) ==
    LET empty(p) == p.name = "BGP" /\ p.triples = <<>>
    IN CASE n.name = "Join" ->
              LET p1 == Simplify(n.p1)
                  p2 == Simplify(n.p2)
              IN IF empty(p1) THEN p2 ELSE IF empty(p2) THEN p1 ELSE Join(p1, p2)
         [] n.name = "LeftJoin" -> LeftJoin(Simplify(n.p1), Simplify(n.p2), SimplifyExpr(n.expr))
         [] n.name = "Filter" -> [n EXCEPT !.expr = SimplifyExpr(@), !.p = Simplify(@)]
         [] n.name = "Extend" -> Extend(Simplify(n.p), SimplifyExpr(n.expr), n.var)
         [] n.name \in {"Minus", "Union"} -> [n EXCEPT !.p1 = Simplify(@), !.p2 = Simplify(@)]
         [] n.name \in Unary \cup {"Graph", "AggregateJoin"} -> [n EXCEPT !.p = Simplify(@)]
         [] OTHER -> n

(***************************************************************************)
(* analyse: a join may be lazy (its left solutions are the context of its  *)
(* right side) when nothing below it is itself a join, a slice or a        *)
(* DISTINCT.                                                               *)
(***************************************************************************)
RECURSIVE NothingStrict(_), NothingStrictIn(_)
NothingStrictIn(expr) ==
    CASE expr.name \in Existential -> NothingStrict(expr.graph)
      [] expr.name = "Not" -> NothingStrictIn(expr.expr)
      [] expr.name \in Connective -> NothingStrictIn(expr.args[1])  \* the others are in a list
      [] OTHER -> TRUE
NothingStrict(n) ==
    CASE n.name \in {"Join", "Slice", "Distinct"} -> FALSE
      [] n.name \in {"Minus", "Union"} -> NothingStrict(n.p1) /\ NothingStrict(n.p2)
      [] n.name = "LeftJoin" ->
           NothingStrict(n.p1) /\ NothingStrict(n.p2) /\ NothingStrictIn(n.expr)
      [] n.name \in {"Filter", "Extend"} -> NothingStrict(n.p) /\ NothingStrictIn(n.expr)
      [] n.name \in Unary \cup {"Graph", "AggregateJoin"} -> NothingStrict(n.p)
      [] OTHER -> TRUE

\* (mutant: every join is lazy)
LazyAlways(join) == TRUE

Lazy(join) == NothingStrict(join.p1) /\ NothingStrict(join.p2)

(***************************************************************************)
(* _addVars: the variables of a node.  Those of a comparison and of the    *)
(* rows of VALUES are none, and the expression of an Extend does not count.*)
(***************************************************************************)
RECURSIVE VarsOf(_), VarsIn(_)
VarsIn(expr) ==
    CASE expr.name = "Var" -> {expr.var}
      [] expr.name = "BOUND" -> {expr.arg}
      [] expr.name = "Not" -> VarsIn(expr.expr)
      [] expr.name \in Connective -> UNION {VarsIn(e) : e \in ToSet(expr.args)}
      [] expr.name \in Existential -> VarsOf(expr.graph)
      [] expr.name \in Aggregates -> VarsIn(expr.vars) \cup {expr.res}
      [] OTHER -> {}
VarsOf(n) ==
    CASE n.name = "BGP" -> UNION {ToSet(t) \cap Variable : t \in ToSet(n.triples)}
      [] n.name \in {"Join", "Minus", "Union"} -> VarsOf(n.p1) \cup VarsOf(n.p2)
      [] n.name = "LeftJoin" -> VarsOf(n.p1) \cup VarsOf(n.p2) \cup VarsIn(n.expr)
      [] n.name = "Filter" -> VarsOf(n.p) \cup VarsIn(n.expr)
      [] n.name = "Extend" -> VarsOf(n.p) \cup {n.var}
      [] n.name = "Graph" -> VarsOf(n.p) \cup ({n.term} \cap Variable)
      [] n.name = "AggregateJoin" -> VarsOf(n.p) \cup UNION {VarsIn(a) : a \in ToSet(n.A)}
      [] n.name = "Project" -> VarsOf(n.p) \cup n.PV
      [] n.name = "Group" -> VarsOf(n.p) \cup ToSet(n.expr)
      [] n.name \in Unary -> VarsOf(n.p)
      [] OTHER -> {}

\* translateQuery
Algebra(query) == Simplify(Translate(query))
=============================================================================
