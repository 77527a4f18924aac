---------------------------- MODULE SparqlUpdates ----------------------------
(***************************************************************************)
(* Queries and updates of a dataset: the updates of DatasetUpdates, whose  *)
(* patterns are evaluated by the engine of SparqlEval and mean what        *)
(* SPARQL says.                                                            *)
(*                                                                         *)
(* What a query means: the algebra of sections 18.3 to 18.5 of the SPARQL  *)
(* 1.1 query language, from the bottom up, every operator on the sets of   *)
(* solutions of its operands.  It is written from the definitions of the   *)
(* language and knows neither contexts nor laziness nor the order in which *)
(* parts are evaluated.                                                    *)
(***************************************************************************)
EXTENDS SparqlEval, DatasetUpdates

JoinOf(A, B) == {Merge(p[1], p[2]) : p \in {x \in A \X B : Compatible(x[1], x[2])}}

\* the solutions of one triple pattern
OfTriple(t, triples) ==
    {[v \in ToSet(t) \cap Variable |-> m[CHOOSE j \in 1..3 : t[j] = v]]
       : m \in {x \in triples : /\ \A j \in 1..3 : t[j] \notin Variable => x[j] = t[j]
                                /\ \A i, j \in 1..3 : t[i] = t[j] => x[i] = x[j]}}

\* the pattern of an EXISTS; its own filter also sees the solution around it
Unfiltered(n) == IF n.name = "Filter" THEN n.p ELSE n

RECURSIVE Meaning(_, _, _), Truth(_, _, _, _), Holds(_, _, _, _)

\* an expression under a solution: "true", "false", a term or an error
Truth(expr, b, ds, g) ==
    LET of(e) == Truth(e, b, ds, g)
        truths == {EBV(of(expr.args[i])) : i \in 1..Len(expr.args)}
    IN CASE expr.name = "TrueFilter" -> "true"
         [] expr.name = "Term" -> expr.term
         [] expr.name = "Var" -> IF expr.var \in DOMAIN b THEN b[expr.var] ELSE Error
         [] expr.name = "BOUND" -> Bool(expr.arg \in DOMAIN b)
         [] expr.name \in TwoSided -> Relational(expr.name, of(expr.expr), of(expr.other))
         [] expr.name = "Not" ->
              (CASE EBV(of(expr.expr)) = "true" -> "false"
                 [] EBV(of(expr.expr)) = "false" -> "true"
                 [] OTHER -> Error)
         [] expr.name = "And" ->
              (CASE truths = {"true"} -> "true" [] "false" \in truths -> "false" [] OTHER -> Error)
         [] expr.name = "Or" ->
              (CASE "true" \in truths -> "true" [] truths = {"false"} -> "false" [] OTHER -> Error)
         [] expr.name \in Existential ->
              Bool((\E m \in Meaning(Unfiltered(expr.graph), ds, g) :
                      /\ Compatible(m, b)
                      /\ expr.graph.name = "Filter" => Holds(expr.graph.expr, b @@ m, ds, g))
                   = (expr.name = "EXISTS"))

Holds(expr, b, ds, g) == EBV(Truth(expr, b, ds, g)) = "true"

\* an aggregate over the rows of a group that give it a value: pairs of row and term
Terms(rows) == {r[2] : r \in rows}
Extreme(terms, Ord(_, _)) == CHOOSE t \in terms : \A u \in terms : Ord(Value(t), Value(u))
AggregateOf(agg, rows) ==
    CASE agg.name = "Aggregate_Count" ->
           Literal(Cardinality(IF agg.distinct THEN Terms(rows) ELSE rows))
      [] agg.name = "Aggregate_Sum" ->
           Literal(MapThenSumSet(LAMBDA r : Value(r[2]),
                                 IF agg.distinct THEN {Empty} \X Terms(rows) ELSE rows))
      [] rows = {} -> Unbound
      [] agg.name = "Aggregate_Sample" -> CHOOSE t \in Terms(rows) : TRUE
      [] agg.name = "Aggregate_Min" -> Extreme(Terms(rows), \leq)
      [] agg.name = "Aggregate_Max" -> Extreme(Terms(rows), \geq)
WithValue(agg, group, ds, g) ==
    {r \in {<<b, Truth(agg.vars, b, ds, g)>> : b \in group} : r[2] # Error}

\* the solution that names what the aggregates of a group have got
Row(A, got) ==
    [v \in {A[i].res : i \in {j \in 1..Len(A) : got[j] # Unbound}} |->
       got[CHOOSE i \in 1..Len(A) : A[i].res = v]]
KeyOf(b, exprs) ==
    [i \in 1..Len(exprs) |-> IF exprs[i] \in DOMAIN b THEN b[exprs[i]] ELSE Unbound]
AggregatesOf(n, group, ds, g) ==
    Row(n.A, [i \in 1..Len(n.A) |-> AggregateOf(n.A[i], WithValue(n.A[i], group, ds, g))])

Meaning(n, ds, g) ==
    LET p1 == Meaning(n.p1, ds, g)
        p2 == Meaning(n.p2, ds, g)
        p == Meaning(n.p, ds, g)
    IN CASE n.name = "BGP" ->
              FoldLeft(LAMBDA A, t : JoinOf(A, OfTriple(t, TriplesIn(ds, g))), {Empty}, n.triples)
         [] n.name = "Join" -> JoinOf(p1, p2)
         [] n.name = "Union" -> p1 \cup p2
         [] n.name = "Minus" ->
              {a \in p1 : \A b \in p2 : ~Compatible(a, b) \/ DisjointDomain(a, b)}
         [] n.name = "LeftJoin" ->
              LET with(a) == {m \in JoinOf({a}, p2) : Holds(n.expr, m, ds, g)}
              IN UNION {IF with(a) = {} THEN {a} ELSE with(a) : a \in p1}
         [] n.name = "Filter" -> {b \in p : Holds(n.expr, b, ds, g)}
         [] n.name = "Extend" ->
              {LET e == Truth(n.expr, b, ds, g) IN IF e = Error THEN b ELSE (n.var :> e) @@ b : b \in p}
         [] n.name = "Graph" ->
              IF n.term \notin Variable THEN Meaning(n.p, ds, n.term)
              ELSE UNION {JoinOf(Meaning(n.p, ds, h), {n.term :> h}) : h \in ds.contexts \ {ds.default}}
         [] n.name = "values" -> ToSet(n.res)
         [] n.name = "Project" -> {ProjectTo(b, n.PV) : b \in p}
         [] n.name \in {"ToMultiSet", "Distinct", "Reduced", "OrderBy", "Slice", "Group"} -> p
         [] n.name = "AggregateJoin" ->
              LET rows == Meaning(n.p.p, ds, g)
                  keys == {KeyOf(b, n.p.expr) : b \in rows}
              IN {AggregatesOf(n, {b \in rows : KeyOf(b, n.p.expr) = k}, ds, g) :
                    k \in IF n.p.expr = <<>> THEN {<<>>} ELSE keys}
                   \cup (IF rows = {} /\ n.p.expr # <<>> THEN {Empty} ELSE {})
-----------------------------------------------------------------------------
(***************************************************************************)
(* The patterns for which evaluating from the top is meant to give the     *)
(* same: a filter is about variables of its own group, the left side of an *)
(* OPTIONAL has no VALUES (whose variables _addVars does not find), and a  *)
(* grouped query is not a part of a larger pattern (it has a row even when *)
(* there is nothing to group).                                             *)
(***************************************************************************)
RECURSIVE WellScoped(_), Mentioned(_), HasNode(_, _)

HasNode(n, operator) ==
    \/ n.name = operator
    \/ n.name \in {"Join", "LeftJoin", "Minus", "Union"} /\ (HasNode(n.p1, operator) \/ HasNode(n.p2, operator))
    \/ n.name \in Unary \cup {"Graph", "Filter", "Extend", "AggregateJoin"} /\ HasNode(n.p, operator)

\* the variables an expression is about; an EXISTS also sees those around it
Mentioned(expr) ==
    CASE expr.name = "Var" -> {expr.var}
      [] expr.name = "BOUND" -> {expr.arg}
      [] expr.name = "Not" -> Mentioned(expr.expr)
      [] expr.name \in TwoSided -> Mentioned(expr.expr) \cup Mentioned(expr.other)
      [] expr.name \in Connective -> UNION {Mentioned(e) : e \in ToSet(expr.args)}
      [] OTHER -> {}

WellScoped(n) ==
    CASE n.name \in {"Join", "Minus", "Union"} ->
           /\ WellScoped(n.p1) /\ WellScoped(n.p2)
           /\ ~HasNode(n.p1, "AggregateJoin") /\ ~HasNode(n.p2, "AggregateJoin")
      [] n.name = "LeftJoin" ->
           /\ WellScoped(n.p1) /\ WellScoped(n.p2)
           /\ ~HasNode(n.p1, "values") /\ ~HasNode(n.p1, "AggregateJoin")
           /\ Mentioned(n.expr) \subseteq VarsOf(n.p1) \cup VarsOf(n.p2)
      [] n.name = "Filter" -> WellScoped(n.p) /\ Mentioned(n.expr) \subseteq VarsOf(n.p)
      [] n.name \in Unary \cup {"Graph", "Extend", "AggregateJoin"} -> WellScoped(n.p)
      [] OTHER -> TRUE
-----------------------------------------------------------------------------
CONSTANTS Query       \* the queries, each with its translation and its algebra

ASSUME WholeIsAllGraphs == AllGraphs = Whole

(***************************************************************************)
(* What DatasetUpdates leaves open.  The pattern of an update is evaluated *)
(* as it is translated: it has not been analysed.  A DELETE WHERE          *)
(* evaluates the triples for each graph, and joins the solutions in the    *)
(* order of the graphs; the triples of the default graph come first, and   *)
(* the first one of them opens the loop.                                   *)
(***************************************************************************)
EvalWhere(ds, g, where) == EvalPart(Context(ds, g, FALSE), where)

EvalQuadPatterns(ds, u) ==
    LET names == SetToSeq(DOMAIN u.quads)
    IN [i \in 1..Len(names) |-> EvalBGP(Context(ds, names[i], FALSE), u.quads[names[i]])]
JoinAll(listed) == FoldLeft(JoinSolutions, <<Empty>>, listed)

JoinAllFrom(ds, g, u, t, listed) ==
    LET from == CHOOSE b \in OfTriple(u.triples[1], {t}) : TRUE
        ctx == [Context(ds, g, FALSE) EXCEPT !.bindings = from]
    IN FoldLeft(JoinSolutions, EvalBGP(ctx, Tail(u.triples)), listed)
MatchesOfFirst(ds, g, u) == {m \in TriplesIn(ds, g) : OfTriple(u.triples[1], {m}) # {}}

\* the solutions of DELETE WHERE when the graph queried is g
MeaningOfWhere(u, ds, g) ==
    FoldSet(LAMBDA h, A : JoinOf(A, Meaning(BGP(u.quads[h]), ds, h)),
            Meaning(BGP(u.triples), ds, g), DOMAIN u.quads)
-----------------------------------------------------------------------------
Answers(q) == EvalQuery(DatasetOf(State), sparqlUnion, q.algebra)
MeaningOf(q) == Meaning(q.translated, DatasetOf(State), CtxGraph)

\* row b comes before row c by the first condition that tells them apart
RankOf(b, c) == SortRank(Get(b, c.expr.var))
InOrder(r, s, order) == IF order = "DESC" THEN RankBefore(s, r) ELSE RankBefore(r, s)
Before(b, c, orderby) ==
    \E i \in 1..Len(orderby) :
        /\ \A j \in 1..(i - 1) : RankOf(b, orderby[j]) = RankOf(c, orderby[j])
        /\ InOrder(RankOf(b, orderby[i]), RankOf(c, orderby[i]), orderby[i].order)

NumberOfRows(all, q) ==
    Min({Max({0, all - q.offset})} \cup ToSet(q.limit))
FirstRows(q, rows, all) ==
    /\ Len(rows) = NumberOfRows(Cardinality(all), q)
    /\ Cardinality(ToSet(rows)) = Len(rows) /\ ToSet(rows) \subseteq all
    /\ \A i, j \in 1..Len(rows) : i < j => ~Before(rows[j], rows[i], q.orderby)
    /\ q.offset = 0 =>
         \A b \in all \ ToSet(rows), c \in ToSet(rows) : ~Before(b, c, q.orderby)

(***************************************************************************)
(* A query of well scoped patterns has the solutions its algebra means:    *)
(* evaluating from the top, with lazy joins, forgotten and remembered      *)
(* variables, gives what evaluating from the bottom gives.  One exception  *)
(* is the code's: once += has listed the dataset among its own graphs,     *)
(* GRAPH ?g takes it for all of its graphs at once.  DISTINCT leaves every *)
(* solution once; with LIMIT and OFFSET come as many as there are, and of  *)
(* an ordered query the first ones in order.  And the patterns of updates  *)
(* have their solutions, a DELETE WHERE also while it deletes.             *)
(***************************************************************************)
AnswersAsDefined ==
    /\ PatternsAsDefined
    /\ \A q \in {r \in Query : r.limit = <<>> /\ r.wellScoped} :
         (Self \in Contexts(State) => ~q.overGraphs) => ToSet(Answers(q)) = MeaningOf(q)
    /\ \A q \in {r \in Query : r.modifier = "DISTINCT"} : FirstRows(q, Answers(q), MeaningOf(q))
=============================================================================
