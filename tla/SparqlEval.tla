----------------------------- MODULE SparqlEval -----------------------------
(***************************************************************************)
(* The evaluation of the algebra: evalPart and the functions it dispatches *)
(* to (rdflib/plugins/sparql/evaluate.py), the aggregates (aggregates.py)  *)
(* and the logic of expressions (operators.py).  The engine works from the *)
(* top: a join passes the bindings of its left side to its right side as   *)
(* context, so that what is in scope has to be undone by forget().         *)
(*                                                                         *)
(* A context is the graph that is queried, the bindings made so far and    *)
(* the dataset.  Left out: SERVICE, LOAD, initial bindings, functions on   *)
(* strings and dates, and the order in which a store yields its triples    *)
(* (any order; the model takes one).                                       *)
(***************************************************************************)
EXTENDS SparqlAlgebra, Integers

CONSTANTS Number        \* the terms that are numbers, with their values: a function

\* ds: [quads, default, self, union, contexts]: the names of its default graph and
\* of itself, its default_union and the graphs it lists
Whole == "whole"        \* ctx.graph is the dataset itself

Literal(n) == ToString(n)
NumberTerm == DOMAIN Number
Value(term) == Number[term]
BooleanTerm == {"true", "false"}
Bool(x) == IF x THEN "true" ELSE "false"
Error == "error"        \* a SPARQLError

(***************************************************************************)
(* The triples of ctx.graph: of one graph, or of the dataset, which is     *)
(* everything it has or its default graph (ConjunctiveGraph.triples).      *)
(***************************************************************************)
TriplesIn(ds, graph) ==
    LET of(g) == {q[2] : q \in {x \in ds.quads : x[1] = g}}
    IN CASE graph # Whole -> of(graph)
         [] graph = Whole /\ ds.union -> {q[2] : q \in ds.quads}
         [] OTHER -> of(ds.default)

\* analysed: the algebra of a query is analysed (_vars, lazy), that of an update not
Context(ds, graph, analysed) ==
    [ds |-> ds, graph |-> graph, analysed |-> analysed, bindings |-> Empty]

\* part._vars, join.lazy
Vars(ctx, part) == IF ctx.analysed THEN VarsOf(part) ELSE {}
IsLazy(ctx, join) == ctx.analysed /\ Lazy(join)

\* thaw(): the context of a solution; an empty solution counts as none
Thaw(ctx, b) == IF b = Empty THEN ctx ELSE [ctx EXCEPT !.bindings = b]

UnboundIn(ctx, t) == Cardinality({j \in 1..3 : Get(ctx.bindings, t[j]) = Unbound})
-----------------------------------------------------------------------------
\* EBV: what an expression's value counts for in a filter
EBV(term) ==
    CASE term \in BooleanTerm -> term
      [] term \in NumberTerm -> Bool(Value(term) # 0)
      [] OTHER -> Error

\* RelationalExpression: < of other things than literals is an error
Relational(op, l, r) ==
    CASE Error \in {l, r} -> Error
      [] op = "=" -> Bool(l = r)
      [] OTHER -> IF {l, r} \subseteq NumberTerm THEN Bool(Value(l) < Value(r)) ELSE Error

\* ConditionalAndExpression: all() stops at the first false or error
AllOf(values) ==
    IF \A i \in 1..Len(values) : EBV(values[i]) = "true" THEN "true"
    ELSE EBV(values[CHOOSE i \in 1..Len(values) :
                      /\ EBV(values[i]) # "true"
                      /\ \A j \in 1..(i - 1) : EBV(values[j]) = "true"])

\* ConditionalOrExpression: a true wins over an error, an error over a false
AnyOf(values) ==
    LET ebvs == {EBV(values[i]) : i \in 1..Len(values)}
    IN CASE "true" \in ebvs -> "true" [] Error \in ebvs -> Error [] OTHER -> "false"

(***************************************************************************)
(* One aggregate over the rows of a group (Aggregator.update and set_value *)
(* of its accumulator): rows without a value are skipped, DISTINCT counts  *)
(* a value once; the extremes and the sample of nothing bind nothing, a    *)
(* sum with a value that is no number raises.                              *)
(***************************************************************************)
Accumulated(agg, values) ==
    LET bound == SelectSeq(values, LAMBDA v : v # Error)
        used == IF agg.distinct THEN Dedup(bound) ELSE bound
        least(lt(_, _)) == FoldLeft(LAMBDA acc, v : IF lt(v, acc) THEN v ELSE acc,
                                    Head(bound), Tail(bound))
        before(v, w) == v \in NumberTerm /\ w \in NumberTerm /\ Value(v) < Value(w)
    IN CASE agg.name = "Aggregate_Count" -> Literal(Len(used))
         [] agg.name = "Aggregate_Sum" ->
              Literal(FoldLeft(LAMBDA acc, v : acc + Value(v), 0, used))
         [] bound = <<>> -> Unbound
         [] agg.name = "Aggregate_Sample" -> Head(bound)
         [] agg.name = "Aggregate_Min" -> least(before)
         [] agg.name = "Aggregate_Max" -> least(LAMBDA v, w : before(w, v))

\* (mutant: LIMIT counts from the first row, not from the offset)
SlicesTo(s, start, length) ==
    SubSeq(s, start + 1, IF length = <<>> THEN Len(s) ELSE Min({Len(s), length[1]}))

Slices(s, start, length) ==
    SubSeq(s, start + 1, IF length = <<>> THEN Len(s) ELSE Min({Len(s), start + length[1]}))

\* evalReduced with a queue of one: a row like the one before is dropped
ReducedRows(s) ==
    SelectSeq([i \in 1..Len(s) |-> <<i, s[i]>>], LAMBDA r : r[1] = 1 \/ s[r[1] - 1] # r[2])

\* evalOrderBy: Python's sort is stable; _val puts what has no value first
SortRank(term) == IF term = Unbound THEN <<0, 0>>
                  ELSE IF term \in NumberTerm THEN <<3, Value(term)>> ELSE <<2, 0>>
RankBefore(r, s) == r[1] < s[1] \/ (r[1] = s[1] /\ r[2] < s[2])
StableSort(s, Before(_, _)) ==
    FoldLeft(LAMBDA t, x : SelectSeq(t, LAMBDA y : ~Before(x, y)) \o <<x>>
                             \o SelectSeq(t, LAMBDA y : Before(x, y)), <<>>, s)
-----------------------------------------------------------------------------
RECURSIVE EvalPart(_, _), EvalBGP(_, _), EvalExpr(_, _, _)

\* evalBGP: the first triple is matched, the rest in the context this makes
EvalBGP(ctx, bgp) ==
    IF bgp = <<>> THEN <<ctx.bindings>>
    ELSE LET t == Head(bgp)
             want == [j \in 1..3 |-> Get(ctx.bindings, t[j])]
             found == {m \in TriplesIn(ctx.ds, ctx.graph) :
                         \A j \in 1..3 : want[j] \in {Unbound, m[j]}}
             bind(acc, j, m) ==
                IF acc.ok /\ CanSet(acc.b, t[j], m[j]) THEN [acc EXCEPT !.b = Set(@, t[j], m[j])]
                ELSE [acc EXCEPT !.ok = FALSE]        \* AlreadyBound
             pushed(m) == FoldLeft(LAMBDA acc, j : bind(acc, j, m),
                                   [ok |-> TRUE, b |-> ctx.bindings], <<1, 2, 3>>)
         IN Each(LAMBDA m : LET c == pushed(m)
                            IN IF c.ok THEN EvalBGP([ctx EXCEPT !.bindings = c.b], Tail(bgp))
                               ELSE <<>>,
                 SetToSeq(found))

\* the value of an expression under b, in the context of the part it belongs to
EvalExpr(expr, b, ctx) ==
    CASE expr.name = "TrueFilter" -> "true"
      [] expr.name = "Term" -> expr.term
      [] expr.name = "Var" -> IF expr.var \in DOMAIN b THEN b[expr.var] ELSE Error
      [] expr.name = "BOUND" -> Bool(expr.arg \in DOMAIN b)
      [] expr.name \in TwoSided ->
           Relational(expr.name, EvalExpr(expr.expr, b, ctx), EvalExpr(expr.other, b, ctx))
      [] expr.name = "Not" ->
           LET v == EBV(EvalExpr(expr.expr, b, ctx)) IN IF v = Error THEN Error ELSE Bool(v = "false")
      [] expr.name = "And" -> AllOf([i \in 1..Len(expr.args) |-> EvalExpr(expr.args[i], b, ctx)])
      [] expr.name = "Or" -> AnyOf([i \in 1..Len(expr.args) |-> EvalExpr(expr.args[i], b, ctx)])
      [] expr.name \in Existential ->
           Bool((EvalPart(Thaw(ctx, b), expr.graph) # <<>>) = (expr.name = "EXISTS"))

\* _ebv: an error in a filter is false; c is the solution the filter is about
Passes(expr, b, ctx, c) == EBV(EvalExpr(expr, b, [ctx EXCEPT !.bindings = c])) = "true"

EvalExtend(ctx, part) ==
    LET extended(c) ==
            LET e == EvalExpr(part.expr,
                              Forget(c, ctx.bindings, Vars(ctx, part)),
                              [ctx EXCEPT !.bindings = c])
            IN IF e = Error THEN c ELSE Merge(c, part.var :> e)
        rows == EvalPart(ctx, part.p)
    IN [i \in 1..Len(rows) |-> extended(rows[i])]

\* evalLazyJoin: the right side in the context of each solution of the left one
EvalLazyJoin(ctx, join) ==
    Each(LAMBDA a : LET right == EvalPart(Thaw(ctx, a), join.p2)
                    IN [i \in 1..Len(right) |-> Merge(right[i], a)],
         EvalPart(ctx, join.p1))

EvalJoin(ctx, join) ==
    IF IsLazy(ctx, join) THEN EvalLazyJoin(ctx, join)
    ELSE JoinSolutions(EvalPart(ctx, join.p1), Dedup(EvalPart(ctx, join.p2)))

EvalMinus(ctx, part) == MinusSolutions(EvalPart(ctx, part.p1), EvalPart(ctx, part.p2))

(***************************************************************************)
(* evalLeftJoin: when no solution of the optional part passes its filter,  *)
(* the part is tried again with only the variables of the left side, and   *)
(* the left solution is dropped if it passes then.                         *)
(***************************************************************************)
EvalLeftJoin(ctx, join) ==
    LET kept(a) == SelectSeq(EvalPart(Thaw(ctx, a), join.p2),
                             LAMBDA b : Passes(join.expr, Forget(b, ctx.bindings, {}), ctx, b))
        again(a) == ctx.analysed /\ \E b \in ToSet(EvalPart(Thaw(ctx, ProjectTo(a, VarsOf(join.p1))), join.p2)) :
                        Passes(join.expr, b, ctx, b)
        rows(a) == LET ok == kept(a)
                   IN CASE ok # <<>> -> [i \in 1..Len(ok) |-> Merge(ok[i], a)]
                        [] ~again(a) -> <<a>>
                        [] OTHER -> <<>>
    IN Each(rows, EvalPart(ctx, join.p1))

EvalFilter(ctx, part) ==
    SelectSeq(EvalPart(ctx, part.p),
              LAMBDA c : Passes(part.expr,
                                IF part.isolated THEN Forget(c, ctx.bindings, Vars(ctx, part)) ELSE c,
                                ctx, c))

\* evalGraph: in the graph that is named, or in every graph but the default one
EvalGraph(ctx, part) ==
    LET term == Get(ctx.bindings, part.term)
        in(g) == EvalPart([ctx EXCEPT !.graph = IF g = ctx.ds.self THEN Whole ELSE g], part.p)
    IN IF term # Unbound THEN in(term)
       ELSE Each(LAMBDA g : JoinSolutions(in(g), <<part.term :> g>>),
                 SetToSeq(ctx.ds.contexts \ {ctx.ds.default}))

\* evalValues: the rows that agree with the context
EvalValues(ctx, part) ==
    Each(LAMBDA r : IF \A v \in DOMAIN r : CanSet(ctx.bindings, v, r[v])
                    THEN <<Merge(ctx.bindings, r)>> ELSE <<>>, part.res)

\* evalAggregateJoin: a group for every value of the expressions; without any
\* group there is one empty solution
GroupKey(row, exprs) ==
    [i \in 1..Len(exprs) |-> IF exprs[i] \in DOMAIN row THEN row[exprs[i]] ELSE Unbound]
GroupKeys(rows, exprs) ==
    IF exprs = <<>> THEN << <<>> >> ELSE Dedup([i \in 1..Len(rows) |-> GroupKey(rows[i], exprs)])
GroupBindings(A, got) ==
    [v \in {A[i].res : i \in {j \in 1..Len(A) : got[j] # Unbound}} |->
       got[CHOOSE i \in 1..Len(A) : A[i].res = v]]
Aggregated(ctx, A, group) ==
    GroupBindings(A, [j \in 1..Len(A) |->
        Accumulated(A[j], [i \in 1..Len(group) |-> EvalExpr(A[j].vars, group[i], ctx)])])
OverGroups(ctx, part, rows, keys) ==
    IF keys = <<>> THEN <<Empty>>
    ELSE [i \in 1..Len(keys) |->
            Aggregated(ctx, part.A,
                       SelectSeq(rows, LAMBDA row : GroupKey(row, part.p.expr) = keys[i]))]
GroupRows(ctx, part, rows) == OverGroups(ctx, part, rows, GroupKeys(rows, part.p.expr))
EvalAggregateJoin(ctx, part) == GroupRows(ctx, part, EvalPart(ctx, part.p.p))

EvalOrderBy(ctx, part) ==
    LET rank(b, c) == LET v == EvalExpr(c.expr, b, ctx)
                      IN SortRank(IF v = Error THEN Unbound ELSE v)
    IN FoldLeft(LAMBDA rows, c :
                   StableSort(rows, LAMBDA b1, b2 :
                                IF c.order = "DESC" THEN RankBefore(rank(b2, c), rank(b1, c))
                                ELSE RankBefore(rank(b1, c), rank(b2, c))),
                EvalPart(ctx, part.p), Reverse(part.expr))

EvalPart(ctx, part) ==
    CASE part.name = "BGP" ->
           EvalBGP(ctx, StableSort(part.triples,
                                   LAMBDA t, u : UnboundIn(ctx, t) < UnboundIn(ctx, u)))
      [] part.name = "Filter" -> EvalFilter(ctx, part)
      [] part.name = "Join" -> EvalJoin(ctx, part)
      [] part.name = "LeftJoin" -> EvalLeftJoin(ctx, part)
      [] part.name = "Graph" -> EvalGraph(ctx, part)
      [] part.name = "Union" -> EvalPart(ctx, part.p1) \o EvalPart(ctx, part.p2)
      [] part.name = "ToMultiSet" -> EvalPart(ctx, part.p)
      [] part.name = "values" -> EvalValues(ctx, part)
      [] part.name = "Extend" -> EvalExtend(ctx, part)
      [] part.name = "Minus" -> EvalMinus(ctx, part)
      [] part.name = "Project" ->
           LET rows == EvalPart(ctx, part.p) IN [i \in 1..Len(rows) |-> ProjectTo(rows[i], part.PV)]
      [] part.name = "Slice" -> Slices(EvalPart(ctx, part.p), part.start, part.length)
      [] part.name = "Distinct" -> Dedup(EvalPart(ctx, part.p))
      [] part.name = "Reduced" ->
           LET rows == ReducedRows(EvalPart(ctx, part.p)) IN [i \in 1..Len(rows) |-> rows[i][2]]
      [] part.name = "OrderBy" -> EvalOrderBy(ctx, part)
      [] part.name = "Group" -> EvalPart(ctx, part.p)
      [] part.name = "AggregateJoin" -> EvalAggregateJoin(ctx, part)

\* ctx.graph; sparqlUnion is SPARQL_DEFAULT_GRAPH_UNION
QueriedGraph(ds, sparqlUnion) == IF sparqlUnion THEN Whole ELSE ds.default

\* evalQuery
EvalQuery(ds, sparqlUnion, algebra) ==
    EvalPart(Context(ds, QueriedGraph(ds, sparqlUnion), TRUE), algebra)
=============================================================================
