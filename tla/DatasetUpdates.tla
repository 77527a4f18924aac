--------------------------- MODULE DatasetUpdates ---------------------------
(***************************************************************************)
(* SPARQL Update on a dataset (rdflib/plugins/sparql/update.py) and the    *)
(* operations of ConjunctiveGraph and Dataset that an update is made of    *)
(* (rdflib/graph.py), over the quads and the graphs that a Memory store    *)
(* lists.  An operator that changes something takes the state and gives    *)
(* the state after it, or the set of them where the order of the store     *)
(* decides.  How patterns are evaluated, and what they mean, are           *)
(* parameters.                                                             *)
(*                                                                         *)
(* Two switches make four configurations.  kind: a Dataset, whose triples  *)
(* are those of its default graph, or a ConjunctiveGraph, whose triples    *)
(* are those of all graphs.  sparqlUnion: SPARQL_DEFAULT_GRAPH_UNION, by   *)
(* which ctx.graph is the dataset itself and not its default graph.        *)
(*                                                                         *)
(* Left out: LOAD and USING, which fetch documents, and blank nodes in     *)
(* templates.                                                              *)
(***************************************************************************)
EXTENDS Naturals, SequencesExt

CONSTANTS
    NewTriple,  \* the triples that the API adds
    Named,      \* names of graphs
    Default,    \* default_context.identifier
    Self,       \* the identifier of the ConjunctiveGraph itself
    AllGraphs,  \* stands for the dataset where a graph is expected
    Update,     \* the updates, as translateUpdate leaves them
    MaxQuads    \* bound: a step that makes more quads is not taken

CONSTANTS
    TermIn(_, _),                 \* what a solution has for a term
    Fill(_, _),                   \* the triples a solution makes of a template
    Solved(_, _, _),              \* evalPart: a dataset, a graph of it and a pattern
    QuadSolutions(_, _),          \* what the quads of a DELETE WHERE give, graph by graph,
    Joined(_),                    \* these joined,
    JoinedFrom(_, _, _, _, _),    \* and joined with what a first triple leads to
    FirstMatches(_, _, _),        \* the triples that the first one of a DELETE WHERE matches
    PatternMeaning(_, _, _),      \* the solutions of a pattern, by the definition of SPARQL,
    WhereMeaning(_, _, _)         \* and those of a DELETE WHERE

(***************************************************************************)
(* Names of graphs are told apart from the words and the graphs without a  *)
(* name, and an update has the parts of its kind.                          *)
(***************************************************************************)
GraphRefs == {"DEFAULT", "NAMED", "ALL"}
NamesAreNames ==
    /\ Named \cap (GraphRefs \cup {Default, Self, AllGraphs, ""}) = {}
    /\ {Default, Self, AllGraphs} \cap (GraphRefs \cup {""}) = {}
    /\ Default # Self /\ Default # AllGraphs /\ Self # AllGraphs
WellFormedUpdate(u) ==
    CASE u.name \in {"Clear", "Drop"} -> u.graphiri \in Named \cup GraphRefs
      [] u.name \in {"Add", "Copy", "Move"} ->
           u.graph \in Seq(Named \cup {"DEFAULT"}) /\ Len(u.graph) = 2
      [] u.name \in {"InsertData", "DeleteData", "DeleteWhere"} ->
           DOMAIN u.quads \subseteq Named /\ u.triples \in Seq(ToSet(u.triples))
      [] u.name = "Modify" -> u.with \in Named \cup {""}
      [] OTHER -> u.name = "Create"
UpdateAssumption == NamesAreNames /\ \A u \in Update : WellFormedUpdate(u)
ASSUME UpdatesAreWellFormed == UpdateAssumption

VARIABLES quads, known, kind, sparqlUnion

updateVars == <<quads, known, kind, sparqlUnion>>

State == [quads |-> quads, known |-> known, raised |-> FALSE]

\* contexts(): a Dataset always lists its default graph
Contexts(st) == st.known \cup (IF kind = "Dataset" THEN {Default} ELSE {})

DatasetOf(st) ==
    [quads |-> st.quads, default |-> Default, self |-> Self,
     union |-> kind = "ConjunctiveGraph", contexts |-> Contexts(st)]

Raised(st) == [st EXCEPT !.raised = TRUE]

\* ctx.graph of an update without WITH, and the name of a graph
CtxGraph == IF sparqlUnion THEN AllGraphs ELSE Default
Identifier(g) == IF g = AllGraphs THEN Self ELSE g
-----------------------------------------------------------------------------
(***************************************************************************)
(* g += triples, g -= triples and g.remove((None, None, None)), of some    *)
(* graphs g at once: pairs of a graph and a triple, or a set of graphs.    *)
(* On a ConjunctiveGraph += makes quads in the graph named as itself; on a *)
(* Dataset it wants quads and raises for the first triple (no update has   *)
(* added any before).  Both remove from every graph.                       *)
(***************************************************************************)
GraphsIn(Q) == {q[1] : q \in Q}

\* (mutant: the graph of the triples is not registered)
AddUnlisted(st, Q) ==
    IF kind = "Dataset" /\ AllGraphs \in GraphsIn(Q) THEN Raised(st)
    ELSE [st EXCEPT !.quads = @ \cup {<<Identifier(q[1]), q[2]>> : q \in Q}]

AddQuads(st, Q) ==
    IF kind = "Dataset" /\ AllGraphs \in GraphsIn(Q) THEN Raised(st)
    ELSE [st EXCEPT !.quads = @ \cup {<<Identifier(q[1]), q[2]>> : q \in Q},
                    !.known = @ \cup {Identifier(g) : g \in GraphsIn(Q)}]

\* (mutant: the triples are removed from every graph)
RemoveAnywhere(st, Q) == [st EXCEPT !.quads = {q \in @ : \A x \in Q : x[2] # q[2]}]

RemoveQuads(st, Q) ==
    [st EXCEPT !.quads = {q \in @ : q \notin Q /\ <<AllGraphs, q[2]>> \notin Q}]

ClearGraphs(st, G) == [st EXCEPT !.quads = {q \in @ : {AllGraphs, q[1]} \cap G = {}}]

\* store.remove_graph(g): only what is in the graph of that name, and the name
StoreRemoveGraphs(st, G) ==
    LET names == {Identifier(g) : g \in G}
    IN [st EXCEPT !.quads = {q \in @ : q[1] \notin names}, !.known = @ \ names]

\* the triples of a graph, and of the dataset: ConjunctiveGraph.triples
TriplesOf(st, g) ==
    LET all == g = AllGraphs /\ kind = "ConjunctiveGraph"
        name == IF g = AllGraphs THEN Default ELSE g
    IN {q[2] : q \in {x \in st.quads : all \/ x[1] = name}}

\* for s, p, o in g: a Dataset yields quads, which are not triples
Iterable(st, g) == g = AllGraphs /\ kind = "Dataset" => st.quads = {}

\* a graph that is listed under the dataset's own name is the dataset
Listed(g) == IF g = Self THEN AllGraphs ELSE g
-----------------------------------------------------------------------------
\* _graphOrDefault, _graphAll
GraphOrDefault(g) == IF g = "DEFAULT" THEN CtxGraph ELSE g
GraphAll(st, g) ==
    CASE g = "DEFAULT" -> {CtxGraph}
      [] g = "NAMED" -> {Listed(c) : c \in Contexts(st) \ {Identifier(CtxGraph)}}
      [] g = "ALL" -> {Listed(c) : c \in Contexts(st)}
      [] OTHER -> {g}
\* listing the graphs of a Dataset registers its default graph with the store
Listing(st, g) == IF g \in {"NAMED", "ALL"} THEN [st EXCEPT !.known = Contexts(st)] ELSE st

\* evalClear, evalDrop (of a store that is graph aware), evalCreate
EvalClear(st, u) == ClearGraphs(Listing(st, u.graphiri), GraphAll(st, u.graphiri))
EvalDrop(st, u) == StoreRemoveGraphs(Listing(st, u.graphiri), GraphAll(st, u.graphiri))
EvalCreate(st, u) == Raised(st)

\* INSERT DATA and DELETE DATA: what is given for the default graph, g, and for others
GivenFor(u, g) ==
    ({g} \X ToSet(u.triples)) \cup UNION {{h} \X ToSet(u.quads[h]) : h \in DOMAIN u.quads}

\* if the default graph raises, nothing is done for the others
EvalInsertData(st, u) == AddQuads(st, GivenFor(u, CtxGraph))
EvalDeleteData(st, u) == RemoveQuads(st, GivenFor(u, CtxGraph))

\* what a solution makes of the templates of the default graph and the others
Filled(templates, g, c) ==
    ({g} \X ToSet(Fill(templates.triples, c)))
      \cup UNION {{TermIn(c, h)} \X ToSet(Fill(templates.quads[h], c))
                    : h \in DOMAIN templates.quads}
FilledBy(templates, g, solutions) == UNION {Filled(templates, g, c) : c \in solutions}

(***************************************************************************)
(* evalModify: the solutions are listed, then for each of them the         *)
(* deletions and the insertions.  WITH sets the graph of the pattern and   *)
(* of the templates; without it the templates are for the default graph,   *)
(* also when ctx.graph is the dataset.                                     *)
(***************************************************************************)
ModifiedGraph(u) == IF u.with # "" THEN u.with ELSE CtxGraph
TemplateGraph(u) == LET g == ModifiedGraph(u) IN IF g = AllGraphs THEN Default ELSE g

ModifyBy(st, u, c) ==
    LET g == TemplateGraph(u)
    IN AddQuads(RemoveQuads(st, Filled(u.delete, g, c)), Filled(u.insert, g, c))

(***************************************************************************)
(* evalDeleteWhere.  The solutions of the quads are listed first; those of *)
(* the triples are generated while the loop deletes.  So what a first      *)
(* triple, t, leads to is looked up in what the solutions before have      *)
(* left, and a first triple that is gone by now may come or not, as the    *)
(* store keeps copies or not.  Patterns of at most two triples.            *)
(***************************************************************************)
DeleteBy(st, u, solutions) == RemoveQuads(st, FilledBy(u, CtxGraph, ToSet(solutions)))

DeleteFrom(st, u, listed, t) ==
    {DeleteBy(st, u, JoinedFrom(DatasetOf(st), CtxGraph, u, t, listed))}
      \cup (IF t \in TriplesOf(st, CtxGraph) THEN {} ELSE {st})

\* a loop over x, the solutions or the first triples, in one order, and what it may leave
After(st, u, listed, x) ==
    IF u.name = "Modify" THEN {ModifyBy(st, u, x)} ELSE DeleteFrom(st, u, listed, x)
Loop(S, u, listed, order) ==
    FoldLeft(LAMBDA acc, x : UNION {After(st, u, listed, x) : st \in acc}, S, order)

\* The solutions come in any order
EvalModify(st, u) ==
    LET res == Solved(DatasetOf(st), ModifiedGraph(u), u.where)
    IN UNION {Loop({st}, u, <<>>, [i \in 1..Len(res) |-> res[order[i]]])
                : order \in SetToSeqs(1..Len(res))}

EvalDeleteWhere(st, u) ==
    LET listed == QuadSolutions(DatasetOf(st), u)
    IN IF u.triples = <<>> THEN {DeleteBy(st, u, Joined(listed))}
       ELSE UNION {Loop({st}, u, listed, order)
                     : order \in SetToSeqs(FirstMatches(DatasetOf(st), CtxGraph, u))}

(***************************************************************************)
(* evalAdd, evalCopy and evalMove: nothing when both are the same graph;   *)
(* the destination is emptied before the source is read.                   *)
(***************************************************************************)
CopyInto(st, dst, src) ==
    IF Iterable(st, src) THEN AddQuads(st, {dst} \X TriplesOf(st, src)) ELSE Raised(st)

EvalAdd(st, u) ==
    LET src == GraphOrDefault(u.graph[1])
        dst == GraphOrDefault(u.graph[2])
    IN IF src = dst THEN st ELSE CopyInto(st, dst, src)

\* (mutant: the destination is not emptied)
CopyOnto(st, u) == EvalAdd(st, u)

EvalCopy(st, u) ==
    LET src == GraphOrDefault(u.graph[1])
        dst == GraphOrDefault(u.graph[2])
    IN IF src = dst THEN st ELSE CopyInto(ClearGraphs(st, {dst}), dst, src)

EvalMove(st, u) ==
    LET src == GraphOrDefault(u.graph[1])
        dst == GraphOrDefault(u.graph[2])
        copied == CopyInto(ClearGraphs(st, {dst}), dst, src)
    IN IF src = dst THEN st ELSE IF copied.raised THEN copied ELSE StoreRemoveGraphs(copied, {src})

\* evalUpdate: a request of one update; what was done before an error stays done
EvalUpdate(st, u) ==
    CASE u.name = "Clear" -> {EvalClear(st, u)}
      [] u.name = "Drop" -> {EvalDrop(st, u)}
      [] u.name = "Create" -> {EvalCreate(st, u)}
      [] u.name = "Add" -> {EvalAdd(st, u)}
      [] u.name = "Move" -> {EvalMove(st, u)}
      [] u.name = "Copy" -> {EvalCopy(st, u)}
      [] u.name = "InsertData" -> {EvalInsertData(st, u)}
      [] u.name = "DeleteData" -> {EvalDeleteData(st, u)}
      [] u.name = "DeleteWhere" -> EvalDeleteWhere(st, u)
      [] u.name = "Modify" -> EvalModify(st, u)
-----------------------------------------------------------------------------
Become(st) ==
    /\ Cardinality(st.quads) <= MaxQuads
    /\ quads' = st.quads
    /\ known' = st.known
    /\ UNCHANGED <<kind, sparqlUnion>>

UpdateInit ==
    /\ quads = {} /\ known = {}
    /\ kind \in {"Dataset", "ConjunctiveGraph"}
    /\ sparqlUnion \in BOOLEAN

RunUpdate(u) == \E st \in EvalUpdate(State, u) : Become(st)

\* ConjunctiveGraph.add: a triple goes to the default graph
AddTriple(g, t) == Become(AddQuads(State, {<<g, t>>}))

\* Dataset.graph
AddGraph(g) == kind = "Dataset" /\ Become([State EXCEPT !.known = @ \cup {g}])

\* Dataset.remove_graph: the default graph is listed again at once
RemoveGraph(g) ==
    /\ kind = "Dataset"
    /\ Become([StoreRemoveGraphs(State, {g}) EXCEPT !.known = @ \cup ({g} \cap {Default})])

(***************************************************************************)
(* ConjunctiveGraph._graph: a Graph of another store that is given as the  *)
(* fourth part of a quad is copied into the graph of its name, also when   *)
(* the quad is only looked up or iterated.                                 *)
(***************************************************************************)
LookUpIn(g, foreign) == Become(AddQuads(State, {g} \X foreign))

UpdateNext ==
    \/ \E u \in Update : RunUpdate(u)
    \/ \E g \in Named \cup {Default}, t \in NewTriple : AddTriple(g, t)
    \/ \E g \in Named \cup {Default} : AddGraph(g) \/ RemoveGraph(g)
    \/ \E g \in Named, foreign \in SUBSET NewTriple : LookUpIn(g, foreign)

UpdateSpec == UpdateInit /\ [][UpdateNext]_updateVars
-----------------------------------------------------------------------------
(***************************************************************************)
(* What SPARQL 1.1 Update defines: every operation as one change of the    *)
(* graph store, all solutions at once.                                     *)
(***************************************************************************)
NameOf(g) == IF g = "DEFAULT" THEN Default ELSE g
Of(g) == {q \in quads : q[1] = g}
Renamed(from, to) == {<<to, q[2]>> : q \in Of(from)}

Target(u) == IF u.with = "" THEN Default ELSE u.with
ModifySolutions(u) == PatternMeaning(u.where, DatasetOf(State), Target(u))
WhereSolutions(u, g) == WhereMeaning(u, DatasetOf(State), g)

Removed(u) ==
    CASE u.name = "DeleteWhere" -> FilledBy(u, Default, WhereSolutions(u, Default))
      [] u.name = "DeleteData" -> GivenFor(u, Default)
      [] u.name = "Modify" -> FilledBy(u.delete, Target(u), ModifySolutions(u))
      [] u.name \in {"Clear", "Drop"} ->
           (CASE u.graphiri = "ALL" -> quads
              [] u.graphiri = "NAMED" -> quads \ Of(Default)
              [] OTHER -> Of(NameOf(u.graphiri)))
      [] u.name \in {"Copy", "Move"} /\ u.graph[1] # u.graph[2] ->
           Of(NameOf(u.graph[2]))
             \cup (IF u.name = "Move" THEN Of(NameOf(u.graph[1])) ELSE {})
      [] OTHER -> {}
Added(u) ==
    CASE u.name = "InsertData" -> GivenFor(u, Default)
      [] u.name = "Modify" -> FilledBy(u.insert, Target(u), ModifySolutions(u))
      [] u.name \in {"Add", "Copy", "Move"} /\ u.graph[1] # u.graph[2] ->
           Renamed(NameOf(u.graph[1]), NameOf(u.graph[2]))
      [] OTHER -> {}

\* an update that names its graphs does not depend on what the default graph is
NamesItsGraphs(u) ==
    CASE u.name \in {"InsertData", "DeleteData", "DeleteWhere"} -> u.triples = <<>>
      [] u.name = "Modify" -> u.with # ""
      [] u.name \in {"Clear", "Drop"} -> u.graphiri \notin {"DEFAULT", "NAMED"}
      [] u.name \in {"Add", "Copy", "Move"} -> "DEFAULT" \notin ToSet(u.graph)
      [] OTHER -> TRUE

Definite(u) == ~sparqlUnion \/ NamesItsGraphs(u)

(***************************************************************************)
(* What an update asks of its pattern: that the solutions can be listed,   *)
(* and are those that SPARQL defines.  A DELETE WHERE evaluates the rest   *)
(* of its pattern on what is left of the quads, and may find less then;    *)
(* with one triple there is no rest.  And no term is taken for the         *)
(* dataset, or, in a solution on graphs with names, for the graph without  *)
(* one.                                                                    *)
(***************************************************************************)
PatternListed(u) ==
    LET res == Solved(DatasetOf(State), ModifiedGraph(u), u.where)
    IN /\ u.name = "Modify" => res \in Seq(ToSet(res))
       /\ u.name = "DeleteWhere" /\ u.triples # <<>> =>
            IsFiniteSet(FirstMatches(DatasetOf(State), CtxGraph, u))

ModifyPattern(u) ==
    LET res == Solved(DatasetOf(State), Target(u), u.where)
        named == DOMAIN u.delete.quads \cup DOMAIN u.insert.quads
    IN /\ res \in Seq(ModifySolutions(u)) /\ ModifySolutions(u) \subseteq ToSet(res)
       /\ \A c \in ModifySolutions(u), h \in named :
            TermIn(c, h) # AllGraphs /\ (TermIn(c, h) = Self => sparqlUnion)

WherePattern(u) ==
    LET listed == QuadSolutions(DatasetOf(State), u)
        first == FirstMatches(DatasetOf(State), CtxGraph, u)
        from(Q, t) ==
            ToSet(JoinedFrom(DatasetOf([State EXCEPT !.quads = Q]), CtxGraph, u, t, listed))
        all == WhereSolutions(u, CtxGraph)
    IN /\ IF u.triples = <<>>
          THEN /\ ToSet(Joined(listed)) = all /\ all = WhereSolutions(u, Default)
               /\ \A c \in all : Fill(<<>>, c) = <<>>
          ELSE /\ first \subseteq TriplesOf(State, CtxGraph)
               /\ all = UNION {from(quads, t) : t \in first}
               /\ \A t \in first, Q \in SUBSET quads : from(Q, t) \subseteq from(quads, t)
       /\ Len(u.triples) = 1 =>
            \A t \in first :
                /\ \A Q \in SUBSET quads : from(Q, t) = from(quads, t)
                /\ \A c \in from(quads, t) : ToSet(Fill(u.triples, c)) = {t}
       /\ \A c \in all, h \in DOMAIN u.quads : TermIn(c, h) \notin {AllGraphs, Default}

PatternsListed == \A u \in Update : PatternListed(u)
PatternsAsDefined ==
    /\ PatternsListed
    /\ \A u \in Update :
        /\ u.name = "Modify" /\ Definite(u) => ModifyPattern(u)
        /\ u.name = "DeleteWhere" => WherePattern(u)

\* the state after u has quads left, one that deletes and inserts these has defined
LeftAsDefined(u, left, deleted, inserted, defined) ==
    IF u.name = "DeleteWhere" /\ Len(u.triples) > 1
    THEN /\ defined \subseteq left /\ left \subseteq quads
         /\ defined # quads => left # quads
    ELSE SymDiff(left, defined) \subseteq
           (IF u.name = "Modify" THEN deleted \cap inserted ELSE {})
Defined(deleted, inserted) == (quads \ deleted) \cup inserted
AllLeftAsDefined(u, states, deleted, inserted) ==
    \A st \in states :
        LeftAsDefined(u, st.quads, deleted, inserted, Defined(deleted, inserted))

DeletesMatches(states, matched) ==
    \A st \in states : \A q \in quads \ st.quads : q \in matched \/ <<AllGraphs, q[2]>> \in matched
DeletesOnlyMatches(u, g) ==
    DeletesMatches(EvalUpdate(State, u), FilledBy(u, g, WhereSolutions(u, g)))

(***************************************************************************)
(* An update leaves what its definition says, whatever the order of the    *)
(* solutions: always when ctx.graph is the default graph, and for updates  *)
(* that name their graphs also when it is the whole dataset.  Two          *)
(* exceptions are the code's: a quad that one solution deletes and another *)
(* inserts depends on their order, and a DELETE WHERE that joins may stop  *)
(* finding solutions it has itself destroyed, but not before it has        *)
(* deleted something.  Also when the default graph is the union of all     *)
(* graphs, what DELETE WHERE deletes is a triple of its template under a   *)
(* solution its pattern had at the start, although it goes on matching     *)
(* while it deletes.                                                       *)
(***************************************************************************)
UpdatesAsDefined ==
    /\ \A u \in {v \in Update : Definite(v)} :
         AllLeftAsDefined(u, EvalUpdate(State, u), Removed(u), Added(u))
    /\ \A u \in {v \in Update : v.name = "DeleteWhere"} : DeletesOnlyMatches(u, CtxGraph)

(***************************************************************************)
(* Every graph that holds a triple is listed: GRAPH ?g, CLEAR ALL and      *)
(* CLEAR NAMED go through the list, not through the quads.                 *)
(***************************************************************************)
GraphsListed == {q[1] : q \in quads} \subseteq Contexts(State)
=============================================================================
