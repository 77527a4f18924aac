--------------------------- MODULE DatasetFormats ---------------------------
(***************************************************************************)
(* Formats for datasets: a line for each quad (N-Quads, HexTuples, RDF     *)
(* patches), a graph after the other (TriX, TriG).  The graphs come in     *)
(* some order; the one that has no name is the default graph.              *)
(***************************************************************************)
EXTENDS Turtle

CONSTANT AsString    \* a literal without datatype and language, with the datatype xsd:string

\* _nq_row: the default graph is not named
RowOf(q) == <<q[1], q[2], q[3], IF q[4] = DefaultGraph THEN None ELSE q[4]>>
Rows(ds) == {RowOf(q) : q \in ds}

\* _hex_line: a literal is given a datatype
Stringed(q) == IF q[3] \in Literal THEN [q EXCEPT ![3] = AsString[@]] ELSE q
HexLine(q) == RowOf(Stringed(q))
HexLines(ds) == {HexLine(q) : q \in ds}

QuadIn(row) == <<row[1], row[2], row[3], IF row[4] = None THEN DefaultGraph ELSE row[4]>>

\* Both parsers remove the default graph of the dataset that is to receive the quads
Received(ds) == {q \in ds : q[4] # DefaultGraph}

\* nodeid in N-Quads: a label stands for a node of its own, all through the text
FreshNodes(rows) ==
  LET labels == SetToSeq(UNION {{row[1], row[3], row[4]} : row \in rows} \cap BNode)
      Fresh(x) == IF Contains(labels, x) THEN Anon[CHOOSE i \in DOMAIN labels : labels[i] = x] ELSE x
  IN  {<<Fresh(row[1]), row[2], Fresh(row[3]), Fresh(row[4])>> : row \in rows}

ReadNQuads(ds, rows) == Received(ds) \cup {QuadIn(row) : row \in FreshNodes(rows)}

\* _parse_hextuple: labels are kept, and the datatypes of literals
ReadHext(ds, rows) == Received(ds) \cup {QuadIn(row) : row \in rows}

\* A patch that leaves out in which graph to delete
PatchRowUnnamed(op, q) ==
  <<op>> \o (IF op = "D" THEN <<q[1], q[2], q[3], None>> ELSE RowOf(q))

\* PatchSerializer: what is to be added, then what is to be removed
PatchRow(op, q) == <<op>> \o RowOf(q)
Patch(ds, target) ==
  {PatchRow("A", q) : q \in target \ ds} \cup {PatchRow("D", q) : q \in ds \ target}

\* RDFPatchParser, which keeps labels: the lines of additions come first
QuadsWith(op, rows) == {QuadIn(Tail(row)) : row \in {x \in rows : x[1] = op}}
Patched(ds, rows) == (ds \cup QuadsWith("A", rows)) \ QuadsWith("D", rows)
-----------------------------------------------------------------------------
\* TriX: only a URI is written as the name of a graph
TrixGraph(ds, name) == <<IF name \in BNode THEN None ELSE name, GraphOf(ds, name)>>
Trix(ds) ==
  LET names == SetToSeq(NamesOf(ds)) IN [i \in DOMAIN names |-> TrixGraph(ds, names[i])]

\* A graph without a name gets one of its own; nodes keep their labels
ReadTrix(graphs) ==
  UNION {QuadsOf(graphs[i][2], IF graphs[i][1] = None THEN Anon[i] ELSE graphs[i][1]) :
           i \in DOMAIN graphs}
-----------------------------------------------------------------------------
\* References that are counted graph by graph
TrigRefsLocal(ds, name) == RefsIn(GraphOf(ds, name))

(* preprocess: each reference in any graph, and one for being a subject of *)
(* a graph; the default graph is among the contexts twice.                 *)
CountsIn(g, node) == References(g, node) + (IF node \in SubjectsOf(g) THEN 1 ELSE 0)
TrigRefs(ds, name) ==
  LET graphs == SetToSeq(NamesOf(ds)) \o (IF DefaultGraph \in NamesOf(ds) THEN <<DefaultGraph>> ELSE <<>>)
  IN  [node \in AllNodes(GraphOf(ds, name)) |->
        FoldLeft(LAMBDA n, c : n + CountsIn(GraphOf(ds, c), node), 0, graphs)]

(* serialize: what is done is so for one graph.  The order of subjects is  *)
(* that of one graph; a subject is a reference to itself, so that nothing  *)
(* but a node without triples is written in its place, in any order.       *)
TrigGraph(ds, name) ==
  LET g == GraphOf(ds, name)
  IN  (IF name = DefaultGraph THEN <<>> ELSE <<name>>) \o <<"{">>
        \o WriteAll(g, NothingWritten(TrigRefs(ds, name)), OrderSubjects(g)).text \o <<"}">>

Trig(ds) ==
  LET names == SetToSeq(NamesOf(ds))
  IN  FlattenSeq([i \in DOMAIN names |-> TrigGraph(ds, names[i])])

RECURSIVE Statements(_), ReadGraphs(_, _)
Statements(r) == IF AtEnd(r) \/ Ahead(r, "}") THEN r ELSE Statements(ReadStatement(r))

\* graph: labels are known in all graphs of the text
GraphName(r) == IF Ahead(r, "{") THEN [r EXCEPT !.node = DefaultGraph] ELSE Node(r)
ReadGraphs(r, quads) ==
  IF AtEnd(r) THEN [r EXCEPT !.graph = quads]
  ELSE LET named == GraphName(r)
           block == Statements([Expect(named, "{") EXCEPT !.graph = {}])
       IN  ReadGraphs(Expect(block, "}"), quads \cup QuadsOf(block.graph, named.node))

ReadTrig(text) == ReadGraphs(NothingRead(text), {})

-----------------------------------------------------------------------------
(* JSON-LD without a context: Converter (rdflib/plugins/serializers/       *)
(* jsonld.py) makes a document of a dataset, Parser (parsers/jsonld.py)    *)
(* reads it.  A document is a set of objects: the node it describes, its   *)
(* properties, each value of a property by itself, and the nodes of the    *)
(* graph that the node names, if it names one.                             *)

NodeObject(id, props) == [id |-> id, props |-> props, graph |-> {}]

NoList == <<"no list">>

\* A cell that may have other properties
CellAny(g, cell) ==
  cell \in BNode /\ Cardinality(Objects(g, cell, "rest")) = 1

\* to_collection: what a chain of blank nodes holds that have nothing but an item and a rest
CellOnly(g, cell) ==
  /\ cell \in BNode
  /\ Triples(g, cell, None, None) \subseteq
       Triples(g, cell, "first", None) \cup Triples(g, cell, "rest", None)
         \cup {<<cell, "type", "List">>}
  /\ Cardinality(Objects(g, cell, "first")) <= 1
  /\ Cardinality(Objects(g, cell, "rest")) = 1

RECURSIVE Chained(_, _, _, _), RawValue(_, _), Mentioned(_), NodeMap(_, _)
Chained(g, cell, chain, items) ==
  IF cell = "nil" THEN items
  ELSE IF ~CellOnly(g, cell) \/ Value(g, cell, "rest") \in chain THEN NoList
  ELSE LET rest == Value(g, cell, "rest")
       IN  Chained(g, rest, chain \cup {rest}, items \o SetToSeq(Objects(g, cell, "first")))

ToCollection(g, node) ==
  IF node # "nil" /\ Value(g, node, "first") \in Falsy \cup {None} THEN NoList
  ELSE Chained(g, node, {node}, <<>>)

\* to_raw_value
RawValue(g, o) ==
  IF o \in Literal THEN <<"@value", o>>
  ELSE LET items == ToCollection(g, o)
       IN  IF items = NoList THEN <<"@id", o>>
           ELSE <<"@list", [i \in DOMAIN items |-> RawValue(g, items[i])]>>

\* add_to_node: a type with a name is no list
PropertyOf(g, t) ==
  <<t[2], IF t[2] = "type" /\ t[3] \notin BNode \cup Literal THEN <<"@id", t[3]>>
          ELSE RawValue(g, t[3])>>
PropertiesOf(g, s) == {PropertyOf(g, t) : t \in Triples(g, s, None, None)}

\* the blank nodes in a value
Mentioned(value) ==
  IF value[1] = "@list" THEN UNION {Mentioned(x) : x \in ToSet(value[2])}
  ELSE {value[2]} \cap BNode

\* process_subject: a node is described, and then the blank nodes it mentions
NodeMap(g, ids) ==
  LET found == UNION {Mentioned(kv[2]) : kv \in UNION {PropertiesOf(g, s) : s \in ids}}
  IN  IF found \subseteq ids THEN ids ELSE NodeMap(g, ids \cup found)

\* from_graph: it begins with URIs, and with blank nodes nobody refers to
FromGraph(g) ==
  {NodeObject(s, PropertiesOf(g, s)) :
     s \in NodeMap(g, {x \in SubjectsOf(g) : x \notin BNode \/ Subjects(g, None, x) = {}})}

\* convert adds the graphs that blank nodes name to the default graph of the dataset
MergedByConvert(ds) ==
  ds \cup {[q EXCEPT ![4] = DefaultGraph] : q \in {x \in ds : x[4] \in BNode}}

\* Named graphs in which one node is written for the graph
GraphObjectSingle(name, nodes) ==
  IF Cardinality(nodes) = 1 THEN nodes ELSE {[NodeObject(name, {}) EXCEPT !.graph = nodes]}

\* convert: an object for each graph; a default graph of one node is that node
GraphObject(name, nodes) ==
  IF nodes = {} THEN {}
  ELSE IF name = None /\ Cardinality(nodes) = 1 THEN nodes
  ELSE {[NodeObject(name, {}) EXCEPT !.graph = nodes]}

\* the graph that the one node of the default graph names is written into it
Joined(top, named) ==
  LET Under(o) == UNION {x.graph : x \in {y \in named : y.id = o.id}}
  IN  {[o EXCEPT !.graph = @ \cup Under(o)] : o \in top}
        \cup {x \in named : x.id \notin {o.id : o \in top}}

Document(ds) ==
  LET merged == MergedByConvert(ds)
      nodes == FromGraph(GraphOf(merged, DefaultGraph))
      named == UNION {GraphObject(name, FromGraph(GraphOf(merged, name))) :
                        name \in NamesOf(merged) \ (BNode \cup {DefaultGraph})}
  IN  IF named = {} THEN nodes ELSE Joined(GraphObject(None, nodes), named)
-----------------------------------------------------------------------------
NothingAdded == [quads |-> {}, made |-> 0, node |-> None]
AddQuad(r, s, p, o, name) == [r EXCEPT !.quads = @ \cup {<<s, p, o, name>>}]
Fold(Op(_, _), r, S) == FoldLeft(Op, r, SetToSeq(S))

RECURSIVE AddToGraph(_, _, _), ToObject(_, _, _), AddList(_, _, _)

\* _add_to_graph: a node keeps its label; what is under "@graph" goes to the graph it names
AddToGraph(r, name, object) ==
  LET within == IF object.id = None THEN name ELSE object.id
      AddValue(v, kv) ==
        LET found == ToObject(v, name, kv[2]) IN AddQuad(found, object.id, kv[1], found.node, name)
      AddNode(v, o) == AddToGraph(v, within, o)
  IN  Fold(AddNode, Fold(AddValue, r, object.props), object.graph)

\* _to_object
ToObject(r, name, value) ==
  IF value[1] = "@list" THEN AddList(r, name, value[2]) ELSE [r EXCEPT !.node = value[2]]

\* _add_list: a new cell for each item
AddList(r, name, items) ==
  IF items = <<>> THEN [r EXCEPT !.node = "nil"]
  ELSE LET cell == Anon[r.made + 1]
           item == ToObject([r EXCEPT !.made = @ + 1], name, Head(items))
           tail == AddList(item, name, Tail(items))
       IN  [AddQuad(AddQuad(tail, cell, "first", item.node, name), cell, "rest", tail.node, name)
              EXCEPT !.node = cell]

ParseJson(document) ==
  Fold(LAMBDA r, object : AddToGraph(r, DefaultGraph, object), NothingAdded, document).quads
=============================================================================
