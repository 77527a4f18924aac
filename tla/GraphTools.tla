----------------------------- MODULE GraphTools -----------------------------
(***************************************************************************)
(* A graph, and what the library offers a program that works on it: lists  *)
(* and containers edited through Python objects, a wrapper that adds in    *)
(* batches, paths and walks, the canonical form, formats it is written in  *)
(* and read from; formats of datasets, whose triples are quads; and the    *)
(* order of terms.  The jobs that programs start with (GraphHandles) are   *)
(* such that every tool is tried on graphs of the kind that is hard for    *)
(* it.                                                                     *)
(***************************************************************************)
EXTENDS RdfPaths, Turtle, RdfXml, DatasetFormats, Canonical, GraphHandles

CONSTANTS
  Orders,         \* orders in which a hash table may give the terms
  Paths, Ends,    \* paths, and the terms that may be at their ends
  SomeTokens, SomeTypes, SomeString,    \* texts, datatypes, and strings for literals
  DayLength, SomeMoment, SomeText       \* dates, and durations as they are written

Lit == INSTANCE Values
Dur == INSTANCE Durations

vars == <<graph, job, len, batch>>

Init == BatchInit /\ len = <<>>

-----------------------------------------------------------------------------
(***************************************************************************)
(* Triple by triple.                                                       *)
(***************************************************************************)
AddTriple(t) ==
  /\ Uses("add") /\ Cardinality(graph) < job.most
  /\ graph' = graph \cup {t}
  /\ UNCHANGED <<job, len, batch>>

\* Writing a dataset as JSON-LD changes it
WriteJson ==
  /\ Uses("quads")
  /\ graph' = MergedByConvert(graph)
  /\ UNCHANGED <<job, len, batch>>

SetTriple(t) ==
  /\ Uses("set")
  /\ graph' = SetValue(graph, t[1], t[2], t[3])
  /\ UNCHANGED <<job, len, batch>>

-----------------------------------------------------------------------------
Next ==
  \/ \E t \in job.edits : AddTriple(t) \/ SetTriple(t)
  \/ WriteJson
  \/ EditSequence /\ UNCHANGED batch
  \/ UseBatch /\ UNCHANGED len

Spec == Init /\ [][Next]_vars

-----------------------------------------------------------------------------
(* Properties. *)

(* Between any two ends, bound or not, a property path yields the pairs    *)
(* that its definition relates: closures over cycles, sequences evaluated  *)
(* from either side, repetitions of repetitions.  The code takes a literal *)
(* such as 0 for an end that is not bound, so there is none in the graph.  *)
(* A transitive walk visits what can be reached, and nothing twice,        *)
(* whatever the cycles; whether a graph is connected does not depend on    *)
(* the node the walk happens to start from; and a concise bounded          *)
(* description has what the blank nodes hold that hang together with the   *)
(* resource, and the statements made about any of them.                    *)
PathAsDefined(path, rel) ==
  \A s, o \in Ends \cup {None} :
    EvalPath(graph, s, path, o) = Between(rel, graph, s, o)
EveryPathAsDefined ==
  AllNodes(graph) \cap Falsy = {} =>
    \A path \in Paths : PathAsDefined(path, Relates(graph, path, Ends))

From(rel, s) == {s} \cup {x[2] : x \in {y \in rel : y[1] = s}}
VisitsOnce(walk, nodes) == ToSet(walk) = nodes /\ Len(walk) = Cardinality(nodes)
Steps(g, p) == {<<t[1], t[3]>> : t \in Triples(g, None, p, None)}
ClosureIn(g, R) == Closure(R, AllNodes(g))

WalksFollow(g, p, rel) ==
  \A s \in Ends : VisitsOnce(TransitiveObjects(g, p, <<>>, s), From(rel, s))
WalksTo(g, p) ==
  /\ WalksFollow(g, p, ClosureIn(g, Steps(g, p)))
  /\ WalksFollow(Turned(g), p, ClosureIn(g, Steps(Turned(g), p)))

Together2(rel) == \A x, y \in AllNodes(graph) : <<x, y>> \in rel
ConnectedAs(rel) == \A s \in AllNodes(graph) : Connected(graph, s) <=> Together2(rel)

Described(g, nodes) ==
  {t \in g : t[1] \in nodes \cup UNION {Subjects(g, "subject", x) : x \in nodes}}
CbdAs(rel) == \A s \in Ends : Cbd(graph, s) = Described(graph, From(rel, s))

PathsAsDefined ==
  Uses("paths") =>
    /\ EveryPathAsDefined
    /\ \A p \in {t[2] : t \in job.edits} : WalksTo(graph, p)
    /\ ConnectedAs(ClosureIn(graph, Steps(graph, None) \cup Steps(Turned(graph), None)))
    /\ CbdAs(ClosureIn(graph, {x \in Steps(graph, None) : x[2] \in BNode}))

(* The canonical labels of two blank nodes differ.  Two graphs that differ *)
(* only in the names of their blank nodes have the same canonical triples, *)
(* if nodes that refinement leaves with one colour can take each other's   *)
(* place: the branches left out are then like the branch they stand for.   *)
Renamed(g, f) ==
  LET name(x) == IF x \in DOMAIN f THEN f[x] ELSE x
  IN  {<<name(t[1]), t[2], name(t[3])>> : t \in g}
Swaps ==
  {[x \in two |-> CHOOSE y \in two : y # x] : two \in {S \in SUBSET BNode : Cardinality(S) = 2}}
Symmetries == {f \in Permutations(BNode) : Renamed(graph, f) = graph}

SameOrbit(c, symmetries) ==
  \A m, n \in ToSet(c.nodes) : \E f \in symmetries : f[m] = n
Orbits(coloring) ==
  Discrete(coloring) \/ \A c \in ToSet(coloring) : IsDiscrete(c) \/ SameOrbit(c, Symmetries)

Distinct(labels) == \A m, n \in DOMAIN labels : labels[m] = labels[n] => m = n
NamesDoNotMatter(triples) == \A f \in Swaps : CanonicalTriples(Renamed(graph, f)) = triples
LabelsAsNeeded(labels) ==
  /\ Distinct(labels)
  /\ Orbits(RefineAll(graph, InitialColor(graph))) => NamesDoNotMatter(Relabelled(graph, labels))
CanonicalForms == Uses("canonical") => LabelsAsNeeded(Labels(graph))

(* What a serializer writes, the parser of the format takes for a graph    *)
(* that differs from the one written in the names of its blank nodes only, *)
(* whatever brackets, elements and lists they are nested in, and whatever  *)
(* the order in which the graph yields its triples.  RDF/XML that nests    *)
(* descriptions writes lists as collections, in which a literal is written *)
(* for a URI: it is read back as that URI.                                 *)
SameGraph(read, g) ==
  \E f \in Bijection(AllNodes(read) \cap ToSet(Anon), AllNodes(g) \cap BNode) :
    Renamed(read, f) = g

TurtleReadsBack ==
  LET r == Feed(NothingRead(Serialize(graph).text))
  IN  r.at # Failed /\ SameGraph(r.graph, graph)

XmlReadsBack(events, g) ==
  LET r == Parse(events) IN ~r.failed /\ SameGraph(r.graph, g)

NestedTexts ==
  UNION {PrettyTexts(graph, ord, SubjectsOf(graph) \ Inner(graph)) : ord \in Orders}

ReadsBack ==
  /\ Uses("turtle") /\ WellFormed(graph) => TurtleReadsBack
  /\ Uses("xml") =>
       /\ XmlReadsBack(FlatXml(graph, CHOOSE ord \in Orders : TRUE), graph)
       /\ WellFormed(graph) /\ Nestable(graph) =>
            \A text \in NestedTexts : XmlReadsBack(text, ItemsAsUris(graph))

(* A dataset is read back from what its serializers write: every quad in   *)
(* the graph it was in, up to the names of blank nodes, and a patch turns  *)
(* one dataset into the other.  HexTuples gives the datatype xsd:string to *)
(* literals that have none, and with it they are read back.                *)
(* What a format cannot write is left out:                                 *)
(* TriG writes [] for a blank node that names a graph when it is an object *)
(* just once, TriX keeps no blank names; JSON-LD knows lists only by their *)
(* cells, and loses blank nodes that nothing with a name leads to and that *)
(* refer to each other; what graphs with blank names hold is in the        *)
(* default graph.                                                          *)
QuadNodes(ds) == UNION {{q[1], q[3], q[4]} : q \in ds}
SameDataset(read, ds) ==
  LET gone == (QuadNodes(ds) \cap BNode) \ QuadNodes(read)
  IN  \E f \in Bijection(QuadNodes(read) \cap ToSet(Anon), gone) :
        LET name(x) == IF x \in DOMAIN f THEN f[x] ELSE x
        IN  {<<name(q[1]), q[2], name(q[3]), name(q[4])>> : q \in read} = ds

Mentions(ds, node) == {q \in ds : node \in {q[1], q[3]}}
ObjectOnce(ds, node) ==
  \E q \in ds : Mentions(ds, node) = {q} /\ q[1] # node /\ q[4] # DefaultGraph

ListInOnePlace(ds, q) ==
  /\ Cardinality({x \in ds : x[3] = q[1]}) <= 1
  /\ \A x \in Mentions(ds, q[1]) : x[4] = q[4]
JsonWritable(ds, g) ==
  /\ WellFormed(g)
  /\ \A b \in SubjectsOf(g) \cap BNode : Rooted(g, b) /\ <<b, "type", "List">> \notin g
  /\ \A q \in ds : q[2] = "rest" => ListInOnePlace(ds, q)
JsonReadsBack(ds) ==
  (\A name \in NamesOf(ds) : JsonWritable(ds, GraphOf(ds, name)))
    => SameDataset(ParseJson(Document(graph)), ds)

WithDatatypes(ds) ==
  {IF q[3] \in Literal THEN <<q[1], q[2], AsString[q[3]], q[4]>> ELSE q : q \in ds}

TrigReadsBack(r) == r.at # Failed /\ SameDataset(r.graph, graph)

DatasetsReadBack ==
  LET names == NamesOf(graph) \cap BNode
  IN  Uses("quads") =>
        /\ SameDataset(ReadNQuads({}, Rows(graph)), graph)
        /\ ReadHext({}, HexLines(graph)) = WithDatatypes(graph)
        /\ (\A b \in names : ~ObjectOnce(graph, b)) => TrigReadsBack(ReadTrig(Trig(graph)))
        /\ (\A b \in names : Mentions(graph, b) = {}) => SameDataset(ReadTrix(Trix(graph)), graph)
        /\ JsonReadsBack({q \in MergedByConvert(graph) : q[4] \notin BNode})
        /\ \A t, u \in job.edits :
             LET target == (graph \cup {t}) \ {u}
             IN  Patched(graph, Patch(graph, target)) = target

(* Literals keep their values: through texts and back, in sums and         *)
(* products, casts, parts of strings; and dates through the durations that *)
(* are added to them, as Python literals and in SPARQL alike.              *)
LiteralsAsDefined == Uses("values") => Lit!ValuesAsDefined /\ Dur!DurationsAsDefined
=============================================================================
