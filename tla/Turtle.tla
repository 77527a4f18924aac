------------------------------- MODULE Turtle -------------------------------
(***************************************************************************)
(* The Turtle serializer (rdflib/plugins/serializers/turtle.py) as far as  *)
(* it decides what is written where: each triple under its subject, a      *)
(* blank node by its label, in brackets at the one place that refers to    *)
(* it, or as a list.  The text is a sequence of tokens: terms and          *)
(* punctuation.                                                            *)
(***************************************************************************)
EXTENDS RdfPaths, TLC

CONSTANT Rank       \* the order of terms: a number for each

-----------------------------------------------------------------------------
\* preprocess: how often a node is an object
References(g, node) == Cardinality(Triples(g, None, None, node))

Sorted(S) == SortSeq(SetToSeq(S), LAMBDA a, b : Rank[a] < Rank[b])

Before(g, s, t) ==
  LET refs(x) == References(g, x)
  IN  \/ s \notin BNode /\ t \in BNode
      \/ /\ s \in BNode <=> t \in BNode
         /\ refs(s) < refs(t) \/ (refs(s) = refs(t) /\ Rank[s] < Rank[t])

\* orderSubjects: the classes, then URIs before blank nodes, the least referred to first
Classes(g) == Subjects(g, "type", "Class")
OrderSubjects(g) ==
  Sorted(Classes(g)) \o
  SortSeq(SetToSeq({t[1] : t \in g} \ Classes(g)), LAMBDA s, t : Before(g, s, t))

\* refs: the references to each node, counted before anything is written
RefsIn(g) == [node \in AllNodes(g) |-> References(g, node)]
NothingWritten(refs) == [done |-> {}, text |-> <<>>, refs |-> refs]

SubjectDone(w, node) == [w EXCEPT !.done = @ \cup {node}]
Write(w, tokens) == [w EXCEPT !.text = @ \o tokens]
Label(node) == IF node = "nil" THEN <<"(", ")">> ELSE <<node>>
-----------------------------------------------------------------------------
RECURSIVE CellsValid(_, _), DoList(_, _, _), Path(_, _, _), PredicateList(_, _, _)

\* isValidList: an item, and two triples about each cell
CellsValid(g, cell) ==
  \/ cell = None
  \/ /\ cell = "nil" \/ Cardinality(Triples(g, cell, None, None)) = 2
     /\ CellsValid(g, Value(g, cell, "rest"))

IsValidList(g, cell) == Value(g, cell, "first") # None /\ CellsValid(g, cell)

\* doList: a cell is done after its item
DoCell(g, w, cell, item) ==
  IF item = None THEN w ELSE SubjectDone(Path(g, w, item), cell)
DoList(g, w, cell) ==
  IF cell = None THEN w
  ELSE DoList(g, DoCell(g, w, cell, Value(g, cell, "first")), Value(g, cell, "rest"))

\* A node written in its place at its first mention
IsSquaredFirst(g, w, node) == node \in BNode /\ node \notin w.done

\* p_squared, for an object: can it be written in its place?
IsSquared(g, w, node) ==
  node \in BNode /\ node \notin w.done /\ w.refs[node] <= 1

Path(g, w, node) ==
  IF ~IsSquared(g, w, node) THEN Write(w, Label(node))
  ELSE IF IsValidList(g, node) THEN Write(DoList(g, Write(w, <<"(">>), node), <<")">>)
  ELSE Write(PredicateList(g, SubjectDone(Write(w, <<"[">>), node), node), <<"]">>)

\* The objects of each predicate of a subject, in order
Properties(g, s) ==
  FlattenSeq([i \in 1..Cardinality({t[2] : t \in Triples(g, s, None, None)}) |->
    LET p == Sorted({t[2] : t \in Triples(g, s, None, None)})[i]
    IN  [j \in 1..Cardinality(Objects(g, s, p)) |-> <<p, Sorted(Objects(g, s, p))[j]>>]])

\* What stands before the object of the i-th of them
Verb(props, i) ==
  IF i = 1 THEN <<props[1][1]>>
  ELSE IF props[i][1] = props[i - 1][1] THEN <<",">> ELSE <<";", props[i][1]>>

PredicateList(g, w, s) ==
  LET props == Properties(g, s)
  IN  FoldLeft(LAMBDA v, i : Path(g, Write(v, Verb(props, i)), props[i][2]),
               w, [i \in DOMAIN props |-> i])

\* s_squared and s_default: a blank node nobody refers to needs no label
Statement(g, w, s) ==
  LET subject == IF s \in BNode /\ w.refs[s] = 0 THEN <<"[", "]">> ELSE Label(s)
  IN  Write(PredicateList(g, Write(w, subject), s), <<".">>)

WriteAll(g, w, subjects) ==
  FoldLeft(LAMBDA v, s : IF s \in v.done THEN v ELSE Statement(g, SubjectDone(v, s), s),
           w, subjects)

Serialize(g) == WriteAll(g, NothingWritten(RefsIn(g)), OrderSubjects(g))
-----------------------------------------------------------------------------
(***************************************************************************)
(* Lists the notation can stand for: a cell has one item and one rest, the *)
(* cells end at nil, and no cell but the first is referred to twice; and   *)
(* something outside of all cycles leads to the list, or the serializer    *)
(* may come upon its cells before it comes upon the list.                  *)
(***************************************************************************)
RECURSIVE EndsAtNil(_, _, _)
EndsAtNil(g, cell, n) ==
  \/ cell = "nil"
  \/ n > 0 /\ cell # None /\ EndsAtNil(g, Value(g, cell, "rest"), n - 1)

Rooted(g, cell) ==
  \E x \in ToSet(TransitiveObjects(Turned(g), None, <<>>, cell)) :
    x \notin BNode \/ References(g, x) = 0

WellFormed(g) ==
  \A t \in g : t[2] \in {"first", "rest"} =>
    /\ Cardinality(Objects(g, t[1], "first")) = 1
    /\ Cardinality(Objects(g, t[1], "rest")) = 1
    /\ EndsAtNil(g, t[1], Cardinality(g))
    /\ (t[2] = "rest" /\ t[3] # "nil") => References(g, t[3]) = 1
    /\ Rooted(g, t[1])

-----------------------------------------------------------------------------
(* The Turtle parser: SinkParser (rdflib/plugins/parsers/notation3.py) in  *)
(* Turtle mode, which adds triples to a graph while it descends into a     *)
(* text.  The text is a sequence of tokens; what the parser has found is   *)
(* kept in a record: its position in the text, the node and the list of    *)
(* objects read last, the graph, the nodes that labels stand for, and how  *)
(* many blank nodes it has made.                                           *)

Punctuation == {"[", "]", "(", ")", ";", ",", ".", "{", "}"}
Failed == 0

NothingRead(text) ==
  [text |-> text, at |-> 1, node |-> None, objects |-> <<>>,
   graph |-> {}, labels |-> <<>>, made |-> 0]

AtEnd(r) == r.at \notin DOMAIN r.text
Ahead(r, token) == ~AtEnd(r) /\ r.text[r.at] = token
Skip(r) == [r EXCEPT !.at = @ + 1]

\* BadSyntax is raised: nothing more is read
BadSyntax(r) == [r EXCEPT !.at = Failed, !.node = None]
Expect(r, token) == IF Ahead(r, token) THEN Skip(r) ELSE BadSyntax(r)

NewBlankNode(r) == [r EXCEPT !.made = @ + 1, !.node = Anon[r.made + 1]]

\* A label that is forgotten
AnonymousNodeAnew(r, label) == NewBlankNode(r)

\* anonymousNode: a label stands for one node all through the text
AnonymousNode(r, label) ==
  IF label \in DOMAIN r.labels THEN [r EXCEPT !.node = r.labels[label]]
  ELSE LET new == NewBlankNode(r) IN [new EXCEPT !.labels = (label :> new.node) @@ @]

MakeStatements(r, subj, verb, objects) ==
  [r EXCEPT !.graph = @ \cup {<<subj, verb, o>> : o \in ToSet(objects)}]

\* newList: the cells are made when the list ends
NewList(r, items) ==
  LET n == Len(items)
      cell(i) == IF i > n THEN "nil" ELSE Anon[r.made + i]
  IN  [r EXCEPT !.node = cell(1), !.made = @ + n,
                !.graph = @ \cup {<<cell(i), "first", items[i]>> : i \in 1..n}
                            \cup {<<cell(i), "rest", cell(i + 1)>> : i \in 1..n}]
-----------------------------------------------------------------------------
RECURSIVE Node(_), ListItems(_, _), PropertyList(_, _), ObjectList(_, _), Feed(_)

\* node: a term, or what brackets and parentheses stand for; None if there is none
Node(r) ==
  IF Ahead(r, "[")
  THEN LET subj == NewBlankNode(Skip(r))
       IN  [Expect(PropertyList(subj, subj.node), "]") EXCEPT !.node = subj.node]
  ELSE IF Ahead(r, "(") THEN ListItems(Skip(r), <<>>)
  ELSE IF AtEnd(r) \/ r.text[r.at] \in Punctuation THEN [r EXCEPT !.node = None]
  ELSE IF r.text[r.at] \in BNode THEN AnonymousNode(Skip(r), r.text[r.at])
  ELSE [Skip(r) EXCEPT !.node = r.text[r.at]]

ListItems(r, items) ==
  LET item == Node(r)
  IN  IF Ahead(r, ")") THEN NewList(Skip(r), items)
      ELSE IF item.node = None THEN BadSyntax(r)
      ELSE ListItems(item, Append(items, item.node))

\* property_list: semicolons may be repeated, and a list may be empty
PropertyList(r, subj) ==
  LET verb == Node(r)
      list == ObjectList(verb, <<>>)
      made == MakeStatements(list, subj, verb.node, list.objects)
  IN  IF AtEnd(r) THEN BadSyntax(r)
      ELSE IF Ahead(r, ";") THEN PropertyList(Skip(r), subj)
      ELSE IF verb.node = None THEN r
      ELSE IF AtEnd(list) THEN BadSyntax(list)
      ELSE IF Ahead(made, ";") THEN PropertyList(Skip(made), subj)
      ELSE made

ObjectList(r, found) ==
  LET object == Node(r)
      objects == Append(found, object.node)
  IN  IF object.node = None THEN BadSyntax(object)
      ELSE IF Ahead(object, ",") THEN ObjectList(Skip(object), objects)
      ELSE [object EXCEPT !.objects = objects]

\* statement, and checkDot: a bracket or a brace is left alone
CheckDot(r) == IF Ahead(r, "]") \/ Ahead(r, "}") THEN r ELSE Expect(r, ".")
ReadStatement(r) ==
  LET subj == Node(r)
  IN  IF subj.node = None THEN BadSyntax(subj) ELSE CheckDot(PropertyList(subj, subj.node))

\* feed: statement after statement
Feed(r) == IF AtEnd(r) THEN r ELSE Feed(ReadStatement(r))
=============================================================================
