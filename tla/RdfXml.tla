------------------------------- MODULE RdfXml -------------------------------
(***************************************************************************)
(* The RDF/XML serializers (rdflib/plugins/serializers/rdfxml.py).  The    *)
(* text is a sequence of events: the start of an element, with its one     *)
(* attribute that matters, characters, the end of an element.  The order   *)
(* in which a graph yields its triples is that of a hash table: ord lists  *)
(* the terms in the order they happen to come, and lasts the subjects that *)
(* may be that of the last triple.                                         *)
(***************************************************************************)
EXTENDS RdfPaths, TLC

CONSTANTS
  MaxDepth,   \* max_depth: how deep descriptions are nested
  TextUri     \* the URI that the text of a literal is read as where one is expected

Uri(x) == x \notin BNode \cup Literal

InOrder(ord, S) == SelectSeq(ord, LAMBDA x : x \in S)
First(ord, S) == IF S = {} THEN None ELSE Head(InOrder(ord, S))

\* predicate_objects
PredicateObjects(g, ord, s) ==
  LET about == {<<t[2], t[3]>> : t \in Triples(g, s, None, None)}
      objects == InOrder(ord, {po[2] : po \in about})
      Of(o) == InOrder(ord, {po[1] : po \in {x \in about : x[2] = o}})
  IN  FlattenSeq([i \in DOMAIN objects |->
        [j \in DOMAIN Of(objects[i]) |-> <<Of(objects[i])[j], objects[i]>>]])

NoEvents == [done |-> {}, events |-> <<>>]
Push(w, name, attribute) == [w EXCEPT !.events = Append(@, <<"start", name, attribute>>)]
Text(w, literal) == [w EXCEPT !.events = Append(@, <<"text", literal>>)]
Pop(w) == [w EXCEPT !.events = Append(@, <<"end">>)]

NoAttribute == <<"none", None>>
\* whatever is not a blank node is written for a URI, a literal by its text
About(node) ==
  CASE node \in BNode -> <<"nodeID", node>>
    [] node \in Literal -> <<"about", TextUri[node]>>
    [] OTHER -> <<"about", node>>
Resource(node) == IF node \in BNode THEN <<"nodeID", node>> ELSE <<"resource", node>>
-----------------------------------------------------------------------------
(***************************************************************************)
(* XMLSerializer: a description for each subject, nothing nested.          *)
(***************************************************************************)
FlatPredicate(w, p, o) ==
  IF o \in Literal THEN Pop(Text(Push(w, p, NoAttribute), o)) ELSE Pop(Push(w, p, Resource(o)))

FlatSubject(g, ord, w, s) ==
  Pop(FoldLeft(LAMBDA v, po : FlatPredicate(v, po[1], po[2]),
               Push(w, "Description", About(s)), PredicateObjects(g, ord, s)))

FlatXml(g, ord) ==
  FoldLeft(LAMBDA w, s : FlatSubject(g, ord, w, s), NoEvents, InOrder(ord, SubjectsOf(g))).events
-----------------------------------------------------------------------------
(***************************************************************************)
(* PrettyXMLSerializer: the description of an object inside the property,  *)
(* and lists as collections.                                               *)
(***************************************************************************)
RECURSIVE DescribeSubject(_, _, _, _, _), DescribeObject(_, _, _, _, _, _)

XmlDone(w, node) == [w EXCEPT !.done = @ \cup {node}]

\* subject: the element is named for the first type
DescribeSubject(g, ord, w, s, depth) ==
  LET type == First(ord, Objects(g, s, "type"))
      props == SelectSeq(PredicateObjects(g, ord, s), LAMBDA po : po # <<"type", type>>)
      opened == Push(XmlDone(w, s), IF type = None THEN "Description" ELSE type, About(s))
  IN  IF s \in w.done THEN w
      ELSE Pop(FoldLeft(LAMBDA v, po : DescribeObject(g, ord, v, po[1], po[2], depth + 1),
                        opened, props))

\* An item that is described like any subject
DescribeItemOnce(g, ord, w, item) == XmlDone(DescribeSubject(g, ord, w, item, 1), item)

\* an item of a collection: a URI is described elsewhere, a literal is a subject as well
DescribeItem(g, ord, w, item) ==
  IF Uri(item) THEN Pop(Push(w, "Description", About(item)))
  ELSE XmlDone(DescribeSubject(g, ord, w, item, 1), item)

Nested(g, o, depth) ==
  /\ ~(Uri(o) /\ <<o, "type", "Class">> \in g)
  /\ depth <= MaxDepth \/ (o \in BNode /\ Cardinality(Triples(g, None, None, o)) = 1)

\* predicate: the object is described in place, unless it is done or has nothing to tell
DescribeObject(g, ord, w, p, o, depth) ==
  IF o \in Literal \/ o \in w.done \/ Triples(g, o, None, None) = {} THEN FlatPredicate(w, p, o)
  ELSE IF Truthy(First(ord, Objects(g, o, "first")))
  THEN Pop(FoldLeft(LAMBDA v, item : DescribeItem(g, ord, v, item),
                    Push(XmlDone(w, o), p, <<"parseType", "Collection">>), Items(g, o)))
  ELSE IF Nested(g, o, depth)
  THEN Pop(DescribeSubject(g, ord, Push(w, p, NoAttribute), o, depth + 1))
  ELSE FlatPredicate(w, p, o)

DescribeAll(g, ord, w, S) ==
  FoldLeft(LAMBDA v, s : DescribeSubject(g, ord, v, s, 1), w, InOrder(ord, S))

\* A subject that cannot be nested: nothing refers to it, or it refers to itself
TopLevel(g, s) ==
  Triples(g, None, None, s) = {} \/ Triples(g, s, None, s) # {}

(* First what cannot be nested, then the URIs left over; and if there are  *)
(* blank nodes left over, what the loop before came upon last is written.  *)
PrettyTexts(g, ord, lasts) ==
  LET top == DescribeAll(g, ord, NoEvents, {s \in SubjectsOf(g) : TopLevel(g, s)})
      uris == DescribeAll(g, ord, top, SubjectsOf(g) \ BNode)
  IN  IF SubjectsOf(g) \cap BNode \subseteq uris.done THEN {uris.events}
      ELSE {DescribeSubject(g, ord, uris, last, 1).events : last \in lasts}
-----------------------------------------------------------------------------
(***************************************************************************)
(* Graphs of well-formed lists whose descriptions can be nested.  A list   *)
(* that something refers to has nothing but its items, no blank node among *)
(* them that is met elsewhere too, and no literal that any other such list *)
(* has, or that it has twice.  The depth is limited only for a             *)
(* blank node that several triples refer to: it is described if a subject  *)
(* that nothing refers to refers to it.  And something that is not a blank *)
(* node of a cycle leads to each blank node.                               *)
(***************************************************************************)
RefersTo(g, s) == {x \in SubjectsOf(g) : Triples(g, x, None, s) # {}}

Inner(g) == {t[3] : t \in Triples(g, None, "rest", None)} \ {"nil"}

Leads(g, s) ==
  \E x \in ToSet(TransitiveObjects(Turned(g), None, <<>>, s)) : x \notin BNode \/ TopLevel(g, x)

ListNestable(g, cell) ==
  /\ Cardinality(Triples(g, cell, None, None)) = 2
  /\ Cardinality(Triples(g, None, None, cell)) = 1
  /\ \A item \in Objects(g, cell, "first") \cap BNode :
       Cardinality(Triples(g, None, None, item)) = 1
  /\ \A item \in Objects(g, cell, "first") \cap Literal :
       \A other \in Subjects(g, "first", item) : other = cell \/ TopLevel(g, other)

\* A literal in a collection is read as a URI
AsWritten(g, t) ==
  IF t[2] = "first" /\ t[3] \in Literal /\ ~TopLevel(g, t[1])
  THEN <<t[1], "first", TextUri[t[3]]>> ELSE t
ItemsAsUris(g) == {AsWritten(g, t) : t \in g}

Nestable(g) ==
  /\ \A cell \in Subjects(g, "first", None) : TopLevel(g, cell) \/ ListNestable(g, cell)
  /\ \A b \in SubjectsOf(g) \cap BNode :
       /\ Leads(g, b)
       /\ Cardinality(Triples(g, None, None, b)) > 1 =>
            \E x \in RefersTo(g, b) : Triples(g, None, None, x) = {}

-----------------------------------------------------------------------------
(* The RDF/XML parser: RDFXMLHandler (rdflib/plugins/parsers/rdfxml.py), a *)
(* stack of handlers on which elements take turns to be nodes and          *)
(* properties.  One handler serves all elements that have one parent: what *)
(* it remembers of one is there when the next one starts.  The top of the  *)
(* stack is for the children of the current element.                       *)

Handler ==
  [start |-> "none", end |-> "none", subject |-> None, predicate |-> None,
   object |-> None, list |-> None, data |-> None]

\* What the root element leaves: a handler for its children
NothingParsed ==
  [stack |-> <<Handler, [Handler EXCEPT !.start = "node", !.end = "node"]>>,
   graph |-> {}, labels |-> <<>>, made |-> 0, failed |-> FALSE]

\* The handler of the children, of the current element, of its parent
NextOf(r) == Len(r.stack)
CurrentOf(r) == Len(r.stack) - 1
ParentOf(r) == Len(r.stack) - 2
Of(r, i, field) == r.stack[i][field]

Add(r, t) == [r EXCEPT !.graph = @ \cup {t}]
Become(r, i, field, value) == [r EXCEPT !.stack[i][field] = value]
Children(r, start, end) == Become(Become(r, NextOf(r), "start", start), NextOf(r), "end", end)

NewNode(r) == Anon[r.made + 1]
Made(r) == [r EXCEPT !.made = @ + 1]

\* a nodeID stands for one node all through the text
NodeOf(r, attribute) ==
  IF attribute[1] # "nodeID" THEN attribute[2]
  ELSE IF attribute[2] \in DOMAIN r.labels THEN r.labels[attribute[2]] ELSE NewNode(r)
Known(r, attribute) ==
  IF attribute[1] # "nodeID" \/ attribute[2] \in DOMAIN r.labels THEN r
  ELSE [Made(r) EXCEPT !.labels = (attribute[2] :> NewNode(r)) @@ @]
-----------------------------------------------------------------------------
NodeElementStart(r, name, attribute) ==
  LET subject == NodeOf(r, attribute)
      opened == Become(Children(Known(r, attribute), "property", "property"),
                       CurrentOf(r), "subject", subject)
  IN  IF name = "Description" THEN opened ELSE Add(opened, <<subject, "type", name>>)

\* Only the elements of the top level may follow one another
NodeElementEnd(r) ==
  IF Of(r, ParentOf(r), "object") # None /\ CurrentOf(r) # 2 THEN [r EXCEPT !.failed = TRUE]
  ELSE Become(r, ParentOf(r), "object", Of(r, CurrentOf(r), "subject"))

PropertyElementStart(r, name, attribute) ==
  LET current == CurrentOf(r)
      set(object, list, data) ==
        [Known(r, attribute) EXCEPT
           !.stack[current] = [@ EXCEPT !.predicate = name, !.object = object,
                                        !.list = list, !.data = data]]
  IN  CASE attribute[1] = "parseType" -> Children(set("nil", "nil", None), "node", "list")
        [] attribute[1] = "none" -> Children(set(None, None, ""), "node", "node")
        [] OTHER -> Children(set(NodeOf(r, attribute), None, None), "node", "node")

\* The text of a property without an element inside is its object
Finished(current) ==
  IF current.object = None THEN [current EXCEPT !.object = current.data, !.data = None]
  ELSE current

\* A list that is left without its end
LeftOpen(r, current) == r

\* The last cell of a list is linked to nil
ListEnded(r, current) ==
  IF Of(r, NextOf(r), "end") = "list" /\ current.object # "nil"
  THEN Add(r, <<current.list, "rest", "nil">>) ELSE r

PropertyElementEnd(r) ==
  LET current == Finished(r.stack[CurrentOf(r)])
      stated == Add(ListEnded(r, current),
                    <<Of(r, ParentOf(r), "subject"), current.predicate, current.object>>)
  IN  [stated EXCEPT !.stack[CurrentOf(r)] = [current EXCEPT !.subject = None]]

\* The first item makes the list the object of the property, another one is linked
ListNodeElementEnd(r) ==
  LET item == Of(r, CurrentOf(r), "subject")
      tail == Of(r, ParentOf(r), "list")
      grown == Become(Add(Made(r), <<NewNode(r), "first", item>>), ParentOf(r), "list", NewNode(r))
  IN  IF tail = "nil" THEN Become(grown, ParentOf(r), "object", NewNode(r))
      ELSE Add(grown, <<tail, "rest", NewNode(r)>>)
-----------------------------------------------------------------------------
StartElement(r, name, attribute) ==
  LET opened == [r EXCEPT !.stack = Append(@, Handler)]
  IN  IF Of(opened, CurrentOf(opened), "start") = "node"
      THEN NodeElementStart(opened, name, attribute)
      ELSE PropertyElementStart(opened, name, attribute)

EndElement(r) ==
  LET ended == CASE Of(r, CurrentOf(r), "end") = "node" -> NodeElementEnd(r)
                 [] Of(r, CurrentOf(r), "end") = "property" -> PropertyElementEnd(r)
                 [] OTHER -> ListNodeElementEnd(r)
  IN  [ended EXCEPT !.stack = Front(@)]

\* property_element_char: kept where characters can be the object
Characters(r, literal) ==
  IF Of(r, CurrentOf(r), "data") = None THEN r ELSE Become(r, CurrentOf(r), "data", literal)

OnEvent(r, event) ==
  CASE event[1] = "start" -> StartElement(r, event[2], event[3])
    [] event[1] = "end" -> EndElement(r)
    [] OTHER -> Characters(r, event[2])

Parse(events) ==
  FoldLeft(LAMBDA r, event : IF r.failed THEN r ELSE OnEvent(r, event), NothingParsed, events)
=============================================================================
