------------------------------ MODULE RdfGraph ------------------------------
(***************************************************************************)
(* A graph as the set of its triples, and the ways Graph (rdflib/graph.py) *)
(* reads and changes it.  A generator whose order nobody relies on is the  *)
(* set of what it yields; one whose consumer sees the order, or could see  *)
(* an element twice, is a sequence.                                        *)
(*                                                                         *)
(* Lists are chains of cells.  The walk along one is a function of the     *)
(* number of steps.                                                        *)
(***************************************************************************)
EXTENDS Integers, SequencesExt

CONSTANTS
  BNode,     \* the terms that are blank nodes
  Literal,   \* the terms that are literals
  Anon,      \* BNode(): the blank nodes that a parser makes, as a sequence
  Falsy      \* the literals whose truth value in Python is false

None == "none"

\* a part of a triple pattern: None stands for any term
Matches(pattern, term) == pattern \in {None, term}

Triples(g, s, p, o) ==
  {t \in g : Matches(s, t[1]) /\ Matches(p, t[2]) /\ Matches(o, t[3])}

Objects(g, s, p) == {t[3] : t \in Triples(g, s, p, None)}
Subjects(g, p, o) == {t[1] : t \in Triples(g, None, p, o)}
SubjectsOf(g) == {t[1] : t \in g}
AllNodes(g) == SubjectsOf(g) \cup {t[3] : t \in g}

\* Graph.value: one of the objects, the only one in the graphs read with it
Value(g, s, p) ==
  LET objects == Objects(g, s, p)
  IN  IF objects = {} THEN None ELSE CHOOSE o \in objects : TRUE

\* Graph.remove of a pattern with a subject, and Graph.set
Without(g, s, p) == g \ Triples(g, s, p, None)
SetValue(g, s, p, o) == Without(g, s, p) \cup {<<s, p, o>>}

(* A dataset as the set of its quads: a triple and the name of its graph.  *)
DefaultGraph == "default"
NamesOf(ds) == {q[4] : q \in ds}
GraphOf(ds, name) == {<<q[1], q[2], q[3]>> : q \in {x \in ds : x[4] = name}}
QuadsOf(g, name) == {<<t[1], t[2], t[3], name>> : t \in g}
-----------------------------------------------------------------------------
(* Lists. *)

(* The cell that is k steps of rest from a cell, or None: _get_container   *)
(* of Collection, where a key below 0 gives the head.                      *)
GetContainer(g, list, k) ==
  LET cell[n \in 0..k] ==
        IF n = 0 THEN list
        ELSE LET prior == cell[n - 1]
             IN  IF prior = None THEN None ELSE Value(g, prior, "rest")
  IN  IF k <= 0 THEN list ELSE cell[k]

(* The cells from one on, as far as they lead to another one: to where the *)
(* list ends, nil included, or comes back to one of them.                  *)
CellsOf(g, list) ==
  LET links == Cardinality(Triples(g, None, "rest", None))
      walk[n \in 0..links] ==
        IF n = 0 THEN <<list>>
        ELSE LET cells == walk[n - 1]
                 rest == Value(g, Last(cells), "rest")
             IN  IF rest = None \/ Contains(cells, rest) THEN cells ELSE Append(cells, rest)
  IN  walk[links]

\* what a loop yields that passes over None
Present(values) ==
  LET yielded[n \in 0..Len(values)] ==
        IF n = 0 THEN <<>>
        ELSE IF values[n] = None THEN yielded[n - 1] ELSE Append(yielded[n - 1], values[n])
  IN  yielded[Len(values)]

\* items: the elements of a list; one that comes back to itself is an error
ListError == <<"recursive">>
Items(g, list) ==
  LET cells == CellsOf(g, list)
  IN  IF Value(g, Last(cells), "rest") = None
      THEN Present([n \in 1..Len(cells) |-> Value(g, cells[n], "first")]) ELSE ListError
=============================================================================
