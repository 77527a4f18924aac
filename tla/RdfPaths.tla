------------------------------ MODULE RdfPaths ------------------------------
(***************************************************************************)
(* Walks through a graph (rdflib/graph.py): what a node leads to, whether  *)
(* the graph is connected, and the description of a resource.              *)
(*                                                                         *)
(* SPARQL property paths (rdflib/paths.py): Path.eval for every kind of    *)
(* path, as the set of pairs of ends it yields.  Graph.triples hands a     *)
(* pattern with a path to it, so a path evaluates its parts with EvalPath. *)
(* The shape of a walk depends on which end is bound, and the code asks    *)
(* this now with "is not None" and now with the truth of the term, which a *)
(* literal such as 0 lacks.                                                *)
(***************************************************************************)
EXTENDS RdfGraph

RECURSIVE TransitiveObjects(_, _, _, _), Discover(_, _, _), AddToCbd(_, _, _)

(* transitive_objects: depth first.  The nodes remembered are the nodes    *)
(* yielded so far, found.  transitive_subjects is the same walk over the   *)
(* triples turned round.                                                   *)
TransitiveObjects(g, p, found, s) ==
  IF Contains(found, s) THEN found
  ELSE FoldLeft(LAMBDA f, o : TransitiveObjects(g, p, f, o),
                Append(found, s), SetToSeq(Objects(g, s, p)))

Turned(g) == {<<t[3], t[2], t[1]>> : t \in g}

(* connected, from the node at which the walk happens to start: the nodes  *)
(* it discovers.  What is still to visit is never visited twice.           *)
\* A walk along the triples only
DiscoverAhead(g, visiting, discovered) ==
  IF visiting = <<>> THEN discovered
  ELSE LET x == Last(visiting)
           known == ToSet(visiting) \cup discovered
       IN  Discover(g, Front(visiting) \o SetToSeq(Objects(g, x, None) \ known),
                    discovered \cup {x})
Discover(g, visiting, discovered) ==
  IF visiting = <<>> THEN discovered
  ELSE LET x == Last(visiting)
           known == ToSet(visiting) \cup discovered \cup {x}
           new == (Objects(g, x, None) \cup Subjects(g, None, x)) \ known
       IN  Discover(g, Front(visiting) \o SetToSeq(new), discovered \cup {x})
Connected(g, start) == Discover(g, <<start>>, {}) = AllNodes(g)

(* cbd: the triples about a resource, then about the blank nodes it has    *)
(* for objects, unless the result already has triples about them; and the  *)
(* statements that have a resource so visited for their subject.           *)
AddToCbd(g, sub, s) ==
  LET about == FoldLeft(LAMBDA acc, t :
                          LET with == acc \cup {t}
                          IN  IF t[3] \in BNode /\ Triples(with, t[3], None, None) = {}
                              THEN AddToCbd(g, with, t[3]) ELSE with,
                        sub, SetToSeq(Triples(g, s, None, None)))
  IN  about \cup UNION {Triples(g, x, None, None) : x \in Subjects(g, "subject", s)}
Cbd(g, s) == AddToCbd(g, {}, s)
-----------------------------------------------------------------------------
(* Property paths. *)

Truthy(term) == term # None /\ term \notin Falsy

\* The constructors.  A sequence of sequences is one sequence, and so for |.
Iri(p) == [kind |-> "iri", name |-> p]
InvPath(path) == [kind |-> "inv", path |-> path]
FlatPaths(kind, paths) ==
  FlattenSeq([i \in 1..Len(paths) |->
                IF paths[i].kind = kind THEN paths[i].paths ELSE <<paths[i]>>])
SequencePath(paths) == [kind |-> "seq", paths |-> FlatPaths("seq", paths)]
AlternativePath(paths) == [kind |-> "alt", paths |-> FlatPaths("alt", paths)]
MulPath(path, mod) ==
  [kind |-> "mul", path |-> path, zero |-> mod \in {"?", "*"}, more |-> mod \in {"+", "*"}]
\* Predicates that must not lead from one end to the other, or back
NegatedPath(names, back) == [kind |-> "neg", names |-> names, back |-> back]
-----------------------------------------------------------------------------
RECURSIVE EvalPath(_, _, _, _), EvalSeq(_, _, _, _), Fwd(_, _, _, _, _), Bwd(_, _, _, _, _)

EvalSeq(g, paths, s, o) ==
  IF Len(paths) > 1
  THEN UNION {{<<x[1], r[2]>> : r \in EvalSeq(g, Tail(paths), x[2], o)} :
              x \in EvalPath(g, s, Head(paths), None)}
  ELSE EvalPath(g, s, Head(paths), o)

\* From the far end; what is before the last part is evaluated forwards.
EvalSeqBw(g, paths, s, o) ==
  IF Len(paths) > 1
  THEN UNION {{<<r[1], x[2]>> : r \in EvalSeq(g, Front(paths), s, x[1])} :
              x \in EvalPath(g, None, Last(paths), o)}
  ELSE EvalPath(g, s, Head(paths), o)

(* The walks of MulPath.  Both share, between the branches of one walk,    *)
(* what they have seen.  A pair found further on is yielded with the end   *)
(* from which this call started.  FwdUnseen passes over a node it has seen, *)
(* also as the end of a pair.                                              *)
FwdUnseen(g, mul, s, o, seen) ==
  FoldLeft(LAMBDA acc, x :
             LET further == IF mul.more /\ x[2] \notin acc.seen
                            THEN Fwd(g, mul, x[2], o, acc.seen)
                            ELSE [seen |-> acc.seen, found |-> {}]
             IN  [seen |-> further.seen,
                  found |-> acc.found \cup {<<x[1], y[2]>> : y \in further.found}
                              \cup {y \in {x} : x[2] \notin acc.seen /\ (~Truthy(o) \/ x[2] = o)}],
           [seen |-> seen \cup {s}, found |-> {}],
           SetToSeq(EvalPath(g, s, mul.path, None)))

Fwd(g, mul, s, o, seen) ==
  FoldLeft(LAMBDA acc, x :
             LET further == IF mul.more /\ x[2] \notin acc.seen
                            THEN Fwd(g, mul, x[2], o, acc.seen)
                            ELSE [seen |-> acc.seen, found |-> {}]
             IN  [seen |-> further.seen,
                  found |-> acc.found \cup {y \in {x} : ~Truthy(o) \/ x[2] = o}
                              \cup {<<x[1], y[2]>> : y \in further.found}],
           [seen |-> seen \cup {s}, found |-> {}],
           SetToSeq(EvalPath(g, s, mul.path, None)))

Bwd(g, mul, s, o, seen) ==
  FoldLeft(LAMBDA acc, x :
             LET further == IF mul.more /\ x[1] \notin acc.seen
                            THEN Bwd(g, mul, None, x[1], acc.seen)
                            ELSE [seen |-> acc.seen, found |-> {}]
             IN  [seen |-> further.seen,
                  found |-> acc.found \cup {y \in {x} : ~Truthy(s) \/ x[1] = s}
                              \cup {<<y[1], x[2]>> : y \in further.found}],
           [seen |-> seen \cup {o}, found |-> {}],
           SetToSeq(EvalPath(g, None, mul.path, o)))

\* The ends as they are, for a path of no step at all
ZeroSteps(g, mul, s, o) ==
  IF ~mul.zero THEN {}
  ELSE IF Truthy(s) /\ Truthy(o) THEN {<<x, x>> : x \in {s} \cap {o}}
  ELSE IF Truthy(s) THEN {<<s, s>>}
  ELSE IF Truthy(o) THEN {<<o, o>>} ELSE {}

AllFwdPaths(g, mul) ==
  LET once == EvalPath(g, None, mul.path, None)
  IN  (IF mul.zero THEN {<<x, x>> : x \in AllNodes(g)} ELSE {}) \cup
      (IF mul.more THEN UNION {Fwd(g, mul, x[1], None, {}).found : x \in once} ELSE once)

EvalMul(g, mul, s, o) ==
  ZeroSteps(g, mul, s, o) \cup
  (IF s # None THEN Fwd(g, mul, s, o, {}).found
   ELSE IF o # None THEN Bwd(g, mul, s, o, {}).found ELSE AllFwdPaths(g, mul))

EvalNegated(g, neg, s, o) ==
  {<<t[1], t[3]>> : t \in {u \in Triples(g, s, None, o) :
                             /\ u[2] \notin neg.names
                             /\ \A b \in neg.back : <<u[3], b, u[1]>> \notin g}}

EvalPath(g, s, path, o) ==
  CASE path.kind = "iri" -> {<<t[1], t[3]>> : t \in Triples(g, s, path.name, o)}
    [] path.kind = "inv" -> {<<x[2], x[1]>> : x \in EvalPath(g, o, path.path, s)}
    [] path.kind = "seq" -> IF ~Truthy(s) /\ Truthy(o) THEN EvalSeqBw(g, path.paths, s, o)
                            ELSE EvalSeq(g, path.paths, s, o)
    [] path.kind = "alt" -> UNION {EvalPath(g, s, p, o) : p \in ToSet(path.paths)}
    [] path.kind = "mul" -> EvalMul(g, path, s, o)
    [] path.kind = "neg" -> EvalNegated(g, path, s, o)
-----------------------------------------------------------------------------
(***************************************************************************)
(* What a path means, by the definition of SPARQL: a relation on the nodes *)
(* of the graph and the terms that may stand at its ends.                  *)
(***************************************************************************)
Compose(R, S) == {<<e[1][1], e[2][2]>> : e \in {f \in R \X S : f[1][2] = f[2][1]}}
Closure(R, N) == LET C[i \in Nat] == IF i = 0 THEN R ELSE C[i - 1] \cup Compose(C[i - 1], R)
                 IN  C[Cardinality(N)]

RECURSIVE Relates(_, _, _)
Relates(g, path, ends) ==
  LET nodes == AllNodes(g) \cup ends
  IN  CASE path.kind = "iri" -> {<<t[1], t[3]>> : t \in Triples(g, None, path.name, None)}
        [] path.kind = "inv" -> {<<x[2], x[1]>> : x \in Relates(g, path.path, ends)}
        [] path.kind = "seq" ->
             FoldLeft(LAMBDA R, p : Compose(R, Relates(g, p, ends)),
                      {<<x, x>> : x \in nodes}, path.paths)
        [] path.kind = "alt" -> UNION {Relates(g, p, ends) : p \in ToSet(path.paths)}
        [] path.kind = "mul" ->
             LET once == Relates(g, path.path, ends)
             IN  (IF path.zero THEN {<<x, x>> : x \in nodes} ELSE {}) \cup
                 (IF path.more THEN Closure(once, nodes) ELSE once)
        [] path.kind = "neg" -> {<<t[1], t[3]>> : t \in {u \in g : u[2] \notin path.names}}

\* The pairs of a path between two ends.  A term that is neither in the graph
\* nor an end is related to nothing.
Between(rel, g, s, o) ==
  {x \in rel : /\ Matches(s, x[1]) /\ Matches(o, x[2])
               /\ x[1] \in AllNodes(g) \cup {s, o}}
=============================================================================
