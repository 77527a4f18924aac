----------------------------- MODULE Canonical -----------------------------
(***************************************************************************)
(* The canonical form of a graph with blank nodes (_TripleCanonicalizer,   *)
(* rdflib/compare.py), by which two graphs are found to be isomorphic.     *)
(* Blank nodes are coloured by the triples they stand in; while a colour   *)
(* has several nodes, one of them is singled out and the colouring is      *)
(* refined again; what cannot be told apart is tried node by node, and     *)
(* branches that an earlier one seems to stand for are left out.           *)
(*                                                                         *)
(* A colour is a record of its nodes, in a sequence, and its hash.  The    *)
(* hash of a colour is the sum of the SHA-256 of its items; here a sum of  *)
(* pairs of numbers, small enough for TLC and mixed so that the items      *)
(* that occur have different ones.  The order of hashes, by which the code *)
(* sorts, is arbitrary in both.                                            *)
(***************************************************************************)
EXTENDS RdfPaths, TLC

CONSTANT Digest      \* a number for each term that is not a blank node

Modulus == <<46337, 46327>>
Scramble(x, m) == (((x * x) % m) * x + 7919) % m
\* the hash of an item of a colour: a tag, a predicate and another hash
HashItem(tag, p, h) ==
  [i \in 1..2 |-> Scramble((41 * h[i] + 1009 * p + 40009 * tag + i) % Modulus[i], Modulus[i])]
Plus(a, b) == [i \in 1..2 |-> (a[i] + b[i]) % Modulus[i]]
NoHash == <<0, 0>>
HashOfTerm(x) == HashItem(7, Digest[x], NoHash)
-----------------------------------------------------------------------------
\* Color.key, and the order of the keys
Key(c) == <<Len(c.nodes), c.hash[1], c.hash[2]>>

\* An order by the number of nodes alone
KeyBelowByNumber(a, b) == a[1] < b[1]
KeyBelow(a, b) ==
  \E i \in 1..3 : a[i] < b[i] /\ \A j \in 1..(i - 1) : a[j] = b[j]

\* The order of tuples of keys
ScoreBelow(a, b) ==
  \/ Len(a) < Len(b) /\ SubSeq(b, 1, Len(a)) = a
  \/ \E i \in 1..Min({Len(a), Len(b)}) :
        KeyBelow(a[i], b[i]) /\ \A j \in 1..(i - 1) : a[j] = b[j]

Descending(colors) == SortSeq(colors, LAMBDA c, d : KeyBelow(Key(d), Key(c)))

IsDiscrete(c) == Len(c.nodes) = 1
Discrete(coloring) == \A c \in ToSet(coloring) : IsDiscrete(c)

\* The sum of what a triple adds, over a set of triples
SumOver(Op(_), triples) == FoldSet(LAMBDA t, h : Plus(Op(t), h), NoHash, triples)

\* What a node has with the nodes of colour W: triples to them, and from them
With(g, n, W) ==
  Plus(SumOver(LAMBDA t : HashItem(1, Digest[t[2]], W.hash),
               {t \in g : t[1] = n /\ Contains(W.nodes, t[3])}),
       SumOver(LAMBDA t : HashItem(3, Digest[t[2]], W.hash),
               {t \in g : Contains(W.nodes, t[1]) /\ t[3] = n}))

\* The colours a sequence of colours makes with those of one hash put together
Together(colors) ==
  FoldLeft(LAMBDA acc, c :
             IF \E i \in DOMAIN acc : acc[i].hash = c.hash
             THEN [i \in DOMAIN acc |->
                     IF acc[i].hash = c.hash
                     THEN [acc[i] EXCEPT !.nodes = @ \o c.nodes] ELSE acc[i]]
             ELSE Append(acc, c),
           <<>>, colors)

\* Color.distinguish
Distinguish(g, c, W) ==
  Together([i \in 1..Len(c.nodes) |->
              [nodes |-> <<c.nodes[i]>>, hash |-> Plus(c.hash, With(g, c.nodes[i], W))]])

IsRefinable(c) == Len(c.nodes) > 1 \/ c.nodes[1] \in BNode

Drop(s, e) == SelectSeq(s, LAMBDA x : x # e)

\* A colour gives way to the colours it splits into, in the coloring acc[1] and
\* in acc[2], the colours yet to refine by.
Replaced(acc, c, colors) ==
  <<Drop(acc[1], c) \o colors,
    IF Contains(acc[2], c)
    THEN FlattenSeq([i \in DOMAIN acc[2] |-> IF acc[2][i] = c THEN colors ELSE <<acc[2][i]>>])
    ELSE Tail(colors) \o acc[2]>>

SplitBy(g, W, coloring, sequence) ==
  FoldLeft(LAMBDA acc, c :
             IF IsRefinable(c) THEN Replaced(acc, c, Descending(Distinguish(g, c, W))) ELSE acc,
           <<coloring, sequence>>, coloring)

RECURSIVE RefineBy(_, _), ExperimentalPath(_, _), Traces(_, _)

\* What is left to do is a coloring and a sequence; the smallest colour comes first.
RefineBy(g, todo) ==
  IF todo[2] = <<>> \/ Discrete(todo[1]) THEN todo[1]
  ELSE RefineBy(g, SplitBy(g, Last(todo[2]), todo[1], Front(todo[2])))

Refine(g, coloring, sequence) == Together(RefineBy(g, <<coloring, Descending(sequence)>>))
RefineByLast(g, coloring) == Refine(g, coloring, <<Last(coloring)>>)

(* One colour for the blank nodes, and one each for the terms next to one: *)
(* what else is in a triple with a blank node, predicates included.        *)
ColorsOf(terms) ==
  IF terms \cap BNode = {} THEN <<>>
  ELSE <<[nodes |-> SetToSeq(terms \cap BNode), hash |-> NoHash]>> \o
       SetToSeq({[nodes |-> <<x>>, hash |-> HashOfTerm(x)] : x \in terms \ BNode})
InitialColor(g) ==
  ColorsOf(UNION {{t[1], t[2], t[3]} : t \in {u \in g : BNode \cap {u[1], u[3]} # {}}})

(* _individuate, and the coloring that has its colour for the node last.   *)
Individual(c, n) == [nodes |-> <<n>>, hash |-> Plus(c.hash, HashItem(5, Len(c.nodes), NoHash))]
Individuated(coloring, c, n) ==
  Append([i \in DOMAIN coloring |->
            IF coloring[i] = c THEN [c EXCEPT !.nodes = Drop(c.nodes, n)] ELSE coloring[i]],
         Individual(c, n))

FirstToSplit(coloring) == SelectSeq(coloring, LAMBDA c : ~IsDiscrete(c))[1]
WithFirst(coloring, c) == Individuated(coloring, c, c.nodes[1])

\* Any node of a colour will do: the path only serves to compare.
ExperimentalPath(g, coloring) ==
  IF Discrete(coloring) THEN coloring
  ELSE ExperimentalPath(g, RefineByLast(g, WithFirst(coloring, FirstToSplit(coloring))))

PairOff(gen, pair) == [n \in pair |-> pair] @@ gen
(* _create_generator: nodes at the same place of two colorings count as    *)
(* one another's image.  A later pair of a node replaces an earlier one.   *)
Generator(last, experimental, gen) ==
  FoldLeft(PairOff, gen, [i \in 1..Min({Len(last), Len(experimental)}) |->
                            {last[i].nodes[1], experimental[i].nodes[1]}])

Candidates(coloring) ==
  FlattenSeq([i \in DOMAIN coloring |->
                IF IsDiscrete(coloring[i]) THEN <<>>
                ELSE [j \in DOMAIN coloring[i].nodes |-> <<coloring[i].nodes[j], coloring[i]>>]])

StandsFor(acc, n) == n \in DOMAIN acc.generator /\ acc.generator[n] \cap acc.visited # {}

Keys(coloring) == [i \in DOMAIN coloring |-> Key(coloring[i])]

NothingTried == [best |-> <<>>, score |-> <<>>, experimental |-> {}, last |-> <<>>,
                 generator |-> <<>>, visited |-> {}]

\* What is known after a candidate's coloring, of that score, and its path
Better(acc, score) == acc.best = <<>> \/ ScoreBelow(acc.score, score)
Judged(acc, refined, score, reached) ==
  IF Better(acc, score) THEN [acc EXCEPT !.best = <<refined>>, !.score = score,
                                         !.experimental = reached]
  ELSE IF score = acc.score /\ reached # acc.experimental
  THEN [acc EXCEPT !.best = Append(@, refined)] ELSE acc

Followed(acc, n, experimental) ==
  [acc EXCEPT !.last = experimental,
              !.generator = IF acc.last = <<>> THEN @ ELSE Generator(acc.last, experimental, @),
              !.visited = @ \cup {n}]

Tried(acc, n, refined, experimental) ==
  Followed(Judged(acc, refined, Keys(refined), ToSet(Keys(experimental))), n, experimental)

Try(g, acc, n, coloring) ==
  Tried(acc, n, RefineByLast(g, coloring), ExperimentalPath(g, coloring))

TryAll(g, coloring) ==
  FoldLeft(LAMBDA acc, nc :
             IF StandsFor(acc, nc[1]) THEN [acc EXCEPT !.visited = @ \cup {nc[1]}]
             ELSE Try(g, acc, nc[1], Individuated(coloring, nc[2], nc[1])),
           NothingTried, Candidates(coloring))

(* _traces.  Every best coloring is traced, and all of the traces get the  *)
(* score of the last candidate: the first one stays.                       *)
FirstDiscrete(best) == SelectSeq(best, Discrete)
DiscreteFrom(g, best) ==
  IF FirstDiscrete(best) = <<>> THEN Traces(g, best[1]) ELSE FirstDiscrete(best)[1]
Traces(g, coloring) == DiscreteFrom(g, TryAll(g, coloring).best)

Traced(g, coloring) == IF Discrete(coloring) THEN coloring ELSE Traces(g, coloring)
RefineAll(g, coloring) == Refine(g, coloring, coloring)
Coloring(g) == Traced(g, RefineAll(g, InitialColor(g)))

\* The label of each blank node: the hash of its colour
HashIn(coloring, n) == (CHOOSE c \in ToSet(coloring) : c.nodes[1] = n).hash
LabelsIn(coloring, nodes) == [n \in nodes |-> HashIn(coloring, n)]
Labels(g) == LabelsIn(Coloring(g), BNode \cap AllNodes(g))

Relabelled(g, labels) ==
  LET label(x) == IF x \in DOMAIN labels THEN labels[x] ELSE <<x>>
  IN  {<<label(t[1]), t[2], label(t[3])>> : t \in g}
CanonicalTriples(g) == Relabelled(g, Labels(g))
=============================================================================
