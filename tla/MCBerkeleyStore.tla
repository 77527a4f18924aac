-------------------------- MODULE MCBerkeleyStore --------------------------
(* Two triples with one predicate, and patterns for each of the tables.    *)
EXTENDS BerkeleyStore

LOCAL T == INSTANCE TLC

CONSTANTS s1, s2, p, o1, o2

TwoTriples == {<<s1, p, o1>>, <<s2, p, o2>>}
SomePatterns == TwoTriples \cup {All, <<Any, p, Any>>, <<Any, Any, o1>>, <<s1, Any, o1>>}

(* The terms in the order in which they were first seen. *)
Interned == <<s1, p, o1, s2, o2>>
InOrder == [x \in {s1, s2, p, o1, o2} |-> CHOOSE n \in 1..5 : Interned[n] = x]

(* The two graphs are interchangeable. *)
GraphSymmetry == T!Permutations(Graphs)
=============================================================================
