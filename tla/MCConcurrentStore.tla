------------------------- MODULE MCConcurrentStore -------------------------
(* One triple more than readers need to disagree about one. *)
EXTENDS ConcurrentStore

LOCAL T == INSTANCE TLC

CONSTANTS s, p, o1, o2, All

Triples == {<<s, p, o1>>, <<s, p, o2>>}
Patterns == {<<All, All, All>>, <<All, All, o1>>}

ReaderSymmetry == T!Permutations(Readers)
=============================================================================
