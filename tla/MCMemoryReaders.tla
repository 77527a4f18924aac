-------------------------- MODULE MCMemoryReaders --------------------------
(***************************************************************************)
(* The store under every operation, and one generator suspended among      *)
(* them.  Two triples that differ in their object: a walk by predicate has *)
(* two outer keys, one by subject has one with two inner keys, and the     *)
(* contexts of the one triple need not be the default of the other.  The   *)
(* store treats a graph and a formula alike but for the quoted flag, so a  *)
(* formula that addN lets assert is the second asserting context.          *)
(***************************************************************************)
EXTENDS MemoryReaders

CONSTANTS s1, p, o1, o2

TwoTriples == {<<s1, p, o1>>, <<s1, p, o2>>}

(* The dump, by subject, by predicate, exact. *)
ReadPatterns == {All, <<s1, Any, Any>>, <<Any, p, Any>>, <<s1, p, o1>>}

(* A reader that has ended has been judged: what the store does afterwards *)
(* is seen in the states where no reader has ended.                        *)
NoneDone == \A r \in Readers : cursor[r].state # "done"
=============================================================================
