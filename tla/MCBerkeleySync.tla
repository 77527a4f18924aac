--------------------------- MODULE MCBerkeleySync ---------------------------
(* One triple in one or two graphs is change enough for two threads that   *)
(* communicate by a flag.                                                  *)
EXTENDS BerkeleySync

CONSTANTS s1, p, o1

OneTriple == {<<s1, p, o1>>}
TwoPatterns == OneTriple \cup {All}
InOrder == [x \in {s1, p, o1} |-> IF x = s1 THEN 1 ELSE IF x = p THEN 2 ELSE 3]
=============================================================================
