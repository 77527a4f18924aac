------------------------- MODULE MCSparqlUpdateStore -------------------------
(* One triple, one named graph beside the default graph, and an update that*)
(* copies the triple from the former to the latter.                        *)
EXTENDS SparqlUpdateStore

CONSTANTS s, p, o1, g

OneTriple == {<<s, p, o1>>}
TwoPatterns == {<<s, p, o1>>, <<Any, Any, Any>>}

CopyOne ==
  {[kind |-> "insert", where |-> {<<<<s, p, o1>>, g>>}, quads |-> {<<<<s, p, o1>>, Default>>}]}
=============================================================================
