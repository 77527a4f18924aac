-------------------------- MODULE MCAuditableStore --------------------------
(* Two transactions over one triple in two graphs, so that a removal that  *)
(* names no graph is logged in both, and both write both quads.            *)
EXTENDS AuditableStore, FiniteSets

CONSTANTS s1, p, o1, w1, w2, MaxLog, MaxMet

OneTriple == {<<s1, p, o1>>}
Patterns == {<<s1, p, o1>>, <<s1, Any, Any>>}

(* The other transaction may change what this one is about to log again,   *)
(* without end; no log is followed beyond MaxLog operations on one quad,   *)
(* and transactions change MaxMet quads under one another.                 *)
Followed ==
  /\ \A w \in Wrappers, q \in Quad : Len(reverseOps[w][q]) <= MaxLog
  /\ Cardinality(UNION {theirs[w] : w \in Wrappers}) <= MaxMet
=============================================================================
