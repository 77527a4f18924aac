--------------------------- MODULE MCVectorSearch ---------------------------
(* Terms are small records; "uri" and "text" terms with the same name have *)
(* the same key and different texts.                                       *)
EXTENDS VectorSearch, TLC

S == [name |-> "s", kind |-> "uri"]
P == [name |-> "p", kind |-> "uri"]
Lit(n) == [name |-> n, kind |-> "text"]
Uri(n) == [name |-> n, kind |-> "uri"]
Terms == {S, P} \cup {Lit(n) : n \in {"near", "far"}} \cup {Uri(n) : n \in {"near", "far"}}

(* str(term) drops the kind; _term_text shortens a URI to its local name,  *)
(* so the two terms called near have different texts.                      *)
KeyOfTerm == [t \in Terms |-> t.name]
TextOfTerm == [t \in Terms |-> <<t.kind, t.name>>]

CollidingTriples == {<<S, P, Lit("near")>>, <<Uri("far"), P, Uri("near")>>}

(* The literal near is closest to the query, then the URI, then the rest. *)
Closeness ==
  [q \in Query |->
    [x \in {TextOfTerm[t] : t \in Terms} |->
       CASE x = <<"text", "near">> -> 3 [] x = <<"uri", "near">> -> 2 [] OTHER -> 1]]

(* The graphs are interchangeable. *)
GraphSymmetry == Permutations(SpicyGraphs)
=============================================================================
