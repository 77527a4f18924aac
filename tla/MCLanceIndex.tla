---------------------------- MODULE MCLanceIndex ----------------------------
(* Two triples share a subject, so that graphs of one triple each may have *)
(* one fingerprint; and a graph may be larger than the sample.             *)
EXTENDS LanceIndex

SharedSubject == {<<1, "p", "a">>, <<1, "p", "b">>, <<2, "q", "a">>}
=============================================================================
