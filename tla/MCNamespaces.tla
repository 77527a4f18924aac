---------------------------- MODULE MCNamespaces ----------------------------
(* Two namespaces of which one starts with the other, and URIs that end    *)
(* with a delimiter, whose name starts with a digit, and that have to be   *)
(* looked up by the shorter namespace and found by the longer.             *)
EXTENDS Namespaces

Site == <<"a", "/">>
Section == <<"a", "/", "1">>

Other == <<"a", "/", "b">>

Bindable == {Section, Other}
Uris == {Site, <<"a", "/", "1", "b">>}
Prefixes == {<<>>, <<"_">>, <<"ns", "1">>}
=============================================================================
