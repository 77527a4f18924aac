---------------------------- MODULE MCGraphTools ----------------------------
(* The jobs: for paths and walks three nodes, two predicates and a         *)
(* statement about one of them; for the serializers lists, shared nodes,   *)
(* cycles and a class; for datasets a default graph, a graph with a name   *)
(* and one that a blank node names, which share nodes and lists; for the   *)
(* canonical form any few triples of four blank nodes, and every way, up   *)
(* to names, to give five of them an object each.                          *)
EXTENDS GraphTools

p == Iri("p")
q == Iri("q")
PathsUsed == {
  p, InvPath(p), SequencePath(<<p, InvPath(q)>>), AlternativePath(<<p, InvPath(q)>>),
  MulPath(p, "?"), MulPath(p, "*"), MulPath(p, "+"), NegatedPath({"p"}, {}),
  MulPath(SequencePath(<<p, q>>), "*"), MulPath(AlternativePath(<<p, q>>), "+"),
  SequencePath(<<MulPath(p, "*"), q>>), SequencePath(<<MulPath(p, "?"), MulPath(q, "*")>>),
  InvPath(MulPath(SequencePath(<<p, InvPath(q)>>), "+")), MulPath(MulPath(p, "?"), "+")}

Nodes == {"b1", "b2", "u"}
Walked ==
  [tools |-> {"add", "paths"}, most |-> 3,
   edits |-> (Nodes \X {"p", "q"} \X Nodes) \cup {<<"u", "subject", "b1">>}]

Written1 ==
  [tools |-> {"add", "turtle"}, most |-> 6,
   edits |-> {
     <<"u", "p", "b1">>, <<"u", "p", "b3">>, <<"b3", "p", "b1">>, <<"b3", "p", "b2">>,
     <<"b3", "p", "b3">>, <<"b1", "p", "b3">>, <<"b1", "type", "Class">>,
     <<"b1", "first", "b3">>, <<"b1", "first", "u">>, <<"b2", "first", "b1">>,
     <<"b2", "first", "u">>, <<"b1", "rest", "b2">>, <<"b1", "rest", "nil">>,
     <<"b2", "rest", "nil">>, <<"b2", "rest", "b1">>}]

Nested1 ==
  [tools |-> {"add", "xml"}, most |-> 5,
   edits |-> {
     <<"u", "p", "b1">>, <<"u", "p", "b3">>, <<"b1", "p", "b2">>, <<"b2", "p", "b3">>,
     <<"b2", "p", "u">>, <<"b3", "p", "b1">>, <<"b3", "p", "b3">>, <<"b1", "p", "l">>,
     <<"u", "type", "Class">>, <<"b1", "q", "b3">>,
     <<"b1", "first", "u">>, <<"b1", "first", "b3">>, <<"b1", "rest", "b2">>,
     <<"b1", "rest", "nil">>, <<"b2", "first", "u">>, <<"b2", "rest", "nil">>,
     <<"b1", "first", "l">>, <<"b2", "first", "l">>}]

Quads1 ==
  [tools |-> {"add", "quads"}, most |-> 5,
   edits |-> {
     <<"u", "p", "b1", "default">>, <<"b2", "p", "b2", "default">>, <<"b3", "p", "u", "default">>,
     <<"u", "p", "b1", "g">>, <<"b1", "p", "b2", "g">>, <<"u", "p", "b3", "g">>,
     <<"b1", "p", "l", "g">>, <<"b1", "p", "string", "g">>, <<"b1", "first", "u", "g">>,
     <<"b1", "rest", "nil", "g">>, <<"b1", "rest", "b2", "g">>, <<"b2", "first", "l", "g">>, <<"b2", "rest", "nil", "g">>,
     <<"u", "p", "b2", "b3">>, <<"g", "p", "b1", "b3">>}]

Four == {"b1", "b2", "b3", "b4"}
Compared ==
  {[tools |-> {"add", "canonical"}, most |-> 4, edits |-> Four \X {"p"} \X Four],
   [tools |-> {"set", "canonical"}, most |-> 5,
    edits |-> {<<"b1", "p", "b1">>, <<"b1", "p", "b2">>}
                \cup ((BNode \ {"b1"}) \X {"p"} \X BNode)]}

Listed == [tools |-> {"list"}, most |-> 0, edits |-> {}]
Numbered1 == [tools |-> {"container"}, most |-> 0, edits |-> {}]
Buffered ==
  {[tools |-> {"batch"} \cup addn, most |-> 0,
    edits |-> {<<"u", "p", "b1">>, <<"u", "p", "b2">>, <<"u", "q", "b1">>}] :
   addn \in {{}, {"batch_addn"}}}

Sorted1 == [tools |-> {"terms"}, most |-> 0, edits |-> {}]

Counted == [tools |-> {"values"}, most |-> 0, edits |-> {}]

AllJobs == {Counted, Walked, Written1, Nested1, Quads1, Sorted1, Listed, Numbered1} \cup Compared \cup Buffered

Terms == <<"type", "u", "b3", "b2", "b1", "b4", "first", "rest", "p", "q", "nil", "Class",
           "g", "l", "string", "text">>
RankOf == [x \in ToSet(Terms) |-> CHOOSE i \in DOMAIN Terms : Terms[i] = x]
OrdersOf ==
  {f \o <<"nil", "Class", "type", "first", "rest", "p", "q", "l", "text">> :
   f \in SetToSeqs({"b1", "b2", "b3", "u"})}
StringOf == [x \in {"l", "string"} |-> "string"]
UriOf == [x \in {"l", "string"} |-> "text"]
NewNodes == <<"n1", "n2", "n3", "n4", "n5", "n6", "n7", "n8", "n9", "n10", "n11", "n12">>
MemberNames == <<"_1", "_2", "_3">>

Names == <<"EN", "en", "fr", "boolean", "decimal", "double", "duration", "integer", "string", "t">>
NameOrderUsed == [x \in ToSet(Names) |-> CHOOSE i \in DOMAIN Names : Names[i] = x]
LowerUsed == [x \in ToSet(Names) \cup {Unset} |-> IF x = "EN" THEN "en" ELSE x]

A(kind, text) ==
  [kind |-> kind, text |-> text, datatype |-> Unset, language |-> Unset, value |-> NoValue,
   ill |-> FALSE]
Lexical(text, datatype) == [A("Literal", text) EXCEPT !.datatype = datatype]
Typed(text, datatype, family, n) ==
  [Lexical(text, datatype) EXCEPT !.value = [family |-> family, n |-> n]]
InLanguage(text, language) == [Typed(text, Unset, "str", text) EXCEPT !.language = language]

\* Texts: 01 1 2 3 are 0 1 2 3; 1.0 1.5 are 4 5; words come after them.
TermsUsed ==
  {A(kind, text) : kind \in {"BNode", "URIRef"}, text \in {10, 11}} \cup {A("Variable", 10)}
    \cup {Typed(x[1], x[2], "number", x[3]) :
            x \in {<<0, "integer", 10>>, <<1, "integer", 10>>, <<2, "integer", 20>>,
                   <<4, "decimal", 10>>, <<5, "decimal", 15>>, <<1, "double", 10>>, <<3, "double", 30>>}}
    \cup {Typed(6, "double", "nan", 0), [Lexical(11, "integer") EXCEPT !.ill = TRUE]}
    \cup {Typed(n, "boolean", "boolean", n % 2) : n \in {1, 10}}
    \cup {Typed(7, "duration", "timedelta", 1), Typed(8, "duration", "timedelta", 2),
          Typed(9, "duration", "duration", 1)}
    \cup {Lexical(text, "t") : text \in {1, 10}}
    \cup {Typed(text, datatype, "str", text) : text \in {1, 10}, datatype \in {Unset, "string"}}
    \cup {InLanguage(10, language) : language \in {"en", "EN", "fr"}} \cup {InLanguage(11, "en")}

Letter(n) == <<"letter", n>>
TokensUsed ==
  {<<<<style, n>>>> : style \in {"digits", "padded", "exponent"}, n \in {0, 2, 254}}
    \cup {<<<<"digits", n>>>> : n \in {-2, 256}}
    \cup {<<<<"point", n>>>> : n \in {-3, 2, 3}} \cup {<<<<"exponent", 3>>>>}
    \cup {<<<<"word", n>>>> : n \in {0, 1, 2, 5}} \cup {<<>>, <<Letter(1), <<"digits", 2>>>>}
TypesUsed ==
  {Unset, "integer", "byte", "positiveInteger", "decimal", "float", "double", "boolean",
   "string", "t"}
StringsUsed ==
  {<<text, kind[1], kind[2]>> :
     text \in {<<>>, <<Letter(1)>>, <<Letter(1), Letter(2)>>, <<Letter(2), Letter(1), Letter(2)>>,
              <<Letter(1), Letter(1), Letter(2)>>},
     kind \in {<<Unset, Unset>>, <<"string", Unset>>, <<Unset, "en">>, <<Unset, "fr">>}}
MomentsUsed ==
  {[year |-> day[1], month |-> day[2], day |-> day[3], time |-> time] :
     day \in {<<1900, 1, 31>>, <<1999, 12, 31>>, <<2000, 2, 29>>, <<2023, 3, 30>>, <<2024, 11, 15>>},
     time \in {0, 1}}
DurationsUsed ==
  [sign : {1, -1}, years : {0, 1, 4}, months : {0, 1, 13}, delta : 0..3]
=============================================================================
