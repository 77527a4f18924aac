----------------------------- MODULE TermOrder ------------------------------
(***************************************************************************)
(* Comparison of terms: Identifier and Literal (rdflib/term.py).  A term   *)
(* is a record: its kind and its text, and for a literal its datatype and  *)
(* its language, what the datatype makes of the text (value, of a family   *)
(* of Python values that can be compared with each other), and whether the *)
(* text is ill-typed.  Texts and values are numbers in their order.        *)
(***************************************************************************)
EXTENDS Naturals, FiniteSets

CONSTANTS
  Numeric,    \* _NUMERIC_LITERAL_TYPES
  NameOrder,  \* the order of the names of datatypes and languages: a number for each
  Lower,      \* lower(): what it makes of each language
  Term        \* terms to be compared

Unset == "none"
NoValue == [family |-> "none", n |-> 0]

KnownName == DOMAIN NameOrder
NameAssumption ==
  /\ NameOrder \in [KnownName -> Nat]
  /\ \A x, y \in KnownName : NameOrder[x] = NameOrder[y] => x = y
  /\ Lower \in [KnownName \cup {Unset} -> KnownName \cup {Unset}]
  /\ "string" \in KnownName \ Numeric /\ Unset \notin KnownName

IsTerm(a) ==
  /\ a.text \in Nat /\ a.value.n \in Nat
  /\ a.datatype \in KnownName \cup {Unset} /\ a.language \in KnownName \cup {Unset}
  /\ a.value = [family |-> a.value.family, n |-> a.value.n]
  /\ a.value.family = "none" => a.value = NoValue

(* The kinds of terms; what a datatype makes of a text is one value, a     *)
(* number (or NaN) if the datatype is one of numbers, and the text itself  *)
(* if it is a string.                                                      *)
TermAssumption ==
  /\ \A a \in Term : a.kind \in {"BNode", "Variable", "URIRef", "Literal"} /\ IsTerm(a)
  /\ \A a, b \in {x \in Term : x.kind = "Literal"} :
       /\ a.datatype \in Numeric => a.value.family \in {"none", "number", "nan"}
       /\ a.datatype \in {Unset, "string"} /\ a.value # NoValue => a.value.n = a.text
       /\ a.text = b.text /\ a.datatype = b.datatype => a.value = b.value /\ a.ill = b.ill

ASSUME TermsAsRead == NameAssumption /\ TermAssumption

\* _ORDERING
KindOrder == [BNode |-> 10, Variable |-> 20, URIRef |-> 30, Literal |-> 40]

IsLiteral(a) == a.kind = "Literal"
HasValue(a) == a.value # NoValue

BothNumbers(a, b) ==
  {a.datatype, b.datatype} \subseteq Numeric /\ \A x \in {a, b} : ~x.ill /\ HasValue(x)

\* _coalesce: a literal without a datatype is a string
TypeOf(a) == IF a.datatype = Unset THEN "string" ELSE a.datatype

\* Python's > and == on values that can be compared: a number is neither above NaN nor below
Ordered(v, w) == "nan" \notin {v.family, w.family}
Above(v, w) == Ordered(v, w) /\ v.n > w.n
Equal(v, w) == Ordered(v, w) /\ v = w

\* Python raises TypeError for values of different families
Comparable(a, b) == HasValue(a) /\ HasValue(b) /\ a.value.family = b.value.family

\* Any language above any other
LanguageAboveAny(a, b) == a.language # Unset

LanguageAbove(a, b) ==
  a.language # Unset /\ (b.language = Unset \/ NameOrder[a.language] > NameOrder[b.language])

\* Literal.__gt__
LiteralGt(a, b) ==
  IF BothNumbers(a, b) THEN Above(a.value, b.value)
  ELSE IF TypeOf(a) # TypeOf(b) THEN NameOrder[TypeOf(a)] > NameOrder[TypeOf(b)]
  ELSE IF a.language # b.language THEN LanguageAbove(a, b)
  ELSE IF Comparable(a, b) THEN Above(a.value, b.value)
  ELSE IF a.text # b.text THEN a.text > b.text
  ELSE a.datatype # Unset /\ b.datatype = Unset

\* Literal.eq: that it raises TypeError is an answer of its own
LiteralEq(a, b) ==
  IF BothNumbers(a, b) THEN Equal(a.value, b.value)
  ELSE /\ Lower[a.language] = Lower[b.language]
       /\ TypeOf(a) = TypeOf(b)
       /\ IF TypeOf(a) # "string" /\ HasValue(a) /\ HasValue(b)
          THEN Equal(a.value, b.value) ELSE a.text = b.text

EqRaises(a, b) ==
  /\ ~BothNumbers(a, b)
  /\ Lower[a.language] = Lower[b.language] /\ TypeOf(a) = TypeOf(b) /\ TypeOf(a) # "string"
  /\ ~(HasValue(a) /\ HasValue(b)) /\ a.text # b.text

\* __gt__, of any two terms
Gt(a, b) ==
  IF IsLiteral(a) /\ IsLiteral(b) THEN LiteralGt(a, b)
  ELSE IF a.kind = b.kind THEN a.text > b.text
  ELSE KindOrder[a.kind] > KindOrder[b.kind]

\* Literal.__lt__; if eq raises, Python asks the other term
LiteralLt(a, b) ==
  IF ~Gt(a, b) /\ EqRaises(a, b) THEN Gt(b, a) ELSE ~Gt(a, b) /\ ~LiteralEq(a, b)

\* __lt__, with which Python sorts
Lt(a, b) ==
  IF IsLiteral(a) /\ IsLiteral(b) THEN LiteralLt(a, b)
  ELSE IF a.kind = b.kind THEN a.text < b.text
  ELSE KindOrder[a.kind] < KindOrder[b.kind]

\* __eq__, and what __hash__ combines
Same(a, b) ==
  /\ a.kind = b.kind /\ a.text = b.text
  /\ IsLiteral(a) => a.datatype = b.datatype /\ Lower[a.language] = Lower[b.language]
\* A hash of the language as it is spelled
HashAsSpelled(a) == <<a.text, IF IsLiteral(a) THEN <<a.language, a.datatype>> ELSE <<>>>>
HashOf(a) ==
  <<a.text, IF IsLiteral(a) THEN <<Lower[a.language], a.datatype>> ELSE <<>>>>
-----------------------------------------------------------------------------
(***************************************************************************)
(* Terms that the order can sort: no NaN; literals of one datatype whose   *)
(* values can be compared, or that have none; no two spellings of one      *)
(* language; and no datatype whose name stands between those of two        *)
(* numbers, since numbers are compared by value and all else by name.      *)
(***************************************************************************)
Number(a) == BothNumbers(a, a)

NamedBetween(a, d, b) ==
  NameOrder[TypeOf(a)] <= NameOrder[TypeOf(d)] /\ NameOrder[TypeOf(d)] <= NameOrder[TypeOf(b)]

Sortable(S) ==
  LET literals == {a \in S : IsLiteral(a)}
  IN  /\ \A a \in literals : a.value.family # "nan"
      /\ \A a, b \in literals :
           /\ TypeOf(a) = TypeOf(b) => a.value.family = b.value.family
           /\ Lower[a.language] = Lower[b.language] => a.language = b.language
           /\ Number(a) /\ Number(b) =>
                \A d \in literals : NamedBetween(a, d, b) => Number(d)
-----------------------------------------------------------------------------
(* Properties. *)

(* The order in which the library sorts terms is one: no two terms are     *)
(* each less than the other, what is less stays so along a chain, terms of *)
(* which neither is less are equal by value.  It is one for terms of which *)
(* the rules that decide the comparison, value, name of the datatype and   *)
(* text, are not mixed.  Those that are the same term have one hash.       *)
Tied(a, b) == ~Lt(a, b) /\ ~Lt(b, a)
EqualByValue(a, b) == IF IsLiteral(a) /\ IsLiteral(b) THEN LiteralEq(a, b) ELSE Same(a, b)
OrderedPair(a, b) ==
  /\ ~(Lt(a, b) /\ Lt(b, a))
  /\ Tied(a, b) => EqualByValue(a, b)
  /\ Gt(a, b) => Lt(b, a) \/ EqualByValue(a, b)
  /\ Same(a, b) => Tied(a, b)
TermsInOrder ==
  /\ \A a, b \in Term : Same(a, b) => HashOf(a) = HashOf(b)
  /\ \A a, b \in Term : Sortable({a, b}) => OrderedPair(a, b)
  /\ \A a, b, c \in Term :
       Sortable({a, b, c}) /\ Lt(a, b) /\ ~Lt(c, b) => Lt(a, c)
=============================================================================
