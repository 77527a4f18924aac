------------------------------- MODULE Values -------------------------------
(***************************************************************************)
(* Literals with the Python values of their texts (rdflib/term.py), and    *)
(* the functions of SPARQL on numbers and strings (operators.py).          *)
(*                                                                         *)
(* A text is a sequence of tokens, a style and a number each: a number as  *)
(* it is usually written, with a zero before it, with a point or with an   *)
(* exponent, a letter, or one of the words below.  Numbers are counted in  *)
(* halves.  A Python value has a type and a number; for a Decimal, scale   *)
(* says whether it has digits after its point; and a str has a text.  Zero *)
(* has no sign.                                                            *)
(***************************************************************************)
EXTENDS Integers, SequencesExt

NotSet == "none"
Fails == [fails |-> TRUE]
NoPython == [type |-> "none"]

False0 == <<"word", 0>>
True1 == <<"word", 1>>
TRUE2 == <<"word", 2>>            \* true in capitals

Py(type, n, scale) == [type |-> type, n |-> n, scale |-> scale]
Str(text) == [type |-> "str", text |-> text]

\* Limits of the types that have some; those of 32 bits and more are left out
Limited == {"byte", "unsignedByte", "short", "unsignedShort", "nonNegativeInteger",
            "positiveInteger", "nonPositiveInteger", "negativeInteger", "unsignedLong"}
WithinLimits(datatype, n) ==
  CASE datatype = "byte" -> n \in (-128)..127
    [] datatype = "unsignedByte" -> n \in 0..255
    [] datatype = "short" -> n \in (-32768)..32767
    [] datatype = "unsignedShort" -> n \in 0..65535
    [] datatype \in {"nonNegativeInteger", "unsignedLong"} -> n >= 0
    [] datatype = "positiveInteger" -> n > 0
    [] datatype = "nonPositiveInteger" -> n <= 0
    [] datatype = "negativeInteger" -> n < 0
Integral == Limited \cup {"integer", "long"}
Numerals == Integral \cup {"decimal", "float", "double"}     \* _NUMERIC_LITERAL_TYPES
XsdTypes == Numerals \cup {"string", "boolean", "dateTime", "date"}
StringTypes == {"string", "XMLLiteral", "HTML", "normalizedString", "token"}

\* XSDToPython: the constructor of a datatype
ReaderOf(datatype) ==
  CASE datatype \in Integral -> "int"
    [] datatype = "decimal" -> "Decimal"
    [] datatype \in {"float", "double"} -> "float"
    [] datatype = "boolean" -> "bool"
    [] datatype \in {NotSet, "string"} -> "str"
    [] OTHER -> "none"

\* what int(), Decimal(), float(), str() and _parseBoolean make of a text
Wholes == {"digits", "padded"}
Read(reader, text) ==
  LET t == IF Len(text) = 1 THEN text[1] ELSE <<"word", 9>>
  IN  CASE reader = "str" -> Str(text)
        [] reader = "bool" -> Py("bool", IF t \in {True1, TRUE2, <<"digits", 2>>} THEN 2 ELSE 0, 0)
        [] reader = "int" /\ t[1] \in Wholes -> Py("int", t[2], 0)
        [] reader = "float" /\ t[1] \in Wholes \cup {"point", "exponent"} -> Py("float", t[2], 0)
        [] reader = "Decimal" /\ t[1] \in Wholes -> Py("Decimal", t[2], 0)
        [] reader = "Decimal" /\ t[1] = "point" -> Py("Decimal", t[2], 1)
        [] reader = "Decimal" /\ t[1] = "exponent" -> Py("Decimal", t[2], t[2] % 2)
        [] OTHER -> NoPython

\* _castPythonToLiteral: the text and the datatype of a value
Written(v) ==
  CASE v.type = "bool" -> <<IF v.n = 0 THEN False0 ELSE True1>>
    [] v.type = "float" \/ (v.type = "Decimal" /\ v.scale = 1) -> <<<<"point", v.n>>>>
    [] v.type = "str" -> v.text
    [] OTHER -> <<<<"digits", v.n>>>>
TypeOfPython(v) ==
  CASE v.type = "bool" -> "boolean" [] v.type = "int" -> "integer"
    [] v.type = "Decimal" -> "decimal" [] v.type = "float" -> "double" [] OTHER -> NotSet
-----------------------------------------------------------------------------
(* Literal.__new__.  Whether a text is ill-typed is not known for other    *)
(* datatypes, or when a value was given.                                   *)

Record(text, datatype, language, value, ill) ==
  [text |-> text, datatype |-> datatype, language |-> language, value |-> value, ill |-> ill]
HasPython(l) == l.value # NoPython

\* _check_well_formed_types
WellFormedText(datatype, text, value) ==
  IF datatype = "boolean"
  THEN text \in {<<t>> : t \in {True1, False0, <<"digits", 2>>, <<"digits", 0>>}}
  ELSE value # NoPython /\ (datatype \in Limited => WithinLimits(datatype, value.n \div 2))

IllTyped(datatype, text, value) ==
  IF datatype = NotSet \/ ReaderOf(datatype) = "none" THEN "unknown"
  ELSE IF WellFormedText(datatype, text, value) THEN "no" ELSE "yes"

FromText(text, datatype, language, normalize) ==
  LET value == Read(ReaderOf(datatype), text)
  IN  IF language # NotSet /\ datatype # NotSet THEN Fails
      ELSE Record(IF value # NoPython /\ normalize THEN Written(value) ELSE text,
                  datatype, language, value, IllTyped(datatype, text, value))

FromPython(v, datatype, language) ==
  IF v = Fails \/ (language # NotSet /\ datatype # NotSet) THEN Fails
  ELSE IF v.type = "str" THEN FromText(v.text, datatype, language, TRUE)
  ELSE LET type == IF datatype = NotSet THEN TypeOfPython(v) ELSE datatype
       IN  Record(Written(v), type, NotSet, v, "unknown")

\* The text stays as it is, and so does a language beside a datatype
FromLiteral(l, datatype) ==
  IF datatype = NotSet THEN [l EXCEPT !.ill = "unknown"]
  ELSE Record(l.text, datatype, l.language, Read(ReaderOf(datatype), l.text), "unknown")

NormalForm(l) == IF HasPython(l) THEN FromPython(l.value, l.datatype, l.language) ELSE l
-----------------------------------------------------------------------------
(* Arithmetic of Python: bool counts as int; Decimal and float do not mix. *)

IsNumber(v) == v.type \in {"bool", "int", "Decimal", "float"}
Sum(v, sign, w) ==
  LET types == {v.type, w.type}
      made(type) == Py(type, v.n + sign * w.n, IF v.scale > w.scale THEN v.scale ELSE w.scale)
  IN  IF types = {"str"} /\ sign = 1 THEN Str(v.text \o w.text)
      ELSE IF ~IsNumber(v) \/ ~IsNumber(w) \/ types = {"Decimal", "float"} THEN Fails
      ELSE made(IF "float" \in types THEN "float" ELSE IF "Decimal" \in types THEN "Decimal"
                ELSE "int")

\* Decimal() of a literal that has no value looks at its text
AsDecimal(l) == IF HasPython(l) THEN [l.value EXCEPT !.type = "Decimal"] ELSE Read("Decimal", l.text)
Stripped(v) == IF v = Fails THEN Fails ELSE [v EXCEPT !.scale = v.n % 2]

OfTwoTypes(a, sign, b) ==
  IF NoPython \in {AsDecimal(a), AsDecimal(b)} THEN Fails
  ELSE FromPython(Stripped(Sum(AsDecimal(a), sign, AsDecimal(b))), "decimal", NotSet)

\* What + and - do to literals of one datatype.  A literal without a value stands for itself:
\* it is added to a number again, of another datatype now, or so for ever, or not at all.
OfOneType(a, sign, b) ==
  LET again == FromPython(b.value, NotSet, NotSet)
      sum == OfTwoTypes(a, sign, again)
  IN  IF ~HasPython(b) THEN Fails
      ELSE IF HasPython(a) THEN FromPython(Sum(a.value, sign, b.value), a.datatype, a.language)
      ELSE IF again.datatype = a.datatype \/ sum = Fails THEN Fails
      ELSE FromLiteral(sum, a.datatype)
AreNumerals(a, b) == {a.datatype, b.datatype} \subseteq Numerals

\* Literal.__add__: what is not a number is joined
AddLiterals(a, b) ==
  IF a.datatype = b.datatype THEN OfOneType(a, 1, b)
  ELSE IF AreNumerals(a, b) THEN OfTwoTypes(a, 1, b)
  ELSE FromText(a.text \o b.text, IF a.datatype \in StringTypes THEN a.datatype ELSE "string",
                a.language, TRUE)
\* Literal.__sub__
SubLiterals(a, b) ==
  IF NotSet \in {a.datatype, b.datatype} THEN Fails
  ELSE IF a.datatype = b.datatype THEN OfOneType(a, -1, b)
  ELSE IF AreNumerals(a, b) THEN OfTwoTypes(a, -1, b)
  ELSE Fails

\* Literal.__neg__, __abs__ and __invert__: of int, bool and float only, and float has no ~
OfInteger(v, n) ==
  IF v.type \in {"int", "bool"} THEN FromPython(Py("int", n, 0), NotSet, NotSet)
  ELSE IF v.type = "float" THEN FromPython(Py("float", n, 0), NotSet, NotSet) ELSE Fails
Opposite(l) == IF HasPython(l) /\ IsNumber(l.value) THEN OfInteger(l.value, -l.value.n) ELSE Fails
Magnitude(n) == IF n < 0 THEN -n ELSE n
Absolute(l) == IF HasPython(l) /\ IsNumber(l.value) THEN OfInteger(l.value, Magnitude(l.value.n)) ELSE Fails
Inverted(l) ==
  IF HasPython(l) /\ l.value.type \in {"int", "bool"} THEN OfInteger(l.value, -(l.value.n + 2)) ELSE Fails
-----------------------------------------------------------------------------
(* SPARQL: numeric(), of a literal that has a value.                       *)
Numeral(l) == IF l.datatype \in Numerals THEN l.value ELSE Fails

\* type_promotion
Widest(t) == IF t \in Integral THEN "integer" ELSE t
Rank0(t) == CASE t = "integer" -> 1 [] t = "decimal" -> 2 [] t = "float" -> 3 [] t = "double" -> 4
TypePromotion(t, u) == IF Rank0(Widest(t)) > Rank0(Widest(u)) THEN Widest(t) ELSE Widest(u)

AsFloat(v) == Py("float", v.n, 0)

\* A sum that keeps the type of its first number
AddNextToFirst(acc, x) ==
  LET n == Numeral(x[2])
  IN  IF Fails \in {acc[1], n} THEN <<Fails, NotSet>>
      ELSE <<Sum(AsFloat(acc[1]), x[1], AsFloat(n)), acc[2]>>

\* AdditiveExpression: <<sign, literal>> follow the first
AddNext(acc, x) ==
  LET v == acc[1]
      n == Numeral(x[2])
      mixed == {v.type, n.type} = {"Decimal", "float"}
  IN  IF Fails \in {v, n} THEN <<Fails, NotSet>>
      ELSE <<IF mixed THEN Sum(AsFloat(v), x[1], AsFloat(n)) ELSE Sum(v, x[1], n),
             TypePromotion(acc[2], x[2].datatype)>>

Additive(first, others) ==
  LET start == IF Numeral(first) = Fails THEN <<Fails, NotSet>> ELSE <<Numeral(first), first.datatype>>
      acc == FoldLeft(AddNext, start, others)
  IN  FromPython(acc[1], acc[2], NotSet)

\* MultiplicativeExpression: a float makes a float of what has come before it only
Times(v, w) ==
  LET types == {v.type, w.type}
  IN  IF types = {"float", "Decimal"} THEN Fails
      ELSE Py(IF "float" \in types THEN "float" ELSE "Decimal", (v.n * w.n) \div 2,
              IF v.scale + w.scale = 0 THEN 0 ELSE 1)
MultiplyNext(v, l) ==
  LET f == Numeral(l)
  IN  IF Fails \in {v, f} THEN Fails
      ELSE IF f.type = "float" THEN Times(AsFloat(v), f) ELSE Times(v, f)
ToDecimal(v) == Py("Decimal", v.n, IF v.type = "float" THEN v.n % 2 ELSE v.scale)
Multiplicative(first, others) ==
  IF Numeral(first) = Fails THEN Fails
  ELSE FromPython(FoldLeft(MultiplyNext, ToDecimal(Numeral(first)), others), NotSet, NotSet)

\* CEIL, FLOOR and ROUND: an int, in the datatype of the argument; halves are rounded up
Rounded(l, n) == IF Numeral(l) = Fails THEN Fails ELSE FromPython(Py("int", 2 * n, 0), l.datatype, NotSet)
Ceil(l) == Rounded(l, (l.value.n + 1) \div 2)
Floor(l) == Rounded(l, l.value.n \div 2)
Round(l) == Rounded(l, (l.value.n + 1) \div 2)
Abs(l) == IF Numeral(l) = Fails THEN Fails
          ELSE FromPython([l.value EXCEPT !.n = Magnitude(@)], NotSet, NotSet)

\* default_cast, of a literal
CastTo(type, l) ==
  LET read == Read(ReaderOf(type), l.text)
  IN  IF type = "string" THEN FromLiteral(l, "string")
      ELSE IF l.datatype # NotSet /\ l.datatype \notin XsdTypes THEN Fails
      ELSE IF type = "boolean"
      THEN IF WellFormedText("boolean", l.text, read) \/ l.text = <<TRUE2>>
           THEN FromPython(read, NotSet, NotSet) ELSE Fails
      ELSE IF read = NoPython \/ (type = "decimal" /\ l.text[1][1] = "exponent") THEN Fails
      ELSE FromPython(read, type, NotSet)
-----------------------------------------------------------------------------
(* SPARQL: string(), and functions of strings.                             *)
IsString(l) == l.datatype \in {NotSet, "string"}
Plain(text) == FromText(text, NotSet, NotSet, TRUE)
Like(l, text) == FromText(text, l.datatype, l.language, TRUE)

\* _compatibleStrings
CompatibleStrings(a, b) ==
  IsString(a) /\ IsString(b) /\ b.language \in {NotSet, a.language}

\* str.find: where one text first occurs in another
FoundAt(text, part) ==
  {i \in 1..(Len(text) + 1) : i + Len(part) - 1 <= Len(text) /\ SubSeq(text, i, i + Len(part) - 1) = part}
FirstAt(text, part) == CHOOSE i \in FoundAt(text, part) : \A j \in FoundAt(text, part) : i <= j

StrBefore(a, b) ==
  IF ~CompatibleStrings(a, b) THEN Fails
  ELSE IF FoundAt(a.text, b.text) = {} THEN Plain(<<>>)
  ELSE Like(a, SubSeq(a.text, 1, FirstAt(a.text, b.text) - 1))
\* What comes after the first token of the other text
StrAfterFirst(a, b) ==
  IF ~CompatibleStrings(a, b) THEN Fails
  ELSE IF FoundAt(a.text, b.text) = {} THEN Plain(<<>>)
  ELSE Like(a, SubSeq(a.text, FirstAt(a.text, b.text) + 1, Len(a.text)))
StrAfter(a, b) ==
  IF ~CompatibleStrings(a, b) THEN Fails
  ELSE IF FoundAt(a.text, b.text) = {} THEN Plain(<<>>)
  ELSE Like(a, SubSeq(a.text, FirstAt(a.text, b.text) + Len(b.text), Len(a.text)))
Contains1(a, b) == CompatibleStrings(a, b) /\ FoundAt(a.text, b.text) # {}
StrStarts(a, b) == CompatibleStrings(a, b) /\ 1 \in FoundAt(a.text, b.text)
StrEnds(a, b) == CompatibleStrings(a, b) /\ Len(a.text) - Len(b.text) + 1 \in FoundAt(a.text, b.text)

\* SUBSTR is a slice of Python: an index below 0 counts from the end
SliceIndex(text, i) ==
  LET at == IF i < 0 THEN i + Len(text) ELSE i
  IN  IF at < 0 THEN 0 ELSE IF at > Len(text) THEN Len(text) ELSE at
SubStr(a, start, length) ==
  IF ~IsString(a) THEN Fails
  ELSE Like(a, SubSeq(a.text, SliceIndex(a.text, start - 1) + 1, SliceIndex(a.text, start - 1 + length)))
SubStrFrom(a, start) ==
  IF ~IsString(a) THEN Fails
  ELSE Like(a, SubSeq(a.text, SliceIndex(a.text, start - 1) + 1, Len(a.text)))

\* CONCAT: the language and the datatype that all have
TheOnly(S) == IF Cardinality(S) = 1 THEN CHOOSE x \in S : TRUE ELSE NotSet
Concat(a, b) ==
  IF ~IsString(a) \/ ~IsString(b) THEN Fails
  ELSE FromText(a.text \o b.text, TheOnly({a.datatype, b.datatype}), TheOnly({a.language, b.language}), TRUE)

StrLang(a, language) ==
  IF IsString(a) /\ a.language = NotSet /\ a.datatype = NotSet
  THEN FromText(a.text, NotSet, language, TRUE) ELSE Fails
StrDt(a, datatype) == FromText(a.text, datatype, NotSet, TRUE)
DatatypeOf(a) ==
  IF a.language # NotSet THEN "langString" ELSE IF a.datatype = NotSet THEN "string" ELSE a.datatype

\* LANGMATCHES, of languages as sequences of subtags: subtag by subtag, from the first
LangRangeCheck(range, tag) ==
  Len(range) <= Len(tag) /\ \A i \in DOMAIN range : range[i] \in {"*", tag[i]}
LangMatches(range, tag) == tag # <<>> /\ LangRangeCheck(range, tag)

\* STR, LANG and STRLEN; - and isNUMERIC
StrOf(l) == Plain(l.text)
LangOf(l) == l.language
StrLen(a) == IF IsString(a) THEN Len(a.text) ELSE Fails
UnaryMinus(l) ==
  IF Numeral(l) = Fails THEN Fails ELSE FromPython([l.value EXCEPT !.n = -@], NotSet, NotSet)
IsNumeric(l) == Numeral(l) # Fails
-----------------------------------------------------------------------------
(* Properties, of literals made from some texts, and of strings made from *)
(* a text, a datatype and a language.                                      *)

CONSTANTS SomeTokens, SomeTypes, SomeString

Strings == {FromText(x[1], x[2], x[3], TRUE) : x \in SomeString}
FromTexts == {FromText(text, type, NotSet, TRUE) : text \in SomeTokens, type \in SomeTypes}
SomeNumeral == {l \in FromTexts : IsNumeric(l) /\ HasPython(l)}

TypeFits(l) == l.value.type = ReaderOf(l.datatype)
SameNumber(l, m) == l.value.n = m.value.n

(* A literal that is written and read again is the same, with the same     *)
(* value, and well-typed if it was; one that was made without being        *)
(* normalized has this form for its normal form; and texts of one value    *)
(* make one literal (a Decimal remembers how many digits it had).          *)
ReadAgain(l) == FromText(l.text, l.datatype, l.language, TRUE)
ReadingIsStable ==
  /\ \A l \in FromTexts :
       /\ [ReadAgain(l) EXCEPT !.ill = l.ill] = l
       /\ l.ill # "yes" => ReadAgain(l) = l
  /\ \A text \in SomeTokens, type \in SomeTypes :
       LET l == FromText(text, type, NotSet, FALSE)
       IN  [NormalForm(l) EXCEPT !.ill = l.ill] = FromText(text, type, NotSet, TRUE)
  /\ \A l, m \in FromTexts :
       l.datatype = m.datatype /\ l.value = m.value /\ HasPython(l) => l.text = m.text

(* Sums of SPARQL do not depend on the order of what is added: neither the *)
(* number nor its type nor how it is written, and the value is of the type *)
(* that the datatype has; a product has the same number both ways.         *)
SumsAgree ==
  \A a, b, c \in SomeNumeral :
    LET sum == Additive(a, <<<<1, b>>, <<1, c>>>>)
    IN  /\ TypeFits(sum) /\ sum.value.n = a.value.n + b.value.n + c.value.n
        /\ sum = Additive(b, <<<<1, a>>, <<1, c>>>>)
        /\ sum = Additive(c, <<<<1, b>>, <<1, a>>>>)
        /\ SameNumber(Additive(sum, <<<<-1, c>>>>), Additive(a, <<<<1, b>>>>))
        /\ SameNumber(Additive(sum, <<<<1, UnaryMinus(c)>>>>), Additive(a, <<<<1, b>>>>))
ProductsAgree ==
  \A a, b \in SomeNumeral :
    LET product == Multiplicative(a, <<b>>)
    IN  (a.value.n * b.value.n) % 2 = 0 =>
          TypeFits(product) /\ SameNumber(product, Multiplicative(b, <<a>>))

(* What is added to a literal comes off again; the result is what its text *)
(* says, unless it no longer is within the limits of its datatype.         *)
StillFits(l) == ReadAgain(l).value = l.value /\ (ReadAgain(l).ill = "yes" => l.datatype \in Limited)
LiteralsAddUp ==
  \A a, b \in SomeNumeral :
    LET sum == AddLiterals(a, b)
    IN  /\ TypeFits(sum) /\ StillFits(sum) /\ SameNumber(SubLiterals(sum, b), a)
        /\ Opposite(b) # Fails => SameNumber(AddLiterals(sum, Opposite(b)), a)
        /\ Inverted(b) # Fails => Inverted(Inverted(b)).value.n = b.value.n
        /\ Absolute(b) # Fails => SameNumber(Absolute(b), Abs(b))

(* A cast that does not fail makes a literal of the datatype asked for, of *)
(* the same number, that would be read from its text as it is; rounding is *)
(* to the whole numbers next to a number.                                  *)
CastsKeepNumbers ==
  \A l \in FromTexts, type \in {"integer", "decimal", "double", "boolean", "string"} :
    LET cast == CastTo(type, l)
    IN  cast # Fails =>
          /\ cast.datatype = type /\ StillFits(cast)
          /\ {l.datatype, type} \subseteq Numerals /\ HasPython(l) => SameNumber(cast, l)
RoundsToNext ==
  \A l \in SomeNumeral :
    LET n == l.value.n
    IN  /\ Floor(l).value.n \in {n - 1, n} /\ Ceil(l).value.n \in {n, n + 1}
        /\ Round(l).value.n \in {Floor(l).value.n, Ceil(l).value.n}

(* A string is what is before another, that one, and what is after it, in  *)
(* the language it has, if the other one occurs; slices within a string    *)
(* join to the string; no function of strings makes a literal with both a  *)
(* language and a datatype, and what STR, LANG and DATATYPE say of a       *)
(* literal makes it again.  A range of languages that matches one matches  *)
(* what is narrower.                                                       *)
InParts(a, b) ==
  LET before == StrBefore(a, b)
      after == StrAfter(a, b)
  IN  IF Contains1(a, b)
      THEN /\ before.text \o b.text \o after.text = a.text
           /\ {before.language, after.language} = {a.language}
           /\ ~Contains1(before, b) \/ b.text = <<>>
           /\ StrStarts(a, b) <=> before.text = <<>>
           /\ after.text = <<>> => StrEnds(a, b)
      ELSE CompatibleStrings(a, b) => {before, after} = {Plain(<<>>)}
InSlices(a) ==
  \A k \in 0..Len(a.text) :
    LET whole == Concat(SubStr(a, 1, k), SubStrFrom(a, k + 1))
    IN  whole.text = a.text /\ whole.language = a.language /\ SubStr(a, 1, StrLen(a)) = a
MadeAgain(l) ==
  IF LangOf(l) # NotSet THEN StrLang(StrOf(l), LangOf(l)) = l
  ELSE StrDt(StrOf(l), DatatypeOf(l)) = ReadAgain([l EXCEPT !.datatype = DatatypeOf(l)])
Tags == UNION {[1..n -> {"en", "gb", "*"}] : n \in 0..2}
RangesNest ==
  \A r, t, u \in Tags \ {<<>>} : LangMatches(r, t) /\ LangMatches(t, u) => LangMatches(r, u)
OneOrTheOther(l) == l = Fails \/ NotSet \in {l.language, l.datatype}
StringsInParts ==
  /\ \A a, b \in Strings :
       /\ InParts(a, b)
       /\ \A l \in {StrBefore(a, b), StrAfter(a, b), Concat(a, b), AddLiterals(a, b)} : OneOrTheOther(l)
  /\ \A a \in Strings : InSlices(a)
  /\ \A l \in Strings \cup FromTexts : MadeAgain(l)
  /\ RangesNest

ValuesAsDefined ==
  /\ ReadingIsStable /\ SumsAgree /\ ProductsAgree /\ LiteralsAddUp
  /\ CastsKeepNumbers /\ RoundsToNext /\ StringsInParts
=============================================================================
