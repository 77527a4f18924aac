------------------------------ MODULE Durations ------------------------------
(***************************************************************************)
(* Durations with months, and arithmetic of dates, times and durations:    *)
(* the class Duration (rdflib/xsd_datetime.py), + and - of Literal         *)
(* (rdflib/term.py), and + and - of SPARQL (operators.py).                 *)
(*                                                                         *)
(* A moment is a day of the calendar and a time of that day; time is       *)
(* counted in units of which a day has DayLength.  A duration has months   *)
(* and, counted in units, what Python calls a timedelta; one of kind       *)
(* timedelta has no months.                                                *)
(***************************************************************************)
EXTENDS Integers, Sequences

CONSTANT DayLength

Raises == [kind |-> "raises"]

\* fquotmod: the quotient and the rest of a division, the rest between low and high
FQuotMod(val, low, high) ==
  <<(val - low) \div (high - low), ((val - low) % (high - low)) + low>>

\* Every fourth year a leap year
MaxDaysEveryFourth(year, month) ==
  IF month \in {4, 6, 9, 11} THEN 30 ELSE IF month # 2 THEN 31 ELSE IF year % 4 = 0 THEN 29 ELSE 28

MaxDaysInMonth(year, month) ==
  IF month \in {4, 6, 9, 11} THEN 30
  ELSE IF month # 2 THEN 31
  ELSE IF year % 400 = 0 \/ (year % 100 # 0 /\ year % 4 = 0) THEN 29
  ELSE 28
-----------------------------------------------------------------------------
(* Python's date and datetime: the number of a day, and what adding a      *)
(* timedelta gives; a date looks at the days of the timedelta only.        *)
Ordinal(m) ==
  LET y == IF m.month <= 2 THEN m.year - 1 ELSE m.year
  IN  365 * y + (y \div 4) - (y \div 100) + (y \div 400)
        + ((153 * ((m.month + 9) % 12) + 2) \div 5) + m.day

Moment(year, month, day, time) == [year |-> year, month |-> month, day |-> day, time |-> time]

\* Months are numbered, 12 for each year
MonthNumber(m) == 12 * m.year + m.month - 1
First(n) == Moment(n \div 12, (n % 12) + 1, 1, 0)
DaysIn(n) == Ordinal(First(n + 1)) - Ordinal(First(n))

DayOf(ordinal) ==
  LET year == (400 * ordinal) \div 146097
      n == CHOOSE n \in (12 * year - 12)..(12 * year + 23) :
             ordinal - Ordinal(First(n)) \in 0..(DaysIn(n) - 1)
  IN  [First(n) EXCEPT !.day = 1 + ordinal - Ordinal(First(n))]
Later(m, days) == [DayOf(Ordinal(m) + days) EXCEPT !.time = m.time]

PlusDelta(type, m, delta) ==
  IF type = "date" THEN Later(m, delta \div DayLength)
  ELSE [Later(m, (m.time + delta) \div DayLength) EXCEPT !.time = (m.time + delta) % DayLength]
MinusDelta(type, m, delta) ==
  IF type = "date" THEN Later(m, -(delta \div DayLength)) ELSE PlusDelta(type, m, -delta)
Difference(type, m, n) ==
  (Ordinal(m) - Ordinal(n)) * DayLength + (IF type = "date" THEN 0 ELSE m.time - n.time)
-----------------------------------------------------------------------------
(* Duration. *)

TimeDelta(delta) == [kind |-> "timedelta", years |-> 0, months |-> 0, delta |-> delta]

\* __init__: the months of less than a year, the years, and the rest
NewDuration(years, months, delta) ==
  LET more == FQuotMod(months, 0, 12)
  IN  IF years + more[1] < 0 /\ delta < 0 THEN Raises
      ELSE [kind |-> "Duration", years |-> years + more[1], months |-> more[2], delta |-> delta]

\* The timedelta is put in place after the check
WithDelta(years, months, delta) == [NewDuration(years, months, 0) EXCEPT !.delta = delta]

MonthsOf(d) == d.years * 12 + d.months
Negated(d) ==
  IF d.kind = "timedelta" THEN TimeDelta(-d.delta) ELSE WithDelta(-d.years, -d.months, -d.delta)

IsTimeDelta(d, e) == d.kind = "timedelta" /\ e.kind = "timedelta"
DurationPlus(d, e) ==
  IF IsTimeDelta(d, e) THEN TimeDelta(d.delta + e.delta)
  ELSE WithDelta(d.years + e.years, d.months + e.months, d.delta + e.delta)
DurationMinus(d, e) ==
  IF IsTimeDelta(d, e) THEN TimeDelta(d.delta - e.delta)
  ELSE WithDelta(d.years - e.years, d.months - e.months, d.delta - e.delta)

DurationTimes(d, n) ==
  IF d.kind = "timedelta" THEN TimeDelta(n * d.delta)
  ELSE WithDelta(n * d.years, n * d.months, n * d.delta)

EqualDurations(d, e) ==
  IF d.kind = "Duration" /\ e.kind = "Duration" THEN MonthsOf(d) = MonthsOf(e) /\ d.delta = e.delta
  ELSE d.years = e.years /\ d.months = e.months /\ d.delta = e.delta
HashOfDuration(d) ==
  IF d.kind = "Duration" THEN <<d.delta, d.months, d.years>> ELSE <<d.delta>>

\* The day of the month, or the last one if the month is shorter
Shifted(m, months, years) ==
  LET to == FQuotMod(m.month + months, 1, 13)
      year == m.year + years + to[1]
      last == MaxDaysInMonth(year, to[2])
  IN  Moment(year, to[2], IF m.day > last THEN last ELSE m.day, m.time)

\* + and - of a date or a datetime: first the months, then the timedelta
Plus(type, m, d) == PlusDelta(type, Shifted(m, d.months, d.years), d.delta)
Minus(type, m, d) == MinusDelta(type, Shifted(m, -d.months, -d.years), d.delta)

\* totimedelta, with a start and with an end
FromStart(type, start, d) == Difference(type, Plus(type, start, d), start)
UpToEnd(type, end, d) == Difference(type, end, Minus(type, end, d))

(* What is written: a sign, and years, months and units that are not       *)
(* negative.                                                               *)
\* parse_xsd_duration
ParseDuration(t) ==
  IF t.years = 0 /\ t.months = 0 THEN TimeDelta(t.sign * t.delta)
  ELSE LET d == NewDuration(t.years, t.months, t.delta)
       IN  IF t.sign = -1 THEN DurationMinus(NewDuration(0, 0, 0), d) ELSE d

Text(sign, months, delta) ==
  [sign |-> sign, years |-> months \div 12, months |-> months % 12, delta |-> delta]
\* duration_isoformat
IsoFormat(d) ==
  LET months == MonthsOf(d)
  IN  IF months # 0 /\ d.delta < 0 THEN Raises
      ELSE IF months < 0 THEN Text(-1, -months, d.delta)
      ELSE IF d.delta < 0 THEN Text(-1, 0, -d.delta)
      ELSE Text(1, months, d.delta)
-----------------------------------------------------------------------------
(* + and - of literals: a datatype, and a moment or a duration.            *)

Moments == {"dateTime", "date", "time"}
Days == {"dateTime", "date"}
Deltas == {"duration", "dayTimeDuration"}       \* _TIME_DELTA_TYPES

Of(datatype, value) == [kind |-> "Literal", datatype |-> datatype, value |-> value]

\* A literal has to be written, and not every duration can
OfDuration(datatype, d) == IF IsoFormat(d) = Raises THEN Raises ELSE Of(datatype, d)

\* A time is put on some day
OnSomeDay(m) == Moment(2000, 1, 1, m.time)
OfTime(m) == Of("time", OnSomeDay(m))

\* Literal.__add__, when one of the two is a date, a time or a duration
AddToLiteral(a, b) ==
  IF a.datatype \in Days /\ b.datatype \in Deltas
  THEN Of(a.datatype, Plus(a.datatype, a.value, b.value))
  ELSE IF a.datatype = "time" /\ b.datatype \in Deltas
  THEN OfTime(Plus("dateTime", OnSomeDay(a.value), b.value))
  ELSE IF a.datatype \in Moments \/ a.datatype # b.datatype THEN Raises
  ELSE OfDuration(a.datatype, DurationPlus(a.value, b.value))

\* Literal.__sub__
SubFromLiteral(a, b) ==
  IF a.datatype \in Days /\ b.datatype \in Deltas
  THEN Of(a.datatype, Minus(a.datatype, a.value, b.value))
  ELSE IF a.datatype = "time" /\ b.datatype \in Deltas
  THEN OfTime(Minus("dateTime", OnSomeDay(a.value), b.value))
  ELSE IF a.datatype # b.datatype THEN Raises
  ELSE IF a.datatype \in Moments
  THEN OfDuration("duration", TimeDelta(Difference(a.datatype, a.value, b.value)))
  ELSE OfDuration(a.datatype, DurationMinus(a.value, b.value))

(* isCompatibleDateTimeDatatype.  No timedelta is printed with the T that  *)
(* it looks for: a date takes any, a time none.  xsd:duration is spelled   *)
(* with a capital there, so that neither takes one.                        *)
IsCompatible(type, by) ==
  \/ type = "dateTime"
  \/ type = "date" /\ by \in {"yearMonthDuration", "dayTimeDuration"}

\* AdditiveExpression that starts with a date, a time or a duration.  Operands after b, if
\* there are more, are not looked at.
Nothing == [kind |-> "nothing"]
AdditiveDates(a, op, b, more) ==
  IF a.datatype \in Moments /\ a.datatype = b.datatype /\ op = "-"
  THEN IF a.datatype = "time" \/ more THEN Raises
       ELSE OfDuration("duration", TimeDelta(Difference(a.datatype, a.value, b.value)))
  ELSE IF a.datatype \in Moments /\ b.datatype \notin Moments /\ IsCompatible(a.datatype, b.datatype)
  THEN Of(a.datatype, IF op = "-" THEN Minus(a.datatype, a.value, b.value)
                      ELSE Plus(a.datatype, a.value, b.value))
  ELSE IF a.datatype \notin Moments /\ b.datatype \in Moments /\ op = "-" /\ ~more THEN Nothing
  ELSE Raises
-----------------------------------------------------------------------------
(* Properties, of some moments and of durations as they are written. *)

CONSTANTS SomeMoment, SomeText

SomeDuration == {ParseDuration(t) : t \in SomeText}
Signed(S) == S \cup {Negated(d) : d \in S}

(* A duration of months leads to the same day of another month, or to the  *)
(* last day of that month if it is shorter, across ends of years and leap  *)
(* days, whichever years and months the duration was made of.              *)
InMonth(m, n) ==
  [First(n) EXCEPT !.day = IF m.day > DaysIn(n) THEN DaysIn(n) ELSE m.day, !.time = m.time]
MonthsAsCalendar ==
  \A m \in SomeMoment, d \in Signed(SomeDuration) :
    Shifted(m, d.months, d.years) = InMonth(m, MonthNumber(m) + MonthsOf(d))

(* To subtract a duration is to add its negation, for a date if the        *)
(* duration has whole days; and the timedelta that a duration amounts to,  *)
(* from a start or up to an end, leads where the duration does.            *)
Whole(type, d) == type = "date" => d.delta % DayLength = 0
MinusIsPlusNegated(type, m, d) ==
  Whole(type, d) => Minus(type, m, d) = Plus(type, m, Negated(d))
AmountsTo(m, d) ==
  /\ PlusDelta("dateTime", m, FromStart("dateTime", m, d)) = Plus("dateTime", m, d)
  /\ MinusDelta("dateTime", m, UpToEnd("dateTime", m, d)) = Minus("dateTime", m, d)
SteppingBack ==
  \A m \in SomeMoment, d \in Signed(SomeDuration) :
    (\A type \in Days : MinusIsPlusNegated(type, m, d)) /\ AmountsTo(m, d)

(* What is written for a duration is read as an equal one, written alike.  *)
(* The sign of a text is one for months and units: those of a duration     *)
(* that differ in sign are written as if they did not, or not at all, and  *)
(* one with both negative, which a text may say, is not written either.    *)
WrittenTrue(d) == IsoFormat(d) # Raises /\ (MonthsOf(d) < 0 => d.delta = 0)
DurationsReadBack ==
  \A d \in Signed(SomeDuration) :
    WrittenTrue(d) =>
      LET read == ParseDuration(IsoFormat(d))
      IN  EqualDurations(read, d) /\ IsoFormat(read) = IsoFormat(d)

(* What is added comes off again, twice a duration is it added to itself,  *)
(* and equal durations have one hash (but a Duration without months has    *)
(* another than the timedelta it is equal to).                             *)
DurationsAddUp ==
  \A d, e \in Signed(SomeDuration) :
    /\ EqualDurations(DurationPlus(DurationMinus(d, e), e), d)
    /\ DurationTimes(d, 2) = DurationPlus(d, d) /\ DurationTimes(d, -1) = Negated(d)
    /\ EqualDurations(d, e) /\ d.kind = e.kind => HashOfDuration(d) = HashOfDuration(e)

(* The difference of two dates or times, added to the second, gives the    *)
(* first, for literals and in SPARQL; where both can add or subtract a     *)
(* duration, they agree.                                                   *)
Literals(type) ==
  {Of(type, IF type = "dateTime" THEN m ELSE IF type = "time" THEN OnSomeDay(m)
            ELSE [m EXCEPT !.time = 0]) : m \in SomeMoment}
OfDurations == {OfDuration(type, d) : type \in Deltas \cup {"yearMonthDuration"}, d \in SomeDuration}
DifferencesAddUp ==
  \A type \in Moments : \A a, b \in Literals(type) :
    /\ AddToLiteral(b, SubFromLiteral(a, b)) = a
    /\ type = "dateTime" =>
         AdditiveDates(b, "+", AdditiveDates(a, "-", b, FALSE), FALSE) = a
OfOneMind(here, there) == Raises \in {here, there} \/ here = there
SparqlAgrees ==
  \A type \in Moments : \A a \in Literals(type), b \in OfDurations \ {Raises}, more \in BOOLEAN :
    /\ OfOneMind(AdditiveDates(a, "+", b, more), AddToLiteral(a, b))
    /\ OfOneMind(AdditiveDates(a, "-", b, more), SubFromLiteral(a, b))

DurationsAsDefined ==
  /\ MonthsAsCalendar /\ SteppingBack /\ DurationsReadBack
  /\ DurationsAddUp /\ DifferencesAddUp /\ SparqlAgrees
=============================================================================
