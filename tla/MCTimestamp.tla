----------------------------- MODULE MCTimestamp -----------------------------
(***************************************************************************)
(* The calendar of module Timestamp against a walk through the days, one   *)
(* at a time: days are counted and the date is moved on by the rules of    *)
(* the Gregorian calendar, with no arithmetic on eras.                     *)
(***************************************************************************)
EXTENDS Timestamp, FiniteSets

CONSTANTS
    Spans,      \* the walks: from the first of January of a year up to a year
    Times,      \* the times of day tried on each day
    Zones       \* the zones tried

ASSUME WalkAssumption ==
    /\ \A span \in Spans : span[1] \in Int
    /\ Times \subseteq 0 .. DaySeconds - 1
    /\ Zones \subseteq Int

VARIABLES
    n,      \* the day, counted from 1970-01-01
    date,   \* its date
    last    \* the year in which this walk ends

vars == <<n, date, last>>

\* Leap years before a year, counted from year 0 on by inclusion and
\* exclusion.
LeapsBefore(y) == (y + 3) \div 4 - (y + 99) \div 100 + (y + 399) \div 400

NewYear(y) == 365 * (y - 1970) + LeapsBefore(y) - LeapsBefore(1970)

MonthLengths(y) ==
    <<31, IF LeapsBefore(y + 1) > LeapsBefore(y) THEN 29 ELSE 28,
      31, 30, 31, 30, 31, 31, 30, 31, 30, 31>>

Init ==
    \E span \in Spans :
        /\ date = [year |-> span[1], month |-> 1, day |-> 1]
        /\ n = NewYear(span[1])
        /\ last = span[2]

NextDay ==
    IF date.day < MonthLengths(date.year)[date.month]
    THEN [date EXCEPT !.day = @ + 1]
    ELSE IF date.month < 12
    THEN [date EXCEPT !.month = @ + 1, !.day = 1]
    ELSE [year |-> date.year + 1, month |-> 1, day |-> 1]

Walk ==
    /\ date.year < last
    /\ date' = NextDay
    /\ n' = n + 1
    /\ UNCHANGED last

Next == Walk

Spec == Init /\ [][Next]_vars

\* Instants that the documented format, RFC 3339, can express.
Expressible(year) == 0 <= year /\ year < 10000

-----------------------------------------------------------------------------
\* days_from_civil and civil_from_days agree with the calendar, also before
\* year 0, at the ends of centuries and of eras, and on leap days.
CalendarRight ==
    /\ DaysFromCivil(date.year, date.month, date.day) = n
    /\ CivilFromDays(n) = date

\* Display and parse are inverse on every instant whose year has four
\* digits, and no other displayed instant parses: such a journal line would
\* not replay.
RoundTrip ==
    \A t \in Times :
        Parse(Display(Instant(n, t))) =
            IF Expressible(date.year) THEN Instant(n, t) ELSE ParseError

\* A local time with its zone is the instant that the same local time has
\* in UTC, earlier by the zone: also across midnight, months and years.
ZonesRight ==
    \A t \in Times, z \in Zones :
        LET local == [Display(Instant(n, t + z)) EXCEPT !.zone = z]
        IN  Expressible(local.date.year) => Parse(local) = Instant(n, t)

\* Parse accepts a day of the month exactly if the calendar has it.
OnlyRealDates ==
    \A d \in 0 .. 32 :
        LET text == [date |-> [date EXCEPT !.day = d], time |-> None, zone |-> None]
        IN  Expressible(date.year) =>
               (Parse(text) # ParseError <=>
                   d \in 1 .. MonthLengths(date.year)[date.month])

\* The walks: through a whole era and the sign change of the era number, the
\* years around the epoch with 2000 and 2100, and the last year of four digits.
CheckedSpans == {<<-401, 5>>, <<1899, 2105>>, <<9998, 10001>>}

CheckedTimes == {0, 1, 43200, 86399}

CheckedZones == { ZoneOf(s, h, m) : s \in {-1, 1}, h \in {0, 23}, m \in {0, 59} }
==============================================================================
