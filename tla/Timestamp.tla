------------------------------ MODULE Timestamp ------------------------------
(***************************************************************************)
(* Timestamps (src/src/time.rs): seconds since the UNIX epoch, displayed   *)
(* and parsed as RFC 3339 UTC with hand-written calendar arithmetic.  The  *)
(* notarization instant is journaled, and signed, in the displayed form    *)
(* and parsed again by every replay.                                       *)
(*                                                                         *)
(* A text is abstracted to its fields; what tells texts apart here is how  *)
(* many characters the year takes, whether there is a time of day, and the *)
(* zone.                                                                   *)
(***************************************************************************)
EXTENDS Integers

CONSTANTS
    None,        \* no time of day, no zone
    ParseError   \* TimeParseError

\* Rust's division truncates; TLA+'s rounds down.
Quot(a, b) == IF a >= 0 THEN a \div b ELSE -((-a) \div b)

IsLeapYear_Julian(y) == y % 4 = 0
IsLeapYear(y) == (y % 4 = 0 /\ y % 100 # 0) \/ y % 400 = 0

DaysInMonth(y, m) ==
    CASE m \in {1, 3, 5, 7, 8, 10, 12} -> 31
      [] m \in {4, 6, 9, 11} -> 30
      [] m = 2 -> IF IsLeapYear(y) THEN 29 ELSE 28

\* Eras of 400 years; the years before 0 are shifted before the division.
EraOfYear_Truncated(y) == Quot(y, 400)
EraOfYear(y) == Quot(IF y >= 0 THEN y ELSE y - 399, 400)
EraOfDay(z) == Quot(IF z >= 0 THEN z ELSE z - 146096, 146097)

\* Years begin in March, so that the leap day is their last.
DaysFromCivil(year, m, d) ==
    LET y   == IF m <= 2 THEN year - 1 ELSE year
        era == EraOfYear(y)
        yoe == y - era * 400
        mp  == IF m > 2 THEN m - 3 ELSE m + 9
        doy == Quot(153 * mp + 2, 5) + d - 1
        doe == yoe * 365 + Quot(yoe, 4) - Quot(yoe, 100) + doy
    IN  era * 146097 + doe - 719468

CivilFromDays(days) ==
    LET z   == days + 719468
        era == EraOfDay(z)
        doe == z - era * 146097
        yoe == Quot(doe - Quot(doe, 1460) + Quot(doe, 36524) - Quot(doe, 146096), 365)
        doy == doe - (365 * yoe + Quot(yoe, 4) - Quot(yoe, 100))
        mp  == Quot(5 * doy + 2, 153)
        m   == IF mp < 10 THEN mp + 3 ELSE mp - 9
        y   == yoe + era * 400
    IN  [year |-> IF m <= 2 THEN y + 1 ELSE y,
         month |-> m,
         day |-> doy - Quot(153 * mp + 2, 5) + 1]

-----------------------------------------------------------------------------
(* Texts.                                                                  *)

DaySeconds == 86400

\* Both constants are told apart from data.
ASSUME TimestampAssumption ==
    /\ None \notin Int
    /\ None \notin [hour : 0 .. 23, min : 0 .. 59, sec : 0 .. 59]
    /\ ParseError \notin Int
    /\ ParseError \notin [day : Int, sec : 0 .. DaySeconds - 1]

\* An instant, secs of the code, is written as a day and a second of it: the
\* quotient and the remainder, rounded down, of its seconds.
Instant(day, secs) == [day |-> day + secs \div DaySeconds, sec |-> secs % DaySeconds]

Clock(s) == [hour |-> s \div 3600, min |-> (s % 3600) \div 60, sec |-> s % 60]

\* {:04} pads the year to four characters, sign included; it takes more
\* when it has to, and a sign is no digit.
FourDigits_Unsigned(year) == year >= 0
FourDigits(year) == year \in 0 .. 9999

\* Display: div_euclid and rem_euclid round down, as TLA+ does.
Display(t) == [date |-> CivilFromDays(t.day), time |-> Clock(t.sec), zone |-> 0]

\* Parse: fields at fixed columns, checked against the calendar; a missing
\* time is midnight, a missing zone is UTC.
RealDate(date) ==
    /\ date.month \in 1 .. 12
    /\ date.day \in 1 .. DaysInMonth(date.year, date.month)
RealTime(time) == time.hour \in 0 .. 23 /\ time.min \in 0 .. 59 /\ time.sec \in 0 .. 59

Shifted_Added(day, secs, zone) == Instant(day, secs + zone)
Shifted(day, secs, zone) == Instant(day, secs - zone)

\* The zone is a signed number of seconds, made of the hours and minutes of a
\* time of day.
ZoneOf(sign, hours, minutes) ==
    IF hours \in 0 .. 23 /\ minutes \in 0 .. 59
    THEN sign * (hours * 3600 + minutes * 60) ELSE ParseError

Midnight == [hour |-> 0, min |-> 0, sec |-> 0]
Parse(text) ==
    LET time == IF text.time = None THEN Midnight ELSE text.time
        zone == IF text.zone = None THEN 0 ELSE text.zone
    IN  IF /\ FourDigits(text.date.year) /\ RealDate(text.date) /\ RealTime(time)
           /\ zone # ParseError
        THEN Shifted(DaysFromCivil(text.date.year, text.date.month, text.date.day),
                     time.hour * 3600 + time.min * 60 + time.sec, zone)
        ELSE ParseError
==============================================================================
