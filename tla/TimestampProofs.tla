--------------------------- MODULE TimestampProofs ---------------------------
(***************************************************************************)
(* The calendar arithmetic of time.rs, proved for every day and every date *)
(* in Int, and what the walk of MCTimestamp checks, proved for walks of    *)
(* any length from any year, all times of day and all zones.               *)
(*                                                                         *)
(* An era has 400 years, of which each is cut off the days that are left   *)
(* by a division of its own; every lemma about divisions is kept apart, on *)
(* few variables.  The inductive invariant DayInv then is that the date of *)
(* the walk has the number the walk has counted to: NextDayIs, that the    *)
(* next date has the next number, is its whole induction, and CivilOfDate  *)
(* and DateOfDay, that the conversions undo each other, need no walk.      *)
(***************************************************************************)
EXTENDS MCTimestamp, TLAPS

\* Truncation only matters below zero.
LEMMA QuotNat == ASSUME NEW a \in Nat, NEW b \in Nat \ {0} PROVE Quot(a, b) = a \div b
  BY SMT DEF Quot

\* The shifts before the truncating divisions make them round down.
LEMMA EraFloors ==
    /\ \A y \in Int : EraOfYear(y) = y \div 400
    /\ \A z \in Int : EraOfDay(z) = z \div 146097
<1>1. ASSUME NEW y \in Int PROVE EraOfYear(y) = y \div 400
  BY SMT DEF EraOfYear, Quot
<1>2. ASSUME NEW z \in Int PROVE EraOfDay(z) = z \div 146097
  BY SMT DEF EraOfDay, Quot
<1>3. QED
  BY <1>1, <1>2, SMT

-----------------------------------------------------------------------------
(* Eras: 400 years that begin in March, counted from March of year 0.  The *)
(* relations below name the parts of a year and of a day, so that each     *)
(* proof about divisions stays small.                                      *)

YearsOfEra == 0 .. 399
DaysOfYear == 0 .. 365
DaysOfCycle == 0 .. 1460
LastOfCentury == 36524
DaysOfCentury == 0 .. LastOfCentury

DaysBefore(k) == 365 * k + k \div 4 - k \div 100
EndsWithLeapDay(k) == (k % 4 = 3 /\ k % 100 # 99) \/ k = 399

IsEraYear(y, e, k) == y = 400 * e + k
IsEraDay(doe) == 0 <= doe /\ doe <= 146096
IsInEra(z, e, doe) == z = 146097 * e + doe
IsDayOf(doe, k, d) == doe = DaysBefore(k) + d /\ (d = 365 => EndsWithLeapDay(k))

MarchDays(y) == 365 * y + y \div 4 - y \div 100 + y \div 400
MarchYear(year, m) == IF m <= 2 THEN year - 1 ELSE year
MarchMonth(m) == IF m > 2 THEN m - 3 ELSE m + 9
DayOfYear(m, d) == (153 * MarchMonth(m) + 2) \div 5 + d - 1

\* From the first of March of year 0 to the epoch, and back.
FromEpoch(z) == z - 719468
ToEpoch(days) == days + 719468

\* Every year is one of an era.
LEMMA ByEra == ASSUME NEW y \in Int PROVE \E e \in Int, k \in YearsOfEra : IsEraYear(y, e, k)
<1>1. y \div 400 \in Int /\ y - 400 * (y \div 400) \in YearsOfEra
  BY SMT DEF YearsOfEra
<1>2. IsEraYear(y, y \div 400, y - 400 * (y \div 400))
  BY SMT DEF IsEraYear
<1>3. QED
  BY <1>1, <1>2, Zenon

\* The days before a year are those of the eras before it and of its own
\* era; the year ends with a leap day if the next January's year has one.
LEMMA MarchInEra ==
    ASSUME NEW y \in Int, NEW e \in Int, NEW k \in YearsOfEra, IsEraYear(y, e, k)
    PROVE  /\ IsInEra(MarchDays(y), e, DaysBefore(k))
           /\ IsLeapYear(y + 1) <=> EndsWithLeapDay(k)
<1>1. k \in 0 .. 399 /\ y = 400 * e + k
  BY SMT DEF YearsOfEra, IsEraYear
<1>2. y \div 400 = e /\ y \div 100 = 4 * e + k \div 100 /\ y \div 4 = 100 * e + k \div 4
  BY <1>1, SMT
<1>3. IsInEra(MarchDays(y), e, DaysBefore(k))
  BY <1>1, <1>2, SMT DEF MarchDays, IsInEra, DaysBefore
<1>4. (y + 1) % 4 = (k + 1) % 4 /\ (y + 1) % 100 = (k + 1) % 100 /\ (y + 1) % 400 = (k + 1) % 400
  BY <1>1, SMT
<1>5. IsLeapYear(y + 1) <=> EndsWithLeapDay(k)
  BY <1>1, <1>4, SMT DEF IsLeapYear, EndsWithLeapDay
<1>6. QED
  BY <1>3, <1>5, Zenon

\* What days_from_civil adds up for a year is the number of days before it.
LEMMA EraDays ==
    ASSUME NEW y \in Int
    PROVE  /\ EraOfYear(y) \in Int
           /\ y - EraOfYear(y) * 400 \in 0 .. 399
           /\ EraOfYear(y) * 146097 + (y - EraOfYear(y) * 400) * 365
                 + Quot(y - EraOfYear(y) * 400, 4) - Quot(y - EraOfYear(y) * 400, 100)
              = MarchDays(y)
<1>1. PICK e \in Int, k \in YearsOfEra : IsEraYear(y, e, k)
  BY ByEra, Zenon
<1>2. IsInEra(MarchDays(y), e, DaysBefore(k))
  BY <1>1, MarchInEra, Zenon
<1>3. k \in 0 .. 399 /\ y = 400 * e + k
  BY <1>1, SMT DEF YearsOfEra, IsEraYear
<1>4. y \div 400 = e
  BY <1>3, SMT
<1>5. EraOfYear(y) = y \div 400
  BY EraFloors, SMT
<1>6. EraOfYear(y) = e /\ y - e * 400 = k
  BY <1>3, <1>4, <1>5, SMT
<1>7. Quot(k, 4) = k \div 4 /\ Quot(k, 100) = k \div 100
  BY <1>3, SMT DEF Quot
<1>8. QED
  BY <1>2, <1>3, <1>6, <1>7, SMT DEF IsInEra, DaysBefore

\* days_from_civil in closed form.
LEMMA DaysAre ==
    ASSUME NEW year \in Int, NEW m \in 1 .. 12, NEW d \in Int
    PROVE  DaysFromCivil(year, m, d) =
              FromEpoch(MarchDays(MarchYear(year, m)) + DayOfYear(m, d))
<1> DEFINE Y == MarchYear(year, m)
           M == MarchMonth(m)
<1>1. Y \in Int /\ M \in 0 .. 11
  BY SMT DEF MarchYear, MarchMonth
<1>2. DaysFromCivil(year, m, d) =
         EraOfYear(Y) * 146097
         + ((Y - EraOfYear(Y) * 400) * 365 + Quot(Y - EraOfYear(Y) * 400, 4)
            - Quot(Y - EraOfYear(Y) * 400, 100) + (Quot(153 * M + 2, 5) + d - 1))
         - 719468
  <2>1. CASE m <= 2
    BY <2>1, SMT DEF DaysFromCivil, MarchYear, MarchMonth
  <2>2. CASE m > 2
    BY <2>2, SMT DEF DaysFromCivil, MarchYear, MarchMonth
  <2>3. QED
    BY <2>1, <2>2, SMT
<1> HIDE DEF Y, M
<1>3. Quot(153 * M + 2, 5) = (153 * M + 2) \div 5
  BY <1>1, SMT DEF Quot
<1>4. /\ EraOfYear(Y) \in Int
      /\ Y - EraOfYear(Y) * 400 \in 0 .. 399
      /\ EraOfYear(Y) * 146097 + (Y - EraOfYear(Y) * 400) * 365
            + Quot(Y - EraOfYear(Y) * 400, 4) - Quot(Y - EraOfYear(Y) * 400, 100)
         = MarchDays(Y)
  BY <1>1, EraDays, SMT
<1>5. /\ Quot(Y - EraOfYear(Y) * 400, 4) \in Int
      /\ Quot(Y - EraOfYear(Y) * 400, 100) \in Int
  BY <1>4, SMT DEF Quot
<1>6. DaysFromCivil(year, m, d) = MarchDays(Y) + ((153 * M + 2) \div 5 + d - 1) - 719468
  BY <1>1, <1>2, <1>3, <1>4, <1>5, SMT
<1>7. MarchDays(Y) \in Int
  BY <1>1, SMT DEF MarchDays
<1> DEFINE N == DaysFromCivil(year, m, d)
           P == MarchDays(Y)
           Q == (153 * M + 2) \div 5 + d - 1
<1>8. Q \in Int /\ Q = DayOfYear(m, d)
  BY <1>1, SMT DEF DayOfYear, M
<1> HIDE DEF N, P, Q
<1>9. N = FromEpoch(P + Q)
  BY <1>6, <1>7, <1>8, SMT DEF FromEpoch, N, P, Q
<1>10. QED
  BY <1>8, <1>9, Zenon DEF N, P, Y

-----------------------------------------------------------------------------
(* The day of an era determines the year of it, and the day of a year the  *)
(* month.                                                                  *)

IsInMonth(doy, m) == (5 * doy + 2) \div 153 = MarchMonth(m)
IsMonthDay(doy, m, d) ==
    /\ doy = DayOfYear(m, d)
    /\ \A year \in Int : d <= DaysInMonth(year, m) \/ (doy = 365 /\ m = 2 /\ d = 29)

\* The day of the year, counted from March, determines the month.
LEMMA MonthOfDay ==
    ASSUME NEW m \in 1 .. 12, NEW d \in 1 .. 31, NEW year \in Int, d <= DaysInMonth(year, m)
    PROVE  /\ DayOfYear(m, d) \in DaysOfYear
           /\ DayOfYear(m, d) = 365 => m = 2 /\ IsLeapYear(year)
           /\ IsInMonth(DayOfYear(m, d), m)
  BY SMT DEF DayOfYear, MarchMonth, DaysInMonth, DaysOfYear, IsInMonth

YearOf(doe) == (doe - doe \div 1460 + doe \div 36524 - doe \div 146096) \div 365

\* The divisions of civil_from_days are exact for every day of a year.
LEMMA YearOfDay ==
    ASSUME NEW doe \in Int, NEW k \in YearsOfEra, NEW d \in DaysOfYear, IsDayOf(doe, k, d)
    PROVE  IsEraDay(doe) /\ YearOf(doe) = k
<1>1. k \in 0 .. 399 /\ d \in 0 .. 365
  BY SMT DEF YearsOfEra, DaysOfYear
<1>2. /\ doe = 365 * k + k \div 4 - k \div 100 + d
      /\ d <= 364 \/ (k % 4 = 3 /\ k % 100 # 99) \/ k = 399
  BY <1>1, SMT DEF IsDayOf, DaysBefore, EndsWithLeapDay
<1>3. IsEraDay(doe)
  BY <1>1, <1>2, SMTT(60) DEF IsEraDay
<1>4. YearOf(doe) = k
  BY <1>1, <1>2, SMTT(60) DEF YearOf
<1>5. QED
  BY <1>3, <1>4, Zenon

\* A day of an era is one of a century, of a leap cycle of four years, of a
\* year of the cycle.
IsCenturyDay(doe, c, r) == doe = 36524 * c + r /\ 0 <= r /\ r <= 36524 /\ (r = 36524 => c = 3)
IsCycleDay(r, q, s) == r = 1461 * q + s
IsYearDay(s, i, d) == s = 365 * i + d /\ (d = 365 => i = 3)

\* A day of an era is a day of one of its four centuries; the last one is
\* longer by its leap day.
LEMMA InCentury ==
    ASSUME NEW doe \in Int, IsEraDay(doe)
    PROVE  \E c \in 0 .. 3, r \in DaysOfCentury : IsCenturyDay(doe, c, r)
<1> DEFINE c == IF doe = 146096 THEN 3 ELSE doe \div 36524
           r == doe - 36524 * c
<1>1. c \in 0 .. 3
  BY SMT DEF IsEraDay
<1>2. IsCenturyDay(doe, c, r)
  BY SMT DEF IsEraDay, IsCenturyDay
<1>3. r \in Int
  BY <1>1, SMT
<1> HIDE DEF c, r
<1>4. 0 <= r /\ r <= LastOfCentury /\ LastOfCentury \in Int
  BY <1>2, SMT DEF IsCenturyDay, LastOfCentury
<1>5. r \in DaysOfCentury
  BY <1>3, <1>4, SMT DEF DaysOfCentury
<1>6. QED
  BY <1>1, <1>2, <1>5, Zenon

\* A day of a century is a day of one of its cycles of four years.
LEMMA InCycle ==
    ASSUME NEW r \in DaysOfCentury
    PROVE  \E q \in 0 .. 24, s \in DaysOfCycle : IsCycleDay(r, q, s)
<1> DEFINE q == r \div 1461
           s == r - 1461 * q
<1>1. r \in Int /\ 0 <= r /\ r <= 36524
  BY SMT DEF DaysOfCentury, LastOfCentury
<1>2. q \in 0 .. 24
  BY <1>1, SMT
<1>3. s \in DaysOfCycle
  BY <1>1, SMT DEF DaysOfCycle
<1>4. IsCycleDay(r, q, s)
  BY <1>1, SMT DEF IsCycleDay
<1> HIDE DEF q, s
<1>5. QED
  BY <1>2, <1>3, <1>4, Zenon

\* A day of a cycle is a day of one of its years; the last one has a leap day.
LEMMA InYear ==
    ASSUME NEW s \in DaysOfCycle
    PROVE  \E i \in 0 .. 3, d \in DaysOfYear : IsYearDay(s, i, d)
<1> DEFINE i == IF s = 1460 THEN 3 ELSE s \div 365
           d == s - 365 * i
<1>1. i \in 0 .. 3 /\ d \in DaysOfYear
  BY SMT DEF DaysOfCycle, DaysOfYear
<1>2. IsYearDay(s, i, d)
  BY SMT DEF IsYearDay, DaysOfCycle
<1> HIDE DEF i, d
<1>3. QED
  BY <1>1, <1>2, Zenon

\* Every day of an era is a day of one of its years.
LEMMA DayHasYear ==
    ASSUME NEW doe \in Int, IsEraDay(doe)
    PROVE  \E k \in YearsOfEra, d \in DaysOfYear : IsDayOf(doe, k, d)
<1>1. PICK c \in 0 .. 3, r \in DaysOfCentury : IsCenturyDay(doe, c, r)
  BY InCentury, Zenon
<1>2. PICK q \in 0 .. 24, s \in DaysOfCycle : IsCycleDay(r, q, s)
  BY InCycle, Zenon
<1>3. PICK i \in 0 .. 3, d \in DaysOfYear : IsYearDay(s, i, d)
  BY InYear, Zenon
<1> DEFINE y == 100 * c + 4 * q + i
<1>4. /\ y \in 0 .. 399 /\ y \div 4 = 25 * c + q /\ y \div 100 = c
      /\ y % 4 = i /\ y % 100 = 4 * q + i
  BY SMT
<1>5. y = 100 * c + 4 * q + i
  BY SMT
<1> HIDE DEF y
<1>6. d \in 0 .. 365 /\ s \in Int /\ r \in Int
  BY SMT DEF DaysOfCentury, LastOfCentury, DaysOfCycle, DaysOfYear
<1>7. /\ doe = 36524 * c + r /\ r <= 36524 /\ (r = 36524 => c = 3)
      /\ r = 1461 * q + s
      /\ s = 365 * i + d /\ (d = 365 => i = 3)
  BY <1>1, <1>2, <1>3 DEF IsCenturyDay, IsCycleDay, IsYearDay
<1>8. doe = DaysBefore(y) + d
  BY <1>4, <1>5, <1>6, <1>7, SMT DEF DaysBefore
<1>9. d <= 364 \/ (y % 4 = 3 /\ y % 100 # 99) \/ y = 399
  BY <1>4, <1>5, <1>6, <1>7, SMT
<1>10. d = 365 => EndsWithLeapDay(y)
  BY <1>9, SMT DEF EndsWithLeapDay
<1>11. y \in YearsOfEra /\ IsDayOf(doe, y, d)
  BY <1>4, <1>8, <1>10, SMT DEF IsDayOf, YearsOfEra
<1>12. QED
  BY <1>11, Zenon

\* Every day of a year is a day of a month, of one that has it, unless it is
\* the leap day.
LEMMA DayHasMonth ==
    ASSUME NEW doy \in DaysOfYear
    PROVE  \E m \in 1 .. 12, d \in 1 .. 31 : IsMonthDay(doy, m, d)
<1> DEFINE mp == (5 * doy + 2) \div 153
           m  == IF mp < 10 THEN mp + 3 ELSE mp - 9
           d  == doy - (153 * mp + 2) \div 5 + 1
<1>0. doy \in 0 .. 365
  BY SMT DEF DaysOfYear
<1>1. mp \in 0 .. 11 /\ m \in 1 .. 12 /\ MarchMonth(m) = mp
  BY <1>0, SMT DEF MarchMonth
<1>2. d \in 1 .. 31 /\ doy = DayOfYear(m, d)
  BY <1>0, <1>1, SMT DEF DayOfYear
<1>3. /\ m \in {4, 6, 9, 11} => d <= 30
      /\ m = 2 => d <= 29 /\ (d = 29 => doy = 365)
  BY <1>0, <1>1, SMT DEF MarchMonth
<1>4. \A year \in Int : d <= DaysInMonth(year, m) \/ (doy = 365 /\ m = 2 /\ d = 29)
  BY <1>1, <1>2, <1>3, SMT DEF DaysInMonth
<1>5. IsMonthDay(doy, m, d)
  BY <1>2, <1>4, Zenon DEF IsMonthDay
<1> HIDE DEF m, d
<1>6. QED
  BY <1>1, <1>2, <1>5, Zenon

-----------------------------------------------------------------------------
(* Dates and day numbers are in a one to one correspondence.               *)

\* No division of civil_from_days truncates a negative number.
LEMMA QuotYear ==
    ASSUME NEW doe \in Int, IsEraDay(doe)
    PROVE  Quot(doe - Quot(doe, 1460) + Quot(doe, 36524) - Quot(doe, 146096), 365)
              = YearOf(doe)
<1>0. 0 <= doe
  BY SMT DEF IsEraDay
<1>1. /\ Quot(doe, 1460) = doe \div 1460
      /\ Quot(doe, 36524) = doe \div 36524
      /\ Quot(doe, 146096) = doe \div 146096
  BY <1>0, SMT DEF Quot
<1> DEFINE a == doe - doe \div 1460 + doe \div 36524 - doe \div 146096
<1>2. a \in Int /\ a >= 0
  BY <1>0, SMT
<1> HIDE DEF a
<1>3. Quot(a, 365) = a \div 365
  BY <1>2, SMT DEF Quot
<1>4. YearOf(doe) = a \div 365
  BY SMT DEF YearOf, a
<1>5. QED
  BY <1>1, <1>3, <1>4, SMT DEF a

\* The era of a day is the one it lies in.
LEMMA InEra ==
    ASSUME NEW z \in Int, NEW e \in Int, NEW doe \in Int, IsEraDay(doe), IsInEra(z, e, doe)
    PROVE  EraOfDay(z) = e
<1>1. z \div 146097 = e
  BY SMT DEF IsEraDay, IsInEra
<1>2. EraOfDay(z) = z \div 146097
  BY EraFloors, SMT
<1>3. QED
  BY <1>1, <1>2, SMT

\* civil_from_days in closed form.
CivilRecord(e, k, m, doy) ==
    [year |-> IF m <= 2 THEN 400 * e + k + 1 ELSE 400 * e + k,
     month |-> m,
     day |-> doy - (153 * MarchMonth(m) + 2) \div 5 + 1]

\* What civil_from_days computes, given the parts of a day.
LEMMA CivilIs ==
    ASSUME NEW days \in Int, NEW e \in Int, NEW k \in YearsOfEra, NEW doy \in DaysOfYear,
           NEW m \in 1 .. 12, NEW doe \in Int,
           IsInEra(ToEpoch(days), e, doe), IsDayOf(doe, k, doy),
           IsInMonth(doy, m)
    PROVE  CivilFromDays(days) = CivilRecord(e, k, m, doy)
<1>0. IsEraDay(doe) /\ YearOf(doe) = k
  BY YearOfDay, Zenon
<1> DEFINE z == ToEpoch(days)
<1>1. z \in Int
  BY SMT DEF ToEpoch
<1>2. EraOfDay(z) = e
  BY <1>0, <1>1, InEra, Zenon
<1>3. Quot(doe - Quot(doe, 1460) + Quot(doe, 36524) - Quot(doe, 146096), 365) = k
  BY <1>0, QuotYear, SMT
<1>4. k \in 0 .. 399 /\ doy \in 0 .. 365
  BY SMT DEF YearsOfEra, DaysOfYear
<1>5. doe - (365 * k + Quot(k, 4) - Quot(k, 100)) = doy
  BY <1>4, SMT DEF Quot, IsDayOf, DaysBefore
<1>6. Quot(5 * doy + 2, 153) = MarchMonth(m)
  BY <1>4, SMT DEF Quot, IsInMonth
<1>7. z - e * 146097 = doe
  BY <1>1, SMT DEF IsInEra
<1>8. Quot(153 * MarchMonth(m) + 2, 5) = (153 * MarchMonth(m) + 2) \div 5
  BY SMT DEF Quot, MarchMonth
<1>9. (IF MarchMonth(m) < 10 THEN MarchMonth(m) + 3 ELSE MarchMonth(m) - 9) = m
  BY SMT DEF MarchMonth
<1>10. k + e * 400 = 400 * e + k
  BY <1>4, SMT
<1>11. z = days + 719468
  BY SMT DEF ToEpoch
<1> HIDE DEF z
<1>12. QED
  BY <1>2, <1>3, <1>5, <1>6, <1>7, <1>8, <1>9, <1>10, <1>11, SMT DEF CivilFromDays, CivilRecord

Dates == [year : Int, month : 1 .. 12, day : 1 .. 31]
IsDate(dat) == dat \in Dates /\ RealDate(dat)
DayNumber(dat) == DaysFromCivil(dat.year, dat.month, dat.day)

\* The day number of a day of a month, as an era and a day of it.
LEMMA DateInEra ==
    ASSUME NEW e \in Int, NEW k \in YearsOfEra, NEW m \in 1 .. 12, NEW d \in Int, NEW year \in Int,
           IsEraYear(MarchYear(year, m), e, k)
    PROVE  /\ DaysFromCivil(year, m, d) \in Int
           /\ IsInEra(ToEpoch(DaysFromCivil(year, m, d)), e, DaysBefore(k) + DayOfYear(m, d))
<1> DEFINE y == MarchYear(year, m)
           p == MarchDays(y)
           q == DayOfYear(m, d)
           r == DaysBefore(k)
<1>1. DaysFromCivil(year, m, d) = FromEpoch(p + q)
  BY DaysAre, Zenon
<1>2. y \in Int
  BY SMT DEF MarchYear
<1>3. IsInEra(p, e, r)
  BY <1>2, MarchInEra, Zenon
<1>4. p \in Int /\ q \in Int /\ r \in Int
  BY <1>2, SMT DEF MarchDays, DayOfYear, MarchMonth, DaysBefore, YearsOfEra
<1> HIDE DEF p, q, r
<1>5. FromEpoch(p + q) \in Int /\ IsInEra(ToEpoch(FromEpoch(p + q)), e, r + q)
  BY <1>3, <1>4, SMT DEF IsInEra, FromEpoch, ToEpoch
<1>6. QED
  BY <1>1, <1>5, Zenon DEF q, r

\* days_from_civil is undone by civil_from_days, on every date.
THEOREM CivilOfDate ==
    ASSUME NEW dat, IsDate(dat)
    PROVE  DayNumber(dat) \in Int /\ CivilFromDays(DayNumber(dat)) = dat
<1> DEFINE year == dat.year
           m == dat.month
           d == dat.day
<1>1. /\ year \in Int /\ m \in 1 .. 12 /\ d \in 1 .. 31 /\ d \in Int /\ d <= DaysInMonth(year, m)
      /\ dat = [year |-> year, month |-> m, day |-> d]
  BY SMT DEF IsDate, Dates, RealDate
<1>2. DayNumber(dat) = DaysFromCivil(year, m, d)
  BY DEF DayNumber
<1> HIDE DEF year, m, d
<1> DEFINE y == MarchYear(year, m)
<1>3. y \in Int
  BY <1>1, SMT DEF MarchYear
<1>4. PICK e \in Int, k \in YearsOfEra : IsEraYear(y, e, k)
  BY <1>3, ByEra, Zenon
<1> DEFINE doy == DayOfYear(m, d)
<1>5. /\ doy \in DaysOfYear
      /\ doy = 365 => m = 2 /\ IsLeapYear(year)
      /\ IsInMonth(doy, m)
  BY <1>1, MonthOfDay, Zenon
<1> DEFINE doe == DaysBefore(k) + doy
<1>6. DaysFromCivil(year, m, d) \in Int /\ IsInEra(ToEpoch(DaysFromCivil(year, m, d)), e, doe)
  BY <1>1, <1>4, DateInEra, Zenon
<1>7. doy = 365 => EndsWithLeapDay(k)
  <2>1. IsLeapYear(y + 1) <=> EndsWithLeapDay(k)
    BY <1>3, <1>4, MarchInEra, Zenon
  <2>2. m = 2 => year = y + 1
    BY <1>1, SMT DEF MarchYear
  <2>3. QED
    BY <1>5, <2>1, <2>2, Zenon
<1>8. doe \in Int /\ IsDayOf(doe, k, doy)
  <2>1. k \in 0 .. 399 /\ doy \in 0 .. 365
    BY <1>5, SMT DEF YearsOfEra, DaysOfYear
  <2> HIDE DEF doy
  <2>2. doe \in Int
    BY <2>1, SMT DEF DaysBefore
  <2>3. QED
    BY <1>7, <2>2, Zenon DEF IsDayOf
<1>9. CivilFromDays(DaysFromCivil(year, m, d)) = CivilRecord(e, k, m, doy)
  <2> HIDE DEF doe, doy
  <2>1. m \in 1 .. 12 /\ doy \in DaysOfYear /\ IsInMonth(doy, m)
    BY <1>1, <1>5
  <2>2. QED
    BY <2>1, <1>6, <1>8, CivilIs, SMT
<1>10. (IF m <= 2 THEN 400 * e + k + 1 ELSE 400 * e + k) = year
  <2>1. k \in 0 .. 399 /\ y = 400 * e + k
    BY <1>4, SMT DEF YearsOfEra, IsEraYear
  <2>2. QED
    BY <1>1, <2>1, SMT DEF MarchYear
<1>11. doy - (153 * MarchMonth(m) + 2) \div 5 + 1 = d
  BY <1>1, SMT DEF DayOfYear, MarchMonth
<1>12. CivilFromDays(DaysFromCivil(year, m, d)) = dat
  <2> HIDE DEF doy
  <2>1. QED
    BY <1>1, <1>9, <1>10, <1>11, SMT DEF CivilRecord
<1>13. QED
  BY <1>2, <1>6, <1>12, Zenon

\* civil_from_days gives a date of the calendar for every day, which
\* days_from_civil maps back to that day.
THEOREM DateOfDay ==
    ASSUME NEW day \in Int
    PROVE  IsDate(CivilFromDays(day)) /\ DayNumber(CivilFromDays(day)) = day
<1> DEFINE z == ToEpoch(day)
           e == z \div 146097
           doe == z - 146097 * e
<1>1. e \in Int /\ doe \in Int /\ IsEraDay(doe) /\ IsInEra(z, e, doe)
  BY SMT DEF IsEraDay, IsInEra, ToEpoch
<1> HIDE DEF e, doe
<1>2. PICK k \in YearsOfEra, doy \in DaysOfYear : IsDayOf(doe, k, doy)
  BY <1>1, DayHasYear, Zenon
<1>3. PICK m \in 1 .. 12, d \in 1 .. 31 : IsMonthDay(doy, m, d)
  BY DayHasMonth, Zenon
<1> DEFINE y == 400 * e + k
           year == IF m <= 2 THEN y + 1 ELSE y
<1>4. k \in 0 .. 399 /\ doy \in 0 .. 365
  BY SMT DEF YearsOfEra, DaysOfYear
<1>5. /\ y \in Int /\ year \in Int /\ IsEraYear(y, e, k)
      /\ MarchYear(year, m) = y /\ (m = 2 => year = y + 1)
  BY <1>1, <1>4, SMT DEF MarchYear, IsEraYear
<1> HIDE DEF y, year
<1>6. d <= DaysInMonth(year, m)
  <2>1. CASE doy = 365 /\ m = 2 /\ d = 29
    <3>1. EndsWithLeapDay(k)
      BY <1>2, <2>1, Zenon DEF IsDayOf
    <3>2. IsLeapYear(y + 1)
      BY <1>1, <1>5, <3>1, MarchInEra, Zenon
    <3>3. IsLeapYear(year)
      BY <1>5, <2>1, <3>2, Zenon
    <3>4. QED
      BY <2>1, <3>3, SMT DEF DaysInMonth
  <2>2. QED
    BY <1>3, <1>5, <2>1, Zenon DEF IsMonthDay
<1> DEFINE dat == [year |-> year, month |-> m, day |-> d]
<1>7. IsDate(dat)
  BY <1>5, <1>6, SMT DEF IsDate, Dates, RealDate
<1>8. DayNumber(dat) = DaysFromCivil(year, m, d)
  BY DEF DayNumber
<1> HIDE DEF dat
<1>9. d \in Int
  BY SMT
<1>10. /\ DaysFromCivil(year, m, d) \in Int
       /\ IsInEra(ToEpoch(DaysFromCivil(year, m, d)), e, DaysBefore(k) + DayOfYear(m, d))
  BY <1>1, <1>5, <1>9, DateInEra, Zenon
<1>11. doe = DaysBefore(k) + DayOfYear(m, d)
  BY <1>2, <1>3, Zenon DEF IsDayOf, IsMonthDay
<1>12. DaysFromCivil(year, m, d) = day
  <2>1. IsInEra(ToEpoch(DaysFromCivil(year, m, d)), e, doe)
    BY <1>10, <1>11, Zenon
  <2> DEFINE w == DaysFromCivil(year, m, d)
  <2> HIDE DEF w
  <2>2. QED
    BY <1>1, <1>10, <2>1, SMT DEF IsInEra, ToEpoch, w
<1>13. CivilFromDays(day) = dat
  BY <1>7, <1>8, <1>12, CivilOfDate, Zenon
<1>14. QED
  BY <1>7, <1>8, <1>12, <1>13, Zenon

-----------------------------------------------------------------------------
(* The walk: one day at a time, by the rules of the calendar.              *)

\* The leap years before a year, by inclusion and exclusion, are those of
\* the March years before it; a leap year adds one.
LEMMA LeapsAre ==
    ASSUME NEW y \in Int
    PROVE  /\ LeapsBefore(y) \in Int
           /\ MarchDays(y - 1) = 365 * (y - 1) + LeapsBefore(y) - 1
           /\ LeapsBefore(y + 1) = LeapsBefore(y) + (IF IsLeapYear(y) THEN 1 ELSE 0)
<1> DEFINE x == y - 1
<1>1. x \in Int /\ y = x + 1
  BY SMT
<1> HIDE DEF x
<1>2. PICK e \in Int, k \in YearsOfEra : IsEraYear(x, e, k)
  BY <1>1, ByEra, Zenon
<1>3. k \in 0 .. 399 /\ x = 400 * e + k
  BY <1>2, SMT DEF YearsOfEra, IsEraYear
<1>4. /\ x \div 400 = e /\ x \div 100 = 4 * e + k \div 100 /\ x \div 4 = 100 * e + k \div 4
      /\ (y + 399) \div 400 = e + 1 /\ (y + 99) \div 100 = 4 * e + k \div 100 + 1
      /\ (y + 3) \div 4 = 100 * e + k \div 4 + 1
      /\ (y + 1 + 399) \div 400 = e + (k + 1) \div 400 + 1
      /\ (y + 1 + 99) \div 100 = 4 * e + (k + 1) \div 100 + 1
      /\ (y + 1 + 3) \div 4 = 100 * e + (k + 1) \div 4 + 1
  BY <1>1, <1>3, SMT
<1>5. LeapsBefore(y) \in Int /\ MarchDays(x) = 365 * x + LeapsBefore(y) - 1
  BY <1>1, <1>3, <1>4, SMT DEF MarchDays, LeapsBefore
<1>6. IsLeapYear(y) <=> EndsWithLeapDay(k)
  BY <1>1, <1>2, MarchInEra, Zenon
<1>7. LeapsBefore(y + 1) = LeapsBefore(y) + (IF EndsWithLeapDay(k) THEN 1 ELSE 0)
  BY <1>3, <1>4, SMT DEF LeapsBefore, EndsWithLeapDay
<1>8. QED
  BY <1>5, <1>6, <1>7, SMT DEF x

\* The months of the walk are as long as those that parse accepts.
LEMMA LengthsAgree ==
    ASSUME NEW y \in Int, NEW m \in 1 .. 12
    PROVE  MonthLengths(y)[m] = DaysInMonth(y, m)
<1> DEFINE length == IF m = 2 THEN (IF IsLeapYear(y) THEN 29 ELSE 28)
                     ELSE IF m \in {4, 6, 9, 11} THEN 30 ELSE 31
<1>1. /\ LeapsBefore(y) \in Int
      /\ LeapsBefore(y + 1) = LeapsBefore(y) + (IF IsLeapYear(y) THEN 1 ELSE 0)
  BY LeapsAre, Zenon
<1>2. LeapsBefore(y + 1) > LeapsBefore(y) <=> IsLeapYear(y)
  BY <1>1, SMT
<1>3. MonthLengths(y)[m] = length
  BY <1>2, SMT DEF MonthLengths
<1>4. DaysInMonth(y, m) = length
  BY SMT DEF DaysInMonth
<1> HIDE DEF length
<1>5. QED
  BY <1>3, <1>4

\* The walks begin on the day they count from.
LEMMA NewYearIs == ASSUME NEW y \in Int PROVE DaysFromCivil(y, 1, 1) = NewYear(y)
<1> DEFINE p == MarchDays(y - 1)
           l == LeapsBefore(y)
<1>1. DaysFromCivil(y, 1, 1) = FromEpoch(MarchDays(MarchYear(y, 1)) + DayOfYear(1, 1))
  BY DaysAre, SMT
<1>2. MarchYear(y, 1) = y - 1 /\ DayOfYear(1, 1) = 306
  BY SMT DEF MarchYear, DayOfYear, MarchMonth
<1>3. l \in Int /\ p = 365 * (y - 1) + l - 1
  BY LeapsAre, SMT
<1>4. LeapsBefore(1970) = 478
  BY SMT DEF LeapsBefore
<1>5. DaysFromCivil(y, 1, 1) = FromEpoch(p + 306)
  BY <1>1, <1>2
<1> HIDE DEF p
<1>6. FromEpoch(p + 306) = 365 * (y - 1970) + l - 478
  BY <1>3, SMT DEF FromEpoch
<1> HIDE DEF l
<1>7. QED
  BY <1>4, <1>5, <1>6, SMT DEF NewYear, l

IsNextIn(dat, next) ==
    LET x == MarchDays(MarchYear(dat.year, dat.month)) + DayOfYear(dat.month, dat.day)
    IN  MarchDays(MarchYear(next.year, next.month)) + DayOfYear(next.month, next.day) = x + 1

\* The day after a date has the next day number.
LEMMA NextDayIs ==
    ASSUME IsDate(date)
    PROVE  IsDate(NextDay) /\ DayNumber(NextDay) = DayNumber(date) + 1
<1> DEFINE y == date.year
           m == date.month
           d == date.day
<1>1. /\ y \in Int /\ m \in 1 .. 12 /\ d \in 1 .. 31 /\ d <= DaysInMonth(y, m)
      /\ date = [year |-> y, month |-> m, day |-> d]
  BY SMT DEF IsDate, Dates, RealDate
<1>2. MonthLengths(y)[m] = DaysInMonth(y, m)
  BY <1>1, LengthsAgree, Zenon
<1>3. ASSUME NEW x PROVE [date EXCEPT !.day = x] = [year |-> y, month |-> m, day |-> x]
  BY SMT DEF IsDate, Dates
<1>4. NextDay = IF d < DaysInMonth(y, m) THEN [year |-> y, month |-> m, day |-> d + 1]
                ELSE IF m < 12 THEN [year |-> y, month |-> m + 1, day |-> 1]
                ELSE [year |-> y + 1, month |-> 1, day |-> 1]
  <2> DEFINE length == DaysInMonth(y, m)
             after == [date EXCEPT !.day = @ + 1]
             turned == [date EXCEPT !.month = m + 1]
             first == [turned EXCEPT !.day = 1]
  <2>1. NextDay = IF d < length THEN after ELSE IF m < 12 THEN first
                  ELSE [year |-> y + 1, month |-> 1, day |-> 1]
    BY <1>2, SMT DEF NextDay
  <2>2. after = [year |-> y, month |-> m, day |-> d + 1]
    BY <1>3, Zenon
  <2> DEFINE next == m + 1
  <2> HIDE DEF next
  <2>3. [date EXCEPT !.month = next] = [year |-> y, month |-> next, day |-> d]
    BY SMT DEF IsDate, Dates
  <2>4. turned = [year |-> y, month |-> next, day |-> d]
    BY <2>3 DEF next
  <2> HIDE DEF turned
  <2>5. first = [year |-> y, month |-> m + 1, day |-> 1]
    <3>1. turned \in [year : {y}, month : {next}, day : {d}]
      BY <2>4
    <3>2. first = [year |-> turned.year, month |-> turned.month, day |-> 1]
      BY <3>1, SMT
    <3>3. QED
      BY <2>4, <3>2, SMT DEF next
  <2> HIDE DEF after, first, length
  <2>6. QED
    BY <2>1, <2>2, <2>5 DEF length
<1> HIDE DEF y, m, d
<1>5. IsDate(NextDay) /\ IsNextIn(date, NextDay)
  <2>1. CASE d < DaysInMonth(y, m)
    <3>1. NextDay = [year |-> y, month |-> m, day |-> d + 1]
      BY <1>1, <1>4, <2>1, SMT
    <3>2. IsDate(NextDay)
      BY <1>1, <2>1, <3>1, SMT DEF IsDate, Dates, RealDate, DaysInMonth
    <3>3. DayOfYear(m, d + 1) = DayOfYear(m, d) + 1
      BY <1>1, SMT DEF DayOfYear, MarchMonth
    <3>4. MarchDays(MarchYear(y, m)) \in Int /\ DayOfYear(m, d) \in Int
      BY <1>1, SMT DEF MarchDays, MarchYear, DayOfYear, MarchMonth
    <3>5. MarchDays(MarchYear(y, m)) + DayOfYear(m, d + 1)
             = MarchDays(MarchYear(y, m)) + DayOfYear(m, d) + 1
      BY <3>3, <3>4, SMT
    <3>6. QED
      BY <1>1, <3>1, <3>2, <3>5 DEF IsNextIn
  <2>2. CASE d = DaysInMonth(y, m) /\ m < 12
    <3>1. NextDay = [year |-> y, month |-> m + 1, day |-> 1]
      BY <1>1, <1>4, <2>2, SMT
    <3>2. IsDate(NextDay)
      BY <1>1, <2>2, <3>1, SMT DEF IsDate, Dates, RealDate, DaysInMonth
    <3> DEFINE p == MarchDays(y - 1)
               q == MarchDays(y)
    <3>3. p \in Int /\ q \in Int /\ q = p + (IF IsLeapYear(y) THEN 366 ELSE 365)
      <4>1. /\ LeapsBefore(y) \in Int
            /\ p = 365 * (y - 1) + LeapsBefore(y) - 1
            /\ LeapsBefore(y + 1) = LeapsBefore(y) + (IF IsLeapYear(y) THEN 1 ELSE 0)
        BY <1>1, LeapsAre, Zenon
      <4>2. q = 365 * y + LeapsBefore(y + 1) - 1
        <5>1. y + 1 \in Int /\ (y + 1) - 1 = y
          BY <1>1, SMT
        <5>2. MarchDays((y + 1) - 1) = 365 * ((y + 1) - 1) + LeapsBefore(y + 1) - 1
          BY <5>1, LeapsAre, Zenon
        <5>3. QED
          BY <5>1, <5>2, Zenon
      <4> HIDE DEF p, q
      <4>3. QED
        BY <1>1, <4>1, <4>2, SMT
    <3> HIDE DEF p, q
    <3>4. MarchDays(MarchYear(y, m + 1)) + DayOfYear(m + 1, 1)
             = MarchDays(MarchYear(y, m)) + DayOfYear(m, d) + 1
      <4>1. CASE m = 2
        <5>1. MarchYear(y, m + 1) = y /\ MarchYear(y, m) = y - 1
          BY <1>1, <4>1, SMT DEF MarchYear
        <5>2. DayOfYear(m + 1, 1) = 0 /\ DayOfYear(m, d) = IF IsLeapYear(y) THEN 365 ELSE 364
          BY <1>1, <2>2, <4>1, SMT DEF DayOfYear, MarchMonth, DaysInMonth
        <5>3. q + 0 = p + (IF IsLeapYear(y) THEN 365 ELSE 364) + 1
          BY <3>3, SMT
        <5>4. QED
          BY <5>1, <5>2, <5>3, SMT DEF p, q
      <4>2. CASE m # 2
        <5>1. MarchYear(y, m + 1) = MarchYear(y, m)
          BY <1>1, <4>2, SMT DEF MarchYear
        <5>2. DayOfYear(m, d) \in Int /\ DayOfYear(m + 1, 1) = DayOfYear(m, d) + 1
          BY <1>1, <2>2, <4>2, SMT DEF DayOfYear, MarchMonth, DaysInMonth
        <5>3. MarchDays(MarchYear(y, m)) \in Int
          BY <1>1, SMT DEF MarchDays, MarchYear
        <5>4. QED
          BY <5>1, <5>2, <5>3, SMT
      <4>3. QED
        BY <4>1, <4>2
    <3>5. QED
      BY <1>1, <3>1, <3>2, <3>4 DEF IsNextIn
  <2>3. CASE d = DaysInMonth(y, m) /\ m = 12
    <3>1. NextDay = [year |-> y + 1, month |-> 1, day |-> 1]
      BY <1>1, <1>4, <2>3, SMT
    <3>2. IsDate(NextDay)
      BY <1>1, <3>1, SMT DEF IsDate, Dates, RealDate, DaysInMonth
    <3>3. MarchYear(y + 1, 1) = y /\ MarchYear(y, m) = y
      BY <1>1, <2>3, SMT DEF MarchYear
    <3>4. DayOfYear(1, 1) = 306 /\ DayOfYear(m, d) = 305
      BY <1>1, <2>3, SMT DEF DayOfYear, MarchMonth, DaysInMonth
    <3>5. MarchDays(y) \in Int
      BY <1>1, SMT DEF MarchDays
    <3>6. MarchDays(y) + 306 = MarchDays(y) + 305 + 1
      BY <3>5, SMT
    <3>7. QED
      BY <1>1, <3>1, <3>2, <3>3, <3>4, <3>6 DEF IsNextIn
  <2>4. d < DaysInMonth(y, m) \/ (d = DaysInMonth(y, m) /\ m < 12)
           \/ (d = DaysInMonth(y, m) /\ m = 12)
    BY <1>1, SMT DEF DaysInMonth
  <2>5. QED
    BY <2>1, <2>2, <2>3, <2>4, Zenon
<1>6. ASSUME NEW dat, IsDate(dat)
      PROVE  /\ MarchDays(MarchYear(dat.year, dat.month)) + DayOfYear(dat.month, dat.day) \in Int
             /\ DayNumber(dat) = FromEpoch(MarchDays(MarchYear(dat.year, dat.month))
                                           + DayOfYear(dat.month, dat.day))
  <2>1. dat.year \in Int /\ dat.month \in 1 .. 12 /\ dat.day \in Int
    BY <1>6, SMT DEF IsDate, Dates
  <2>2. MarchDays(MarchYear(dat.year, dat.month)) \in Int /\ DayOfYear(dat.month, dat.day) \in Int
    BY <2>1, SMT DEF MarchDays, MarchYear, DayOfYear, MarchMonth
  <2>3. DayNumber(dat) = FromEpoch(MarchDays(MarchYear(dat.year, dat.month))
                                   + DayOfYear(dat.month, dat.day))
    BY <2>1, DaysAre, Zenon DEF DayNumber
  <2>4. QED
    BY <2>2, <2>3, SMT
<1>7. ASSUME NEW x \in Int PROVE FromEpoch(x + 1) = FromEpoch(x) + 1
  BY SMT DEF FromEpoch
<1>8. QED
  <2> DEFINE a == MarchDays(MarchYear(date.year, date.month)) + DayOfYear(date.month, date.day)
             b == MarchDays(MarchYear(NextDay.year, NextDay.month))
                     + DayOfYear(NextDay.month, NextDay.day)
  <2>1. a \in Int /\ DayNumber(date) = FromEpoch(a)
    BY <1>6, Zenon
  <2>2. DayNumber(NextDay) = FromEpoch(b)
    BY <1>5, <1>6, Zenon
  <2>3. b = a + 1
    BY <1>5, Zenon DEF IsNextIn
  <2> HIDE DEF a, b
  <2>4. QED
    BY <1>5, <1>7, <2>1, <2>2, <2>3, Zenon

-----------------------------------------------------------------------------
(* The invariant of the walk.                                              *)

\* The date of the walk is one of the calendar, and n is its number.
DayInv == n \in Int /\ IsDate(date) /\ DayNumber(date) = n

\* The walk begins on a date with its number.
LEMMA DayInvInit == Init => DayInv
<1>1. SUFFICES ASSUME Init PROVE DayInv
  OBVIOUS
<1>2. PICK span \in Spans :
         date = [year |-> span[1], month |-> 1, day |-> 1] /\ n = NewYear(span[1])
  BY <1>1, Zenon DEF Init
<1> DEFINE y == span[1]
<1>3. y \in Int
  BY WalkAssumption, Zenon DEF WalkAssumption
<1> HIDE DEF y
<1>4. date = [year |-> y, month |-> 1, day |-> 1] /\ n = NewYear(y)
  BY <1>2, Zenon DEF y
<1>5. IsDate(date)
  BY <1>3, <1>4, SMT DEF IsDate, Dates, RealDate, DaysInMonth
<1>6. DayNumber(date) = NewYear(y)
  <2>1. DayNumber(date) = DaysFromCivil(y, 1, 1)
    BY <1>4 DEF DayNumber
  <2>2. QED
    BY <1>3, <2>1, NewYearIs, Zenon
<1>7. DayNumber(date) \in Int
  BY <1>5, CivilOfDate, Zenon
<1>8. QED
  BY <1>4, <1>5, <1>6, <1>7, Zenon DEF DayInv

\* A step of the walk leads to a date with its number.
LEMMA DayInvNext == DayInv /\ [Next]_vars => DayInv'
<1>1. SUFFICES ASSUME DayInv, [Next]_vars PROVE DayInv'
  OBVIOUS
<1>2. CASE Walk
  <2>1. IsDate(NextDay) /\ DayNumber(NextDay) = DayNumber(date) + 1
    BY <1>1, NextDayIs, Zenon DEF DayInv
  <2>2. date' = NextDay /\ n' = n + 1
    BY <1>2 DEF Walk
  <2>3. n + 1 \in Int
    BY <1>1, SMT DEF DayInv
  <2>4. IsDate(date') /\ DayNumber(date') = n' /\ n' \in Int
    BY <1>1, <2>1, <2>2, <2>3, Zenon DEF DayInv
  <2>5. QED
    BY <2>4, Zenon DEF DayInv, IsDate, DayNumber
<1>3. CASE UNCHANGED vars
  BY <1>1, <1>3, Zenon DEF DayInv, vars, IsDate, DayNumber
<1>4. QED
  BY <1>1, <1>2, <1>3 DEF Next

\* The days are counted right on every walk, of any length and from any year.
THEOREM DayInvAlways == Spec => []DayInv
  BY DayInvInit, DayInvNext, PTL DEF Spec

-----------------------------------------------------------------------------
(* Instants and texts.                                                     *)

SecondsOfDay == 0 .. DaySeconds - 1
IsSecs(secs, q, t) == secs = DaySeconds * q + t

\* The seconds of a day, by their bounds.
LEMMA SecondIs ==
    ASSUME NEW t
    PROVE  t \in SecondsOfDay <=> t \in Int /\ 0 <= t /\ t < DaySeconds
<1>1. DaySeconds \in Int
  BY SMT DEF DaySeconds
<1>2. QED
  BY <1>1, SMT DEF SecondsOfDay

\* Rounded down, seconds are whole days and a time of day.
LEMMA SecsSplit ==
    ASSUME NEW secs \in Int
    PROVE  \E q \in Int, t \in SecondsOfDay : IsSecs(secs, q, t)
<1> DEFINE t == secs - DaySeconds * (secs \div DaySeconds)
<1>1. secs \div DaySeconds \in Int /\ t \in Int /\ 0 <= t /\ t < DaySeconds
  BY SMT DEF DaySeconds
<1>2. IsSecs(secs, secs \div DaySeconds, t)
  BY SMT DEF DaySeconds, IsSecs
<1> HIDE DEF t
<1>3. QED
  BY <1>1, <1>2, SecondIs, Zenon

\* The instant of seconds that are whole days and a time of day.
LEMMA InstantIs ==
    ASSUME NEW day \in Int, NEW secs \in Int, NEW q \in Int, NEW t \in SecondsOfDay,
           IsSecs(secs, q, t)
    PROVE  Instant(day, secs) = [day |-> day + q, sec |-> t]
<1>1. 0 <= t /\ t < 86400 /\ secs = 86400 * q + t /\ t \in Int
  BY SecondIs, SMT DEF IsSecs, DaySeconds
<1>2. secs \div 86400 = q /\ secs % 86400 = t
  BY <1>1, SMT
<1>3. QED
  BY <1>2 DEF Instant, DaySeconds

SecondsOf(time) == time.hour * 3600 + time.min * 60 + time.sec

\* Hour, minute and second are those of the second of the day.
LEMMA ClockIs ==
    ASSUME NEW t \in SecondsOfDay
    PROVE  /\ Clock(t) \in [hour : 0 .. 23, min : 0 .. 59, sec : 0 .. 59]
           /\ RealTime(Clock(t))
           /\ SecondsOf(Clock(t)) = t
<1> DEFINE h == t \div 3600
           r == t - 3600 * h
           mi == r \div 60
           sec == r - 60 * mi
<1>1. 0 <= t /\ t <= 86399 /\ t \in Int
  BY SecondIs, SMT DEF DaySeconds
<1>2. h \in 0 .. 23 /\ r \in Int /\ 0 <= r /\ r < 3600 /\ t % 3600 = r /\ t = 3600 * h + r
  BY <1>1, SMT
<1> HIDE DEF h, r
<1>3. mi \in 0 .. 59 /\ sec \in 0 .. 59 /\ r = 60 * mi + sec
  BY <1>2, SMT
<1>4. (t % 3600) \div 60 = mi
  BY <1>2
<1> HIDE DEF mi, sec
<1>5. t % 60 = sec
  BY <1>2, <1>3, SMT
<1>6. Clock(t) = [hour |-> h, min |-> mi, sec |-> sec]
  BY <1>4, <1>5 DEF Clock, h
<1>7. h * 3600 + mi * 60 + sec = t
  BY <1>2, <1>3, SMT
<1>8. SecondsOf(Clock(t)) = t
  BY <1>6, <1>7, SMT DEF SecondsOf
<1>9. QED
  BY <1>2, <1>3, <1>6, <1>8, SMT DEF RealTime

\* The years whose text has four digits are those that RFC 3339 can express.
LEMMA YearFits == \A year \in Int : FourDigits(year) <=> Expressible(year)
  BY SMT DEF FourDigits, Expressible

\* What parse makes of a displayed date and time with a zone.
LEMMA ParseDisplayed ==
    ASSUME NEW day \in Int, NEW t \in SecondsOfDay, NEW zone \in Int
    PROVE  Parse([date |-> CivilFromDays(day), time |-> Clock(t), zone |-> zone]) =
              IF Expressible(CivilFromDays(day).year) THEN Shifted(day, t, zone) ELSE ParseError
<1> DEFINE dat == CivilFromDays(day)
           text == [date |-> dat, time |-> Clock(t), zone |-> zone]
<1>1. IsDate(dat) /\ DayNumber(dat) = day
  BY DateOfDay, Zenon
<1>2. dat.year \in Int /\ RealDate(dat)
  BY <1>1, SMT DEF IsDate, Dates
<1>3. FourDigits(dat.year) <=> Expressible(dat.year)
  BY <1>2, YearFits, Zenon
<1>4. Clock(t) # None /\ zone # None /\ zone # ParseError
  BY ClockIs, TimestampAssumption, Zenon DEF TimestampAssumption
<1>5. RealTime(Clock(t)) /\ SecondsOf(Clock(t)) = t
  BY ClockIs, Zenon
<1> HIDE DEF dat
<1>6. text.date = dat /\ text.time = Clock(t) /\ text.zone = zone
  BY SMT
<1> DEFINE s == SecondsOf(Clock(t))
<1> HIDE DEF text
<1>7. Parse(text) =
         IF FourDigits(dat.year) /\ RealDate(dat) /\ RealTime(Clock(t))
         THEN Shifted(DaysFromCivil(dat.year, dat.month, dat.day), s, zone)
         ELSE ParseError
  BY <1>4, <1>6, SMT DEF Parse, SecondsOf
<1> HIDE DEF s
<1>8. s = t
  BY <1>5 DEF s
<1>9. Parse(text) = IF Expressible(dat.year) THEN Shifted(day, t, zone) ELSE ParseError
  BY <1>1, <1>2, <1>3, <1>5, <1>7, <1>8 DEF DayNumber
<1>10. QED
  BY <1>9 DEF dat, text

-----------------------------------------------------------------------------
(* The properties of the walk.                                             *)

\* Both conversions agree with the calendar on every day.
THEOREM CalendarAlwaysRight == Spec => []CalendarRight
<1>1. DayInv => CalendarRight
  BY CivilOfDate, Zenon DEF DayInv, CalendarRight, DayNumber
<1>2. QED
  BY <1>1, DayInvAlways, PTL

\* The times of day that are tried are seconds of a day.
LEMMA TimesFit == ASSUME NEW t \in Times PROVE t \in SecondsOfDay /\ t \in Int
<1>1. t \in SecondsOfDay
  BY WalkAssumption, Zenon DEF WalkAssumption, SecondsOfDay
<1>2. QED
  BY <1>1, SecondIs, Zenon

\* Whatever is displayed parses to the same instant, if its year has four
\* digits, and not at all otherwise.
THEOREM RoundTripAlways == Spec => []RoundTrip
<1>1. ASSUME DayInv, NEW t \in Times
      PROVE  Parse(Display(Instant(n, t))) =
                IF Expressible(date.year) THEN Instant(n, t) ELSE ParseError
  <2>1. t \in SecondsOfDay /\ t \in Int /\ n \in Int
    BY <1>1, TimesFit, Zenon DEF DayInv
  <2>2. CivilFromDays(n) = date
    BY <1>1, CivilOfDate, Zenon DEF DayInv
  <2>3. Instant(n, t) = [day |-> n + 0, sec |-> t]
    <3>1. IsSecs(t, 0, t)
      BY <2>1, SMT DEF IsSecs, DaySeconds
    <3>2. QED
      BY <2>1, <3>1, InstantIs, SMT
  <2>4. Display(Instant(n, t)) = [date |-> CivilFromDays(n), time |-> Clock(t), zone |-> 0]
    BY <2>1, <2>3, SMT DEF Display
  <2>5. Parse(Display(Instant(n, t))) =
           IF Expressible(CivilFromDays(n).year) THEN Shifted(n, t, 0) ELSE ParseError
    BY <2>1, <2>4, ParseDisplayed, SMT
  <2>6. Shifted(n, t, 0) = Instant(n, t)
    <3>1. t - 0 = t
      BY <2>1, SMT
    <3>2. QED
      BY <3>1, Zenon DEF Shifted
  <2>7. QED
    BY <2>2, <2>5, <2>6, Zenon
<1>2. DayInv => RoundTrip
  BY <1>1, Zenon DEF RoundTrip
<1>3. QED
  BY <1>2, DayInvAlways, PTL

\* A local time with its zone is the instant it stands for, for every zone.
THEOREM ZonesAlwaysRight == Spec => []ZonesRight
<1>1. ASSUME DayInv, NEW t \in Times, NEW z \in Zones
      PROVE  LET local == [Display(Instant(n, t + z)) EXCEPT !.zone = z]
             IN  Expressible(local.date.year) => Parse(local) = Instant(n, t)
  <2>1. t \in SecondsOfDay /\ t \in Int /\ n \in Int /\ z \in Int
    BY <1>1, TimesFit, WalkAssumption, Zenon DEF DayInv, WalkAssumption
  <2>2. PICK q \in Int, s \in SecondsOfDay : IsSecs(t + z, q, s)
    <3>1. t + z \in Int
      BY <2>1, SMT
    <3>2. QED
      BY <3>1, SecsSplit, Zenon
  <2> DEFINE D == n + q
             local == [date |-> CivilFromDays(D), time |-> Clock(s), zone |-> z]
  <2>3. D \in Int /\ s \in Int /\ t + z \in Int
    BY <2>1, SecondIs, SMT
  <2>4. Instant(n, t + z) = [day |-> D, sec |-> s]
    BY <2>1, <2>2, <2>3, InstantIs, SMT
  <2> HIDE DEF D
  <2>5. [Display(Instant(n, t + z)) EXCEPT !.zone = z] = local
    BY <2>4, SMT DEF Display
  <2>6. Parse(local) =
           IF Expressible(CivilFromDays(D).year) THEN Shifted(D, s, z) ELSE ParseError
    BY <2>1, <2>3, ParseDisplayed, Zenon
  <2>7. Shifted(D, s, z) = Instant(n, t)
    <3>1. IsSecs(s - z, -q, t)
      BY <2>1, <2>2, <2>3, SMT DEF IsSecs, DaySeconds
    <3>2. IsSecs(t, 0, t)
      BY <2>1, SMT DEF IsSecs, DaySeconds
    <3>3. s - z \in Int /\ -q \in Int /\ D + (-q) = n /\ n + 0 = n /\ 0 \in Int
      BY <2>1, <2>3, SMT DEF D
    <3>4. Instant(D, s - z) = [day |-> D + (-q), sec |-> t]
      BY <2>1, <2>3, <3>1, <3>3, InstantIs, SMT
    <3>5. Instant(n, t) = [day |-> n + 0, sec |-> t]
      BY <2>1, <3>2, <3>3, InstantIs, SMT
    <3>6. QED
      BY <3>3, <3>4, <3>5, Zenon DEF Shifted
  <2>8. local.date = CivilFromDays(D)
    BY SMT
  <2> HIDE DEF local
  <2>9. QED
    BY <2>5, <2>6, <2>7, <2>8, Zenon
<1>2. DayInv => ZonesRight
  BY <1>1, Zenon DEF ZonesRight
<1>3. QED
  BY <1>2, DayInvAlways, PTL

\* No day that a month lacks is parsed, and every day it has is.
THEOREM OnlyRealDatesAlways == Spec => []OnlyRealDates
<1>1. ASSUME DayInv, NEW d \in 0 .. 32
      PROVE  LET text == [date |-> [date EXCEPT !.day = d], time |-> None, zone |-> None]
             IN  Expressible(date.year) =>
                    (Parse(text) # ParseError <=> d \in 1 .. MonthLengths(date.year)[date.month])
  <2> DEFINE y == date.year
             m == date.month
             dat == [year |-> y, month |-> m, day |-> d]
             text == [date |-> dat, time |-> None, zone |-> None]
             days == DaysFromCivil(y, m, d)
  <2>1. y \in Int /\ m \in 1 .. 12
    BY <1>1, SMT DEF DayInv, IsDate, Dates
  <2>2. [date EXCEPT !.day = d] = dat
    BY <1>1, SMT DEF DayInv, IsDate, Dates
  <2>3. MonthLengths(y)[m] = DaysInMonth(y, m)
    BY <2>1, LengthsAgree, Zenon
  <2>4. FourDigits(y) <=> Expressible(y)
    BY <2>1, YearFits, Zenon
  <2>5. RealTime(Midnight) /\ SecondsOf(Midnight) = 0
    BY SMT DEF RealTime, Midnight, SecondsOf
  <2> HIDE DEF y, m
  <2>6. RealDate(dat) <=> d \in 1 .. DaysInMonth(y, m)
    BY <2>1, SMT DEF RealDate
  <2>7. days \in Int
    <3>1. days = FromEpoch(MarchDays(MarchYear(y, m)) + DayOfYear(m, d))
      BY <2>1, DaysAre, SMT
    <3>2. MarchDays(MarchYear(y, m)) + DayOfYear(m, d) \in Int
      BY <2>1, SMT DEF MarchDays, MarchYear, DayOfYear, MarchMonth
    <3> DEFINE x == MarchDays(MarchYear(y, m)) + DayOfYear(m, d)
    <3> HIDE DEF x
    <3>3. FromEpoch(x) \in Int
      BY <3>2, SMT DEF FromEpoch, x
    <3>4. QED
      BY <3>1, <3>3 DEF x
  <2>8. Parse(text) = IF FourDigits(y) /\ RealDate(dat) /\ RealTime(Midnight)
                      THEN Shifted(days, 0, 0) ELSE ParseError
    <3>1. 0 \in Int
      OBVIOUS
    <3>2. 0 # ParseError
      BY <3>1, TimestampAssumption, Zenon DEF TimestampAssumption
    <3>3. QED
      BY <2>5, <3>2, SMT DEF Parse, SecondsOf
  <2>9. Shifted(days, 0, 0) # ParseError
    <3>1. Instant(days, 0) = [day |-> days + 0, sec |-> 0]
      <4>1. IsSecs(0, 0, 0) /\ 0 \in SecondsOfDay
        BY SMT DEF IsSecs, DaySeconds, SecondsOfDay
      <4>2. QED
        BY <2>7, <4>1, InstantIs, SMT
    <3>2. 0 \in SecondsOfDay
      BY SMT DEF DaySeconds, SecondsOfDay
    <3> HIDE DEF days
    <3>3. Shifted(days, 0, 0) \in [day : Int, sec : SecondsOfDay]
      BY <2>7, <3>1, <3>2, SMT DEF Shifted
    <3>4. QED
      BY <3>3, TimestampAssumption, Zenon DEF TimestampAssumption, SecondsOfDay
  <2>10. Expressible(y) => (Parse(text) # ParseError <=> d \in 1 .. MonthLengths(y)[m])
    <3> HIDE DEF dat, text, days
    <3>1. QED
      BY <2>3, <2>4, <2>5, <2>6, <2>8, <2>9, Zenon
  <2>11. QED
    BY <2>2, <2>10, Zenon DEF y, m
<1>2. DayInv => OnlyRealDates
  BY <1>1, Zenon DEF OnlyRealDates
<1>3. QED
  BY <1>2, DayInvAlways, PTL

=============================================================================
