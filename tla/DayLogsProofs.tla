---------------------------- MODULE DayLogsProofs ----------------------------
(***************************************************************************)
(* What lives in folders.  First the log folders, for any number of runs,  *)
(* any window and any clock: what is filed where, what retention may take, *)
(* and the date arithmetic that decides it.  Then the test scratches, for  *)
(* any number of runs, names, pids and pid namespaces: what a sweep may    *)
(* remove beside whatever the others do, and what it must.  The leaves of  *)
(* the calendar name the SMT prover: the other one writes a number as that *)
(* many successors, which day counts are too large for.                    *)
(***************************************************************************)
EXTENDS DayLogs, ScratchSweep, TLAPS

-----------------------------------------------------------------------------
(* The calendar. *)

\* q is what n divided by k leaves whole.
IsQuotient(q, n, k) == q \in Nat /\ k * q <= n /\ n < k * q + k

LEMMA Quotient ==
    ASSUME NEW n \in Nat
    PROVE  /\ IsQuotient(n \div 4, n, 4) /\ IsQuotient(n \div 100, n, 100)
           /\ IsQuotient(n \div 365, n, 365) /\ IsQuotient(n \div 1460, n, 1460)
           /\ IsQuotient(n \div 36524, n, 36524) /\ IsQuotient(n \div 146096, n, 146096)
           /\ IsQuotient(n \div 5, n, 5) /\ IsQuotient(n \div 153, n, 153)
BY SMT DEF IsQuotient

\* doe is a day of an era other than its last; a, b, y, q and h are the
\* quotients that day_and_clock takes of it.
Divided(doe, a, b, y, q, h) ==
    /\ doe \in Nat /\ doe <= 146095
    /\ a \in Nat /\ 1460 * a <= doe /\ doe < 1460 * a + 1460
    /\ b \in Nat /\ 36524 * b <= doe /\ doe < 36524 * b + 36524
    /\ y \in Nat /\ 365 * y <= doe - a + b /\ doe - a + b < 365 * y + 365
    /\ q \in Nat /\ 4 * q <= y /\ y < 4 * q + 4
    /\ h \in Nat /\ 100 * h <= y /\ y < 100 * h + 100

\* Then y is the year of the era that doe is in, and a year's 366th day is the
\* last of a leap year's.
Placed(doe, y, q, h) ==
    /\ y \in Nat /\ y <= 399
    /\ doe - (365 * y + q - h) \in Nat
    /\ doe - (365 * y + q - h) <= 365
    /\ doe - (365 * y + q - h) = 365 => y = 4 * q + 3 /\ y # 100 * h + 99

LEMMA CenturyOfTheYear ==
    ASSUME NEW doe, NEW a, NEW b, NEW y, NEW q, NEW h, Divided(doe, a, b, y, q, h)
    PROVE  h = b /\ b <= 3
BY SMT DEF Divided

LEMMA DayOfTheYear ==
    ASSUME NEW doe, NEW a, NEW y, NEW q, NEW h, Divided(doe, a, h, y, q, h), h <= 3
    PROVE  Placed(doe, y, q, h)
BY SMT DEF Divided, Placed

Leaps(y) == (y + 1) % 4 = 0 /\ ((y + 1) % 100 # 0 \/ (y + 1) % 400 = 0)

Yoe(doe) == (doe - doe \div 1460 + doe \div 36524 - doe \div 146096) \div 365
Doy(doe, y) == doe - (365 * y + y \div 4 - y \div 100)

LEMMA EndOfTheEra == Yoe(146096) = 399 /\ Doy(146096, 399) = 365 /\ Leaps(399)
<1>1. /\ 146096 \div 1460 = 100 /\ 146096 \div 36524 = 4 /\ 146096 \div 146096 = 1
      /\ (146096 - 100 + 4 - 1) \div 365 = 399
      /\ 399 \div 4 = 99 /\ 399 \div 100 = 3
      /\ 400 % 4 = 0 /\ 400 % 400 = 0
  BY SMT
<1> QED BY <1>1, SMT DEF Yoe, Doy, Leaps

LEMMA YearOfTheEra ==
    ASSUME NEW doe \in Nat, doe <= 146096, NEW y, y = Yoe(doe)
    PROVE  /\ y \in Nat /\ y <= 399 /\ Doy(doe, y) \in Nat /\ Doy(doe, y) <= 365
           /\ Doy(doe, y) = 365 => Leaps(y)
<1>1. CASE doe = 146096
  BY <1>1, EndOfTheEra, SMT
<1>2. CASE doe # 146096
  <2>1. doe <= 146095
    BY <1>2, SMT
  <2>2. PICK a : a = doe \div 1460
    BY SMT
  <2>3. PICK b : b = doe \div 36524
    BY SMT
  <2>4. PICK c : c = doe \div 146096
    BY SMT
  <2>5. IsQuotient(a, doe, 1460) /\ IsQuotient(b, doe, 36524) /\ IsQuotient(c, doe, 146096)
    BY <2>2, <2>3, <2>4, Quotient, SMT
  <2>6. c = 0
    BY <2>1, <2>5, SMT DEF IsQuotient
  <2>7. y = (doe - a + b) \div 365
    BY <2>2, <2>3, <2>4, <2>5, <2>6, SMT DEF Yoe, IsQuotient
  <2>8. doe - a + b \in Nat
    BY <2>5, SMT DEF IsQuotient
  <2>9. IsQuotient(y, doe - a + b, 365)
    BY <2>7, <2>8, Quotient, SMT
  <2>10. y \in Nat
    BY <2>9, SMT DEF IsQuotient
  <2>11. PICK q : q = y \div 4
    BY SMT
  <2>12. PICK h : h = y \div 100
    BY SMT
  <2>13. IsQuotient(q, y, 4) /\ IsQuotient(h, y, 100)
    BY <2>10, <2>11, <2>12, Quotient, SMT
  <2>14. Divided(doe, a, b, y, q, h)
    BY <2>1, <2>5, <2>9, <2>10, <2>13, SMT DEF IsQuotient, Divided
  <2>15. Placed(doe, y, q, h)
    <3>1. h = b /\ h <= 3
      BY <2>14, CenturyOfTheYear, SMT
    <3> QED BY <3>1, <2>14, DayOfTheYear, SMT
  <2>16. Doy(doe, y) = doe - (365 * y + q - h)
    BY <2>11, <2>12, SMT DEF Doy
  <2>17. ASSUME Doy(doe, y) = 365
         PROVE  Leaps(y)
    <3>1. y = 4 * q + 3 /\ y # 100 * h + 99 /\ q \in Nat /\ h \in Nat
      BY <2>17, <2>13, <2>15, <2>16, SMT DEF IsQuotient, Placed
    <3>2. (y + 1) % 4 = 0
      <4>1. y + 1 = 4 * (q + 1)
        BY <3>1, <2>10, SMT
      <4> QED BY <4>1, <3>1, SMT
    <3>3. (y + 1) % 100 # 0
      <4>1. 100 * h + 1 <= y + 1 /\ y + 1 <= 100 * h + 99
        BY <3>1, <2>10, <2>13, SMT DEF IsQuotient
      <4> QED BY <4>1, <3>1, <2>10, SMT
    <3> QED BY <3>2, <3>3, SMT DEF Leaps
  <2> QED BY <2>15, <2>16, <2>17, SMT DEF Placed
<1> QED BY <1>1, <1>2, SMT

Mp(doy) == (5 * doy + 2) \div 153
Before(mp) == (153 * mp + 2) \div 5

\* Month mp of the year from March holds day doy, and its length allows it.
InMonth(doy, mp) ==
    /\ mp \in Nat /\ mp <= 11 /\ Before(mp) \in Nat
    /\ doy - Before(mp) \in Nat /\ doy - Before(mp) <= 30
    /\ (mp = 1 \/ mp = 3 \/ mp = 6 \/ mp = 8) => doy - Before(mp) <= 29
    /\ mp = 11 => doy - Before(mp) <= 28
    /\ mp = 11 /\ doy - Before(mp) = 28 => doy = 365

LEMMA MonthOfTheYear ==
    ASSUME NEW doy \in Nat, doy <= 365, NEW mp, mp = Mp(doy)
    PROVE  InMonth(doy, mp)
<1>1. 5 * doy + 2 \in Nat
  BY SMT
<1>2. IsQuotient(mp, 5 * doy + 2, 153)
  BY <1>1, Quotient, SMT DEF Mp
<1>3. 153 * mp + 2 \in Nat
  BY <1>2, SMT DEF IsQuotient
<1>4. PICK e : e = Before(mp)
  BY SMT
<1>5. IsQuotient(e, 153 * mp + 2, 5)
  BY <1>3, <1>4, Quotient, SMT DEF Before
<1>6. /\ mp \in Nat /\ 153 * mp <= 5 * doy + 2 /\ 5 * doy + 2 < 153 * mp + 153
  BY <1>2, SMT DEF IsQuotient
<1>7. /\ e \in Nat /\ 5 * e <= 153 * mp + 2 /\ 153 * mp + 2 < 5 * e + 5
  BY <1>5, SMT DEF IsQuotient
<1>8. mp <= 11 /\ doy - e \in Nat /\ doy - e <= 30
  BY <1>6, <1>7, SMT
<1>9. /\ (mp = 1 \/ mp = 3 \/ mp = 6 \/ mp = 8) => doy - e <= 29
      /\ mp = 11 => doy - e <= 28
      /\ mp = 11 /\ doy - e = 28 => doy = 365
  BY <1>6, <1>7, SMT
<1> QED BY <1>4, <1>6, <1>7, <1>8, <1>9, SMT DEF InMonth

Months(mp) == IF mp < 10 THEN mp + 3 ELSE mp - 9

Written(era, yoe, doy, mp) ==
    << yoe + 400 * era + (IF Months(mp) <= 2 THEN 1 ELSE 0), Months(mp), doy - Before(mp) + 1 >>

\* The parts of day n: its era, the year of the era, the day of the year, the month.
Parts(n, era, yoe, doy, mp) ==
    /\ era \in Nat
    /\ yoe \in Nat /\ yoe <= 399
    /\ doy \in Nat /\ doy <= 365
    /\ n + 719468 = 146097 * era + 365 * yoe + yoe \div 4 - yoe \div 100 + doy
    /\ doy = 365 => Leaps(yoe)

LEMMA DateOfTheDay ==
    ASSUME NEW n \in Nat
    PROVE  \E era, yoe, doy, mp : /\ Parts(n, era, yoe, doy, mp) /\ mp = Mp(doy)
                                  /\ Civil(n) = Written(era, yoe, doy, mp)
<1>1. PICK era : era = (n + 719468) \div 146097
  BY SMT
<1>2. PICK doe : doe = (n + 719468) % 146097
  BY SMT
<1>3. /\ era \in Nat /\ doe \in Nat /\ doe <= 146096
      /\ n + 719468 = 146097 * era + doe
  BY <1>1, <1>2, SMT
<1>4. PICK yoe : yoe = Yoe(doe)
  BY SMT
<1>5. /\ yoe \in Nat /\ yoe <= 399 /\ Doy(doe, yoe) \in Nat /\ Doy(doe, yoe) <= 365
      /\ Doy(doe, yoe) = 365 => Leaps(yoe)
  BY <1>3, <1>4, YearOfTheEra, SMT
<1>6. PICK doy : doy = Doy(doe, yoe)
  BY SMT
<1>7. PICK mp : mp = Mp(doy)
  BY SMT
<1>8. n + 719468 = 146097 * era + 365 * yoe + yoe \div 4 - yoe \div 100 + doy
  <2>1. yoe \div 4 \in Nat /\ yoe \div 100 \in Nat
    BY <1>5, Quotient, SMT DEF IsQuotient
  <2>2. doy = doe - (365 * yoe + yoe \div 4 - yoe \div 100)
    BY <1>6, SMT DEF Doy
  <2> QED BY <1>3, <1>5, <2>1, <2>2, SMT
<1>9. Parts(n, era, yoe, doy, mp)
  BY <1>3, <1>5, <1>6, <1>8, SMT DEF Parts
<1>10. Civil(n) = Written((n + 719468) \div 146097, Yoe((n + 719468) % 146097),
                    Doy((n + 719468) % 146097, Yoe((n + 719468) % 146097)),
                    Mp(Doy((n + 719468) % 146097, Yoe((n + 719468) % 146097))))
  BY SMT DEF Civil, Written, Months, Yoe, Doy, Mp, Before
<1>11. Civil(n) = Written(era, yoe, doy, mp)
  BY <1>1, <1>2, <1>4, <1>6, <1>7, <1>10, SMT
<1> QED BY <1>7, <1>9, <1>11, SMT

Started(era, yoe, mp, d) ==
    era * 146097 + (yoe * 365 + yoe \div 4 - yoe \div 100 + (Before(mp) + d - 1)) - 719468

LEMMA Shift ==
    ASSUME NEW x \in Nat, NEW k \in Nat
    PROVE  /\ (x + 400 * k) % 4 = x % 4 /\ (x + 400 * k) % 100 = x % 100
           /\ (x + 400 * k) % 400 = x % 400 /\ (x + 400 * k) \in Nat
<1>1. (x + 400 * k) % 4 = x % 4
  BY SMT
<1>2. (x + 400 * k) % 100 = x % 100
  BY SMT
<1>3. (x + 400 * k) % 400 = x % 400
  BY SMT
<1> QED BY <1>1, <1>2, <1>3, SMT

LEMMA RoundTrip ==
    ASSUME NEW n \in Nat
    PROVE  DayOfFolder(Civil(n)) = n /\ IsDate(Civil(n))
<1>1. PICK era, yoe, doy, mp : /\ Parts(n, era, yoe, doy, mp) /\ mp = Mp(doy)
                               /\ Civil(n) = Written(era, yoe, doy, mp)
  BY DateOfTheDay, SMT
<1>2. /\ era \in Nat /\ yoe \in Nat /\ yoe <= 399 /\ doy \in Nat /\ doy <= 365
      /\ doy = 365 => Leaps(yoe)
  BY <1>1, SMT DEF Parts
<1>3. InMonth(doy, mp)
  BY <1>1, <1>2, MonthOfTheYear, SMT
<1>4. PICK m : m = Months(mp)
  BY SMT
<1>5. PICK y : y = yoe + 400 * era + (IF m <= 2 THEN 1 ELSE 0)
  BY SMT
<1>6. PICK d : d = doy - Before(mp) + 1
  BY SMT
<1>7. /\ Len(Civil(n)) = 3 /\ Civil(n) = <<y, m, d>>
      /\ Civil(n)[1] = y /\ Civil(n)[2] = m /\ Civil(n)[3] = d
  BY <1>1, <1>4, <1>5, <1>6, SMT DEF Written
<1>8. m \in Nat /\ m >= 1 /\ m <= 12
  BY <1>3, <1>4, SMT DEF InMonth, Months
<1>9. d \in Nat /\ d >= 1 /\ d <= 31
  BY <1>3, <1>6, SMT DEF InMonth
<1>10. DayStart(y, m, d) = n
  <2>1. PICK w : w = (IF m <= 2 THEN y - 1 ELSE y)
    BY SMT
  <2>2. PICK k : k = (IF m > 2 THEN m - 3 ELSE m + 9)
    BY SMT
  <2>3. w = yoe + 400 * era
    BY <2>1, <1>2, <1>5, <1>8, SMT
  <2>4. k = mp
    BY <2>2, <1>3, <1>4, SMT DEF InMonth, Months
  <2>5. w \div 400 = era /\ w - era * 400 = yoe
    BY <2>3, <1>2, SMT
  <2>6. DayStart(y, m, d) = Started(era, yoe, mp, d)
    <3>1. DayStart(y, m, d) = Started(w \div 400, w - (w \div 400) * 400, k, d)
      BY <2>1, <2>2, SMT DEF DayStart, Started, Before
    <3>2. DayStart(y, m, d) = Started(era, w - era * 400, mp, d)
      BY <3>1, <2>4, <2>5, SMT
    <3> QED BY <3>2, <2>5, SMT
  <2>7. yoe \div 4 \in Nat /\ yoe \div 100 \in Nat
    BY <1>2, Quotient, SMT DEF IsQuotient
  <2>8. n + 719468 = 146097 * era + 365 * yoe + yoe \div 4 - yoe \div 100 + doy
    BY <1>1, SMT DEF Parts
  <2> QED BY <2>6, <2>7, <2>8, <1>2, <1>3, <1>6, SMT DEF InMonth, Started
<1>11. DayOfFolder(Civil(n)) = n
  BY <1>7, <1>10, SMT DEF DayOfFolder
<1>12. d <= MonthLength(y, m)
  <2>1. CASE m = 2 /\ d = 29
    <3>1. mp = 11 /\ doy - Before(mp) = 28
      BY <2>1, <1>3, <1>4, <1>6, SMT DEF InMonth, Months
    <3>2. Leaps(yoe)
      BY <3>1, <1>2, <1>3, SMT DEF InMonth
    <3>3. y = (yoe + 1) + 400 * era /\ yoe + 1 \in Nat
      BY <2>1, <1>2, <1>5, SMT
    <3>4. y % 4 = (yoe + 1) % 4 /\ y % 100 = (yoe + 1) % 100 /\ y % 400 = (yoe + 1) % 400
      BY <3>3, <1>2, Shift, SMT
    <3>5. Leap(y)
      BY <3>2, <3>4, SMT DEF Leaps, Leap
    <3> QED BY <2>1, <3>5, SMT DEF MonthLength
  <2>2. CASE ~(m = 2 /\ d = 29)
    <3>1. m = 2 => d <= 28
      BY <2>2, <1>3, <1>4, <1>6, SMT DEF InMonth, Months
    <3>2. m \in {4, 6, 9, 11} => d <= 30
      BY <1>3, <1>4, <1>6, SMT DEF InMonth, Months
    <3> QED BY <3>1, <3>2, <1>8, <1>9, SMT DEF MonthLength
  <2> QED BY <2>1, <2>2, SMT
<1>13. IsDate(Civil(n))
  BY <1>7, <1>8, <1>9, <1>12, SMT DEF IsDate
<1> QED BY <1>11, <1>13, SMT

\* The days before a year of an era, and how many days it has.
DaysBefore(era, yoe) == 146097 * era + 365 * yoe + yoe \div 4 - yoe \div 100
DaysOf(yoe) == IF Leaps(yoe) THEN 366 ELSE 365

\* A year begins where the one before it ends.
LEMMA YearAfter ==
    ASSUME NEW era \in Nat, NEW yoe \in Nat, yoe <= 399
    PROVE  /\ yoe < 399 => DaysBefore(era, yoe + 1) = DaysBefore(era, yoe) + DaysOf(yoe)
           /\ yoe = 399 => DaysBefore(era + 1, 0) = DaysBefore(era, yoe) + DaysOf(yoe)
           /\ DaysBefore(era, yoe) \in Nat
<1>1. PICK q : q = yoe \div 4
  BY SMT
<1>2. PICK h : h = yoe \div 100
  BY SMT
<1>3. PICK s : s = (yoe + 1) \div 4
  BY SMT
<1>4. PICK c : c = (yoe + 1) \div 100
  BY SMT
<1>5. /\ IsQuotient(q, yoe, 4) /\ IsQuotient(h, yoe, 100)
      /\ IsQuotient(s, yoe + 1, 4) /\ IsQuotient(c, yoe + 1, 100)
  BY <1>1, <1>2, <1>3, <1>4, Quotient, SMT
<1>6. /\ (yoe + 1) % 4 = yoe + 1 - 4 * s /\ (yoe + 1) % 100 = yoe + 1 - 100 * c
  BY <1>3, <1>4, <1>5, SMT DEF IsQuotient
<1>7. (yoe + 1) % 400 = 0 <=> yoe = 399
  BY SMT
<1>8. Leaps(yoe) <=> yoe + 1 = 4 * s /\ (yoe + 1 # 100 * c \/ yoe = 399)
  BY <1>5, <1>6, <1>7, SMT DEF Leaps, IsQuotient
<1>9. s = (IF yoe + 1 = 4 * s THEN q + 1 ELSE q) /\ c = (IF yoe + 1 = 100 * c THEN h + 1 ELSE h)
  BY <1>5, SMT DEF IsQuotient
<1>10. DaysBefore(era, yoe) = 146097 * era + 365 * yoe + q - h
  BY <1>1, <1>2, SMT DEF DaysBefore
<1>11. CASE yoe < 399
  <2>1. DaysBefore(era, yoe + 1) = 146097 * era + 365 * (yoe + 1) + s - c
    BY <1>3, <1>4, SMT DEF DaysBefore
  <2>2. yoe + 1 = 100 * c => yoe + 1 = 4 * s
    BY <1>5, SMT DEF IsQuotient
  <2>3. s - c = (IF Leaps(yoe) THEN q - h + 1 ELSE q - h)
    BY <1>5, <1>8, <1>9, <1>11, <2>2, SMT DEF IsQuotient
  <2>4. DaysBefore(era, yoe) \in Nat
    BY <1>5, <1>10, SMT DEF IsQuotient
  <2> QED BY <1>5, <1>10, <1>11, <2>1, <2>3, <2>4, SMT DEF DaysOf, IsQuotient
<1>12. CASE yoe = 399
  <2>1. q = 99 /\ h = 3
    BY <1>1, <1>2, <1>12, SMT
  <2>2. DaysBefore(era + 1, 0) = 146097 * (era + 1)
    <3>1. 0 \div 4 = 0 /\ 0 \div 100 = 0
      BY SMT
    <3> QED BY <3>1, SMT DEF DaysBefore
  <2>3. DaysOf(yoe) = 366
    BY <1>12, EndOfTheEra, SMT DEF DaysOf
  <2> QED BY <1>10, <1>12, <2>1, <2>2, <2>3, SMT
<1> QED BY <1>11, <1>12, SMT

LEMMA DaysBeforeAreCounted ==
    ASSUME NEW era \in Nat, NEW yoe \in Nat, yoe <= 399
    PROVE  DaysBefore(era, yoe) \in Nat
BY YearAfter, SMT

LEMMA YearsAreApart ==
    ASSUME NEW e1 \in Nat, NEW y1 \in Nat, y1 <= 399,
           NEW e2 \in Nat, NEW y2 \in Nat, y2 <= 399,
           e1 < e2 \/ (e1 = e2 /\ y1 < y2)
    PROVE  DaysBefore(e1, y1) + DaysOf(y1) <= DaysBefore(e2, y2)
<1>1. /\ y1 < 399 => DaysBefore(e1, y1 + 1) = DaysBefore(e1, y1) + DaysOf(y1)
      /\ y1 = 399 => DaysBefore(e1 + 1, 0) = DaysBefore(e1, y1) + DaysOf(y1)
  BY YearAfter, SMT
<1>2. ASSUME NEW e \in Nat, NEW y \in Nat, NEW z \in Nat, y <= z, z <= 399
      PROVE  DaysBefore(e, y) <= DaysBefore(e, z)
  <2>1. PICK q : q = y \div 4
    BY SMT
  <2>2. PICK h : h = y \div 100
    BY SMT
  <2>3. PICK s : s = z \div 4
    BY SMT
  <2>4. PICK c : c = z \div 100
    BY SMT
  <2>5. /\ IsQuotient(q, y, 4) /\ IsQuotient(h, y, 100)
        /\ IsQuotient(s, z, 4) /\ IsQuotient(c, z, 100)
    BY <1>2, <2>1, <2>2, <2>3, <2>4, Quotient, SMT
  <2>6. /\ DaysBefore(e, y) = 146097 * e + 365 * y + q - h
        /\ DaysBefore(e, z) = 146097 * e + 365 * z + s - c
    BY <2>1, <2>2, <2>3, <2>4, SMT DEF DaysBefore
  <2> QED BY <1>2, <2>5, <2>6, SMT DEF IsQuotient
<1>3. CASE e1 = e2 /\ y1 < y2
  BY <1>1, <1>2, <1>3, SMT
<1>4. CASE e1 < e2
  <2>1. DaysBefore(e1, y1) + DaysOf(y1) <= 146097 * (e1 + 1)
    <3>1. DaysBefore(e1, 399) <= 146097 * (e1 + 1) - 366
      <4>1. 399 \div 4 = 99 /\ 399 \div 100 = 3
        BY SMT
      <4> QED BY <4>1, SMT DEF DaysBefore
    <3>2. DaysOf(y1) <= 366 /\ DaysOf(y1) \in Nat
      BY SMT DEF DaysOf
    <3>3. DaysBefore(e1, y1) <= DaysBefore(e1, 399)
      BY <1>2, SMT
    <3>4. DaysBefore(e1, y1) \in Nat /\ DaysBefore(e1, 399) \in Nat
      <4>1. DaysBefore(e1, y1) \in Nat
        BY DaysBeforeAreCounted, SMT
      <4>2. DaysBefore(e1, 399) \in Nat
        BY DaysBeforeAreCounted, SMT
      <4> QED BY <4>1, <4>2, SMT
    <3> QED BY <3>1, <3>2, <3>3, <3>4, SMT
  <2>2. DaysBefore(e2, 0) <= DaysBefore(e2, y2)
    BY <1>2, SMT
  <2>3. DaysBefore(e2, 0) = 146097 * e2
    <3>1. 0 \div 4 = 0 /\ 0 \div 100 = 0
      BY SMT
    <3> QED BY <3>1, SMT DEF DaysBefore
  <2>4. DaysBefore(e1, y1) + DaysOf(y1) \in Nat /\ DaysBefore(e2, y2) \in Nat
    <3>1. DaysBefore(e1, y1) \in Nat
      BY DaysBeforeAreCounted, SMT
    <3>2. DaysBefore(e2, y2) \in Nat
      BY DaysBeforeAreCounted, SMT
    <3> QED BY <3>1, <3>2, SMT DEF DaysOf
  <2> QED BY <1>4, <2>1, <2>2, <2>3, <2>4, SMT
<1> QED BY <1>3, <1>4, SMT

\* In terms of its year, a day is the days before it and less than a year more.
LEMMA PartsOfTheYear ==
    ASSUME NEW n \in Nat, NEW era, NEW yoe, NEW doy, NEW mp, Parts(n, era, yoe, doy, mp)
    PROVE  /\ era \in Nat /\ yoe \in Nat /\ yoe <= 399 /\ doy \in Nat /\ doy < DaysOf(yoe)
           /\ n + 719468 = DaysBefore(era, yoe) + doy
           /\ DaysBefore(era, yoe) \in Nat
<1>1. /\ era \in Nat /\ yoe \in Nat /\ yoe <= 399 /\ doy \in Nat /\ doy <= 365
      /\ n + 719468 = 146097 * era + 365 * yoe + yoe \div 4 - yoe \div 100 + doy
      /\ doy = 365 => Leaps(yoe)
  BY SMT DEF Parts
<1>2. yoe \div 4 \in Nat /\ yoe \div 100 \in Nat
  BY <1>1, Quotient, SMT DEF IsQuotient
<1>3. DaysBefore(era, yoe) \in Nat
  BY <1>1, DaysBeforeAreCounted, SMT
<1>4. n + 719468 = DaysBefore(era, yoe) + doy
  BY <1>1, <1>2, SMT DEF DaysBefore
<1> QED BY <1>1, <1>3, <1>4, SMT DEF DaysOf

LEMMA PartsAreUnique ==
    ASSUME NEW n \in Nat,
           NEW e1, NEW y1, NEW d1, NEW m1, Parts(n, e1, y1, d1, m1),
           NEW e2, NEW y2, NEW d2, NEW m2, Parts(n, e2, y2, d2, m2)
    PROVE  e1 = e2 /\ y1 = y2 /\ d1 = d2
<1>1. /\ e1 \in Nat /\ y1 \in Nat /\ y1 <= 399 /\ d1 \in Nat /\ d1 < DaysOf(y1)
      /\ n + 719468 = DaysBefore(e1, y1) + d1 /\ DaysBefore(e1, y1) \in Nat
  BY PartsOfTheYear, SMT
<1>2. /\ e2 \in Nat /\ y2 \in Nat /\ y2 <= 399 /\ d2 \in Nat /\ d2 < DaysOf(y2)
      /\ n + 719468 = DaysBefore(e2, y2) + d2 /\ DaysBefore(e2, y2) \in Nat
  BY PartsOfTheYear, SMT
<1>3. DaysOf(y1) \in Nat /\ DaysOf(y2) \in Nat
  BY SMT DEF DaysOf
<1>4. ~(e1 < e2 \/ (e1 = e2 /\ y1 < y2))
  BY <1>1, <1>2, <1>3, YearsAreApart, SMT
<1>5. ~(e2 < e1 \/ (e2 = e1 /\ y2 < y1))
  BY <1>1, <1>2, <1>3, YearsAreApart, SMT
<1>6. e1 = e2 /\ y1 = y2
  BY <1>1, <1>2, <1>4, <1>5, SMT
<1> QED BY <1>1, <1>2, <1>6, SMT

LEMMA PartsOfTheNext ==
    ASSUME NEW n \in Nat, NEW era, NEW yoe, NEW doy, NEW mp, Parts(n, era, yoe, doy, mp)
    PROVE  /\ doy + 1 < DaysOf(yoe) => Parts(n + 1, era, yoe, doy + 1, mp)
           /\ doy + 1 = DaysOf(yoe) /\ yoe < 399 => Parts(n + 1, era, yoe + 1, 0, mp)
           /\ doy + 1 = DaysOf(yoe) /\ yoe = 399 => Parts(n + 1, era + 1, 0, 0, mp)
<1>1. /\ era \in Nat /\ yoe \in Nat /\ yoe <= 399 /\ doy \in Nat /\ doy < DaysOf(yoe)
      /\ n + 719468 = DaysBefore(era, yoe) + doy /\ DaysBefore(era, yoe) \in Nat
  BY PartsOfTheYear, SMT
<1>2. /\ yoe < 399 => DaysBefore(era, yoe + 1) = DaysBefore(era, yoe) + DaysOf(yoe)
      /\ yoe = 399 => DaysBefore(era + 1, 0) = DaysBefore(era, yoe) + DaysOf(yoe)
  BY <1>1, YearAfter, SMT
<1>3. ASSUME NEW e \in Nat, NEW y \in Nat, y <= 399, NEW d \in Nat, d < DaysOf(y),
             n + 1 + 719468 = DaysBefore(e, y) + d
      PROVE  Parts(n + 1, e, y, d, mp)
  <2>1. y \div 4 \in Nat /\ y \div 100 \in Nat
    BY <1>3, Quotient, SMT DEF IsQuotient
  <2>2. d <= 365 /\ (d = 365 => Leaps(y))
    BY <1>3, SMT DEF DaysOf
  <2> QED BY <1>3, <2>1, <2>2, SMT DEF Parts, DaysBefore
<1>4. \A y : DaysOf(y) \in Nat /\ 0 < DaysOf(y)
  BY SMT DEF DaysOf
<1>5. CASE doy + 1 < DaysOf(yoe)
  BY <1>1, <1>3, <1>5, SMT
<1>6. CASE doy + 1 = DaysOf(yoe) /\ yoe < 399
  <2>1. n + 1 + 719468 = DaysBefore(era, yoe + 1) + 0
    BY <1>1, <1>2, <1>6, SMT
  <2>2. yoe + 1 \in Nat /\ yoe + 1 <= 399 /\ doy + 1 # 0
    BY <1>1, <1>6, SMT
  <2>3. Parts(n + 1, era, yoe + 1, 0, mp)
    BY <1>1, <1>3, <1>4, <2>1, <2>2, SMT
  <2> QED BY <1>1, <1>4, <1>6, <2>3, SMT
<1>7. CASE doy + 1 = DaysOf(yoe) /\ yoe = 399
  <2>1. n + 1 + 719468 = DaysBefore(era + 1, 0) + 0
    BY <1>1, <1>2, <1>7, SMT
  <2>2. Parts(n + 1, era + 1, 0, 0, mp)
    BY <1>1, <1>3, <1>4, <2>1, SMT
  <2> QED BY <1>1, <1>4, <1>7, <2>2, SMT
<1> QED BY <1>1, <1>4, <1>5, <1>6, <1>7, SMT

\* The months from March on, but for the last.
LengthOf(mp) == IF mp \in {1, 3, 6, 8} THEN 30 ELSE 31

LEMMA MonthAfter ==
    ASSUME NEW mp \in Nat, mp <= 10
    PROVE  Before(mp + 1) = Before(mp) + LengthOf(mp) /\ Before(mp) \in Nat
<1>1. /\ Before(0) = 0 /\ Before(1) = 31 /\ Before(2) = 61 /\ Before(3) = 92
      /\ Before(4) = 122 /\ Before(5) = 153 /\ Before(6) = 184 /\ Before(7) = 214
      /\ Before(8) = 245 /\ Before(9) = 275 /\ Before(10) = 306 /\ Before(11) = 337
  BY SMT DEF Before
<1>2. \/ mp = 0 \/ mp = 1 \/ mp = 2 \/ mp = 3 \/ mp = 4 \/ mp = 5
      \/ mp = 6 \/ mp = 7 \/ mp = 8 \/ mp = 9 \/ mp = 10
  BY SMT
<1> QED BY <1>1, <1>2, SMT DEF LengthOf

\* From one day of a year to the next: the same month, or the first of the one
\* that follows.
LEMMA MonthsFollow ==
    ASSUME NEW doy \in Nat, doy <= 364, NEW mp, mp = Mp(doy), NEW nx, nx = Mp(doy + 1)
    PROVE  /\ mp \in Nat /\ mp <= 11 /\ doy - Before(mp) + 1 \in Nat
           /\ mp <= 10 => doy - Before(mp) + 1 <= LengthOf(mp)
           /\ mp <= 10 /\ doy - Before(mp) + 1 = LengthOf(mp)
                => nx = mp + 1 /\ Before(nx) = doy + 1
           /\ mp <= 10 /\ doy - Before(mp) + 1 # LengthOf(mp) => nx = mp
           /\ mp = 11 => nx = 11 /\ Before(mp) = 337
<1>1. InMonth(doy, mp)
  BY MonthOfTheYear, SMT
<1>2. InMonth(doy + 1, nx)
  <2>1. doy + 1 \in Nat /\ doy + 1 <= 365
    BY SMT
  <2> QED BY <2>1, MonthOfTheYear, SMT
<1>3. nx = mp \/ nx = mp + 1
  <2>1. 5 * doy + 2 \in Nat /\ 5 * (doy + 1) + 2 \in Nat
    BY SMT
  <2>2. IsQuotient(mp, 5 * doy + 2, 153)
    BY <2>1, Quotient, SMT DEF Mp
  <2>3. IsQuotient(nx, 5 * (doy + 1) + 2, 153)
    BY <2>1, Quotient, SMT DEF Mp
  <2>4. /\ mp \in Nat /\ 153 * mp <= 5 * doy + 2 /\ 5 * doy + 2 < 153 * mp + 153
        /\ nx \in Nat /\ 153 * nx <= 5 * doy + 7 /\ 5 * doy + 7 < 153 * nx + 153
    BY <2>2, <2>3, SMT DEF IsQuotient
  <2>5. nx >= mp /\ nx <= mp + 1
    BY <2>4, SMT
  <2>6. mp \in Nat /\ nx \in Nat
    BY <2>4, SMT
  <2>7. \A a, b \in Nat : b >= a /\ b <= a + 1 => b = a \/ b = a + 1
    BY SMT
  <2> QED BY <2>5, <2>6, <2>7, Zenon
<1>4. /\ mp \in Nat /\ mp <= 11 /\ nx <= 11 /\ Before(mp) \in Nat /\ Before(nx) \in Nat
      /\ doy - Before(mp) \in Nat /\ doy - Before(mp) <= 30
      /\ doy + 1 - Before(nx) \in Nat /\ doy + 1 - Before(nx) <= 30
      /\ (mp = 1 \/ mp = 3 \/ mp = 6 \/ mp = 8) => doy - Before(mp) <= 29
      /\ (nx = 1 \/ nx = 3 \/ nx = 6 \/ nx = 8) => doy + 1 - Before(nx) <= 29
  BY <1>1, <1>2, SMT DEF InMonth
<1>5. CASE mp = 11
  <2>1. Before(11) = 337
    BY SMT DEF Before
  <2> QED BY <1>3, <1>4, <1>5, <2>1, SMT
<1>6. CASE mp <= 10
  <2>1. Before(mp + 1) = Before(mp) + LengthOf(mp) /\ LengthOf(mp) \in {30, 31}
    BY <1>4, <1>6, MonthAfter, SMT DEF LengthOf
  <2>2. doy - Before(mp) + 1 <= LengthOf(mp)
    BY <1>4, SMT DEF LengthOf
  <2>3. nx = mp => doy - Before(mp) + 1 # LengthOf(mp)
    BY <1>4, SMT DEF LengthOf
  <2>4. nx = mp + 1 => doy - Before(mp) + 1 = LengthOf(mp) /\ Before(nx) = doy + 1
    BY <1>4, <2>1, <2>2, SMT
  <2> QED BY <1>3, <1>4, <1>6, <2>2, <2>3, <2>4, SMT
<1> QED BY <1>4, <1>5, <1>6, SMT

\* The year and month of a day as they are written, and how long the month is.
LEMMA WrittenMonth ==
    ASSUME NEW era \in Nat, NEW yoe \in Nat, NEW mp \in Nat, mp <= 11,
           NEW m, m = Months(mp),
           NEW y, y = yoe + 400 * era + (IF m <= 2 THEN 1 ELSE 0)
    PROVE  /\ m \in Nat /\ m >= 1 /\ m <= 12 /\ y \in Nat
           /\ mp <= 10 => MonthLength(y, m) = LengthOf(mp)
           /\ mp = 11 => MonthLength(y, m) = DaysOf(yoe) - 337
<1>1. m \in Nat /\ m >= 1 /\ m <= 12 /\ y \in Nat
  BY SMT DEF Months
<1>2. CASE mp <= 10
  <2>1. m # 2 /\ (m \in {4, 6, 9, 11} <=> mp \in {1, 3, 6, 8})
    BY <1>2, SMT DEF Months
  <2> QED BY <1>1, <1>2, <2>1, SMT DEF MonthLength, LengthOf
<1>3. CASE mp = 11
  <2>1. m = 2 /\ y = (yoe + 1) + 400 * era /\ yoe + 1 \in Nat
    BY <1>3, SMT DEF Months
  <2>2. y % 4 = (yoe + 1) % 4 /\ y % 100 = (yoe + 1) % 100 /\ y % 400 = (yoe + 1) % 400
    BY <2>1, Shift, SMT
  <2>3. (yoe + 1) % 400 = 0 => (yoe + 1) % 4 = 0
    BY SMT
  <2>4. Leap(y) <=> Leaps(yoe)
    BY <2>2, <2>3, SMT DEF Leap, Leaps
  <2>5. MonthLength(y, m) = IF Leaps(yoe) THEN 29 ELSE 28
    BY <2>1, <2>4, SMT DEF MonthLength
  <2> QED BY <1>1, <1>3, <2>5, SMT DEF DaysOf
<1> QED BY <1>1, <1>2, <1>3, SMT

\* Day after day the dates count as the calendar does.
LEMMA DayAfter ==
    ASSUME NEW n \in Nat
    PROVE  Civil(n + 1) = Tomorrow(Civil(n))
<1>1. PICK era, yoe, doy, mp : /\ Parts(n, era, yoe, doy, mp) /\ mp = Mp(doy)
                               /\ Civil(n) = Written(era, yoe, doy, mp)
  BY DateOfTheDay, SMT
<1>2. /\ era \in Nat /\ yoe \in Nat /\ yoe <= 399 /\ doy \in Nat /\ doy < DaysOf(yoe)
      /\ DaysOf(yoe) \in {365, 366}
  BY <1>1, PartsOfTheYear, SMT DEF DaysOf
<1>3. n + 1 \in Nat
  BY SMT
<1>4. PICK e, k, dd, nx : /\ Parts(n + 1, e, k, dd, nx) /\ nx = Mp(dd)
                          /\ Civil(n + 1) = Written(e, k, dd, nx)
  BY <1>3, DateOfTheDay, SMT
<1>5. PICK m : m = Months(mp)
  BY SMT
<1>6. PICK y : y = yoe + 400 * era + (IF m <= 2 THEN 1 ELSE 0)
  BY SMT
<1>7. PICK d : d = doy - Before(mp) + 1
  BY SMT
<1>8. /\ Civil(n) = <<y, m, d>>
      /\ Civil(n)[1] = y /\ Civil(n)[2] = m /\ Civil(n)[3] = d
  BY <1>1, <1>5, <1>6, <1>7, SMT DEF Written
<1>9. Tomorrow(Civil(n)) = IF d < MonthLength(y, m) THEN <<y, m, d + 1>>
                           ELSE IF m < 12 THEN <<y, m + 1, 1>> ELSE <<y + 1, 1, 1>>
  BY <1>8, SMT DEF Tomorrow
<1>10. InMonth(doy, mp)
  BY <1>1, <1>2, MonthOfTheYear, SMT
<1>11. mp \in Nat /\ mp <= 11
  BY <1>10, SMT DEF InMonth
<1>12. /\ m \in Nat /\ m >= 1 /\ m <= 12 /\ y \in Nat
       /\ mp <= 10 => MonthLength(y, m) = LengthOf(mp)
       /\ mp = 11 => MonthLength(y, m) = DaysOf(yoe) - 337
  BY <1>2, <1>5, <1>6, <1>11, WrittenMonth, SMT
<1>13. CASE doy + 1 < DaysOf(yoe)
  <2>1. Parts(n + 1, era, yoe, doy + 1, mp)
    BY <1>1, <1>13, PartsOfTheNext, SMT
  <2>2. e = era /\ k = yoe /\ dd = doy + 1
    BY <1>3, <1>4, <2>1, PartsAreUnique, SMT
  <2>3. doy <= 364 /\ nx = Mp(doy + 1)
    BY <1>2, <1>4, <1>13, <2>2, SMT
  <2>4. /\ mp <= 10 => d <= LengthOf(mp)
        /\ mp <= 10 /\ d = LengthOf(mp) => nx = mp + 1 /\ Before(nx) = doy + 1
        /\ mp <= 10 /\ d # LengthOf(mp) => nx = mp
        /\ mp = 11 => nx = 11 /\ Before(mp) = 337
        /\ d \in Nat
    BY <1>1, <1>2, <1>7, <2>3, MonthsFollow, SMT
  <2>8. PICK z : z = doy + 1
    BY SMT
  <2>5. Civil(n + 1) = << yoe + 400 * era + (IF Months(nx) <= 2 THEN 1 ELSE 0), Months(nx),
                          z - Before(nx) + 1 >>
    <3>1. Civil(n + 1) = Written(era, yoe, z, nx)
      BY <1>4, <2>2, <2>8, SMT
    <3> QED BY <3>1, SMT DEF Written
  <2>6. CASE nx = mp
    <3>1. d < MonthLength(y, m)
      BY <1>2, <1>7, <1>11, <1>12, <1>13, <2>4, <2>6, SMT DEF LengthOf
    <3>2. z - Before(nx) + 1 = d + 1
      BY <1>2, <1>7, <1>10, <2>6, <2>8, SMT DEF InMonth
    <3>3. Civil(n + 1) = <<y, m, d + 1>>
      BY <1>5, <1>6, <2>5, <2>6, <3>2, SMT
    <3> QED BY <1>9, <3>1, <3>3, SMT
  <2>7. CASE mp <= 10 /\ nx = mp + 1 /\ d = LengthOf(mp) /\ Before(nx) = doy + 1
    <3>1. ~(d < MonthLength(y, m))
      BY <1>12, <2>4, <2>7, SMT
    <3>2. z - Before(nx) + 1 = 1
      BY <1>2, <2>7, <2>8, SMT
    <3>3. CASE m = 12
      <4>1. mp = 9
        BY <1>5, <1>11, <3>3, SMT DEF Months
      <4>2. Months(nx) = 1 /\ yoe + 400 * era + 1 = y + 1
        BY <1>2, <1>6, <2>7, <3>3, <4>1, SMT DEF Months
      <4> QED BY <1>9, <2>5, <3>1, <3>2, <3>3, <4>2, SMT
    <3>4. CASE m < 12
      <4>1. Months(nx) = m + 1
        BY <1>5, <1>11, <2>7, <3>4, SMT DEF Months
      <4>2. m # 2
        BY <1>5, <1>11, <2>7, SMT DEF Months
      <4>3. (IF m + 1 <= 2 THEN 1 ELSE 0) = (IF m <= 2 THEN 1 ELSE 0)
        BY <1>12, <4>2, SMT
      <4>4. Civil(n + 1) = <<y, m + 1, 1>>
        BY <1>6, <2>5, <3>2, <4>1, <4>3, SMT
      <4> QED BY <1>9, <3>1, <3>4, <4>4, SMT
    <3> QED BY <1>12, <3>3, <3>4, SMT
  <2> QED BY <1>11, <2>4, <2>6, <2>7, SMT
<1>14. CASE doy + 1 = DaysOf(yoe)
  <2>1. mp = 11 /\ Before(mp) = 337
    <3>1. Mp(364) = 11 /\ Mp(365) = 11 /\ Before(11) = 337
      BY SMT DEF Mp, Before
    <3>2. doy = 364 \/ doy = 365
      BY <1>2, <1>14, SMT
    <3> QED BY <1>1, <3>1, <3>2, SMT
  <2>2. m = 2 /\ y = yoe + 400 * era + 1
    BY <1>5, <1>6, <2>1, SMT DEF Months
  <2>3. ~(d < MonthLength(y, m))
    BY <1>2, <1>7, <1>12, <1>14, <2>1, SMT
  <2>4. Tomorrow(Civil(n)) = <<y, 3, 1>>
    BY <1>9, <2>2, <2>3, SMT
  <2>5. Mp(0) = 0 /\ Months(0) = 3 /\ Before(0) = 0
    BY SMT DEF Mp, Months, Before
  <2>6. dd = 0 /\ k + 400 * e = yoe + 400 * era + 1
    <3>1. CASE yoe < 399
      <4>1. Parts(n + 1, era, yoe + 1, 0, mp)
        BY <1>1, <1>14, <3>1, PartsOfTheNext, SMT
      <4>2. e = era /\ k = yoe + 1 /\ dd = 0
        BY <1>3, <1>4, <4>1, PartsAreUnique, SMT
      <4> QED BY <1>2, <4>2, SMT
    <3>2. CASE yoe = 399
      <4>1. Parts(n + 1, era + 1, 0, 0, mp)
        BY <1>1, <1>14, <3>2, PartsOfTheNext, SMT
      <4>2. e = era + 1 /\ k = 0 /\ dd = 0
        BY <1>3, <1>4, <4>1, PartsAreUnique, SMT
      <4> QED BY <1>2, <3>2, <4>2, SMT
    <3> QED BY <1>2, <3>1, <3>2, SMT
  <2>7. Civil(n + 1) = << k + 400 * e + 0, 3, 0 - 0 + 1 >>
    BY <1>4, <2>5, <2>6, SMT DEF Written
  <2>8. k + 400 * e + 0 = y
    BY <1>2, <2>2, <2>6, SMT
  <2> QED BY <2>4, <2>7, <2>8, SMT
<1> QED BY <1>2, <1>13, <1>14, SMT

LEMMA Epoch == EpochIsRight
<1>1. Civil(0) = <<1970, 1, 1>>
  BY SMT DEF Civil
<1> QED BY <1>1 DEF EpochIsRight
-----------------------------------------------------------------------------
(* The runs. *)

LEMMA NamesAreSequences ==
    ASSUME NEW n \in Nat
    PROVE  Civil(n) \in Seq(Int)
<1>1. PICK era, yoe, doy, mp : /\ Parts(n, era, yoe, doy, mp) /\ mp = Mp(doy)
                               /\ Civil(n) = Written(era, yoe, doy, mp)
  BY DateOfTheDay, SMT
<1>2. era \in Nat /\ yoe \in Nat /\ doy \in Nat /\ doy <= 365
  BY <1>1, SMT DEF Parts
<1>3. InMonth(doy, mp)
  BY <1>1, <1>2, MonthOfTheYear, SMT
<1>4. /\ Months(mp) \in Int /\ doy - Before(mp) + 1 \in Int
      /\ yoe + 400 * era + (IF Months(mp) <= 2 THEN 1 ELSE 0) \in Int
  BY <1>2, <1>3, SMT DEF InMonth, Months
<1>5. \A x, y, z \in Int : <<x, y, z>> \in Seq(Int)
  OBVIOUS
<1> QED BY <1>1, <1>4, <1>5, SMT DEF Written

LEMMA StartsAreDays ==
    ASSUME NEW y \in Int, NEW m \in Int, NEW d \in Int
    PROVE  DayStart(y, m, d) \in Int
BY SMT DEF DayStart

\* The day of an expired folder is the day it is named after.
LEMMA ExpiredIsOld ==
    ASSUME TypeOK, NEW r \in Runs, NEW name \in Seq(Int), Expired(r, name),
           started[r] <= latest
    PROVE  /\ DayOfFolder(name) < latest - Retention
           /\ DayOfFolder(name) \in Nat /\ name = Civil(DayOfFolder(name))
<1>1. DayOfFolder(name) # NoDay /\ DayOfFolder(name) < Cutoff(r)
  BY DEF Expired
<1>2. PICK start : start = DayStart(name[1], name[2], name[3])
  OBVIOUS
<1>3. Len(name) >= 3 /\ start >= 0 /\ Civil(start) = name /\ DayOfFolder(name) = start
  BY <1>1, <1>2 DEF DayOfFolder
<1>4. start \in Int
  <2>1. name[1] \in Int /\ name[2] \in Int /\ name[3] \in Int
    BY <1>3
  <2> QED BY <1>2, <2>1, StartsAreDays
<1>5. /\ started[r] \in Int /\ latest \in Int /\ Retention \in Nat
  BY DayLogsAssumption DEF TypeOK, Days
<1>6. Cutoff(r) = 0 \/ Cutoff(r) = started[r] - Retention
  BY DEF Cutoff
<1>7. start < Cutoff(r) /\ start \in Nat
  BY <1>1, <1>3, <1>4
<1>8. start < latest - Retention
  BY <1>5, <1>6, <1>7
<1> QED BY <1>3, <1>7, <1>8

Same(r) == /\ pc'[r] = pc[r] /\ started'[r] = started[r] /\ todo'[r] = todo[r]
           /\ file'[r] = file[r] /\ boundary'[r] = boundary[r]

LEMMA DaysAreNaturals ==
    /\ FirstDay \in Nat /\ LastDay \in Nat /\ FirstDay <= LastDay
    /\ Retention \in Nat /\ MaxFaults \in Nat
    /\ \A d \in Days : d \in Nat /\ FirstDay <= d /\ d <= LastDay
    /\ \A d \in Nat : FirstDay <= d /\ d <= LastDay => d \in Days
    /\ FirstDay \in Days
    /\ NoFile \notin Int /\ NoFile \notin Days /\ Found \subseteq Seq(Int)
BY DayLogsAssumption DEF Days

LEMMA InitEstablishes == Init => IInv
<1> SUFFICES ASSUME Init PROVE IInv
  OBVIOUS
<1>1. TypeOK
  BY DaysAreNaturals DEF Init, TypeOK, Points
<1>2. today <= latest /\ ClockReadsArePast
  BY DaysAreNaturals DEF Init, ClockReadsArePast
<1>3. BootedIsEmpty /\ BoundaryFollowsTheFile /\ ListedIsExpired
  BY DEF Init, BootedIsEmpty, BoundaryFollowsTheFile, ListedIsExpired
<1>4. GoneIsOld /\ NothingIsFiledEarly /\ StrangersStay
  BY DEF Init, GoneIsOld, NothingIsFiledEarly, StrangersStay
<1> QED BY <1>1, <1>2, <1>3, <1>4 DEF IInv

\* The clock: the latest day only grows, and what was old stays old.
LEMMA ClockKeeps ==
    ASSUME IInv, Midnight \/ SetBack
    PROVE  IInv'
<1> USE DaysAreNaturals
<1>1. /\ today \in Days /\ latest \in Days /\ today <= latest
      /\ today' \in Days /\ latest' \in Days /\ today' <= latest' /\ latest <= latest'
      /\ faults' \in 0 .. MaxFaults
  BY DEF IInv, TypeOK, Midnight, SetBack, Fault
<1>2. UNCHANGED <<root, pc, started, todo, file, boundary, taken, gone>>
  BY DEF Midnight, SetBack
<1>3. TypeOK'
  BY <1>1, <1>2 DEF IInv, TypeOK
<1>4. ClockReadsArePast' /\ GoneIsOld'
  <2>1. latest \in Nat /\ latest' \in Nat /\ latest <= latest'
    BY <1>1
  <2>2. ASSUME NEW r \in Runs PROVE started'[r] <= latest'
    <3>1. started'[r] = started[r] /\ started[r] \in Nat /\ started[r] <= latest
      BY <1>2 DEF IInv, TypeOK, ClockReadsArePast
    <3> QED BY <2>1, <3>1
  <2>3. ASSUME NEW f \in gone' PROVE f[2] < latest' - Retention
    <3>1. f[2] \in Nat /\ f[2] < latest - Retention
      BY <1>2 DEF IInv, TypeOK, GoneIsOld
    <3> QED BY <2>1, <3>1
  <2> QED BY <2>2, <2>3 DEF ClockReadsArePast, GoneIsOld
<1>5. BootedIsEmpty' /\ BoundaryFollowsTheFile'
  BY <1>2 DEF IInv, BootedIsEmpty, BoundaryFollowsTheFile
<1>6. ListedIsExpired'
  BY <1>2 DEF IInv, ListedIsExpired, Expired, Cutoff
<1>7. NothingIsFiledEarly' /\ StrangersStay'
  BY <1>2 DEF IInv, NothingIsFiledEarly, StrangersStay
<1> QED BY <1>1, <1>3, <1>4, <1>5, <1>6, <1>7 DEF IInv

\* What a step of run r has to show: the rest is untouched.
Keeps(r) ==
    /\ today' = today /\ latest' = latest
    /\ \A q \in Runs \ {r} : Same(q)
    /\ started'[r] <= latest
    /\ pc'[r] \in {"down", "booted"} => boundary'[r] = 0 /\ file'[r] = NoFile /\ todo'[r] = {}
    /\ file'[r] # NoFile => boundary'[r] = file'[r] + 1
    /\ started'[r] = started[r] \/ todo'[r] = {}
    /\ \A name \in todo'[r] : Expired(r, name)
    /\ \A f \in gone' : f \in gone \/ f[2] < latest - Retention
    /\ \A l \in taken' : l \in taken \/ l.stamp <= l.folder
    /\ \A name \in root : name \in root' \/ IsDate(name)

LEMMA StepKeeps ==
    ASSUME IInv, NEW r \in Runs, Keeps(r), TypeOK'
    PROVE  IInv'
<1>1. today' <= latest'
  BY DEF IInv, Keeps
<1>2. ClockReadsArePast'
  BY DEF IInv, ClockReadsArePast, Keeps, Same
<1>3. BootedIsEmpty' /\ BoundaryFollowsTheFile'
  BY DEF IInv, BootedIsEmpty, BoundaryFollowsTheFile, Keeps, Same
<1>4. ListedIsExpired'
  <2> SUFFICES ASSUME NEW q \in Runs, NEW name \in todo'[q]
               PROVE  Expired(q, name)'
    BY DEF ListedIsExpired
  <2>1. started'[q] = started[q] /\ Expired(q, name)
    BY DEF IInv, ListedIsExpired, Keeps, Same
  <2> QED BY <2>1 DEF Expired, Cutoff
<1>5. GoneIsOld' /\ NothingIsFiledEarly'
  BY DEF IInv, GoneIsOld, NothingIsFiledEarly, Keeps
<1>6. StrangersStay'
  BY DEF IInv, StrangersStay, Keeps
<1> QED BY <1>1, <1>2, <1>3, <1>4, <1>5, <1>6 DEF IInv

LEMMA BootKeeps == ASSUME IInv, NEW r \in Runs, Boot(r) PROVE IInv'
<1> USE DaysAreNaturals DEF Boot
<1>1. TypeOK'
  BY DEF IInv, TypeOK, Points
<1>2. boundary[r] = 0 /\ file[r] = NoFile /\ todo[r] = {}
  BY DEF IInv, BootedIsEmpty
<1>3. Keeps(r)
  BY <1>2 DEF IInv, TypeOK, Keeps, Same
<1> QED BY <1>1, <1>3, StepKeeps

LEMMA OpenKeeps == ASSUME IInv, NEW r \in Runs, Open(r) PROVE IInv'
<1> USE DaysAreNaturals DEF Open, Create, FirstBoundary
<1>1. started[r] \in Days /\ started[r] <= latest /\ todo[r] = {}
  BY DEF IInv, TypeOK, ClockReadsArePast, BootedIsEmpty
<1>2. Civil(started[r]) \in Seq(Int)
  BY <1>1, NamesAreSequences
<1>3. started[r] + 1 \in FirstDay + 1 .. LastDay + 1
  <2>1. started[r] \in Nat /\ FirstDay <= started[r] /\ started[r] <= LastDay
    BY <1>1
  <2> QED BY <2>1
<1>4. TypeOK'
  <2>1. /\ file' \in [Runs -> Days \cup {NoFile}] /\ pc' \in [Runs -> Points]
    BY <1>1 DEF IInv, TypeOK, Points
  <2>2. boundary' \in [Runs -> {0} \cup (FirstDay + 1 .. LastDay + 1)]
    BY <1>3 DEF IInv, TypeOK
  <2>3. root' \subseteq Seq(Int)
    BY <1>2 DEF IInv, TypeOK
  <2> QED BY <2>1, <2>2, <2>3 DEF IInv, TypeOK
<1>5. Keeps(r)
  BY <1>1 DEF IInv, TypeOK, Keeps, Same
<1> QED BY <1>4, <1>5, StepKeeps

LEMMA OpenRefusedKeeps == ASSUME IInv, NEW r \in Runs, OpenRefused(r) PROVE IInv'
<1> USE DaysAreNaturals DEF OpenRefused, Fault
<1>1. started[r] \in Days /\ started[r] <= latest /\ todo[r] = {} /\ file[r] = NoFile
  BY DEF IInv, TypeOK, ClockReadsArePast, BootedIsEmpty
<1>2. Civil(started[r]) \in Seq(Int)
  BY <1>1, NamesAreSequences
<1>3. TypeOK'
  BY <1>1, <1>2 DEF IInv, TypeOK, Points
<1>4. Keeps(r)
  BY <1>1 DEF IInv, TypeOK, Keeps, Same
<1> QED BY <1>3, <1>4, StepKeeps

\* A line goes to a segment that has not ended.
LEMMA WriteKeeps == ASSUME IInv, NEW r \in Runs, Write(r) PROVE IInv'
<1> USE DaysAreNaturals DEF Write
<1>1. /\ file[r] \in Days /\ today \in Days /\ boundary[r] = file[r] + 1
      /\ boundary[r] \in Int /\ ~(today >= boundary[r])
  BY DEF IInv, TypeOK, BoundaryFollowsTheFile, Due
<1>2. Line(r, file[r]).stamp <= Line(r, file[r]).folder
  <2>1. Line(r, file[r]).stamp = today /\ Line(r, file[r]).folder = file[r]
    BY DEF Line
  <2>2. today \in Nat /\ file[r] \in Nat
    BY <1>1, Zenon
  <2>3. today <= file[r]
    <3>1. ASSUME NEW t \in Nat, NEW f \in Nat, NEW b, b = f + 1, ~(t >= b)
          PROVE  t <= f
      BY <3>1, SMT
    <3>2. QED
      BY <1>1, <2>2, <3>1
  <2>4. QED
    BY <2>1, <2>3
<1>3. TypeOK'
  BY <1>1 DEF IInv, TypeOK, Line
<1>4. Keeps(r)
  <2>1. \A l \in taken' : l \in taken \/ l.stamp <= l.folder
    BY <1>2
  <2>2. /\ started[r] <= latest /\ \A name \in todo[r] : Expired(r, name)
        /\ pc[r] \notin {"down", "booted"}
    BY DEF IInv, ClockReadsArePast, ListedIsExpired, Logs
  <2> QED BY <1>1, <2>1, <2>2 DEF Keeps, Same
<1> QED BY <1>3, <1>4, StepKeeps

\* A new segment is of the very day its first line is written on.
LEMMA RollKeeps == ASSUME IInv, NEW r \in Runs, Roll(r) PROVE IInv'
<1> USE DaysAreNaturals DEF Roll, Create, NextBoundary
<1>1. today \in Days /\ today + 1 \in FirstDay + 1 .. LastDay + 1
  BY DEF IInv, TypeOK
<1>2. Civil(today) \in Seq(Int)
  BY <1>1, NamesAreSequences
<1>3. TypeOK'
  BY <1>1, <1>2 DEF IInv, TypeOK, Line
<1>4. Keeps(r)
  <2>1. \A l \in taken' : l \in taken \/ l.stamp <= l.folder
    BY <1>1 DEF Line
  <2>2. /\ started[r] <= latest /\ \A name \in todo[r] : Expired(r, name)
        /\ pc[r] \notin {"down", "booted"}
    BY DEF IInv, ClockReadsArePast, ListedIsExpired, Logs
  <2>3. file'[r] = today /\ boundary'[r] = today + 1
    BY DEF IInv, TypeOK
  <2> QED BY <2>1, <2>2, <2>3 DEF Keeps, Same
<1> QED BY <1>3, <1>4, StepKeeps

LEMMA RollRefusedKeeps == ASSUME IInv, NEW r \in Runs, RollRefused(r) PROVE IInv'
<1> USE DaysAreNaturals DEF RollRefused, NextBoundary, Fault
<1>1. today \in Days /\ today + 1 \in FirstDay + 1 .. LastDay + 1
  BY DEF IInv, TypeOK
<1>2. Civil(today) \in Seq(Int)
  BY <1>1, NamesAreSequences
<1>3. TypeOK'
  BY <1>1, <1>2 DEF IInv, TypeOK
<1>4. Keeps(r)
  <2>1. /\ started[r] <= latest /\ \A name \in todo[r] : Expired(r, name)
        /\ pc[r] \notin {"down", "booted"}
    BY DEF IInv, ClockReadsArePast, ListedIsExpired, Logs
  <2>2. file'[r] = NoFile
    BY DEF IInv, TypeOK
  <2> QED BY <2>1, <2>2 DEF Keeps, Same
<1> QED BY <1>3, <1>4, StepKeeps

\* The list is made of what is expired by the clock this run has read.
LEMMA ReadRootKeeps == ASSUME IInv, NEW r \in Runs, ReadRoot(r) PROVE IInv'
<1> USE DaysAreNaturals DEF ReadRoot
<1>1. TypeOK'
  BY DEF IInv, TypeOK, Points
<1>2. Keeps(r)
  <2>1. \A name \in todo'[r] : Expired(r, name)
    BY DEF IInv, TypeOK
  <2>2. /\ started[r] <= latest
        /\ file[r] # NoFile => boundary[r] = file[r] + 1
    BY DEF IInv, ClockReadsArePast, BoundaryFollowsTheFile
  <2>3. pc'[r] = "retiring" /\ \A q \in Runs \ {r} : Same(q)
    BY DEF IInv, TypeOK, Same
  <2> QED BY <2>1, <2>2, <2>3 DEF Keeps
<1> QED BY <1>1, <1>2, StepKeeps

\* What goes with an expired folder is older than the window, and a folder a
\* date names.
LEMMA ExpiredTakesTheOld ==
    ASSUME IInv, NEW r \in Runs, NEW name \in todo[r]
    PROVE  /\ IsDate(name)
           /\ \A f \in FilesOf(name) : f \in Runs \X Days /\ f[2] < latest - Retention
<1>1. Expired(r, name) /\ started[r] <= latest /\ name \in Seq(Int) /\ TypeOK
  BY DEF IInv, TypeOK, ListedIsExpired, ClockReadsArePast
<1>2. /\ DayOfFolder(name) < latest - Retention
      /\ DayOfFolder(name) \in Nat /\ name = Civil(DayOfFolder(name))
  BY <1>1, ExpiredIsOld
<1>3. IsDate(name)
  BY <1>2, RoundTrip
<1>4. ASSUME NEW f \in FilesOf(name) PROVE f \in Runs \X Days /\ f[2] < latest - Retention
  <2>1. f \in Runs \X Days /\ f[2] \in Nat /\ Civil(f[2]) = name
    BY DaysAreNaturals DEF FilesOf
  <2>2. DayOfFolder(name) = f[2]
    BY <2>1, RoundTrip
  <2> QED BY <1>2, <2>1, <2>2
<1> QED BY <1>3, <1>4

LEMMA RetireEntryKeeps == ASSUME IInv, NEW r \in Runs, RetireEntry(r) PROVE IInv'
<1> USE DaysAreNaturals
<1>1. PICK name \in todo[r] :
        /\ pc[r] = "retiring"
        /\ todo' = [todo EXCEPT ![r] = @ \ {name}]
        /\ IF name \in root
             THEN root' = root \ {name} /\ gone' = gone \cup FilesOf(name)
             ELSE UNCHANGED <<root, gone>>
        /\ UNCHANGED <<today, latest, pc, started, file, boundary, taken, faults>>
  BY DEF RetireEntry
<1>2. IsDate(name) /\ \A f \in FilesOf(name) : f \in Runs \X Days /\ f[2] < latest - Retention
  BY ExpiredTakesTheOld
<1>3. TypeOK'
  BY <1>1, <1>2 DEF IInv, TypeOK
<1>4. Keeps(r)
  <2>1. /\ started[r] <= latest
        /\ file[r] # NoFile => boundary[r] = file[r] + 1
        /\ \A n \in todo[r] : Expired(r, n)
    BY DEF IInv, ClockReadsArePast, BoundaryFollowsTheFile, ListedIsExpired
  <2>2. todo'[r] \subseteq todo[r] /\ \A q \in Runs \ {r} : Same(q)
    BY <1>1 DEF IInv, TypeOK, Same
  <2>3. \A n \in root : n \in root' \/ IsDate(n)
    BY <1>1, <1>2
  <2>4. \A f \in gone' : f \in gone \/ f[2] < latest - Retention
    BY <1>1, <1>2
  <2> QED BY <1>1, <2>1, <2>2, <2>3, <2>4 DEF Keeps
<1> QED BY <1>3, <1>4, StepKeeps

LEMMA RetireRefusedKeeps == ASSUME IInv, NEW r \in Runs, RetireRefused(r) PROVE IInv'
<1> USE DaysAreNaturals
<1>1. PICK name \in todo[r] :
        /\ pc[r] = "retiring" /\ faults < MaxFaults /\ faults' = faults + 1
        /\ todo' = [todo EXCEPT ![r] = @ \ {name}]
        /\ \E some \in SUBSET FilesOf(name) : gone' = gone \cup some
        /\ UNCHANGED <<today, latest, root, pc, started, file, boundary, taken>>
  BY DEF RetireRefused, Fault
<1>2. \A f \in FilesOf(name) : f \in Runs \X Days /\ f[2] < latest - Retention
  BY ExpiredTakesTheOld
<1>3. \A f \in gone' : f \in gone \/ (f \in Runs \X Days /\ f[2] < latest - Retention)
  BY <1>1, <1>2
<1>4. TypeOK'
  BY <1>1, <1>3 DEF IInv, TypeOK
<1>5. Keeps(r)
  <2>1. /\ started[r] <= latest
        /\ file[r] # NoFile => boundary[r] = file[r] + 1
        /\ \A n \in todo[r] : Expired(r, n)
    BY DEF IInv, ClockReadsArePast, BoundaryFollowsTheFile, ListedIsExpired
  <2>2. todo'[r] \subseteq todo[r] /\ \A q \in Runs \ {r} : Same(q)
    BY <1>1 DEF IInv, TypeOK, Same
  <2> QED BY <1>1, <1>3, <2>1, <2>2 DEF Keeps
<1> QED BY <1>4, <1>5, StepKeeps

LEMMA MovesOnKeeps == ASSUME IInv, NEW r \in Runs, Serve(r) \/ End(r) PROVE IInv'
<1> USE DaysAreNaturals DEF Serve, End
<1>1. TypeOK'
  BY DEF IInv, TypeOK, Points
<1>2. Keeps(r)
  <2>1. /\ started[r] <= latest
        /\ file[r] # NoFile => boundary[r] = file[r] + 1
        /\ \A n \in todo[r] : Expired(r, n)
    BY DEF IInv, ClockReadsArePast, BoundaryFollowsTheFile, ListedIsExpired
  <2>2. pc'[r] \in {"serving", "ended"} /\ \A q \in Runs \ {r} : Same(q)
    BY DEF IInv, TypeOK, Same
  <2> QED BY <2>1, <2>2 DEF Keeps
<1> QED BY <1>1, <1>2, StepKeeps

LEMMA StutterKeeps == ASSUME IInv, UNCHANGED vars PROVE IInv'
BY DEF vars, IInv, TypeOK, ClockReadsArePast, BootedIsEmpty, BoundaryFollowsTheFile,
       ListedIsExpired, Expired, Cutoff, GoneIsOld, NothingIsFiledEarly, StrangersStay

\* The invariant every theorem below follows from.
THEOREM Inductive == Spec => []IInv
<1>1. IInv /\ [Next]_vars => IInv'
  <2> SUFFICES ASSUME IInv, [Next]_vars PROVE IInv'
    OBVIOUS
  <2>1. CASE Midnight \/ SetBack
    BY <2>1, ClockKeeps
  <2>2. ASSUME NEW r \in Runs, Step(r) PROVE IInv'
    BY <2>2, BootKeeps, OpenKeeps, OpenRefusedKeeps, WriteKeeps, RollKeeps, RollRefusedKeeps,
       ReadRootKeeps, RetireEntryKeeps, RetireRefusedKeeps, MovesOnKeeps DEF Step
  <2>3. CASE UNCHANGED vars
    BY <2>3, StutterKeeps
  <2> QED BY <2>1, <2>2, <2>3 DEF Next
<1> QED BY InitEstablishes, <1>1, PTL DEF Spec

\* Every variable keeps its type (DayLogs.TypeOK).
THEOREM TypeCorrect == Spec => []TypeOK
<1>1. IInv => TypeOK
  BY DEF IInv
<1> QED BY <1>1, Inductive, PTL

\* Whatever the day: every date leads back to its own day, and counting forward
\* from the epoch the dates are those of the Gregorian calendar (day_and_clock,
\* day_start and day_folder_start, whose round trip lets retention delete).
THEOREM DatesAgree == Spec => []CalendarAgrees
<1>1. IInv => CalendarAgrees
  <2> SUFFICES ASSUME IInv, NEW n \in 0..(today + 28000)
               PROVE  Civil(n + 1) = Tomorrow(Civil(n)) /\ DayOfFolder(Civil(n)) = n
    BY Epoch DEF CalendarAgrees, AgreesOn
  <2>1. n \in Nat
    BY SMT DEF IInv, TypeOK
  <2> QED BY <2>1, DayAfter, RoundTrip, SMT
<1> QED BY <1>1, Inductive, PTL

\* No line is in the folder of a day before the one it was written on
\* (roll_if_due and DaySegments::open).
THEOREM NothingEarly == Spec => []NothingIsFiledEarly
<1>1. IInv => NothingIsFiledEarly
  BY DEF IInv
<1> QED BY <1>1, Inductive, PTL

\* A line of the window can still be read, whoever started with whatever clock
\* (retire_day_folders).
THEOREM RecentLines == Spec => []RecentLinesStay
<1>1. IInv => RecentLinesStay
  <2> SUFFICES ASSUME IInv, NEW l \in taken, l.folder >= latest - Retention,
                      <<l.run, l.folder>> \in gone
               PROVE  FALSE
    BY DEF RecentLinesStay
  <2>1. l.folder \in Nat /\ latest \in Nat /\ Retention \in Nat
    BY DaysAreNaturals DEF IInv, TypeOK
  <2>2. l.folder < latest - Retention
    BY DEF IInv, GoneIsOld
  <2> QED BY <2>1, <2>2
<1> QED BY <1>1, Inductive, PTL

\* A name no calendar has is never removed from the log root (day_folder_start).
THEOREM Strangers == Spec => []StrangersStay
<1>1. IInv => StrangersStay
  BY DEF IInv
<1> QED BY <1>1, Inductive, PTL

\* A run's segments only move to later days (roll_if_due).
THEOREM OnlyForward == Spec => ForwardOnly
<1>1. IInv /\ [Next]_vars =>
        [\A r \in Runs : /\ boundary'[r] >= boundary[r]
                         /\ file[r] # NoFile /\ file'[r] \notin {NoFile, file[r]}
                              => file'[r] > file[r]]_vars
  <2> SUFFICES ASSUME IInv, Next, NEW r \in Runs
               PROVE  /\ boundary'[r] >= boundary[r]
                      /\ file[r] # NoFile /\ file'[r] \notin {NoFile, file[r]}
                           => file'[r] > file[r]
    BY DEF vars
  <2>1. /\ boundary[r] \in Nat /\ file[r] \in Nat \cup {NoFile} /\ today \in Nat
        /\ started[r] \in Nat
        /\ NoFile \notin Int
        /\ pc[r] = "booted" => boundary[r] = 0 /\ file[r] = NoFile
        /\ file[r] # NoFile => boundary[r] = file[r] + 1
    <3>1. /\ boundary[r] \in {0} \cup (FirstDay + 1 .. LastDay + 1)
          /\ file[r] \in Days \cup {NoFile} /\ today \in Days /\ started[r] \in Days
      BY DEF IInv, TypeOK
    <3>2. /\ pc[r] = "booted" => boundary[r] = 0 /\ file[r] = NoFile
          /\ file[r] # NoFile => boundary[r] = file[r] + 1
      BY DEF IInv, BootedIsEmpty, BoundaryFollowsTheFile
    <3>3. /\ FirstDay \in Nat /\ LastDay \in Nat /\ NoFile \notin Int
          /\ \A d \in Days : d \in Nat
      BY DaysAreNaturals
    <3>4. boundary[r] \in Nat
      BY <3>1, <3>3
    <3> QED BY <3>1, <3>2, <3>3, <3>4
  <2>2. \/ boundary'[r] = boundary[r] /\ file'[r] = file[r]
        \/ pc[r] = "booted" /\ boundary'[r] = started[r] + 1
        \/ today >= boundary[r] /\ boundary'[r] = today + 1 /\ file'[r] \in {today, NoFile}
    <3>1. CASE Midnight \/ SetBack
      BY <3>1 DEF Midnight, SetBack
    <3>2. ASSUME NEW q \in Runs, Open(q) \/ Roll(q) \/ RollRefused(q)
          PROVE  \/ boundary'[r] = boundary[r] /\ file'[r] = file[r]
                 \/ pc[r] = "booted" /\ boundary'[r] = started[r] + 1
                 \/ today >= boundary[r] /\ boundary'[r] = today + 1 /\ file'[r] \in {today, NoFile}
      BY <3>2 DEF Open, Roll, RollRefused, FirstBoundary, NextBoundary, Due, IInv, TypeOK
    <3>3. ASSUME NEW q \in Runs,
                 \/ Boot(q) \/ OpenRefused(q) \/ Write(q) \/ ReadRoot(q) \/ RetireEntry(q)
                 \/ RetireRefused(q) \/ Serve(q) \/ End(q)
          PROVE  boundary'[r] = boundary[r] /\ file'[r] = file[r]
      BY <3>3 DEF Boot, OpenRefused, Write, ReadRoot, RetireEntry, RetireRefused, Serve, End
    <3> QED BY <3>1, <3>2, <3>3 DEF Next, Step
  <2> QED BY <2>1, <2>2
<1> QED BY <1>1, Inductive, PTL DEF Spec, ForwardOnly
-----------------------------------------------------------------------------
(* The scratches of the tests, and the sweeps. *)

\* What a run does in one step.
Acts(r) == Start(r) \/ SweepStep(r) \/ ScratchStep(r) \/ Ends(r)

\* The fields of a sweep, typed.
SweepTyped(w) ==
    /\ w.quarantines \subseteq Quarantines
    /\ w.folders \subseteq Names /\ w.claims \subseteq Names /\ w.hidden \subseteq Names
    /\ w.asked \in [Pids -> TestRuns \cup {"gone", None}]
    /\ w.at \in Names \cup {None} /\ w.id \in Makers \cup {None} /\ w.saw \in Claims \cup {None}

LEMMA SweepsTyped == ASSUME NEW w \in Sweeps PROVE SweepTyped(w)
BY DEF Sweeps, SweepTyped

LEMMA NoSweepTyped == NoSweep \in Sweeps
BY DEF NoSweep, Sweeps

LEMMA EntriesAreOfTheKinds ==
    ASSUME ScratchTypeOK
    PROVE  aged \subseteq (({"tree"} \X Names \X Makers) \cup ({"claim"} \X Names \X Claims)
                              \cup ({"move"} \X Names \X TestRuns))
<1>1. \A n \in Names : folder[n] # None => folder[n] \in Makers
  BY DEF ScratchTypeOK
<1>2. \A n \in Names : claim[n] # None => claim[n] \in Claims
  BY DEF ScratchTypeOK
<1>3. \A q \in quarantine : q.name \in Names /\ q.by \in TestRuns /\ q.holds \in Makers
  BY DEF ScratchTypeOK, Quarantines
<1>4. QED
  BY <1>1, <1>2, <1>3 DEF ScratchTypeOK, Entries, Trees, TreeOf, ClaimOf, MoveOf

LEMMA AnswerTyped ==
    ASSUME ScratchTypeOK, NEW r \in TestRuns, NEW p \in Pids
    PROVE  /\ Probe(r, p) \in TestRuns \cup {"gone"}
           /\ Answer(r, p) \in TestRuns \cup {"gone"}
           /\ Probe(r, p) # "gone" =>
                Alive(Probe(r, p)) /\ SamePlace(r, Probe(r, p)) /\ pid[Probe(r, p)] = p
           /\ Probe(r, p) = "gone" => ~\E x \in TestRuns : Alive(x) /\ SamePlace(r, x) /\ pid[x] = p
           /\ Asked(r, p) \in [Pids -> TestRuns \cup {"gone", None}]
           /\ Asked(r, p)[p] = Answer(r, p)
           /\ \A k \in Pids \ {p} : Asked(r, p)[k] = sweep[r].asked[k]
<1> DEFINE seen == {x \in TestRuns : Alive(x) /\ SamePlace(r, x) /\ pid[x] = p}
<1>1. SweepTyped(sweep[r])
  BY SweepsTyped DEF ScratchTypeOK
<1>2. Probe(r, p) = IF seen = {} THEN "gone" ELSE CHOOSE x \in seen : TRUE
  BY DEF Probe
<1>3. seen # {} => (CHOOSE x \in seen : TRUE) \in seen
  OBVIOUS
<1>4. seen # {} => Probe(r, p) \in seen
  BY <1>2, <1>3
<1>5. "gone" \notin seen
  BY ScratchAssumption
<1>6. /\ Probe(r, p) \in TestRuns \cup {"gone"}
      /\ Probe(r, p) # "gone" => Probe(r, p) \in seen
      /\ Probe(r, p) = "gone" => seen = {}
  BY <1>2, <1>4, <1>5
<1>7. Answer(r, p) \in TestRuns \cup {"gone"}
  BY <1>1, <1>6 DEF Answer, SweepTyped
<1>8. /\ Asked(r, p) \in [Pids -> TestRuns \cup {"gone", None}]
      /\ Asked(r, p)[p] = Answer(r, p)
      /\ \A k \in Pids \ {p} : Asked(r, p)[k] = sweep[r].asked[k]
  BY <1>1, <1>7 DEF Asked, SweepTyped
<1>9. QED
  BY <1>6, <1>7, <1>8

\* What a run leaves alone, whatever it does.
LEMMA OthersStand ==
    ASSUME ScratchTypeOK, NEW r \in TestRuns, Acts(r)
    PROVE  /\ UNCHANGED <<pid, ns>>
           /\ \A x \in TestRuns \ {r} : /\ stage'[x] = stage[x] /\ sweep'[x] = sweep[x]
                                        /\ scratch'[x] = scratch[x] /\ record'[x] = record[x]
           /\ ~Start(r) => record' = record
<1> USE DEF ScratchTypeOK
<1> DEFINE Own == \A x \in TestRuns \ {r} : stage'[x] = stage[x] /\ sweep'[x] = sweep[x]
<1>1. Keep(r) => Own
  BY DEF Keep, Goto
<1>2. PutBack(r) => Own
  BY DEF PutBack
<1>3. CASE SweepStep(r)
  <2>1. UNCHANGED <<identity, scratch>>
    BY <1>3 DEF SweepStep, OnlySweeps, ListRoot, RestoreQuarantine, CaptureFolder, JudgeFolder,
       RecheckFolder, MoveAside, ConfirmMove, RemoveTree, RemoveTreeGivesUp, RemoveItsClaim,
       CaptureOrphan, JudgeOrphan, RemoveOrphan, SweepEnds
  <2>2. ListRoot(r) => Own
    BY DEF ListRoot, Goto
  <2>3. RestoreQuarantine(r) => Own
    BY DEF RestoreQuarantine, Goto
  <2>4. CaptureFolder(r) => Own
    BY DEF CaptureFolder, Goto
  <2>5. JudgeFolder(r) => Own
    BY DEF JudgeFolder, Goto
  <2>6. RecheckFolder(r) => Own
    BY <1>1 DEF RecheckFolder, Goto
  <2>7. MoveAside(r) => Own
    BY <1>1 DEF MoveAside, Goto
  <2>8. ConfirmMove(r) => Own
    BY <1>2 DEF ConfirmMove, Goto
  <2>9. RemoveTree(r) => Own
    BY <1>1 DEF RemoveTree, Goto
  <2>10. RemoveTreeGivesUp(r) => Own
    BY <1>2 DEF RemoveTreeGivesUp, Goto
  <2>11. RemoveItsClaim(r) => Own
    BY <1>1 DEF RemoveItsClaim, Goto
  <2>12. CaptureOrphan(r) => Own
    BY DEF CaptureOrphan, Goto
  <2>13. JudgeOrphan(r) => Own
    BY DEF JudgeOrphan, Goto
  <2>14. RemoveOrphan(r) => Own
    BY <1>1 DEF RemoveOrphan, Goto
  <2>15. SweepEnds(r) => Own
    BY DEF SweepEnds, Goto
  <2>16. Own
    BY <1>3, <2>2, <2>3, <2>4, <2>5, <2>6, <2>7, <2>8,
       <2>9, <2>10, <2>11, <2>12, <2>13, <2>14, <2>15 DEF SweepStep
  <2>17. QED
    BY <2>1, <2>16 DEF identity
<1>4. CASE ScratchStep(r)
  <2>1. UNCHANGED <<identity, sweep>>
    BY <1>4 DEF ScratchStep, OnlyScratches, CreateClaim, WriteClaim, WriteClaimFails, CreateDir,
       CreateDirFails, TakeClaimBack, TakeBackGivesUp, DropFolder, DropClaim, DropGivesUp
  <2> DEFINE Mine == \A x \in TestRuns \ {r} : stage'[x] = stage[x] /\ scratch'[x] = scratch[x]
  <2>2. CreateClaim(r) => Mine
    BY DEF CreateClaim, Goto
  <2>3. WriteClaim(r) => Mine
    BY DEF WriteClaim, Goto
  <2>4. WriteClaimFails(r) => Mine
    BY DEF WriteClaimFails, Goto
  <2>5. CreateDir(r) => Mine
    BY DEF CreateDir, Goto
  <2>6. CreateDirFails(r) => Mine
    BY DEF CreateDirFails, Goto
  <2>7. TakeClaimBack(r) => Mine
    BY DEF TakeClaimBack, Goto
  <2>8. TakeBackGivesUp(r) => Mine
    BY DEF TakeBackGivesUp, Goto
  <2>9. DropFolder(r) => Mine
    BY DEF DropFolder, Goto
  <2>10. DropClaim(r) => Mine
    BY DEF DropClaim, Goto
  <2>11. DropGivesUp(r) => Mine
    BY DEF DropGivesUp, Goto
  <2>12. Mine
    BY <1>4, <2>2, <2>3, <2>4, <2>5, <2>6, <2>7, <2>8, <2>9, <2>10, <2>11
       DEF ScratchStep
  <2>13. QED
    BY <2>1, <2>12 DEF identity
<1>5. CASE Start(r)
  BY <1>5 DEF Start, Goto
<1>6. CASE Ends(r)
  BY <1>6 DEF Ends, Goto, identity
<1>7. QED
  BY <1>3, <1>4, <1>5, <1>6 DEF Acts

\* One sweep t after another s: what is left to do, and what is asked and known.
SameLists(t, s) == /\ t.quarantines = s.quarantines /\ t.folders = s.folders /\ t.claims = s.claims
              /\ t.old = s.old /\ t.hidden = s.hidden
Clear(t) == t.at = None /\ t.id = None /\ t.saw = None
SameName(t, s) == t.at = s.at /\ t.id = s.id /\ t.saw = s.saw

\* What each step of a sweep makes of it.
LEMMA ListingIsTaken ==
    ASSUME ScratchTypeOK, NEW r \in TestRuns, ListRoot(r)
    PROVE  LET t == sweep'[r]
           IN  /\ t \in Sweeps
               /\ t.quarantines = quarantine /\ t.hidden = {q.name : q \in quarantine}
               /\ t.folders = {n \in Names : folder[n] # None}
               /\ t.claims = {n \in Names : claim[n] # None}
               /\ t.old = aged /\ t.asked = [p \in Pids |-> None] /\ Clear(t)
<1> DEFINE w == [NoSweep EXCEPT !.quarantines = quarantine,
                                !.folders = {n \in Names : folder[n] # None},
                                !.claims = {n \in Names : claim[n] # None},
                                !.hidden = {q.name : q \in quarantine},
                                !.old = aged]
<1>1. sweep'[r] = w
  BY DEF ListRoot, ScratchTypeOK
<1>2. {q.name : q \in quarantine} \subseteq Names /\ quarantine \subseteq Quarantines
  BY DEF ScratchTypeOK, Quarantines
<1>3. w \in Sweeps
  BY <1>2, NoSweepTyped, EntriesAreOfTheKinds DEF Sweeps
<1>4. /\ w.quarantines = quarantine /\ w.hidden = {q.name : q \in quarantine}
      /\ w.folders = {n \in Names : folder[n] # None}
      /\ w.claims = {n \in Names : claim[n] # None}
      /\ w.old = aged /\ w.asked = [p \in Pids |-> None] /\ Clear(w)
  BY DEF NoSweep, Clear
<1> HIDE DEF w
<1>5. QED
  BY <1>1, <1>3, <1>4

LEMMA KeepClears ==
    ASSUME ScratchTypeOK, NEW r \in TestRuns, Keep(r)
    PROVE  LET t == sweep'[r]
           IN  t \in Sweeps /\ SameLists(t, sweep[r]) /\ Clear(t) /\ t.asked = sweep[r].asked
<1> DEFINE w == [sweep[r] EXCEPT !.at = None, !.id = None, !.saw = None]
<1>1. sweep'[r] = w
  BY DEF Keep, ScratchTypeOK
<1>2. sweep[r] \in Sweeps
  BY DEF ScratchTypeOK
<1>3. w \in Sweeps /\ SameLists(w, sweep[r]) /\ Clear(w) /\ w.asked = sweep[r].asked
  BY <1>2 DEF Sweeps, SameLists, Clear
<1> HIDE DEF w
<1>4. QED
  BY <1>1, <1>3

LEMMA PutBackClears ==
    ASSUME ScratchTypeOK, NEW r \in TestRuns, sweep[r].at \in Names, PutBack(r)
    PROVE  LET t == sweep'[r]
           IN  /\ t \in Sweeps /\ Clear(t) /\ t.asked = sweep[r].asked
               /\ t.quarantines = sweep[r].quarantines /\ t.folders = sweep[r].folders
               /\ t.claims = sweep[r].claims /\ t.old = sweep[r].old
<1> DEFINE n == sweep[r].at
           h == IF HasMoved(r) /\ folder[n] = None THEN sweep[r].hidden
                ELSE sweep[r].hidden \cup {n}
           w == [sweep[r] EXCEPT !.at = None, !.id = None, !.saw = None, !.hidden = h]
<1>1. sweep[r] \in Sweeps
  BY DEF ScratchTypeOK
<1>2. h \subseteq Names
  BY <1>1 DEF Sweeps
<1>3. sweep'[r] = w
  BY DEF PutBack, ScratchTypeOK
<1> HIDE DEF h
<1>4. /\ w \in Sweeps /\ Clear(w) /\ w.asked = sweep[r].asked
      /\ w.quarantines = sweep[r].quarantines /\ w.folders = sweep[r].folders
      /\ w.claims = sweep[r].claims /\ w.old = sweep[r].old
  BY <1>1, <1>2 DEF Sweeps, Clear
<1> HIDE DEF w
<1>5. QED
  BY <1>3, <1>4

\* A quarantine that restore_quarantines moves back.
DueBack(r, q) == /\ q \in quarantine
             /\ Answer(r, pid[q.by]) = "gone"
             /\ {MoveOf(q), TreeOf(q.name, q.holds)} \subseteq sweep[r].old
             /\ folder[q.name] = None

LEMMA RestoringTakesOne ==
    ASSUME ScratchTypeOK, NEW r \in TestRuns, RestoreQuarantine(r)
    PROVE  LET s == sweep[r]
               t == sweep'[r]
           IN  \E q \in s.quarantines :
                 /\ q \in Quarantines /\ t \in Sweeps /\ SameName(t, s)
                 /\ t.quarantines = s.quarantines \ {q} /\ t.claims = s.claims /\ t.old = s.old
                 /\ t.asked = Asked(r, pid[q.by])
                 /\ IF DueBack(r, q)
                    THEN /\ folder' = [folder EXCEPT ![q.name] = q.holds]
                         /\ quarantine' = quarantine \ {q}
                         /\ t.folders = s.folders \cup {q.name}
                         /\ t.hidden = {p.name : p \in quarantine'} \cap s.hidden
                    ELSE /\ UNCHANGED <<folder, quarantine>>
                         /\ t.folders = s.folders /\ t.hidden = s.hidden
<1> DEFINE s == sweep[r]
<1>1. s \in Sweeps /\ SweepTyped(s)
  BY SweepsTyped DEF ScratchTypeOK
<1>2. PICK q \in s.quarantines :
        /\ IF DueBack(r, q)
           THEN /\ folder' = [folder EXCEPT ![q.name] = q.holds]
                /\ quarantine' = quarantine \ {q}
                /\ sweep' = [sweep EXCEPT ![r] =
                      [s EXCEPT !.quarantines = s.quarantines \ {q}, !.asked = Asked(r, pid[q.by]),
                                !.folders = s.folders \cup {q.name},
                                !.hidden = {p.name : p \in quarantine'} \cap s.hidden]]
           ELSE /\ sweep' = [sweep EXCEPT ![r] =
                      [s EXCEPT !.quarantines = s.quarantines \ {q},
                                !.asked = Asked(r, pid[q.by])]]
                /\ UNCHANGED <<folder, quarantine>>
  BY <1>1 DEF RestoreQuarantine, DueBack, Sweeps
<1>3. q \in Quarantines /\ q.name \in Names /\ q.by \in TestRuns /\ pid[q.by] \in Pids
  BY <1>1 DEF SweepTyped, Quarantines, ScratchTypeOK
<1>4. Asked(r, pid[q.by]) \in [Pids -> TestRuns \cup {"gone", None}]
  BY <1>3, AnswerTyped
<1>5. CASE DueBack(r, q)
  <2> DEFINE w == [s EXCEPT !.quarantines = s.quarantines \ {q}, !.asked = Asked(r, pid[q.by]),
                            !.folders = s.folders \cup {q.name},
                            !.hidden = {p.name : p \in quarantine'} \cap s.hidden]
  <2>1. sweep'[r] = w
    BY <1>2, <1>5 DEF ScratchTypeOK
  <2>2. /\ w \in Sweeps /\ SameName(w, s)
        /\ w.quarantines = s.quarantines \ {q} /\ w.claims = s.claims /\ w.old = s.old
        /\ w.asked = Asked(r, pid[q.by])
        /\ w.folders = s.folders \cup {q.name}
        /\ w.hidden = {p.name : p \in quarantine'} \cap s.hidden
    BY <1>1, <1>3, <1>4 DEF Sweeps, SameName
  <2> HIDE DEF w
  <2>3. QED
    BY <1>2, <1>3, <1>5, <2>1, <2>2
<1>6. CASE ~DueBack(r, q)
  <2> DEFINE w == [s EXCEPT !.quarantines = s.quarantines \ {q}, !.asked = Asked(r, pid[q.by])]
  <2>1. sweep'[r] = w
    BY <1>2, <1>6 DEF ScratchTypeOK
  <2>2. /\ w \in Sweeps /\ SameName(w, s)
        /\ w.quarantines = s.quarantines \ {q} /\ w.claims = s.claims /\ w.old = s.old
        /\ w.asked = Asked(r, pid[q.by])
        /\ w.folders = s.folders /\ w.hidden = s.hidden
    BY <1>1, <1>3, <1>4 DEF Sweeps, SameName
  <2> HIDE DEF w
  <2>3. QED
    BY <1>2, <1>3, <1>6, <2>1, <2>2
<1>7. QED
  BY <1>5, <1>6

LEMMA CapturingTakesOne ==
    ASSUME ScratchTypeOK, NEW r \in TestRuns, CaptureFolder(r)
    PROVE  LET s == sweep[r]
               t == sweep'[r]
           IN  \E n \in s.folders :
                 /\ n \in Names /\ t \in Sweeps
                 /\ t.quarantines = s.quarantines /\ t.claims = s.claims /\ t.old = s.old
                 /\ t.hidden = s.hidden /\ t.asked = s.asked /\ t.folders = s.folders \ {n}
                 /\ IF folder[n] # None /\ TreeOf(n, folder[n]) \in s.old
                    THEN stage'[r] = "captured" /\ t.at = n /\ t.id = folder[n] /\ t.saw = claim[n]
                    ELSE stage'[r] = "sweeping" /\ SameName(t, s)
<1> DEFINE s == sweep[r]
<1>1. s \in Sweeps /\ SweepTyped(s)
  BY SweepsTyped DEF ScratchTypeOK
<1>2. PICK n \in s.folders :
        IF folder[n] # None /\ TreeOf(n, folder[n]) \in s.old
        THEN /\ sweep' = [sweep EXCEPT ![r] =
                    [s EXCEPT !.folders = s.folders \ {n}, !.at = n, !.id = folder[n],
                              !.saw = claim[n]]]
             /\ Goto(r, "captured")
        ELSE /\ sweep' = [sweep EXCEPT ![r] = [s EXCEPT !.folders = s.folders \ {n}]]
             /\ Goto(r, "sweeping")
  BY <1>1 DEF CaptureFolder, Sweeps
<1>3. n \in Names /\ folder[n] \in Makers \cup {None} /\ claim[n] \in Claims \cup {None}
  BY <1>1 DEF SweepTyped, ScratchTypeOK
<1>4. CASE folder[n] # None /\ TreeOf(n, folder[n]) \in s.old
  <2> DEFINE w == [s EXCEPT !.folders = s.folders \ {n}, !.at = n, !.id = folder[n],
                            !.saw = claim[n]]
  <2>1. sweep'[r] = w /\ stage'[r] = "captured"
    BY <1>2, <1>4 DEF ScratchTypeOK, Goto
  <2>2. /\ w \in Sweeps
        /\ w.quarantines = s.quarantines /\ w.claims = s.claims /\ w.old = s.old
        /\ w.hidden = s.hidden /\ w.asked = s.asked /\ w.folders = s.folders \ {n}
        /\ w.at = n /\ w.id = folder[n] /\ w.saw = claim[n]
    BY <1>1, <1>3 DEF Sweeps
  <2> HIDE DEF w
  <2>3. QED
    BY <1>3, <1>4, <2>1, <2>2
<1>5. CASE ~(folder[n] # None /\ TreeOf(n, folder[n]) \in s.old)
  <2> DEFINE w == [s EXCEPT !.folders = s.folders \ {n}]
  <2>1. sweep'[r] = w /\ stage'[r] = "sweeping"
    BY <1>2, <1>5 DEF ScratchTypeOK, Goto
  <2>2. /\ w \in Sweeps
        /\ w.quarantines = s.quarantines /\ w.claims = s.claims /\ w.old = s.old
        /\ w.hidden = s.hidden /\ w.asked = s.asked /\ w.folders = s.folders \ {n}
        /\ SameName(w, s)
    BY <1>1, <1>3 DEF Sweeps, SameName
  <2> HIDE DEF w
  <2>3. QED
    BY <1>3, <1>5, <2>1, <2>2
<1>6. QED
  BY <1>4, <1>5

LEMMA CapturingAnOrphan ==
    ASSUME ScratchTypeOK, NEW r \in TestRuns, CaptureOrphan(r)
    PROVE  LET s == sweep[r]
               t == sweep'[r]
           IN  \E n \in s.claims :
                 /\ n \in Names /\ t \in Sweeps
                 /\ t.quarantines = s.quarantines /\ t.folders = s.folders /\ t.old = s.old
                 /\ t.hidden = s.hidden /\ t.asked = s.asked /\ t.claims = s.claims \ {n}
                 /\ t.id = s.id
                 /\ IF /\ claim[n] # None /\ folder[n] = None
                       /\ ClaimOf(n, claim[n]) \in s.old /\ n \notin s.hidden
                    THEN stage'[r] = "orphan" /\ t.at = n /\ t.saw = claim[n]
                    ELSE stage'[r] = "sweeping" /\ SameName(t, s)
<1> DEFINE s == sweep[r]
           orphan(n) == /\ claim[n] # None /\ folder[n] = None
                        /\ ClaimOf(n, claim[n]) \in s.old /\ n \notin s.hidden
<1>1. s \in Sweeps /\ SweepTyped(s)
  BY SweepsTyped DEF ScratchTypeOK
<1>2. PICK n \in s.claims :
        IF orphan(n)
        THEN /\ sweep' = [sweep EXCEPT ![r] =
                    [s EXCEPT !.claims = s.claims \ {n}, !.at = n, !.saw = claim[n]]]
             /\ Goto(r, "orphan")
        ELSE /\ sweep' = [sweep EXCEPT ![r] = [s EXCEPT !.claims = s.claims \ {n}]]
             /\ Goto(r, "sweeping")
  BY <1>1 DEF CaptureOrphan, Sweeps
<1>3. n \in Names /\ claim[n] \in Claims \cup {None}
  BY <1>1 DEF SweepTyped, ScratchTypeOK
<1>4. CASE orphan(n)
  <2> DEFINE w == [s EXCEPT !.claims = s.claims \ {n}, !.at = n, !.saw = claim[n]]
  <2>1. sweep'[r] = w /\ stage'[r] = "orphan"
    BY <1>2, <1>4 DEF ScratchTypeOK, Goto
  <2>2. /\ w \in Sweeps
        /\ w.quarantines = s.quarantines /\ w.folders = s.folders /\ w.old = s.old
        /\ w.hidden = s.hidden /\ w.asked = s.asked /\ w.claims = s.claims \ {n}
        /\ w.at = n /\ w.id = s.id /\ w.saw = claim[n]
    BY <1>1, <1>3 DEF Sweeps
  <2> HIDE DEF w
  <2>3. QED
    BY <1>3, <1>4, <2>1, <2>2
<1>5. CASE ~orphan(n)
  <2> DEFINE w == [s EXCEPT !.claims = s.claims \ {n}]
  <2>1. sweep'[r] = w /\ stage'[r] = "sweeping"
    BY <1>2, <1>5 DEF ScratchTypeOK, Goto
  <2>2. /\ w \in Sweeps
        /\ w.quarantines = s.quarantines /\ w.folders = s.folders /\ w.old = s.old
        /\ w.hidden = s.hidden /\ w.asked = s.asked /\ w.claims = s.claims \ {n}
        /\ w.id = s.id /\ SameName(w, s)
    BY <1>1, <1>3 DEF Sweeps, SameName
  <2> HIDE DEF w
  <2>3. QED
    BY <1>3, <1>5, <2>1, <2>2
<1>6. QED
  BY <1>4, <1>5

\* A verdict leaves the lists as they are.
LEMMA AskedAboutTyped ==
    ASSUME ScratchTypeOK, NEW r \in TestRuns, NEW c \in Claims \cup {None}
    PROVE  /\ AskedAbout(r, c) \in [Pids -> TestRuns \cup {"gone", None}]
           /\ AskedAbout(r, c) = sweep[r].asked
                \/ \E p \in Pids : AskedAbout(r, c) = Asked(r, p)
<1>1. SweepTyped(sweep[r])
  BY SweepsTyped DEF ScratchTypeOK
<1>2. CASE Readable(c) /\ SamePlace(r, c.rec)
  <2>1. c.rec \in TestRuns /\ pid[c.rec] \in Pids
    BY <1>2 DEF Readable, Claims, ScratchTypeOK
  <2>2. AskedAbout(r, c) = Asked(r, pid[c.rec])
    BY <1>2 DEF AskedAbout
  <2>3. QED
    BY <2>1, <2>2, AnswerTyped
<1>3. CASE ~(Readable(c) /\ SamePlace(r, c.rec))
  BY <1>1, <1>3 DEF AskedAbout, SweepTyped
<1>4. QED
  BY <1>2, <1>3

LEMMA JudgingAsks ==
    ASSUME ScratchTypeOK, NEW r \in TestRuns, JudgeFolder(r) \/ JudgeOrphan(r)
    PROVE  LET s == sweep[r]
               t == sweep'[r]
           IN  /\ t \in Sweeps /\ SameLists(t, s) /\ t.asked = AskedAbout(r, s.saw)
               /\ \/ Condemned(r, s.saw) /\ SameName(t, s)
                     /\ \/ stage'[r] = "condemned" /\ stage[r] = "captured"
                        \/ /\ stage'[r] = "orphanGone" /\ stage[r] = "orphan"
                           /\ folder[s.at] = None /\ claim[s.at] = s.saw
                  \/ /\ t.at = None /\ t.saw = None /\ t.id \in {None, s.id}
                     /\ stage'[r] = "sweeping"
                     /\ \/ ~Condemned(r, s.saw)
                        \/ /\ stage[r] = "orphan"
                           /\ ~(folder[s.at] = None /\ claim[s.at] = s.saw)
<1> DEFINE s == sweep[r]
           a == AskedAbout(r, s.saw)
<1>1. s \in Sweeps /\ SweepTyped(s)
  BY SweepsTyped DEF ScratchTypeOK
<1>2. a \in [Pids -> TestRuns \cup {"gone", None}]
  BY <1>1, AskedAboutTyped DEF SweepTyped
<1> DEFINE w == [s EXCEPT !.asked = a]
           v == [s EXCEPT !.asked = a, !.at = None, !.id = None, !.saw = None]
           u == [s EXCEPT !.asked = a, !.at = None, !.saw = None]
<1>3. CASE JudgeFolder(r)
  <2>1. \/ /\ Condemned(r, s.saw) /\ sweep'[r] = w /\ stage'[r] = "condemned"
           /\ stage[r] = "captured"
        \/ ~Condemned(r, s.saw) /\ sweep'[r] = v /\ stage'[r] = "sweeping"
    BY <1>1, <1>3 DEF JudgeFolder, Goto, ScratchTypeOK
  <2>2. /\ w \in Sweeps /\ SameLists(w, s) /\ w.asked = a /\ SameName(w, s)
        /\ v \in Sweeps /\ SameLists(v, s) /\ v.asked = a /\ Clear(v)
    BY <1>1, <1>2 DEF Sweeps, SameLists, SameName, Clear
  <2> HIDE DEF w, v, a, s
  <2>3. v.at = None /\ v.id = None /\ v.saw = None
    BY <2>2 DEF Clear
  <2>4. CASE Condemned(r, s.saw) /\ sweep'[r] = w
    BY <2>1, <2>2, <2>3, <2>4 DEF a, s
  <2>5. CASE ~Condemned(r, s.saw) /\ sweep'[r] = v
    BY <2>1, <2>2, <2>3, <2>5 DEF a, s
  <2>6. QED
    BY <2>1, <2>4, <2>5
<1>4. CASE JudgeOrphan(r)
  <2>1. \/ /\ Condemned(r, s.saw) /\ sweep'[r] = w /\ stage'[r] = "orphanGone"
           /\ folder[s.at] = None /\ claim[s.at] = s.saw /\ stage[r] = "orphan"
        \/ /\ ~(Condemned(r, s.saw) /\ folder[s.at] = None /\ claim[s.at] = s.saw)
           /\ sweep'[r] = u /\ stage'[r] = "sweeping" /\ stage[r] = "orphan"
    BY <1>1, <1>4 DEF JudgeOrphan, Goto, ScratchTypeOK
  <2>2. /\ w \in Sweeps /\ SameLists(w, s) /\ w.asked = a /\ SameName(w, s)
        /\ u \in Sweeps /\ SameLists(u, s) /\ u.asked = a /\ u.at = None /\ u.saw = None
        /\ u.id = s.id
    BY <1>1, <1>2 DEF Sweeps, SameLists, SameName
  <2> HIDE DEF w, u, a, s
  <2>3. CASE Condemned(r, s.saw) /\ sweep'[r] = w
             /\ folder[s.at] = None /\ claim[s.at] = s.saw
             /\ stage'[r] = "orphanGone"
    BY <2>1, <2>2, <2>3 DEF a, s
  <2>4. CASE ~(Condemned(r, s.saw) /\ folder[s.at] = None /\ claim[s.at] = s.saw)
             /\ sweep'[r] = u
    BY <2>1, <2>2, <2>4 DEF a, s
  <2>5. QED
    BY <2>1, <2>3, <2>4
<1>5. QED
  BY <1>3, <1>4

\* The sweep of r, after each of its steps.
LEMMA SweepsStayTyped ==
    ASSUME ScratchTypeOK, VerdictsStand, NEW r \in TestRuns, Acts(r)
    PROVE  sweep' \in [TestRuns -> Sweeps]
<1>1. sweep \in [TestRuns -> Sweeps]
  BY DEF ScratchTypeOK
<1>2. stage[r] \in InFolders => sweep[r].at \in Names
  BY SweepsTyped DEF VerdictsStand, ScratchTypeOK, SweepTyped
<1>3. ASSUME sweep'[r] \in Sweeps, NEW w, sweep' = [sweep EXCEPT ![r] = w]
      PROVE  sweep' \in [TestRuns -> Sweeps]
  BY <1>1, <1>3
<1>4. CASE UNCHANGED sweep
  BY <1>1, <1>4
<1>5. CASE ListRoot(r)
  BY <1>3, <1>5, ListingIsTaken DEF ListRoot
<1>6. CASE RestoreQuarantine(r)
  <2>1. sweep'[r] \in Sweeps
    BY <1>6, RestoringTakesOne
  <2>2. \E w : sweep' = [sweep EXCEPT ![r] = w]
    BY <1>6 DEF RestoreQuarantine
  <2>3. QED
    BY <1>3, <2>1, <2>2
<1>7. CASE CaptureFolder(r)
  <2>1. sweep'[r] \in Sweeps
    BY <1>7, CapturingTakesOne
  <2>2. \E w : sweep' = [sweep EXCEPT ![r] = w]
    BY <1>7 DEF CaptureFolder
  <2>3. QED
    BY <1>3, <2>1, <2>2
<1>8. CASE CaptureOrphan(r)
  <2>1. sweep'[r] \in Sweeps
    BY <1>8, CapturingAnOrphan
  <2>2. \E w : sweep' = [sweep EXCEPT ![r] = w]
    BY <1>8 DEF CaptureOrphan
  <2>3. QED
    BY <1>3, <2>1, <2>2
<1>9. CASE JudgeFolder(r) \/ JudgeOrphan(r)
  <2>1. sweep'[r] \in Sweeps
    BY <1>9, JudgingAsks
  <2>2. \E w : sweep' = [sweep EXCEPT ![r] = w]
    BY <1>1, <1>9 DEF JudgeFolder, JudgeOrphan
  <2>3. QED
    BY <1>3, <2>1, <2>2
<1>10. CASE Keep(r)
  <2>1. sweep'[r] \in Sweeps
    BY <1>10, KeepClears
  <2>2. \E w : sweep' = [sweep EXCEPT ![r] = w]
    BY <1>1, <1>10 DEF Keep
  <2>3. QED
    BY <1>3, <2>1, <2>2
<1>11. CASE PutBack(r) /\ stage[r] \in InFolders
  <2>1. sweep'[r] \in Sweeps
    BY <1>2, <1>11, PutBackClears
  <2>2. \E w : sweep' = [sweep EXCEPT ![r] = w]
    BY <1>1, <1>11 DEF PutBack
  <2>3. QED
    BY <1>3, <2>1, <2>2
<1>12. CASE SweepEnds(r) \/ Ends(r)
  BY <1>1, <1>12, NoSweepTyped DEF SweepEnds, Ends
<1>13. CASE Start(r)
  BY <1>4, <1>13 DEF Start
<1>14. CASE ScratchStep(r)
  BY <1>4, <1>14
     DEF ScratchStep, OnlyScratches, CreateClaim, WriteClaim, WriteClaimFails, CreateDir,
         CreateDirFails, TakeClaimBack, TakeBackGivesUp, DropFolder, DropClaim, DropGivesUp
<1>15. CASE RecheckFolder(r) \/ MoveAside(r) \/ ConfirmMove(r)
  BY <1>4, <1>10, <1>11, <1>15 DEF RecheckFolder, MoveAside, ConfirmMove, InFolders
<1>16. CASE RemoveTree(r) \/ RemoveTreeGivesUp(r) \/ RemoveItsClaim(r) \/ RemoveOrphan(r)
  BY <1>4, <1>10, <1>11, <1>16
     DEF RemoveTree, RemoveTreeGivesUp, RemoveItsClaim, RemoveOrphan, InFolders
<1>17. QED
  BY <1>5, <1>6, <1>7, <1>8, <1>9, <1>12, <1>13, <1>14, <1>15, <1>16 DEF Acts, SweepStep

\* Where the claims can go in one step.
LEMMA ClaimsMove ==
    ASSUME ScratchTypeOK, VerdictsStand, ScratchesAreOwn, NEW r \in TestRuns, Acts(r)
    PROVE  /\ claim' \in [Names -> Claims \cup {None}]
           /\ \A n \in Names :
                \/ claim'[n] = claim[n]
                \/ claim'[n] = None /\ claim[n] # None
                \/ /\ CreateClaim(r) /\ n \notin drawn /\ n \in drawn'
                   /\ claim'[n] = [by |-> r, rec |-> Torn] /\ scratch'[r] = n
                \/ /\ WriteClaim(r) /\ n = scratch[r] /\ claim[n] = [by |-> r, rec |-> Torn]
                   /\ claim'[n] = [by |-> r, rec |-> record[r]]
<1>1. claim \in [Names -> Claims \cup {None}]
  BY DEF ScratchTypeOK
<1>2. /\ stage[r] \in InFolders \cup InOrphans => sweep[r].at \in Names
      /\ stage[r] \in WithName => scratch[r] \in Names
  BY SweepsTyped DEF VerdictsStand, ScratchesAreOwn, ScratchTypeOK, SweepTyped
<1>3. ASSUME NEW n \in Names, claim' = [claim EXCEPT ![n] = None] \/ claim' = claim
      PROVE  /\ claim' \in [Names -> Claims \cup {None}]
             /\ \A m \in Names : claim'[m] = claim[m] \/ (claim'[m] = None /\ claim[m] # None)
  BY <1>1, <1>3
<1>4. CASE UNCHANGED claim
  BY <1>1, <1>4
<1>5. CASE CreateClaim(r)
  <2>1. PICK n \in Names \ drawn : /\ claim' = [claim EXCEPT ![n] = [by |-> r, rec |-> Torn]]
                                   /\ drawn' = drawn \cup {n}
                                   /\ scratch' = [scratch EXCEPT ![r] = n]
    BY <1>5 DEF CreateClaim
  <2>2. [by |-> r, rec |-> Torn] \in Claims
    BY DEF Claims
  <2>3. scratch'[r] = n
    BY <2>1 DEF ScratchTypeOK
  <2>4. QED
    BY <1>1, <1>5, <2>1, <2>2, <2>3
<1>6. CASE WriteClaim(r)
  <2> DEFINE n == scratch[r]
             c == [by |-> r, rec |-> Torn]
             d == [by |-> r, rec |-> record[r]]
  <2>1. n \in Names /\ d \in Claims
    BY <1>2, <1>6 DEF WriteClaim, WithName, Claims, ScratchTypeOK
  <2>2. claim' = IF claim[n] = c THEN [claim EXCEPT ![n].rec = record[r]] ELSE claim
    BY <1>6 DEF WriteClaim
  <2>3. CASE claim[n] = c
    <3>1. claim' = [claim EXCEPT ![n] = [c EXCEPT !.rec = record[r]]]
      BY <1>1, <2>1, <2>2, <2>3
    <3>2. [c EXCEPT !.rec = record[r]] = d
      OBVIOUS
    <3>3. claim' = [claim EXCEPT ![n] = d]
      BY <3>1, <3>2
    <3> HIDE DEF c, d
    <3>4. /\ claim' \in [Names -> Claims \cup {None}] /\ claim'[n] = d
          /\ \A m \in Names \ {n} : claim'[m] = claim[m]
      BY <1>1, <2>1, <3>3
    <3>5. QED
      BY <1>6, <2>3, <3>4 DEF c, d
  <2>4. CASE claim[n] # c
    BY <1>4, <2>2, <2>4
  <2>5. QED
    BY <2>3, <2>4
<1>7. CASE RemoveItsClaim(r) \/ RemoveOrphan(r)
  <2>1. sweep[r].at \in Names
    BY <1>2, <1>7 DEF RemoveItsClaim, RemoveOrphan, InFolders, InOrphans
  <2>2. claim' = [claim EXCEPT ![sweep[r].at] = None] \/ claim' = claim
    BY <1>7 DEF RemoveItsClaim, RemoveOrphan
  <2>3. QED
    BY <1>3, <2>1, <2>2
<1>8. CASE WriteClaimFails(r) \/ TakeClaimBack(r) \/ DropClaim(r)
  <2>1. scratch[r] \in Names
    BY <1>2, <1>8 DEF WriteClaimFails, TakeClaimBack, DropClaim, WithName
  <2>2. claim' = [claim EXCEPT ![scratch[r]] = None] \/ claim' = claim
    BY <1>8 DEF WriteClaimFails, TakeClaimBack, DropClaim
  <2>3. QED
    BY <1>3, <2>1, <2>2
<1>9. CASE Start(r) \/ Ends(r)
  BY <1>4, <1>9 DEF Start, Ends, files
<1>10. CASE SweepStep(r) /\ ~RemoveItsClaim(r) /\ ~RemoveOrphan(r)
  BY <1>4, <1>10
     DEF SweepStep, files, ListRoot, RestoreQuarantine, CaptureFolder, JudgeFolder, RecheckFolder,
         MoveAside, ConfirmMove, RemoveTree, RemoveTreeGivesUp, CaptureOrphan, JudgeOrphan,
         SweepEnds
<1>11. CASE CreateDir(r) \/ CreateDirFails(r) \/ TakeBackGivesUp(r) \/ DropFolder(r)
            \/ DropGivesUp(r)
  BY <1>4, <1>11 DEF files, CreateDir, CreateDirFails, TakeBackGivesUp, DropFolder, DropGivesUp
<1>12. QED
  BY <1>5, <1>6, <1>7, <1>8, <1>9, <1>10, <1>11 DEF Acts, ScratchStep

\* Where the folders can go, and the quarantines.
LEMMA MovedIsOne ==
    ASSUME ScratchTypeOK, NEW r \in TestRuns, HasMoved(r)
    PROVE  Moved(r) \in quarantine /\ Moved(r).name = sweep[r].at /\ Moved(r).by = r
BY DEF HasMoved, Moved

LEMMA FoldersMove ==
    ASSUME ScratchTypeOK, VerdictsStand, ScratchesAreOwn, NEW r \in TestRuns, Acts(r)
    PROVE  /\ folder' \in [Names -> Makers \cup {None}]
           /\ quarantine' \subseteq Quarantines
           /\ \A n \in Names :
                \/ folder'[n] = folder[n]
                \/ /\ folder'[n] = None /\ folder[n] # None
                   /\ \/ MoveAside(r) /\ n = sweep[r].at
                      \/ DropFolder(r) /\ n = scratch[r]
                \/ /\ folder[n] = None
                   /\ \E q \in quarantine : q.name = n /\ folder'[n] = q.holds
                                            /\ quarantine' = quarantine \ {q}
                \/ /\ CreateDir(r) /\ n = scratch[r] /\ folder[n] = None /\ folder'[n] = r
           /\ \/ quarantine' \subseteq quarantine
              \/ /\ MoveAside(r) /\ folder[sweep[r].at] # None
                 /\ quarantine' = quarantine \cup
                       {[name |-> sweep[r].at, by |-> r, holds |-> folder[sweep[r].at]]}
                 /\ folder' = [folder EXCEPT ![sweep[r].at] = None]
<1>1. folder \in [Names -> Makers \cup {None}] /\ quarantine \subseteq Quarantines
  BY DEF ScratchTypeOK
<1>2. /\ stage[r] \in InFolders => sweep[r].at \in Names
      /\ stage[r] \in WithName => scratch[r] \in Names
  BY SweepsTyped DEF VerdictsStand, ScratchesAreOwn, ScratchTypeOK, SweepTyped
<1>3. \A q \in quarantine : q.name \in Names /\ q.holds \in Makers
  BY <1>1 DEF Quarantines
<1>4. CASE UNCHANGED folder /\ quarantine' \subseteq quarantine
  BY <1>1, <1>4
<1>5. ASSUME NEW q \in quarantine, folder[q.name] = None,
             folder' = [folder EXCEPT ![q.name] = q.holds], quarantine' = quarantine \ {q}
      PROVE  /\ folder' \in [Names -> Makers \cup {None}]
             /\ quarantine' \subseteq Quarantines /\ quarantine' \subseteq quarantine
             /\ \A n \in Names :
                  \/ folder'[n] = folder[n]
                  \/ /\ folder[n] = None
                     /\ q.name = n /\ folder'[n] = q.holds /\ quarantine' = quarantine \ {q}
  BY <1>1, <1>3, <1>5
<1>6. CASE RestoreQuarantine(r)
  <2>1. PICK q \in sweep[r].quarantines :
          IF DueBack(r, q)
          THEN folder' = [folder EXCEPT ![q.name] = q.holds] /\ quarantine' = quarantine \ {q}
          ELSE UNCHANGED <<folder, quarantine>>
    BY <1>6, RestoringTakesOne
  <2>2. CASE DueBack(r, q)
    BY <1>5, <2>1, <2>2 DEF DueBack
  <2>3. CASE ~DueBack(r, q)
    BY <1>4, <2>1, <2>3
  <2>4. QED
    BY <2>2, <2>3
<1>7. CASE PutBack(r) /\ stage[r] \in InFolders
  <2>1. CASE HasMoved(r) /\ folder[sweep[r].at] = None
    <3>1. Moved(r) \in quarantine /\ Moved(r).name = sweep[r].at
      BY <2>1, MovedIsOne
    <3>2. folder' = [folder EXCEPT ![Moved(r).name] = Moved(r).holds]
          /\ quarantine' = quarantine \ {Moved(r)}
      BY <1>7, <2>1, <3>1 DEF PutBack
    <3>3. QED
      BY <1>5, <2>1, <3>1, <3>2
  <2>2. CASE ~(HasMoved(r) /\ folder[sweep[r].at] = None)
    BY <1>4, <1>7, <2>2 DEF PutBack
  <2>3. QED
    BY <2>1, <2>2
<1>8. CASE MoveAside(r)
  <2> DEFINE n == sweep[r].at
             q == [name |-> n, by |-> r, holds |-> folder[n]]
  <2>1. n \in Names
    BY <1>2, <1>8 DEF MoveAside, InFolders
  <2>2. CASE folder[n] # None
    <3>1. q \in Quarantines
      BY <1>1, <2>1, <2>2 DEF Quarantines
    <3>2. folder' = [folder EXCEPT ![n] = None] /\ quarantine' = quarantine \cup {q}
      BY <1>8, <2>2 DEF MoveAside
    <3> HIDE DEF q
    <3>3. /\ folder' \in [Names -> Makers \cup {None}] /\ quarantine' \subseteq Quarantines
          /\ \A m \in Names : folder'[m] = folder[m] \/ (folder'[m] = None /\ m = n)
      BY <1>1, <2>1, <3>1, <3>2
    <3>4. QED
      BY <1>8, <2>2, <3>2, <3>3 DEF q
  <2>3. CASE folder[n] = None
    BY <1>4, <1>8, <2>3 DEF MoveAside
  <2>4. QED
    BY <2>2, <2>3
<1>9. CASE ConfirmMove(r) \/ RemoveTreeGivesUp(r)
  BY <1>4, <1>7, <1>9 DEF ConfirmMove, RemoveTreeGivesUp, InFolders
<1>10. CASE RemoveTree(r)
  BY <1>4, <1>10 DEF RemoveTree
<1>11. CASE CreateDir(r)
  <2>1. scratch[r] \in Names
    BY <1>2, <1>11 DEF CreateDir, WithName
  <2>2. CASE folder[scratch[r]] = None
    <3>1. folder' = [folder EXCEPT ![scratch[r]] = r] /\ UNCHANGED quarantine
      BY <1>11, <2>2 DEF CreateDir
    <3>2. r \in Makers
      BY DEF Makers
    <3>3. /\ folder' \in [Names -> Makers \cup {None}]
          /\ \A m \in Names : folder'[m] = folder[m] \/ (m = scratch[r] /\ folder'[m] = r)
      BY <1>1, <2>1, <3>1, <3>2
    <3>4. QED
      BY <1>1, <1>11, <2>2, <3>1, <3>3
  <2>3. CASE folder[scratch[r]] # None
    BY <1>4, <1>11, <2>3 DEF CreateDir
  <2>4. QED
    BY <2>2, <2>3
<1>12. CASE DropFolder(r)
  <2>1. scratch[r] \in Names
    BY <1>2, <1>12 DEF DropFolder, WithName
  <2>2. folder' = [folder EXCEPT ![scratch[r]] = None] /\ UNCHANGED quarantine
    BY <1>12 DEF DropFolder
  <2>3. /\ folder' \in [Names -> Makers \cup {None}]
        /\ \A m \in Names : \/ folder'[m] = folder[m]
                            \/ folder'[m] = None /\ folder[m] # None /\ m = scratch[r]
    BY <1>1, <2>1, <2>2
  <2>4. QED
    BY <1>1, <1>12, <2>2, <2>3
<1>13. CASE Start(r) \/ Ends(r)
  BY <1>4, <1>13 DEF Start, Ends, files
<1>14. CASE ListRoot(r) \/ CaptureFolder(r) \/ JudgeFolder(r) \/ RecheckFolder(r)
            \/ RemoveItsClaim(r) \/ CaptureOrphan(r) \/ JudgeOrphan(r) \/ RemoveOrphan(r)
            \/ SweepEnds(r)
  BY <1>4, <1>14
     DEF files, ListRoot, CaptureFolder, JudgeFolder, RecheckFolder, RemoveItsClaim, CaptureOrphan,
         JudgeOrphan, RemoveOrphan, SweepEnds
<1>15. CASE CreateClaim(r) \/ WriteClaim(r) \/ WriteClaimFails(r) \/ CreateDirFails(r)
            \/ TakeClaimBack(r) \/ TakeBackGivesUp(r) \/ DropClaim(r) \/ DropGivesUp(r)
  BY <1>4, <1>15
     DEF files, CreateClaim, WriteClaim, WriteClaimFails, CreateDirFails, TakeClaimBack,
         TakeBackGivesUp, DropClaim, DropGivesUp
<1>16. QED
  BY <1>6, <1>8, <1>9, <1>10, <1>11, <1>12, <1>13, <1>14, <1>15 DEF Acts, SweepStep, ScratchStep

\* At which stages a run takes which steps.
LEMMA StepsHavePlaces ==
    ASSUME NEW r \in TestRuns
    PROVE  /\ Start(r) => stage[r] = "unborn"
           /\ ListRoot(r) => stage[r] = "listing"
           /\ SweepStep(r) /\ ~ListRoot(r) =>
                stage[r] \in {"sweeping"} \cup InFolders \cup InOrphans
           /\ CreateClaim(r) => stage[r] = "ready"
           /\ ScratchStep(r) /\ ~CreateClaim(r) => stage[r] \in WithName
<1>1. /\ Start(r) => stage[r] = "unborn"
      /\ ListRoot(r) => stage[r] = "listing"
      /\ CreateClaim(r) => stage[r] = "ready"
  BY DEF Start, ListRoot, CreateClaim
<1>2. SweepStep(r) /\ ~ListRoot(r) => stage[r] \in {"sweeping"} \cup InFolders \cup InOrphans
  BY DEF SweepStep, RestoreQuarantine, CaptureFolder, JudgeFolder, RecheckFolder, MoveAside,
     ConfirmMove, RemoveTree, RemoveTreeGivesUp, RemoveItsClaim, CaptureOrphan, JudgeOrphan,
     RemoveOrphan, SweepEnds, InFolders, InOrphans
<1>3. ScratchStep(r) /\ ~CreateClaim(r) => stage[r] \in WithName
  BY DEF ScratchStep, WithName, WriteClaim, WriteClaimFails, CreateDir, CreateDirFails,
     TakeClaimBack, TakeBackGivesUp, DropFolder, DropClaim, DropGivesUp
<1>4. QED
  BY <1>1, <1>2, <1>3

\* Where a run goes, and whom that disturbs.
SweepActs == {"sweeping", "ready"} \cup InFolders \cup InOrphans
LEMMA StagesMove ==
    ASSUME ScratchTypeOK, NEW r \in TestRuns, Acts(r)
    PROVE  /\ stage' = [stage EXCEPT ![r] = stage'[r]]
           /\ stage'[r] \in Stages \ {"unborn"}
           /\ stage[r] = "unborn" <=> Start(r)
           /\ stage[r] # "gone"
           /\ stage'[r] = "gone" <=> Ends(r)
           /\ SweepStep(r) /\ ~ListRoot(r) => stage'[r] \in SweepActs
           /\ ScratchStep(r) => stage'[r] \in WithName \cup {"ready"}
           /\ IF ListRoot(r) THEN alone' = {r} /\ stage'[r] = "sweeping"
                            ELSE alone' \subseteq alone \cap {r}
<1> USE DEF ScratchTypeOK
<1> DEFINE to(S) == /\ \E p \in S : stage' = [stage EXCEPT ![r] = p]
                    /\ alone' \subseteq alone \cap {r}
<1>1. \A p : Goto(r, p) => stage' = [stage EXCEPT ![r] = p] /\ alone' \subseteq alone \cap {r}
  BY DEF Goto
<1>2. CASE Start(r)
  <2>1. /\ stage[r] = "unborn" /\ stage' = [stage EXCEPT ![r] = "listing"]
        /\ alone' \subseteq alone \cap {r}
    BY <1>1, <1>2 DEF Start
  <2>2. ~SweepStep(r) /\ ~ScratchStep(r) /\ ~ListRoot(r)
    BY <2>1, StepsHavePlaces DEF InFolders, InOrphans, WithName
  <2>3. ~Ends(r)
    BY <2>1 DEF Ends, Alive
  <2>4. QED
    BY <1>2, <2>1, <2>2, <2>3 DEF Stages
<1>3. CASE ListRoot(r)
  <2>1. stage[r] = "listing" /\ stage' = [stage EXCEPT ![r] = "sweeping"] /\ alone' = {r}
    BY <1>3 DEF ListRoot
  <2>2. ~ScratchStep(r) /\ ~Start(r)
    BY <2>1, StepsHavePlaces DEF WithName
  <2>3. ~Ends(r)
    BY <2>1 DEF Ends, Goto
  <2>4. QED
    BY <1>3, <2>1, <2>2, <2>3 DEF Stages
<1>4. CASE SweepStep(r) /\ ~ListRoot(r)
  <2>1. to(SweepActs)
    <3>1. CASE RestoreQuarantine(r) \/ CaptureFolder(r) \/ JudgeFolder(r)
      BY <1>1, <3>1 DEF RestoreQuarantine, CaptureFolder, JudgeFolder, SweepActs, InFolders
    <3>2. CASE RecheckFolder(r) \/ MoveAside(r)
      BY <1>1, <3>2 DEF RecheckFolder, MoveAside, Keep, SweepActs, InFolders
    <3>3. CASE ConfirmMove(r) \/ RemoveTreeGivesUp(r)
      BY <1>1, <3>3 DEF ConfirmMove, RemoveTreeGivesUp, PutBack, SweepActs, InFolders
    <3>4. CASE RemoveTree(r) \/ RemoveItsClaim(r)
      BY <1>1, <3>4 DEF RemoveTree, RemoveItsClaim, Keep, SweepActs, InFolders
    <3>5. CASE CaptureOrphan(r) \/ JudgeOrphan(r)
      BY <1>1, <3>5 DEF CaptureOrphan, JudgeOrphan, SweepActs, InOrphans
    <3>6. CASE RemoveOrphan(r) \/ SweepEnds(r)
      BY <1>1, <3>6 DEF RemoveOrphan, SweepEnds, Keep, SweepActs, InOrphans
    <3>7. QED
      BY <1>4, <3>1, <3>2, <3>3, <3>4, <3>5, <3>6 DEF SweepStep
  <2>2. stage[r] \in {"sweeping"} \cup InFolders \cup InOrphans
    BY <1>4 DEF SweepStep, RestoreQuarantine, CaptureFolder, JudgeFolder, RecheckFolder, MoveAside,
       ConfirmMove, RemoveTree, RemoveTreeGivesUp, RemoveItsClaim, CaptureOrphan, JudgeOrphan,
       RemoveOrphan, SweepEnds, InFolders, InOrphans
  <2>3. ~ScratchStep(r) /\ ~Start(r)
    BY <2>2 DEF ScratchStep, Start, InFolders, InOrphans, CreateClaim, WriteClaim, WriteClaimFails,
       CreateDir, CreateDirFails, TakeClaimBack, TakeBackGivesUp, DropFolder, DropClaim, DropGivesUp
  <2>4. SweepActs \subseteq Stages \ {"unborn", "gone"}
    BY DEF SweepActs, Stages, InFolders, InOrphans
  <2>5. stage'[r] \in SweepActs /\ stage' = [stage EXCEPT ![r] = stage'[r]]
    BY <2>1
  <2>6. ~Ends(r)
    BY <2>4, <2>5 DEF Ends, Goto
  <2>7. QED
    BY <1>4, <2>1, <2>2, <2>3, <2>4, <2>5, <2>6 DEF InFolders, InOrphans
<1>5. CASE ScratchStep(r)
  <2>1. to(WithName \cup {"ready"})
    BY <1>1, <1>5 DEF ScratchStep, WithName, CreateClaim, WriteClaim, WriteClaimFails,
       CreateDir, CreateDirFails, TakeClaimBack, TakeBackGivesUp, DropFolder, DropClaim, DropGivesUp
  <2>2. stage[r] \in WithName \cup {"ready"}
    BY <1>5 DEF ScratchStep, WithName, CreateClaim, WriteClaim, WriteClaimFails,
       CreateDir, CreateDirFails, TakeClaimBack, TakeBackGivesUp, DropFolder, DropClaim, DropGivesUp
  <2>3. ~SweepStep(r) /\ ~Start(r)
    BY <2>2 DEF SweepStep, Start, WithName, ListRoot, RestoreQuarantine, CaptureFolder, JudgeFolder,
       RecheckFolder, MoveAside, ConfirmMove, RemoveTree, RemoveTreeGivesUp, RemoveItsClaim,
       CaptureOrphan, JudgeOrphan, RemoveOrphan, SweepEnds
  <2>4. stage'[r] \in WithName \cup {"ready"} /\ stage' = [stage EXCEPT ![r] = stage'[r]]
    BY <2>1
  <2>5. ~Ends(r)
    BY <2>4 DEF Ends, Goto, WithName
  <2>6. QED
    BY <1>5, <2>1, <2>2, <2>3, <2>4, <2>5 DEF WithName, Stages, SweepStep
<1>6. CASE Ends(r)
  <2>1. /\ stage[r] \notin {"unborn", "gone"} /\ stage' = [stage EXCEPT ![r] = "gone"]
        /\ alone' \subseteq alone \cap {r}
    BY <1>1, <1>6 DEF Ends, Alive
  <2>2. CASE SweepStep(r)
    BY <1>3, <1>4, <2>1, <2>2
  <2>3. CASE ScratchStep(r)
    BY <1>5, <2>1, <2>3
  <2>4. CASE ListRoot(r)
    BY <2>1, <2>4 DEF ListRoot
  <2>5. QED
    BY <1>6, <2>1, <2>2, <2>3, <2>4, StepsHavePlaces DEF Stages, SweepStep
<1>7. QED
  BY <1>2, <1>3, <1>4, <1>5, <1>6 DEF Acts

\* Whose name is drawn, and what it is.
LEMMA ScratchesMove ==
    ASSUME ScratchTypeOK, ScratchesAreOwn, NEW r \in TestRuns, Acts(r)
    PROVE  /\ stage'[r] \in WithName <=> scratch'[r] # None
           /\ drawn \subseteq drawn' /\ drawn' \subseteq Names
           /\ \/ scratch'[r] \in {scratch[r], None} /\ drawn' = drawn /\ ~CreateClaim(r)
              \/ /\ CreateClaim(r) /\ scratch'[r] \in Names \ drawn /\ stage'[r] = "claimed"
                 /\ drawn' = drawn \cup {scratch'[r]}
                 /\ claim'[scratch'[r]] = [by |-> r, rec |-> Torn]
                 /\ \A n \in Names \ {scratch'[r]} : claim'[n] = claim[n]
           /\ scratch' \in [TestRuns -> Names \cup {None}]
<1> USE DEF ScratchTypeOK
<1>1. CASE Start(r)
  BY <1>1, StagesMove DEF Start, Goto, ScratchesAreOwn, WithName, CreateClaim
<1>2. CASE SweepStep(r)
  <2>1. UNCHANGED <<scratch, drawn>>
    BY <1>2 DEF SweepStep, OnlySweeps, ListRoot, RestoreQuarantine, CaptureFolder, JudgeFolder,
       RecheckFolder, MoveAside, ConfirmMove, RemoveTree, RemoveTreeGivesUp, RemoveItsClaim,
       CaptureOrphan, JudgeOrphan, RemoveOrphan, SweepEnds
  <2>2. stage[r] \notin WithName \cup {"ready"}
    BY <1>2 DEF SweepStep, WithName, ListRoot, RestoreQuarantine, CaptureFolder, JudgeFolder,
       RecheckFolder, MoveAside, ConfirmMove, RemoveTree, RemoveTreeGivesUp, RemoveItsClaim,
       CaptureOrphan, JudgeOrphan, RemoveOrphan, SweepEnds
  <2>3. stage'[r] \notin WithName
    BY <1>2, StagesMove DEF SweepActs, WithName, InFolders, InOrphans
  <2>4. QED
    BY <2>1, <2>2, <2>3 DEF ScratchesAreOwn, CreateClaim
<1>3. CASE CreateClaim(r)
  <2>1. PICK n \in Names \ drawn : /\ claim' = [claim EXCEPT ![n] = [by |-> r, rec |-> Torn]]
                                   /\ drawn' = drawn \cup {n}
                                   /\ scratch' = [scratch EXCEPT ![r] = n]
    BY <1>3 DEF CreateClaim
  <2>2. scratch'[r] = n /\ scratch' \in [TestRuns -> Names \cup {None}] /\ n # None
    BY <2>1, ScratchAssumption
  <2>3. claim'[n] = [by |-> r, rec |-> Torn] /\ \A m \in Names \ {n} : claim'[m] = claim[m]
    BY <2>1
  <2>4. stage'[r] = "claimed"
    BY <1>3 DEF CreateClaim, Goto
  <2>5. QED
    BY <1>3, <2>1, <2>2, <2>3, <2>4 DEF WithName
<1>4. CASE WriteClaim(r) \/ CreateDir(r) \/ CreateDirFails(r) \/ TakeBackGivesUp(r)
           \/ DropFolder(r)
  <2>1. UNCHANGED <<scratch, drawn>> /\ ~CreateClaim(r)
    BY <1>4 DEF WriteClaim, CreateDir, CreateDirFails, TakeBackGivesUp, DropFolder, CreateClaim
  <2>2. stage[r] \in WithName /\ stage'[r] \in WithName
    BY <1>4 DEF WriteClaim, CreateDir, CreateDirFails, TakeBackGivesUp, DropFolder, WithName, Goto
  <2>3. QED
    BY <2>1, <2>2 DEF ScratchesAreOwn
<1>5. CASE WriteClaimFails(r) \/ TakeClaimBack(r) \/ DropClaim(r) \/ DropGivesUp(r) \/ Ends(r)
  <2>1. scratch' = [scratch EXCEPT ![r] = None] /\ UNCHANGED drawn /\ ~CreateClaim(r)
    BY <1>5 DEF WriteClaimFails, TakeClaimBack, DropClaim, DropGivesUp, Ends, CreateClaim, Goto
  <2>2. stage'[r] \notin WithName
    BY <1>5 DEF WriteClaimFails, TakeClaimBack, DropClaim, DropGivesUp, Ends, WithName, Goto
  <2>3. QED
    BY <2>1, <2>2
<1>6. QED
  BY <1>1, <1>2, <1>3, <1>4, <1>5 DEF Acts, ScratchStep

\* What is aged exists.
LEMMA StampsStand ==
    ASSUME ScratchTypeOK, NEW r \in TestRuns, Acts(r)
    PROVE  aged' \subseteq Entries' /\ mishaps' \in 0..MaxMishaps
<1>1. aged \subseteq Entries /\ mishaps \in 0..MaxMishaps
  BY DEF ScratchTypeOK
<1>2. Restamp => aged' \subseteq Entries'
  BY DEF Restamp
<1>3. UNCHANGED <<aged, files>> => aged' \subseteq Entries'
  BY <1>1 DEF Entries, Trees, files
<1>4. Mishap => mishaps' \in 0..MaxMishaps
  BY <1>1, ScratchAssumption DEF Mishap
<1>5. CASE Start(r) \/ Ends(r)
  BY <1>1, <1>3, <1>5 DEF Start, Ends
<1>6. CASE ListRoot(r) \/ CaptureFolder(r) \/ JudgeFolder(r) \/ RecheckFolder(r)
           \/ CaptureOrphan(r) \/ JudgeOrphan(r) \/ SweepEnds(r)
  BY <1>1, <1>3, <1>6 DEF ListRoot, CaptureFolder, JudgeFolder, RecheckFolder, CaptureOrphan,
     JudgeOrphan, SweepEnds
<1>7. CASE RestoreQuarantine(r) \/ MoveAside(r) \/ ConfirmMove(r) \/ RemoveTree(r)
           \/ RemoveItsClaim(r) \/ RemoveOrphan(r)
  BY <1>1, <1>2, <1>7 DEF RestoreQuarantine, MoveAside, ConfirmMove, RemoveTree, RemoveItsClaim,
     RemoveOrphan
<1>8. CASE RemoveTreeGivesUp(r) \/ WriteClaimFails(r)
  BY <1>2, <1>4, <1>8 DEF RemoveTreeGivesUp, WriteClaimFails
<1>9. CASE WriteClaim(r) \/ TakeClaimBack(r) \/ DropFolder(r) \/ DropClaim(r)
  BY <1>1, <1>2, <1>9 DEF WriteClaim, TakeClaimBack, DropFolder, DropClaim
<1>10. CASE CreateDirFails(r) \/ TakeBackGivesUp(r) \/ DropGivesUp(r)
  BY <1>3, <1>4, <1>10 DEF CreateDirFails, TakeBackGivesUp, DropGivesUp
<1>11. ASSUME UNCHANGED <<aged, quarantine>>,
              \A n \in Names : folder[n] # None => folder'[n] = folder[n],
              \A n \in Names : claim[n] # None => claim'[n] = claim[n]
       PROVE  aged' \subseteq Entries'
  <2>1. \A e \in Entries : e \in Entries'
    BY <1>11 DEF Entries, Trees
  <2>2. QED
    BY <1>1, <1>11, <2>1
<1>12. CASE CreateClaim(r)
  <2>1. PICK n \in Names : /\ claim[n] = None
                          /\ claim' = [claim EXCEPT ![n] = [by |-> r, rec |-> Torn]]
    BY <1>12 DEF CreateClaim
  <2>2. \A m \in Names : claim[m] # None => claim'[m] = claim[m]
    BY <2>1 DEF ScratchTypeOK
  <2>3. UNCHANGED <<folder, quarantine, aged, mishaps>>
    BY <1>12 DEF CreateClaim
  <2>4. QED
    BY <1>1, <1>11, <2>2, <2>3
<1>13. CASE CreateDir(r)
  <2>1. \A m \in Names : folder[m] # None => folder'[m] = folder[m]
    BY <1>13 DEF CreateDir, ScratchTypeOK
  <2>2. UNCHANGED <<claim, quarantine, aged, mishaps>>
    BY <1>13 DEF CreateDir
  <2>3. QED
    BY <1>1, <1>11, <2>1, <2>2
<1>14. QED
  BY <1>5, <1>6, <1>7, <1>8, <1>9, <1>10, <1>12, <1>13 DEF Acts, SweepStep, ScratchStep

\* What a run's step leaves typed.
LEMMA ActsTyped ==
    ASSUME ScratchTypeOK, VerdictsStand, ScratchesAreOwn, NEW r \in TestRuns, Acts(r)
    PROVE  ScratchTypeOK'
<1>1. stage' \in [TestRuns -> Stages] /\ alone' \subseteq TestRuns
  BY StagesMove DEF ScratchTypeOK
<1>2. pid' \in [TestRuns -> Pids] /\ ns' \in [TestRuns -> Namespaces]
  BY OthersStand DEF ScratchTypeOK
<1>3. record' \in [TestRuns -> TestRuns]
  <2>1. CASE Start(r)
    BY <2>1 DEF Start, ScratchTypeOK
  <2>2. CASE ~Start(r)
    BY <2>2, OthersStand DEF ScratchTypeOK
  <2>3. QED
    BY <2>1, <2>2
<1>4. QED
  BY <1>1, <1>2, <1>3, SweepsStayTyped, ClaimsMove, FoldersMove, ScratchesMove, StampsStand
     DEF ScratchTypeOK

\* What is left for a sweep only shrinks after its listing, and what it has before it
\* is what is there.
LEMMA SweepsMove ==
    ASSUME ScratchTypeOK, VerdictsStand, NEW r \in TestRuns, Acts(r), ~ListRoot(r)
    PROVE  LET s == sweep[r]
               t == sweep'[r]
           IN  /\ t.quarantines \subseteq s.quarantines /\ t.claims \subseteq s.claims
               /\ t.folders \subseteq s.folders \cup {q.name : q \in s.quarantines}
               /\ \/ t.at \in {s.at, None} /\ t.saw \in {s.saw, None} /\ t.id \in {s.id, None}
                  \/ /\ t.at \in (s.folders \cup s.claims) \cap Names
                     /\ t.saw = claim[t.at] /\ t.id \in {folder[t.at], None}
               /\ \/ t.asked \in {s.asked, NoSweep.asked}
                  \/ \E p \in Pids : t.asked = Asked(r, p)
<1> DEFINE s == sweep[r]
           t == sweep'[r]
           Sum == /\ t.quarantines \subseteq s.quarantines /\ t.claims \subseteq s.claims
                  /\ t.folders \subseteq s.folders \cup {q.name : q \in s.quarantines}
                  /\ \/ t.at \in {s.at, None} /\ t.saw \in {s.saw, None} /\ t.id \in {s.id, None}
                     \/ /\ t.at \in (s.folders \cup s.claims) \cap Names
                        /\ t.saw = claim[t.at] /\ t.id \in {folder[t.at], None}
                  /\ \/ t.asked \in {s.asked, NoSweep.asked}
                     \/ \E p \in Pids : t.asked = Asked(r, p)
<1>1. SweepTyped(s)
  BY SweepsTyped DEF ScratchTypeOK
<1>2. CASE UNCHANGED sweep
  BY <1>2
<1>3. CASE RestoreQuarantine(r)
  <2>1. PICK q \in s.quarantines :
          /\ q \in Quarantines /\ SameName(t, s)
          /\ t.quarantines = s.quarantines \ {q} /\ t.claims = s.claims
          /\ t.asked = Asked(r, pid[q.by])
          /\ t.folders \in {s.folders, s.folders \cup {q.name}}
    BY <1>3, RestoringTakesOne
  <2>2. pid[q.by] \in Pids
    BY <2>1 DEF Quarantines, ScratchTypeOK
  <2>3. QED
    BY <2>1, <2>2 DEF SameName
<1>4. CASE CaptureFolder(r)
  <2>1. PICK n \in s.folders :
          /\ n \in Names
          /\ t.quarantines = s.quarantines /\ t.claims = s.claims
          /\ t.asked = s.asked /\ t.folders = s.folders \ {n}
          /\ SameName(t, s) \/ (t.at = n /\ t.id = folder[n] /\ t.saw = claim[n])
    BY <1>4, CapturingTakesOne
  <2>2. QED
    BY <2>1 DEF SameName
<1>5. CASE CaptureOrphan(r)
  <2>1. PICK n \in s.claims :
          /\ n \in Names
          /\ t.quarantines = s.quarantines /\ t.folders = s.folders
          /\ t.asked = s.asked /\ t.claims = s.claims \ {n} /\ t.id = s.id
          /\ SameName(t, s) \/ (t.at = n /\ t.saw = claim[n])
    BY <1>5, CapturingAnOrphan
  <2>2. s.id = None
    BY <1>5 DEF VerdictsStand, CaptureOrphan, InFolders
  <2>3. QED
    BY <2>1, <2>2 DEF SameName
<1>6. CASE JudgeFolder(r) \/ JudgeOrphan(r)
  <2>1. /\ SameLists(t, s) /\ t.asked = AskedAbout(r, s.saw)
        /\ SameName(t, s) \/ (t.at = None /\ t.saw = None /\ t.id \in {None, s.id})
    BY <1>6, JudgingAsks
  <2>2. t.asked = s.asked \/ \E p \in Pids : t.asked = Asked(r, p)
    BY <1>1, <2>1, AskedAboutTyped DEF SweepTyped
  <2>3. QED
    BY <2>1, <2>2 DEF SameLists, SameName
<1>7. CASE Keep(r)
  BY <1>7, KeepClears DEF SameLists, Clear
<1>8. CASE PutBack(r) /\ stage[r] \in InFolders
  <2>1. s.at \in Names
    BY <1>1, <1>8 DEF VerdictsStand, SweepTyped
  <2>2. QED
    BY <1>8, <2>1, PutBackClears DEF Clear
<1>9. CASE SweepEnds(r) \/ Ends(r)
  <2>1. t = NoSweep
    BY <1>9 DEF SweepEnds, Ends, ScratchTypeOK
  <2>2. QED
    BY <2>1 DEF NoSweep
<1>10. CASE Start(r) \/ ScratchStep(r)
  BY <1>2, <1>10
     DEF Start, ScratchStep, OnlyScratches, CreateClaim, WriteClaim, WriteClaimFails, CreateDir,
         CreateDirFails, TakeClaimBack, TakeBackGivesUp, DropFolder, DropClaim, DropGivesUp
<1>11. CASE RecheckFolder(r) \/ MoveAside(r) \/ ConfirmMove(r)
  BY <1>2, <1>7, <1>8, <1>11 DEF RecheckFolder, MoveAside, ConfirmMove, InFolders
<1>12. CASE RemoveTree(r) \/ RemoveTreeGivesUp(r) \/ RemoveItsClaim(r) \/ RemoveOrphan(r)
  BY <1>2, <1>7, <1>8, <1>12
     DEF RemoveTree, RemoveTreeGivesUp, RemoveItsClaim, RemoveOrphan, InFolders
<1>13. QED
  BY <1>3, <1>4, <1>5, <1>6, <1>9, <1>10, <1>11, <1>12 DEF Acts, SweepStep

\* So a sweep after its listing never turns to a name it had done with.
LEMMA ListsShrink ==
    ASSUME ScratchTypeOK, VerdictsStand, NEW r \in TestRuns, Acts(r), ~ListRoot(r)
    PROVE  Listed(r)' \subseteq Listed(r)
<1> DEFINE s == sweep[r]
           t == sweep'[r]
<1>1. /\ t.quarantines \subseteq s.quarantines /\ t.claims \subseteq s.claims
      /\ t.folders \subseteq s.folders \cup {q.name : q \in s.quarantines}
      /\ t.at \in {s.at, None} \/ t.at \in (s.folders \cup s.claims)
  BY SweepsMove
<1>2. Listed(r)' = t.folders \cup t.claims \cup {q.name : q \in t.quarantines}
                     \cup ({t.at} \ {None})
  BY DEF Listed
<1>3. Listed(r) = s.folders \cup s.claims \cup {q.name : q \in s.quarantines} \cup ({s.at} \ {None})
  BY DEF Listed
<1> HIDE DEF s, t
<1>4. QED
  BY <1>1, <1>2, <1>3

\* A run that was born stays born, and keeps the record it drew.
LEMMA TheBornStay ==
    ASSUME ScratchTypeOK, NEW r \in TestRuns, Acts(r)
    PROVE  /\ Born(r)'
           /\ \A x \in TestRuns : Born(x) => Born(x)' /\ record'[x] = record[x]
           /\ \A x \in TestRuns \ {r} : Born(x)' => Born(x)
<1>1. stage'[r] # "unborn" /\ (~Start(r) => record' = record) /\ (Start(r) => stage[r] = "unborn")
  BY StagesMove, OthersStand
<1>2. \A x \in TestRuns \ {r} : stage'[x] = stage[x] /\ record'[x] = record[x]
  BY OthersStand
<1>3. QED
  BY <1>1, <1>2 DEF Born

LEMMA RecordsStayBorn ==
    ASSUME ScratchIInv, NEW r \in TestRuns, Acts(r)
    PROVE  RecordsAreOfBorn'
<1> USE DEF ScratchIInv
<1>1. \A x \in TestRuns : record[x] \in TestRuns
  BY DEF ScratchTypeOK
<1>2. \A x \in TestRuns \ {r} :
        IF Born(x)' THEN Born(record[x])' /\ record'[x] = record[x] ELSE record'[x] = x
  <2>1. TAKE x \in TestRuns \ {r}
  <2>2. record'[x] = record[x] /\ Born(x)' = Born(x)
    BY OthersStand DEF Born
  <2>3. QED
    BY <1>1, <2>2, TheBornStay DEF RecordsAreOfBorn
<1>3. Born(r)' /\ stage'[record'[r]] # "unborn"
  <2>1. CASE Start(r)
    <3>1. PICK y \in {r} \cup {x \in TestRuns : Alive(x) /\ SamePlace(r, x)} :
            record' = [record EXCEPT ![r] = y]
      BY <2>1 DEF Start
    <3>2. record'[r] = y /\ (y = r \/ Born(y))
      BY <3>1 DEF ScratchTypeOK, Alive, Born
    <3>3. y \in TestRuns
      BY <3>1
    <3>4. QED
      BY <3>2, <3>3, TheBornStay DEF Born
  <2>2. CASE ~Start(r)
    <3>1. Born(r) /\ record'[r] = record[r]
      BY <2>2, StagesMove, OthersStand DEF Born
    <3>2. Born(record[r])
      BY <3>1 DEF RecordsAreOfBorn
    <3>3. QED
      BY <1>1, <3>1, <3>2, TheBornStay DEF Born
  <2>3. QED
    BY <2>1, <2>2
<1>4. \A x \in TestRuns :
        IF stage'[x] # "unborn" THEN stage'[record'[x]] # "unborn" ELSE record'[x] = x
  <2>1. TAKE x \in TestRuns
  <2>2. CASE x = r
    BY <1>3, <2>2 DEF Born
  <2>3. CASE x # r
    BY <1>2, <2>3 DEF Born
  <2>4. QED
    BY <2>2, <2>3
<1>5. QED
  BY <1>4 DEF RecordsAreOfBorn, Born

LEMMA NamesStayDrawn ==
    ASSUME ScratchIInv, NEW r \in TestRuns, Acts(r)
    PROVE  NamesAreDrawn'
<1> USE DEF ScratchIInv
<1>1. drawn \subseteq drawn' /\ scratch[r] \in drawn \cup {None}
      /\ (scratch'[r] \in {scratch[r], None} \/ scratch'[r] \in drawn')
  BY ScratchesMove DEF NamesAreDrawn
<1>2. /\ \A n \in Names : folder[n] # None \/ claim[n] # None => n \in drawn
      /\ \A q \in quarantine : q.name \in drawn
      /\ \A x \in TestRuns : Listed(x) \subseteq drawn /\ scratch[x] \in drawn \cup {None}
  BY DEF NamesAreDrawn
<1>3. \A n \in Names : folder'[n] # None => n \in drawn'
  <2>1. TAKE n \in Names
  <2>2. \/ folder'[n] \in {folder[n], None}
        \/ \E q \in quarantine : q.name = n
        \/ CreateDir(r) /\ n = scratch[r]
    BY FoldersMove
  <2>3. CreateDir(r) => scratch[r] # None
    BY DEF CreateDir, ScratchesAreOwn, WithName
  <2>4. QED
    BY <1>1, <1>2, <2>2, <2>3
<1>4. \A n \in Names : claim'[n] # None => n \in drawn'
  <2>1. TAKE n \in Names
  <2>2. claim'[n] \in {claim[n], None} \/ n \in drawn' \/ claim[n] = [by |-> r, rec |-> Torn]
    BY ClaimsMove
  <2>3. [by |-> r, rec |-> Torn] \in Claims
    BY DEF Claims
  <2>4. [by |-> r, rec |-> Torn] # None
    BY <2>3, ScratchAssumption
  <2>5. QED
    BY <1>1, <1>2, <2>2, <2>4
<1>5. \A q \in quarantine' : q.name \in drawn'
  <2>1. TAKE q \in quarantine'
  <2>2. CASE q \in quarantine
    BY <1>1, <1>2, <2>2
  <2>3. CASE q \notin quarantine
    <3>1. MoveAside(r) /\ folder[sweep[r].at] # None /\ q.name = sweep[r].at
      BY <2>3, FoldersMove
    <3>2. sweep[r].at \in Names
      BY <3>1, SweepsTyped DEF MoveAside, VerdictsStand, InFolders, ScratchTypeOK, SweepTyped
    <3>3. QED
      BY <1>1, <1>2, <3>1, <3>2
  <2>4. QED
    BY <2>2, <2>3
<1>6. Listed(r)' \subseteq drawn'
  <2>1. CASE ListRoot(r)
    <3>1. /\ sweep'[r].quarantines = quarantine
          /\ sweep'[r].folders = {n \in Names : folder[n] # None}
          /\ sweep'[r].claims = {n \in Names : claim[n] # None} /\ sweep'[r].at = None
      BY <2>1, ListingIsTaken DEF Clear
    <3>2. QED
      BY <1>1, <1>2, <3>1 DEF Listed
  <2>2. CASE ~ListRoot(r)
    BY <1>1, <1>2, <2>2, ListsShrink
  <2>3. QED
    BY <2>1, <2>2
<1>7. \A x \in TestRuns : Listed(x)' \subseteq drawn' /\ scratch'[x] \in drawn' \cup {None}
  <2>1. TAKE x \in TestRuns
  <2>2. CASE x = r
    BY <1>1, <1>6, <2>2
  <2>3. CASE x # r
    <3>1. sweep'[x] = sweep[x] /\ scratch'[x] = scratch[x]
      BY <2>3, OthersStand
    <3>2. Listed(x)' = Listed(x)
      BY <3>1 DEF Listed
    <3>3. QED
      BY <1>1, <1>2, <3>1, <3>2
  <2>4. QED
    BY <2>2, <2>3
<1>8. QED
  BY <1>3, <1>4, <1>5, <1>7 DEF NamesAreDrawn

LEMMA ScratchesStayOwn ==
    ASSUME ScratchIInv, NEW r \in TestRuns, Acts(r)
    PROVE  ScratchesAreOwn'
<1> USE DEF ScratchIInv
<1>1. /\ stage'[r] \in WithName <=> scratch'[r] # None
      /\ \/ scratch'[r] \in {scratch[r], None} /\ ~CreateClaim(r)
         \/ /\ CreateClaim(r) /\ scratch'[r] \in Names \ drawn
            /\ claim'[scratch'[r]] = [by |-> r, rec |-> Torn]
  BY ScratchesMove
<1>2. \A x \in TestRuns \ {r} : stage'[x] = stage[x] /\ scratch'[x] = scratch[x]
  BY OthersStand
<1>3. \A x \in TestRuns : scratch[x] \in drawn \cup {None} /\ scratch[x] \in Names \cup {None}
  BY DEF NamesAreDrawn, ScratchTypeOK
<1>4. \A x \in TestRuns :
        /\ stage[x] \in WithName => scratch[x] # None
        /\ scratch[x] # None =>
             /\ stage[x] \in WithName
             /\ claim[scratch[x]] # None => claim[scratch[x]].by = x
             /\ \A y \in TestRuns \ {x} : scratch[y] # scratch[x]
  BY DEF ScratchesAreOwn
<1>5. ASSUME NEW x \in TestRuns \ {r}
      PROVE  /\ stage'[x] \in WithName => scratch'[x] # None
             /\ scratch'[x] # None =>
                  /\ stage'[x] \in WithName
                  /\ claim'[scratch'[x]] # None => claim'[scratch'[x]].by = x
                  /\ \A y \in TestRuns \ {x} : scratch'[y] # scratch'[x]
  <2>1. /\ stage'[x] \in WithName => scratch'[x] # None
        /\ scratch'[x] # None => stage'[x] \in WithName
    BY <1>2, <1>4
  <2>2. ASSUME scratch'[x] # None, claim'[scratch'[x]] # None
        PROVE  claim'[scratch'[x]].by = x
    <3> DEFINE n == scratch[x]
    <3>1. scratch'[x] = n /\ n \in Names /\ n \in drawn
      BY <1>2, <1>3, <2>2
    <3>2. n # scratch[r]
      BY <1>4, <2>2, <3>1
    <3>3. claim'[n] \in {claim[n], None} \/ n \notin drawn \/ n = scratch[r]
      BY <3>1, ClaimsMove
    <3>4. claim'[n] = claim[n]
      BY <2>2, <3>1, <3>2, <3>3
    <3>5. QED
      BY <1>4, <2>2, <3>1, <3>4
  <2>3. ASSUME scratch'[x] # None, NEW y \in TestRuns \ {x}
        PROVE  scratch'[y] # scratch'[x]
    BY <1>1, <1>2, <1>3, <1>4, <2>3
  <2>4. QED
    BY <2>1, <2>2, <2>3
<1>6. ASSUME scratch'[r] # None
      PROVE  /\ claim'[scratch'[r]] # None => claim'[scratch'[r]].by = r
             /\ \A y \in TestRuns \ {r} : scratch'[y] # scratch'[r]
  <2>1. CASE scratch'[r] = scratch[r] /\ ~CreateClaim(r)
    <3> DEFINE n == scratch[r]
    <3>1. n \in Names
      BY <1>3, <1>6, <2>1
    <3>2. claim'[n] \in {claim[n], None} \/ claim'[n] = [by |-> r, rec |-> record[r]]
      BY <2>1, <3>1, ClaimsMove
    <3>3. claim'[n] # None => claim'[n].by = r
      BY <1>4, <1>6, <2>1, <3>2
    <3>4. QED
      BY <1>2, <1>4, <1>6, <2>1, <3>3
  <2>2. CASE CreateClaim(r)
    BY <1>1, <1>2, <1>3, <2>2, ScratchAssumption
  <2>3. QED
    BY <1>1, <1>6, <2>1, <2>2
<1>7. QED
  BY <1>1, <1>5, <1>6 DEF ScratchesAreOwn

\* A claim stays its run's, and only its run or the verdict on it takes it away.
LEMMA ClaimsGo ==
    ASSUME ScratchIInv, NEW r \in TestRuns, Acts(r), NEW n \in Names
    PROVE  /\ claim'[n] # None =>
                \/ claim[n] # None /\ claim'[n].by = claim[n].by
                \/ n \notin drawn /\ claim[n] = None /\ CreateClaim(r)
           /\ claim[n] # None /\ claim'[n] = None =>
                \/ ScratchStep(r) /\ n = scratch[r]
                \/ /\ RemoveItsClaim(r) \/ RemoveOrphan(r)
                   /\ n = sweep[r].at /\ claim[n] = sweep[r].saw /\ stage[r] \in Condemns
<1> USE DEF ScratchIInv
<1>1. [by |-> r, rec |-> Torn] \in Claims
  BY DEF Claims
<1>2. claim[n] = None \/ n \in drawn
  BY DEF NamesAreDrawn
<1>3. claim'[n] # None =>
         \/ claim[n] # None /\ claim'[n].by = claim[n].by
         \/ n \notin drawn /\ claim[n] = None /\ CreateClaim(r)
  <2>1. [by |-> r, rec |-> Torn] # None
    BY <1>1, ScratchAssumption
  <2>2. \/ claim'[n] \in {claim[n], None}
        \/ CreateClaim(r) /\ n \notin drawn
        \/ /\ claim[n] = [by |-> r, rec |-> Torn]
           /\ claim'[n] = [by |-> r, rec |-> record[r]]
    BY ClaimsMove
  <2>3. CASE claim[n] = [by |-> r, rec |-> Torn] /\ claim'[n] = [by |-> r, rec |-> record[r]]
    <3>1. claim[n] # None
      BY <2>1, <2>3
    <3>2. claim'[n].by = claim[n].by
      BY <2>3
    <3>3. QED
      BY <3>1, <3>2
  <2>4. QED
    BY <1>2, <2>2, <2>3
<1>4. ASSUME claim[n] # None, claim'[n] = None
      PROVE  \/ ScratchStep(r) /\ n = scratch[r]
             \/ /\ RemoveItsClaim(r) \/ RemoveOrphan(r)
                /\ n = sweep[r].at /\ claim[n] = sweep[r].saw /\ stage[r] \in Condemns
  <2> USE DEF ScratchTypeOK
  <2>1. claim' # claim
    BY <1>4
  <2>2. CASE WriteClaim(r) \/ WriteClaimFails(r) \/ TakeClaimBack(r) \/ DropClaim(r)
    BY <1>4, <2>2 DEF WriteClaim, WriteClaimFails, TakeClaimBack, DropClaim, ScratchStep
  <2>3. CASE CreateClaim(r)
    BY <1>1, <1>4, <2>3, ScratchAssumption DEF CreateClaim
  <2>4. CASE RemoveItsClaim(r)
    BY <1>4, <2>4 DEF RemoveItsClaim, Condemns
  <2>5. CASE RemoveOrphan(r)
    <3>1. n = sweep[r].at /\ stage[r] = "orphanGone"
      BY <1>4, <2>5 DEF RemoveOrphan
    <3>2. claim[n] \in {sweep[r].saw, None}
      BY <3>1 DEF VerdictsStand
    <3>3. QED
      BY <1>4, <2>5, <3>1, <3>2 DEF Condemns
  <2>6. CASE Start(r) \/ Ends(r)
    BY <2>1, <2>6 DEF Start, Ends, files
  <2>7. CASE SweepStep(r) /\ ~RemoveItsClaim(r) /\ ~RemoveOrphan(r)
    BY <2>1, <2>7
       DEF SweepStep, files, ListRoot, RestoreQuarantine, CaptureFolder, JudgeFolder,
           RecheckFolder, MoveAside, ConfirmMove, RemoveTree, RemoveTreeGivesUp, CaptureOrphan,
           JudgeOrphan, SweepEnds
  <2>8. CASE CreateDir(r) \/ CreateDirFails(r) \/ TakeBackGivesUp(r) \/ DropFolder(r)
             \/ DropGivesUp(r)
    BY <2>1, <2>8 DEF files, CreateDir, CreateDirFails, TakeBackGivesUp, DropFolder, DropGivesUp
  <2>9. QED
    BY <2>2, <2>3, <2>4, <2>5, <2>6, <2>7, <2>8 DEF Acts, ScratchStep
<1>5. QED
  BY <1>3, <1>4

LEMMA ClaimsStillTell ==
    ASSUME ScratchIInv, NEW r \in TestRuns, Acts(r)
    PROVE  ClaimsTell'
<1> USE DEF ScratchIInv
<1> DEFINE TellsNow(c) == c # None => stage'[c.by] # "unborn" /\ c.rec \in {Torn, record'[c.by]}
<1>1. ASSUME NEW c \in Claims \cup {None}, Tells(c)
      PROVE  TellsNow(c)
  <2>1. CASE c = None
    BY <2>1
  <2>2. CASE c # None
    <3>1. c.by \in TestRuns /\ Born(c.by) /\ c.rec \in {Torn, record[c.by]}
      BY <1>1, <2>2 DEF Claims, Tells
    <3>2. QED
      BY <3>1, TheBornStay DEF Born
  <2>3. QED
    BY <2>1, <2>2
<1>2. \A n \in Names : claim[n] \in Claims \cup {None} /\ Tells(claim[n])
  BY DEF ScratchTypeOK, ClaimsTell
<1>3. \A n \in Names : TellsNow(claim'[n])
  <2>1. TAKE n \in Names
  <2>2. CASE claim'[n] \in {claim[n], None}
    BY <1>1, <1>2, <2>2
  <2>3. CASE claim'[n] = [by |-> r, rec |-> Torn]
    BY <2>3, TheBornStay DEF Born
  <2>4. CASE WriteClaim(r) /\ claim'[n] = [by |-> r, rec |-> record[r]]
    <3>1. record'[r] = record[r]
      BY <2>4, OthersStand DEF ScratchStep, WriteClaim, Start
    <3>2. QED
      BY <2>4, <3>1, TheBornStay DEF Born
  <2>5. QED
    BY <2>2, <2>3, <2>4, ClaimsMove
<1>4. \A x \in TestRuns : sweep[x].saw \in Claims \cup {None} /\ Tells(sweep[x].saw)
  BY SweepsTyped DEF ScratchTypeOK, ClaimsTell, SweepTyped
<1>5. \A x \in TestRuns : TellsNow(sweep'[x].saw)
  <2>1. TAKE x \in TestRuns
  <2>2. CASE x # r
    BY <1>1, <1>4, <2>2, OthersStand
  <2>3. CASE x = r /\ ListRoot(r)
    BY <2>3, ListingIsTaken DEF Clear
  <2>4. CASE x = r /\ ~ListRoot(r)
    <3>1. sweep'[r].saw \in {sweep[r].saw, None} \/ \E n \in Names : sweep'[r].saw = claim[n]
      BY <2>4, SweepsMove
    <3>2. QED
      BY <1>1, <1>2, <1>4, <2>4, <3>1
  <2>5. QED
    BY <2>2, <2>3, <2>4
<1>6. QED
  BY <1>3, <1>5 DEF ClaimsTell, Tells, Born

LEMMA MakersStillClaim ==
    ASSUME ScratchIInv, NEW r \in TestRuns, Acts(r)
    PROVE  MakersClaim'
<1> USE DEF ScratchIInv
<1>1. /\ \A n \in Names : Agree(folder[n], claim[n])
      /\ \A q \in quarantine : Agree(q.holds, claim[q.name])
      /\ \A x \in TestRuns : Agree(sweep[x].id, sweep[x].saw)
  BY DEF MakersClaim
<1>2. None \notin TestRuns /\ \A c : Agree(None, c)
  BY ScratchAssumption DEF Makers, Agree
<1>3. \A w : Agree(w, None)
  BY DEF Agree
<1>4. \A n \in Names : \A w : n \in drawn /\ Agree(w, claim[n]) => Agree(w, claim'[n])
  BY ClaimsGo DEF Agree
<1>5. \A n \in Names : folder[n] # None => n \in drawn
  BY DEF NamesAreDrawn
<1>6. \A q \in quarantine : q.name \in Names /\ q.name \in drawn
  BY DEF ScratchTypeOK, Quarantines, NamesAreDrawn
<1>7. \A n \in Names : Agree(folder'[n], claim'[n])
  <2>1. TAKE n \in Names
  <2>2. CASE folder'[n] = None
    BY <1>2, <2>2
  <2>3. CASE folder'[n] = folder[n] /\ folder[n] # None
    BY <1>1, <1>4, <1>5, <2>3
  <2>4. CASE \E q \in quarantine : q.name = n /\ folder'[n] = q.holds
    BY <1>1, <1>4, <1>6, <2>4
  <2>5. CASE CreateDir(r) /\ n = scratch[r] /\ folder'[n] = r
    <3>1. scratch[r] # None
      BY <2>5 DEF CreateDir, ScratchesAreOwn, WithName
    <3>2. claim[n] # None => claim[n].by = r
      BY <2>5, <3>1 DEF ScratchesAreOwn
    <3>3. UNCHANGED claim
      BY <2>5 DEF CreateDir
    <3>4. QED
      BY <2>5, <3>2, <3>3 DEF Agree
  <2>6. QED
    BY <2>2, <2>3, <2>4, <2>5, FoldersMove
<1>8. \A q \in quarantine' : Agree(q.holds, claim'[q.name])
  <2>1. TAKE q \in quarantine'
  <2>2. CASE q \in quarantine
    BY <1>1, <1>4, <1>6, <2>2
  <2>3. CASE q \notin quarantine
    <3>1. /\ MoveAside(r) /\ folder[sweep[r].at] # None
          /\ q.name = sweep[r].at /\ q.holds = folder[sweep[r].at]
      BY <2>3, FoldersMove
    <3>2. sweep[r].at \in Names
      BY <3>1, SweepsTyped DEF MoveAside, VerdictsStand, InFolders, ScratchTypeOK, SweepTyped
    <3>3. QED
      BY <1>1, <1>4, <1>5, <3>1, <3>2
  <2>4. QED
    BY <2>2, <2>3
<1>9. \A x \in TestRuns : Agree(sweep'[x].id, sweep'[x].saw)
  <2>1. TAKE x \in TestRuns
  <2>2. CASE x # r
    BY <1>1, <2>2, OthersStand
  <2>3. CASE x = r /\ ListRoot(r)
    BY <1>2, <2>3, ListingIsTaken DEF Clear
  <2>4. CASE x = r /\ ~ListRoot(r)
    <3>1. \/ sweep'[r].saw \in {sweep[r].saw, None} /\ sweep'[r].id \in {sweep[r].id, None}
          \/ \E n \in Names : sweep'[r].saw = claim[n] /\ sweep'[r].id \in {folder[n], None}
      BY <2>4, SweepsMove
    <3>2. QED
      BY <1>1, <1>2, <1>3, <2>4, <3>1
  <2>5. QED
    BY <2>2, <2>3, <2>4
<1>10. QED
  BY <1>7, <1>8, <1>9 DEF MakersClaim

\* What is condemned names a run that is over.
LEMMA TheCondemnedAreGone ==
    ASSUME ScratchIInv, NEW r \in TestRuns, Condemned(r, sweep[r].saw)
    PROVE  sweep[r].saw # None /\ sweep[r].saw.rec \in TestRuns /\ stage[sweep[r].saw.rec] = "gone"
<1> USE DEF ScratchIInv
<1> DEFINE c == sweep[r].saw
           x == c.rec
<1>1. c \in Claims \cup {None} /\ c # None /\ x # Torn /\ OwnerState(r, x) = "Gone"
  BY SweepsTyped DEF Condemned, Readable, ScratchTypeOK, SweepTyped
<1>2. c.by \in TestRuns /\ Born(c.by) /\ x = record[c.by]
  BY <1>1 DEF ClaimsTell, Tells, Claims
<1>3. x \in TestRuns /\ Born(x) /\ pid[x] \in Pids
  BY <1>2 DEF RecordsAreOfBorn, ScratchTypeOK
<1>4. SamePlace(r, x) /\ Answer(r, pid[x]) = "gone"
  <2> DEFINE isGone == SamePlace(r, x) /\ Answer(r, pid[x]) = "gone"
             isLive == SamePlace(r, x) /\ Answer(r, pid[x]) = x
  <2>1. OwnerState(r, x) = CASE isGone -> "Gone" [] isLive -> "Live" [] OTHER -> "Unknown"
    BY DEF OwnerState
  <2> HIDE DEF isGone, isLive
  <2>2. isGone
    BY <1>1, <2>1
  <2>3. QED
    BY <2>2 DEF isGone
<1>5. ~Alive(x)
  <2>1. SUFFICES ASSUME Alive(x) PROVE FALSE
    OBVIOUS
  <2>2. CASE sweep[r].asked[pid[x]] # None
    <3>1. Outdated(r, x)
      BY <1>4, <2>1, <2>2 DEF Answer, Outdated
    <3>2. record[c.by] # x
      BY <1>1, <1>3, <3>1 DEF AnswersStand
    <3>3. QED
      BY <1>2, <3>2
  <2>3. CASE sweep[r].asked[pid[x]] = None
    <3>1. Probe(r, pid[x]) = "gone"
      BY <1>4, <2>3 DEF Answer
    <3>2. QED
      BY <1>3, <1>4, <2>1, <3>1, AnswerTyped
  <2>4. QED
    BY <2>2, <2>3
<1>6. QED
  BY <1>1, <1>3, <1>5 DEF Alive, Born

\* What a sweep holds, by its stage.
Holds(p, t) == /\ p \in InFolders \cup InOrphans => t.at # None
               /\ p \notin InFolders => t.id = None

LEMMA SweepsStillHold ==
    ASSUME ScratchIInv, NEW r \in TestRuns, Acts(r)
    PROVE  Holds(stage'[r], sweep'[r])
<1> USE DEF ScratchIInv
<1> DEFINE s == sweep[r]
           t == sweep'[r]
<1>1. Holds(stage[r], s)
  BY DEF VerdictsStand, Holds
<1>2. None \notin Names
  BY ScratchAssumption
<1>3. stage'[r] \in Stages /\ (ListRoot(r) => stage'[r] = "sweeping")
  BY StagesMove
<1>4. CASE ListRoot(r)
  BY <1>3, <1>4, ListingIsTaken DEF Holds, Clear, InFolders, InOrphans
<1>5. CASE RestoreQuarantine(r)
  <2>1. SameName(t, s)
    BY <1>5, RestoringTakesOne
  <2>2. stage[r] = "sweeping" /\ stage'[r] = "sweeping"
    BY <1>5 DEF RestoreQuarantine, Goto, ScratchTypeOK
  <2>3. QED
    BY <1>1, <2>1, <2>2 DEF Holds, SameName
<1>6. CASE CaptureFolder(r)
  <2>1. PICK n \in Names : \/ stage'[r] = "captured" /\ t.at = n
                           \/ stage'[r] = "sweeping" /\ SameName(t, s)
    BY <1>6, CapturingTakesOne
  <2>2. stage[r] = "sweeping"
    BY <1>6 DEF CaptureFolder
  <2>3. QED
    BY <1>1, <1>2, <2>1, <2>2 DEF Holds, SameName, InFolders, InOrphans
<1>7. CASE CaptureOrphan(r)
  <2>1. PICK n \in Names : /\ t.id = s.id
                           /\ \/ stage'[r] = "orphan" /\ t.at = n
                              \/ stage'[r] = "sweeping" /\ SameName(t, s)
    BY <1>7, CapturingAnOrphan
  <2>2. stage[r] = "sweeping"
    BY <1>7 DEF CaptureOrphan
  <2>3. QED
    BY <1>1, <1>2, <2>1, <2>2 DEF Holds, SameName, InFolders, InOrphans
<1>8. CASE JudgeFolder(r) \/ JudgeOrphan(r)
  <2>1. \/ /\ SameName(t, s)
           /\ \/ stage'[r] = "condemned" /\ stage[r] = "captured"
              \/ stage'[r] = "orphanGone" /\ stage[r] = "orphan"
        \/ /\ t.id \in {None, s.id} /\ stage'[r] = "sweeping"
           /\ ~(Condemned(r, s.saw) /\ JudgeFolder(r))
    <3>1. JudgeFolder(r) => stage[r] = "captured"
      BY DEF JudgeFolder
    <3>2. QED
      BY <1>8, <3>1, JudgingAsks
  <2>2. JudgeOrphan(r) => s.id = None
    BY DEF JudgeOrphan, VerdictsStand, InFolders
  <2>3. JudgeFolder(r) /\ ~Condemned(r, s.saw) => t.id = None
    <3>1. s \in Sweeps
      BY DEF ScratchTypeOK
    <3>2. SUFFICES ASSUME JudgeFolder(r), ~Condemned(r, s.saw) PROVE t.id = None
      OBVIOUS
    <3>3. t = [s EXCEPT !.asked = AskedAbout(r, s.saw), !.at = None, !.id = None, !.saw = None]
      BY <3>1, <3>2 DEF JudgeFolder, ScratchTypeOK
    <3>4. QED
      BY <3>1, <3>3 DEF Sweeps
  <2>4. QED
    BY <1>1, <1>8, <2>1, <2>2, <2>3 DEF Holds, SameName, InFolders, InOrphans
<1>9. CASE Keep(r)
  <2>1. stage'[r] = "sweeping"
    BY <1>9 DEF Keep, Goto, ScratchTypeOK
  <2>2. QED
    BY <1>9, <2>1, KeepClears DEF Holds, Clear, InFolders, InOrphans
<1>10. CASE PutBack(r) /\ stage[r] \in InFolders
  <2>1. s.at \in Names
    BY <1>10, SweepsTyped DEF VerdictsStand, SweepTyped, ScratchTypeOK
  <2>2. stage'[r] = "sweeping"
    BY <1>10 DEF PutBack, ScratchTypeOK
  <2>3. QED
    BY <1>10, <2>1, <2>2, PutBackClears DEF Holds, Clear, InFolders, InOrphans
<1>11. CASE SweepEnds(r) \/ Ends(r)
  <2>1. t = NoSweep /\ stage'[r] \in {"ready", "gone"}
    BY <1>11 DEF SweepEnds, Ends, ScratchTypeOK, Goto
  <2>2. QED
    BY <2>1 DEF NoSweep, Holds, InFolders, InOrphans
<1>12. CASE Start(r)
  <2>1. t = s /\ stage[r] = "unborn" /\ stage'[r] = "listing"
    BY <1>12 DEF Start, Goto, ScratchTypeOK
  <2>2. QED
    BY <1>1, <2>1 DEF Holds, InFolders, InOrphans
<1>13. CASE ScratchStep(r)
  <2>1. t = s
    BY <1>13
       DEF ScratchStep, OnlyScratches, CreateClaim, WriteClaim, WriteClaimFails, CreateDir,
           CreateDirFails, TakeClaimBack, TakeBackGivesUp, DropFolder, DropClaim, DropGivesUp
  <2>2. stage[r] \in WithName \cup {"ready"} /\ stage'[r] \in WithName \cup {"ready"}
    BY <1>13, StagesMove, StepsHavePlaces
  <2>3. QED
    BY <1>1, <2>1, <2>2 DEF Holds, InFolders, InOrphans, WithName
<1>14. ASSUME t = s, stage[r] \in InFolders, stage'[r] \in InFolders
       PROVE  Holds(stage'[r], t)
  BY <1>1, <1>14 DEF Holds
<1>15. CASE RecheckFolder(r) \/ MoveAside(r) \/ ConfirmMove(r)
  BY <1>9, <1>10, <1>14, <1>15 DEF RecheckFolder, MoveAside, ConfirmMove, InFolders, Goto,
     ScratchTypeOK
<1>16. CASE RemoveTree(r) \/ RemoveTreeGivesUp(r) \/ RemoveItsClaim(r) \/ RemoveOrphan(r)
  BY <1>9, <1>10, <1>14, <1>16
     DEF RemoveTree, RemoveTreeGivesUp, RemoveItsClaim, RemoveOrphan, InFolders, Goto,
         ScratchTypeOK
<1>17. QED
  BY <1>4, <1>5, <1>6, <1>7, <1>8, <1>11, <1>12, <1>13, <1>15, <1>16 DEF Acts, SweepStep

\* How a verdict comes about, and what goes on from it.
LEMMA VerdictsComeFromJudging ==
    ASSUME ScratchTypeOK, NEW r \in TestRuns, Acts(r), stage'[r] \in Condemns
    PROVE  /\ UNCHANGED <<claim, record>> \/ RemoveTree(r)
           /\ sweep'[r].saw = sweep[r].saw /\ sweep'[r].at = sweep[r].at
           /\ \/ Condemned(r, sweep[r].saw)
              \/ stage[r] \in Condemns
           /\ stage'[r] = "orphanGone" => claim[sweep[r].at] = sweep[r].saw /\ UNCHANGED claim
<1> USE DEF ScratchTypeOK
<1>1. "ready" \notin Condemns /\ "sweeping" \notin Condemns /\ "gone" \notin Condemns
      /\ "listing" \notin Condemns /\ WithName \cap Condemns = {}
      /\ "captured" \notin Condemns /\ "orphan" \notin Condemns
  BY DEF Condemns, WithName
<1>2. ~Start(r) /\ ~Ends(r) /\ ~ScratchStep(r) /\ ~ListRoot(r) /\ ~Keep(r) /\ ~PutBack(r)
  BY <1>1, StagesMove DEF Start, Ends, Goto, Keep, PutBack
<1>3. ~RestoreQuarantine(r) /\ ~SweepEnds(r) /\ ~RemoveOrphan(r) /\ ~RemoveItsClaim(r)
      /\ ~RemoveTreeGivesUp(r)
  <2>1. ~Goto(r, "sweeping") /\ ~Goto(r, "ready")
    BY <1>1 DEF Goto
  <2>2. QED
    BY <1>2, <2>1 DEF RestoreQuarantine, SweepEnds, RemoveOrphan, RemoveItsClaim, RemoveTreeGivesUp
<1>4. ~CaptureFolder(r) /\ ~CaptureOrphan(r)
  BY <1>1 DEF CaptureFolder, CaptureOrphan, Goto
<1>5. CASE JudgeFolder(r) \/ JudgeOrphan(r)
  <2>1. UNCHANGED <<claim, record>>
    BY <1>5 DEF JudgeFolder, JudgeOrphan, OnlySweeps, files, identity
  <2>2. JudgeFolder(r) => stage[r] = "captured"
    BY DEF JudgeFolder
  <2>3. QED
    BY <1>1, <1>5, <2>1, <2>2, JudgingAsks DEF SameName
<1>6. CASE RecheckFolder(r) \/ MoveAside(r) \/ ConfirmMove(r) \/ RemoveTree(r)
  <2>1. stage[r] \in {"condemned", "checked", "moved", "confirmed"}
    BY <1>6 DEF RecheckFolder, MoveAside, ConfirmMove, RemoveTree
  <2>2. UNCHANGED sweep /\ stage'[r] \in {"checked", "moved", "confirmed", "emptied"}
    BY <1>2, <1>6 DEF RecheckFolder, MoveAside, ConfirmMove, RemoveTree, Goto
  <2>3. UNCHANGED <<claim, record>>
    BY <1>6 DEF RecheckFolder, MoveAside, ConfirmMove, RemoveTree, OnlySweeps, files, identity
  <2>4. QED
    BY <2>1, <2>2, <2>3 DEF Condemns
<1>7. QED
  BY <1>2, <1>3, <1>4, <1>5, <1>6 DEF Acts, SweepStep

LEMMA VerdictsStillStand ==
    ASSUME ScratchIInv, NEW r \in TestRuns, Acts(r)
    PROVE  VerdictsStand'
<1> USE DEF ScratchIInv
<1>1. \A x \in TestRuns : stage[x] = "gone" => stage'[x] = "gone"
  BY StagesMove, OthersStand
<1>2. ASSUME NEW x \in TestRuns
      PROVE  Holds(stage'[x], sweep'[x])
  <2>1. CASE x = r
    BY <2>1, SweepsStillHold
  <2>2. CASE x # r
    BY <2>2, OthersStand DEF VerdictsStand, Holds
  <2>3. QED
    BY <2>1, <2>2
<1>3. ASSUME NEW x \in TestRuns, stage'[x] \in Condemns
      PROVE  /\ sweep'[x].saw # None /\ sweep'[x].saw.rec \in TestRuns
             /\ stage'[sweep'[x].saw.rec] = "gone"
  <2>1. /\ sweep'[x].saw = sweep[x].saw
        /\ stage[x] \in Condemns \/ (x = r /\ Condemned(r, sweep[r].saw))
    BY <1>3, OthersStand, VerdictsComeFromJudging
  <2>2. /\ sweep[x].saw # None /\ sweep[x].saw.rec \in TestRuns
        /\ stage[sweep[x].saw.rec] = "gone"
    BY <2>1, TheCondemnedAreGone DEF VerdictsStand
  <2>3. QED
    BY <1>1, <2>1, <2>2
<1>4. ASSUME NEW x \in TestRuns, stage'[x] = "orphanGone"
      PROVE  claim'[sweep'[x].at] \in {sweep'[x].saw, None}
  <2>1. CASE x = r
    BY <1>4, <2>1, VerdictsComeFromJudging DEF Condemns
  <2>2. CASE x # r
    <3> DEFINE n == sweep[x].at
               c == sweep[x].saw
    <3>1. stage[x] = "orphanGone" /\ sweep'[x] = sweep[x]
      BY <1>4, <2>2, OthersStand
    <3>2. /\ c # None /\ c.rec \in TestRuns /\ claim[n] \in {c, None} /\ n # None
      BY <3>1 DEF VerdictsStand, Condemns, InOrphans
    <3>3. n \in Names /\ n \in drawn
      BY <3>2, SweepsTyped DEF NamesAreDrawn, Listed, ScratchTypeOK, SweepTyped
    <3>4. claim[n] # [by |-> r, rec |-> Torn]
      <4>1. [by |-> r, rec |-> Torn] \in Claims
        BY DEF Claims
      <4>2. [by |-> r, rec |-> Torn] # None /\ Torn \notin TestRuns
        BY <4>1, ScratchAssumption
      <4>3. [by |-> r, rec |-> Torn].rec = Torn
        OBVIOUS
      <4>4. QED
        BY <3>2, <4>2, <4>3
    <3>5. claim'[n] \in {claim[n], None}
      BY <3>3, <3>4, ClaimsMove
    <3>6. QED
      BY <3>1, <3>2, <3>5
  <2>3. QED
    BY <2>1, <2>2
<1>5. QED
  BY <1>2, <1>3, <1>4 DEF VerdictsStand, Holds

LEMMA AnswersStillStand ==
    ASSUME ScratchIInv, NEW r \in TestRuns, Acts(r)
    PROVE  AnswersStand'
<1> USE DEF ScratchIInv
<1>1. SUFFICES ASSUME NEW y \in TestRuns, NEW x \in TestRuns,
                      sweep'[y].asked[pid[x]] = "gone", SamePlace(y, x), Alive(x)'
               PROVE  /\ \A n \in Listed(y)' : claim'[n] # None => record'[claim'[n].by] # x
                      /\ sweep'[y].saw # None => record'[sweep'[y].saw.by] # x
  BY OthersStand DEF AnswersStand, Outdated, SamePlace
<1> DEFINE s == sweep[y]
           t == sweep'[y]
           Others(c) == c # None => record[c.by] # x
<1>2. pid[x] \in Pids /\ None # "gone"
  BY ScratchAssumption DEF ScratchTypeOK
<1>3. ASSUME NEW c \in Claims, Tells(c), Others(c)
      PROVE  record'[c.by] # x
  <2>1. c # None
    BY ScratchAssumption
  <2>2. c.by \in TestRuns /\ Born(c.by)
    BY <1>3, <2>1 DEF Claims, Tells
  <2>3. QED
    BY <1>3, <2>1, <2>2, TheBornStay
<1>4. /\ \A n \in Names : claim[n] \in Claims \cup {None} /\ Tells(claim[n])
      /\ s.saw \in Claims \cup {None} /\ Tells(s.saw)
  BY SweepsTyped DEF ScratchTypeOK, ClaimsTell, SweepTyped
<1>5. CASE ~Alive(x)
  <2>1. x = r /\ Start(r) /\ ~Born(x)
    BY <1>1, <1>5, OthersStand, StagesMove, StepsHavePlaces DEF Alive, Born
  <2>2. UNCHANGED <<claim, sweep>> /\ Listed(y)' = Listed(y)
    BY <2>1 DEF Start, files, Listed
  <2>3. \A c \in Claims : Tells(c) => record[c.by] # x
    <3>1. TAKE c \in Claims
    <3>2. c # None
      BY ScratchAssumption
    <3>3. Tells(c) => c.by \in TestRuns /\ Born(c.by) /\ Born(record[c.by])
      BY <3>2 DEF Claims, Tells, RecordsAreOfBorn
    <3>4. QED
      BY <2>1, <3>3
  <2>4. \A n \in Names : claim[n] # None => record'[claim[n].by] # x
    BY <1>3, <1>4, <2>3
  <2>5. s.saw # None => record'[s.saw.by] # x
    BY <1>3, <1>4, <2>3
  <2>6. Listed(y) \subseteq Names
    BY DEF NamesAreDrawn, ScratchTypeOK
  <2>7. QED
    BY <2>2, <2>4, <2>5, <2>6
<1>6. CASE Alive(x)
  <2>1. ASSUME Outdated(y, x), NEW n \in Names, n \in Listed(y), claim'[n] # None
        PROVE  record'[claim'[n].by] # x
    <3>1. n \in drawn
      BY <2>1 DEF NamesAreDrawn
    <3>2. claim[n] # None /\ claim'[n].by = claim[n].by
      BY <2>1, <3>1, ClaimsGo
    <3>3. record[claim[n].by] # x
      BY <2>1, <3>2 DEF AnswersStand
    <3>4. QED
      BY <1>3, <1>4, <3>2, <3>3
  <2>2. ASSUME Outdated(y, x), NEW c \in Claims, \/ c = s.saw
                                                 \/ \E n \in Listed(y) \cap Names : c = claim[n]
        PROVE  record'[c.by] # x
    <3>1. c # None /\ Tells(c)
      BY <1>4, <2>2, ScratchAssumption
    <3>2. Others(c)
      BY <2>2 DEF AnswersStand
    <3>3. QED
      BY <1>3, <3>1, <3>2
  <2>3. Listed(y)' \subseteq Names
    BY NamesStayDrawn, ScratchesMove DEF NamesAreDrawn
  <2>4. CASE y # r
    <3>1. t = s /\ Listed(y)' = Listed(y)
      BY <2>4, OthersStand DEF Listed
    <3>2. Outdated(y, x)
      BY <1>1, <1>6, <3>1 DEF Outdated
    <3>3. QED
      BY <1>4, <2>1, <2>2, <2>3, <3>1, <3>2
  <2>5. CASE y = r /\ ListRoot(r)
    <3>1. t.asked = [p \in Pids |-> None]
      BY <2>5, ListingIsTaken
    <3>2. QED
      BY <1>1, <1>2, <3>1
  <2>6. CASE y = r /\ ~ListRoot(r)
    <3>1. Outdated(y, x)
      <4>1. t.asked[pid[x]] = "gone"
        BY <1>1
      <4>2. CASE t.asked = s.asked
        BY <1>1, <1>6, <4>1, <4>2 DEF Outdated
      <4>3. CASE t.asked = NoSweep.asked
        <5>1. NoSweep.asked = [p \in Pids |-> None]
          BY DEF NoSweep
        <5>2. QED
          BY <1>2, <4>1, <4>3, <5>1
      <4>4. ASSUME NEW p \in Pids, t.asked = Asked(r, p)
            PROVE  Outdated(y, x)
        <5>1. CASE p # pid[x]
          <6>1. s.asked[pid[x]] = "gone"
            BY <1>2, <2>6, <4>1, <4>4, <5>1, AnswerTyped
          <6>2. QED
            BY <1>1, <1>6, <6>1 DEF Outdated
        <5>2. CASE p = pid[x]
          <6>1. Answer(r, p) = "gone"
            BY <4>1, <4>4, <5>2, AnswerTyped
          <6>2. CASE s.asked[p] # None
            <7>1. s.asked[p] = "gone"
              BY <2>6, <6>1, <6>2 DEF Answer
            <7>2. QED
              BY <1>1, <1>6, <5>2, <7>1 DEF Outdated
          <6>3. CASE s.asked[p] = None
            <7>1. Probe(r, p) = "gone"
              BY <2>6, <6>1, <6>3 DEF Answer
            <7>2. QED
              BY <1>1, <1>6, <2>6, <4>4, <5>2, <7>1, AnswerTyped
          <6>4. QED
            BY <6>2, <6>3
        <5>3. QED
          BY <5>1, <5>2
      <4>5. QED
        BY <2>6, <4>2, <4>3, <4>4, SweepsMove
    <3>2. Listed(y)' \subseteq Listed(y)
      BY <2>6, ListsShrink
    <3>3. t.saw = None \/ t.saw = s.saw \/ \E n \in Listed(y) \cap Names : t.saw = claim[n]
      <4>1. \/ t.saw \in {s.saw, None}
            \/ t.at \in (s.folders \cup s.claims) \cap Names /\ t.saw = claim[t.at]
        BY <2>6, SweepsMove
      <4>2. s.folders \cup s.claims \subseteq Listed(y)
        BY DEF Listed
      <4>3. QED
        BY <4>1, <4>2
    <3>4. t.saw # None => record'[t.saw.by] # x
      BY <1>4, <2>2, <3>1, <3>3
    <3>5. QED
      BY <2>1, <2>3, <3>1, <3>2, <3>4
  <2>7. QED
    BY <2>4, <2>5, <2>6
<1>7. QED
  BY <1>5, <1>6

\* How the stages with a scratch come about.
LEMMA ScratchesComeAbout ==
    ASSUME ScratchTypeOK, NEW r \in TestRuns, Acts(r)
    PROVE  /\ stage'[r] = "claimed" => CreateClaim(r)
           /\ stage'[r] = "registered" => WriteClaim(r)
           /\ stage'[r] = "made" => CreateDir(r)
<1> USE DEF ScratchTypeOK
<1>1. CASE stage'[r] \in {"claimed", "registered", "made"}
  <2>1. ScratchStep(r)
    BY <1>1, StagesMove DEF Acts, Start, Goto, SweepActs, InFolders, InOrphans
  <2>2. QED
    BY <1>1, <2>1
       DEF ScratchStep, Goto, CreateClaim, WriteClaim, WriteClaimFails, CreateDir,
           CreateDirFails, TakeClaimBack, TakeBackGivesUp, DropFolder, DropClaim, DropGivesUp
<1>2. QED
  BY <1>1

LEMMA ClaimsStayKept ==
    ASSUME ScratchIInv, NEW r \in TestRuns, Acts(r)
    PROVE  ClaimsAreKept'
<1> USE DEF ScratchIInv
<1> DEFINE Raw(x)   == [by |-> x, rec |-> Torn]
           Whole(x) == [by |-> x, rec |-> record[x]]
<1>1. \A x \in TestRuns : Raw(x) \in Claims /\ Whole(x) \in Claims
  BY DEF Claims, ScratchTypeOK
<1>2. \A x \in TestRuns : Raw(x) # None /\ Whole(x) # None /\ Raw(x).rec = Torn
                          /\ Whole(x).rec = record[x]
  BY <1>1, ScratchAssumption
<1>3. Torn \notin TestRuns
  BY ScratchAssumption
<1>4. /\ \A x \in TestRuns : stage[x] = "claimed" => claim[scratch[x]] = Raw(x)
      /\ \A x \in TestRuns : stage[x] \in {"registered", "made"} /\ Alive(record[x])
                               => claim[scratch[x]] = Whole(x)
  BY DEF ClaimsAreKept
<1>5. ASSUME NEW x \in TestRuns, Born(x), stage'[record[x]] \notin {"unborn", "gone"}
      PROVE  Alive(record[x])
  <2>1. record[x] \in TestRuns /\ Born(record[x])
    BY <1>5 DEF RecordsAreOfBorn, ScratchTypeOK
  <2>2. CASE record[x] = r
    BY <2>1, <2>2, StagesMove DEF Alive, Born
  <2>3. CASE record[x] # r
    BY <1>5, <2>1, <2>3, OthersStand DEF Alive
  <2>4. QED
    BY <2>2, <2>3
<1>6. ASSUME NEW x \in TestRuns \ {r}, stage[x] \in {"claimed", "registered", "made"},
             \/ claim[scratch[x]] = Raw(x)
             \/ claim[scratch[x]] = Whole(x) /\ Alive(record[x])
      PROVE  claim'[scratch[x]] = claim[scratch[x]]
  <2> DEFINE n == scratch[x]
  <2>1. n # None /\ n \in Names /\ n \in drawn /\ n # scratch[r] /\ claim[n] # None
    BY <1>2, <1>6 DEF ScratchesAreOwn, WithName, NamesAreDrawn, ScratchTypeOK
  <2>2. claim'[n] # None
    <3>1. SUFFICES ASSUME claim'[n] = None PROVE FALSE
      OBVIOUS
    <3>2. claim[n] = sweep[r].saw /\ stage[r] \in Condemns
      BY <2>1, <3>1, ClaimsGo
    <3>3. claim[n].rec \in TestRuns /\ stage[claim[n].rec] = "gone"
      BY <3>2 DEF VerdictsStand
    <3>4. QED
      BY <1>2, <1>3, <1>6, <3>3 DEF Alive
  <2>3. claim'[n] \in {claim[n], None} \/ n \notin drawn \/ n = scratch[r]
    BY <2>1, ClaimsMove
  <2>4. QED
    BY <2>1, <2>2, <2>3
<1>7. ASSUME NEW x \in TestRuns, stage'[x] = "claimed"
      PROVE  claim'[scratch'[x]] = Raw(x)
  <2>1. CASE x = r
    BY <1>7, <2>1, ScratchesComeAbout, ScratchesMove
  <2>2. CASE x # r
    <3>1. stage[x] = "claimed" /\ scratch'[x] = scratch[x]
      BY <1>7, <2>2, OthersStand
    <3>2. claim[scratch[x]] = Raw(x)
      BY <1>4, <3>1
    <3>3. QED
      BY <1>6, <2>2, <3>1, <3>2
  <2>3. QED
    BY <2>1, <2>2
<1>8. ASSUME NEW x \in TestRuns, stage'[x] \in {"registered", "made"},
             stage'[record'[x]] \notin {"unborn", "gone"}
      PROVE  claim'[scratch'[x]] = [by |-> x, rec |-> record'[x]]
  <2>1. CASE x = r
    <3>1. WriteClaim(r) \/ CreateDir(r)
      BY <1>8, <2>1, ScratchesComeAbout
    <3>2. ~Start(r) /\ record' = record /\ scratch'[r] = scratch[r] /\ Born(r)
      BY <3>1, OthersStand DEF WriteClaim, CreateDir, Start, Born
    <3>3. CASE WriteClaim(r)
      <4> DEFINE n == scratch[r]
      <4>1. claim[n] = Raw(r) /\ n \in Names
        BY <1>4, <3>3 DEF WriteClaim, ScratchesAreOwn, WithName, ScratchTypeOK
      <4>2. claim' = [claim EXCEPT ![n].rec = record[r]]
        BY <3>3, <4>1 DEF WriteClaim
      <4>3. claim'[n] = [Raw(r) EXCEPT !.rec = record[r]]
        BY <4>1, <4>2 DEF ScratchTypeOK
      <4>4. QED
        BY <2>1, <3>2, <4>3
    <3>4. CASE CreateDir(r)
      BY <1>4, <1>5, <1>8, <2>1, <3>2, <3>4 DEF CreateDir, Alive
    <3>5. QED
      BY <3>1, <3>3, <3>4
  <2>2. CASE x # r
    <3>1. stage[x] = stage'[x] /\ scratch'[x] = scratch[x] /\ record'[x] = record[x]
      BY <2>2, OthersStand
    <3>2. Born(x) /\ stage'[record[x]] \notin {"unborn", "gone"}
      BY <1>8, <3>1 DEF Born, Alive
    <3>3. Alive(record[x]) /\ claim[scratch[x]] = Whole(x)
      BY <1>4, <1>5, <1>8, <3>1, <3>2
    <3>4. QED
      BY <1>6, <1>8, <2>2, <3>1, <3>3
  <2>3. QED
    BY <2>1, <2>2
<1>9. QED
  BY <1>7, <1>8 DEF ClaimsAreKept, Alive

\* How a sweep gets on with a folder.
LEMMA FolderSteps ==
    ASSUME ScratchIInv, NEW r \in TestRuns, Acts(r), stage'[r] \in InFolders
    PROVE  \/ /\ CaptureFolder(r) /\ stage'[r] = "captured" /\ UNCHANGED files
           \/ /\ JudgeFolder(r) /\ stage[r] = "captured" /\ stage'[r] = "condemned"
              /\ UNCHANGED files /\ SameLists(sweep'[r], sweep[r]) /\ SameName(sweep'[r], sweep[r])
           \/ /\ RecheckFolder(r) /\ stage[r] = "condemned" /\ stage'[r] = "checked"
              /\ UNCHANGED <<files, sweep>>
           \/ /\ MoveAside(r) /\ stage[r] = "checked" /\ stage'[r] = "moved"
              /\ folder[sweep[r].at] # None /\ UNCHANGED <<claim, sweep>>
           \/ /\ ConfirmMove(r) /\ stage[r] = "moved" /\ stage'[r] = "confirmed"
              /\ HasMoved(r) /\ Moved(r).holds = sweep[r].id /\ UNCHANGED <<files, sweep>>
           \/ /\ RemoveTree(r) /\ stage[r] = "confirmed" /\ stage'[r] = "emptied"
              /\ quarantine' = (IF HasMoved(r) THEN quarantine \ {Moved(r)} ELSE quarantine)
              /\ UNCHANGED <<folder, claim, sweep>>
<1> USE DEF ScratchIInv, ScratchTypeOK
<1>1. /\ "ready" \notin InFolders /\ "sweeping" \notin InFolders /\ "gone" \notin InFolders
      /\ "listing" \notin InFolders /\ InOrphans \cap InFolders = {} /\ WithName \cap InFolders = {}
  BY DEF InFolders, InOrphans, WithName
<1>2. ~Goto(r, "sweeping") /\ ~Goto(r, "ready") /\ ~Goto(r, "listing") /\ ~Goto(r, "gone")
  BY <1>1 DEF Goto
<1>3. ~Start(r) /\ ~Ends(r) /\ ~ScratchStep(r) /\ ~ListRoot(r) /\ ~Keep(r) /\ ~PutBack(r)
  BY <1>1, <1>2, StagesMove DEF Start, Ends, Keep, PutBack
<1>4. ~RestoreQuarantine(r) /\ ~SweepEnds(r) /\ ~RemoveOrphan(r) /\ ~RemoveItsClaim(r)
      /\ ~RemoveTreeGivesUp(r)
  BY <1>2, <1>3 DEF RestoreQuarantine, SweepEnds, RemoveOrphan, RemoveItsClaim, RemoveTreeGivesUp
<1>5. ~CaptureOrphan(r) /\ ~JudgeOrphan(r)
  BY <1>1 DEF CaptureOrphan, JudgeOrphan, Goto, InOrphans
<1>6. CASE CaptureFolder(r)
  <2>1. stage'[r] = "captured"
    <3>1. stage'[r] \in {"captured", "sweeping"}
      BY <1>6, CapturingTakesOne
    <3>2. QED
      BY <1>1, <3>1
  <2>2. QED
    BY <1>6, <2>1 DEF CaptureFolder
<1>7. CASE JudgeFolder(r)
  <2>1. stage[r] = "captured" /\ UNCHANGED files
    BY <1>7 DEF JudgeFolder
  <2>2. stage'[r] # "sweeping"
    BY <1>1
  <2>3. QED
    BY <1>7, <2>1, <2>2, JudgingAsks
<1>8. CASE RecheckFolder(r)
  BY <1>3, <1>8 DEF RecheckFolder, Goto
<1>9. CASE MoveAside(r)
  BY <1>3, <1>9 DEF MoveAside, Goto
<1>10. CASE ConfirmMove(r)
  BY <1>3, <1>10 DEF ConfirmMove, Goto, files
<1>11. CASE RemoveTree(r)
  BY <1>11 DEF RemoveTree, Goto
<1>12. QED
  BY <1>3, <1>4, <1>5, <1>6, <1>7, <1>8, <1>9, <1>10, <1>11 DEF Acts, SweepStep

\* What MovesAreOwn asks of one sweep and of one quarantine it made.
OwnSweep(p, t) == p \in InFolders => t.quarantines = {} /\ t.at \notin t.folders
OwnMove(r, p, t, moves, q) ==
    q.by = r =>
      /\ p \notin {"unborn", "listing"}
      /\ p \in {"captured", "condemned", "checked"} => q.name # t.at
      /\ t.quarantines = {} /\ q.name \notin t.folders
      /\ p \in {"moved", "confirmed"} /\ q.name = t.at =>
           /\ \A m \in moves : m.by = r /\ m.name = q.name => m = q
           /\ p = "confirmed" => q.holds = t.id

LEMMA MovesStayOwn ==
    ASSUME ScratchIInv, NEW r \in TestRuns, Acts(r)
    PROVE  MovesAreOwn'
<1> USE DEF ScratchIInv
<1> DEFINE s == sweep[r]
           t == sweep'[r]
           new == [name |-> s.at, by |-> r, holds |-> folder[s.at]]
<1>1. \A x \in TestRuns : /\ OwnSweep(stage[x], sweep[x])
                          /\ \A q \in quarantine : OwnMove(x, stage[x], sweep[x], quarantine, q)
  BY DEF MovesAreOwn, OwnSweep, OwnMove
<1>2. \/ quarantine' \subseteq quarantine
      \/ MoveAside(r) /\ quarantine' = quarantine \cup {new} /\ folder[s.at] # None
  BY FoldersMove
<1>3. new.by = r /\ new.name = s.at
  OBVIOUS
<1> HIDE DEF new
<1>4. ASSUME NEW x \in TestRuns \ {r}
      PROVE  /\ OwnSweep(stage'[x], sweep'[x])
             /\ \A q \in quarantine' : OwnMove(x, stage'[x], sweep'[x], quarantine', q)
  <2>1. stage'[x] = stage[x] /\ sweep'[x] = sweep[x]
    BY OthersStand
  <2>2. \A q \in quarantine' : q.by = x => q \in quarantine
    BY <1>2, <1>3
  <2>3. \A q \in quarantine' : OwnMove(x, stage'[x], sweep'[x], quarantine', q)
    BY <1>1, <2>1, <2>2 DEF OwnMove
  <2>4. QED
    BY <1>1, <2>1, <2>3
<1>5. OwnSweep(stage'[r], t)
  <2>1. CASE stage'[r] \notin InFolders
    BY <2>1 DEF OwnSweep
  <2>2. CASE CaptureFolder(r) /\ stage'[r] = "captured"
    <3>1. PICK n \in s.folders : /\ t.quarantines = s.quarantines /\ t.folders = s.folders \ {n}
                                 /\ t.at = n
      BY <2>2, CapturingTakesOne
    <3>2. s.quarantines = {}
      BY <2>2 DEF CaptureFolder
    <3>3. QED
      BY <3>1, <3>2 DEF OwnSweep
  <2>3. CASE stage[r] \in InFolders /\ SameLists(t, s) /\ SameName(t, s)
    BY <1>1, <2>3 DEF OwnSweep, SameLists, SameName
  <2>4. CASE stage[r] \in InFolders /\ UNCHANGED sweep
    BY <1>1, <2>4 DEF OwnSweep
  <2>5. QED
    BY <2>1, <2>2, <2>3, <2>4, FolderSteps DEF InFolders
<1>6. ASSUME NEW q \in quarantine, q \in quarantine', q.by = r
      PROVE  OwnMove(r, stage'[r], t, quarantine', q)
  <2>1. OwnMove(r, stage[r], s, quarantine, q)
    BY <1>1
  <2>2. stage[r] \notin {"unborn", "listing"} /\ s.quarantines = {} /\ q.name \notin s.folders
    BY <1>6, <2>1 DEF OwnMove
  <2>3. ~ListRoot(r) /\ ~Start(r)
    BY <2>2 DEF ListRoot, Start
  <2>4. t.quarantines = {} /\ q.name \notin t.folders
    BY <2>2, <2>3, SweepsMove
  <2>5. stage'[r] \notin {"unborn", "listing"}
    BY <2>3, StagesMove DEF Acts, SweepActs, InFolders, InOrphans, WithName
  <2>6. ASSUME stage'[r] \in {"captured", "condemned", "checked"}
        PROVE  q.name # t.at
    <3>1. CASE CaptureFolder(r) /\ stage'[r] = "captured"
      BY <2>2, <3>1, CapturingTakesOne
    <3>2. CASE stage[r] \in {"captured", "condemned"} /\ t.at = s.at
      BY <1>6, <2>1, <3>2 DEF OwnMove
    <3>3. QED
      BY <2>6, <3>1, <3>2, FolderSteps DEF InFolders, SameName
  <2>7. ASSUME stage'[r] \in {"moved", "confirmed"}, q.name = t.at
        PROVE  /\ \A m \in quarantine' : m.by = r /\ m.name = q.name => m = q
               /\ stage'[r] = "confirmed" => q.holds = t.id
    <3>1. CASE MoveAside(r) /\ stage[r] = "checked" /\ UNCHANGED sweep
      BY <1>6, <2>1, <2>7, <3>1 DEF OwnMove
    <3>2. CASE /\ ConfirmMove(r) /\ stage[r] = "moved" /\ HasMoved(r)
               /\ Moved(r).holds = s.id /\ UNCHANGED <<files, sweep>>
      <4>1. q.name = s.at /\ UNCHANGED quarantine
        BY <2>7, <3>2 DEF files
      <4>2. \A m \in quarantine : m.by = r /\ m.name = q.name => m = q
        BY <1>6, <2>1, <3>2, <4>1 DEF OwnMove
      <4>3. Moved(r) = q
        BY <3>2, <4>1, <4>2, MovedIsOne
      <4>4. QED
        BY <3>2, <4>1, <4>2, <4>3
    <3>3. QED
      BY <2>7, <3>1, <3>2, FolderSteps DEF InFolders
  <2>8. QED
    BY <2>4, <2>5, <2>6, <2>7 DEF OwnMove
<1>7. ASSUME NEW q \in quarantine', q \notin quarantine, q.by = r
      PROVE  OwnMove(r, stage'[r], t, quarantine', q)
  <2>1. MoveAside(r) /\ quarantine' = quarantine \cup {q} /\ q.name = s.at /\ folder[s.at] # None
    BY <1>2, <1>3, <1>7
  <2>2. UNCHANGED sweep /\ stage[r] = "checked" /\ stage'[r] = "moved"
    BY <2>1 DEF MoveAside, Goto, ScratchTypeOK
  <2>3. s.quarantines = {} /\ s.at \notin s.folders
    BY <1>1, <2>2 DEF OwnSweep, InFolders
  <2>4. \A m \in quarantine : m.by = r => m.name # s.at
    BY <1>1, <2>2 DEF OwnMove
  <2>5. QED
    BY <2>1, <2>2, <2>3, <2>4 DEF OwnMove
<1>8. \A q \in quarantine' : OwnMove(r, stage'[r], t, quarantine', q)
  BY <1>6, <1>7 DEF OwnMove
<1>9. \A x \in TestRuns :
        /\ OwnSweep(stage'[x], sweep'[x])
        /\ \A q \in quarantine' : OwnMove(x, stage'[x], sweep'[x], quarantine', q)
  BY <1>4, <1>5, <1>8
<1>10. QED
  BY <1>9 DEF MovesAreOwn, OwnSweep, OwnMove

LEMMA TreesStayApart ==
    ASSUME ScratchIInv, NEW r \in TestRuns, Acts(r)
    PROVE  TreesAreApart'
<1> USE DEF ScratchIInv
<1> DEFINE at == sweep[r].at
           new == [name |-> at, by |-> r, holds |-> folder[at]]
<1>1. /\ \A q \in quarantine : folder[q.name] # q.holds
      /\ \A p, q \in quarantine : p.name = q.name /\ p.holds = q.holds => p = q
      /\ \A x \in TestRuns : stage[x] \in {"claimed", "registered"} =>
            /\ folder[scratch[x]] # x
            /\ \A q \in quarantine : q.name = scratch[x] => q.holds # x
  BY DEF TreesAreApart
<1>2. \A q \in quarantine : q.name \in Names /\ q.holds \in Makers /\ q.name \in drawn
  BY DEF ScratchTypeOK, Quarantines, NamesAreDrawn
<1>3. None \notin Makers /\ TestRuns \subseteq Makers
  BY ScratchAssumption DEF Makers
<1>4. new.name = at /\ new.holds = folder[at]
  OBVIOUS
<1> HIDE DEF new
<1>5. \/ quarantine' \subseteq quarantine
      \/ MoveAside(r) /\ quarantine' = quarantine \cup {new} /\ folder[at] # None
         /\ folder' = [folder EXCEPT ![at] = None]
  BY FoldersMove DEF new
<1>6. MoveAside(r) => at \in Names /\ ~CreateDir(r)
  BY SweepsTyped DEF MoveAside, VerdictsStand, InFolders, ScratchTypeOK, SweepTyped, CreateDir
<1>7. \A n \in Names :
        \/ folder'[n] \in {folder[n], None}
        \/ \E p \in quarantine : /\ p.name = n /\ folder'[n] = p.holds
                                  /\ quarantine' = quarantine \ {p}
        \/ CreateDir(r) /\ n = scratch[r] /\ folder'[n] = r
  BY FoldersMove
<1>8. ASSUME NEW q \in quarantine'
      PROVE  folder'[q.name] # q.holds
  <2>1. CASE q \in quarantine
    <3>1. CASE folder'[q.name] \in {folder[q.name], None}
      BY <1>1, <1>2, <1>3, <2>1, <3>1
    <3>2. ASSUME NEW p \in quarantine, p.name = q.name, folder'[q.name] = p.holds,
                 quarantine' = quarantine \ {p}
          PROVE  folder'[q.name] # q.holds
      <4>1. p # q
        BY <3>2
      <4>2. QED
        BY <1>1, <2>1, <3>2, <4>1
    <3>3. CASE CreateDir(r) /\ q.name = scratch[r] /\ folder'[q.name] = r
      <4>1. stage[r] = "registered"
        BY <3>3 DEF CreateDir
      <4>2. QED
        BY <1>1, <2>1, <3>3, <4>1
    <3>4. QED
      BY <1>2, <1>7, <2>1, <3>1, <3>2, <3>3
  <2>2. CASE q \notin quarantine
    <3>1. q = new /\ MoveAside(r) /\ folder' = [folder EXCEPT ![at] = None] /\ folder[at] # None
      BY <1>5, <2>2
    <3>2. folder'[at] = None
      BY <1>6, <3>1 DEF ScratchTypeOK
    <3>3. QED
      BY <1>4, <3>1, <3>2
  <2>3. QED
    BY <2>1, <2>2
<1>9. \A p, q \in quarantine' : p.name = q.name /\ p.holds = q.holds => p = q
  BY <1>1, <1>4, <1>5
<1>10. ASSUME NEW x \in TestRuns \ {r}, stage'[x] \in {"claimed", "registered"}
       PROVE  /\ folder'[scratch'[x]] # x
              /\ \A q \in quarantine' : q.name = scratch'[x] => q.holds # x
  <2> DEFINE n == scratch[x]
  <2>1. scratch'[x] = n /\ stage[x] \in {"claimed", "registered"} /\ n \in Names /\ n # scratch[r]
    BY <1>10, OthersStand DEF ScratchesAreOwn, WithName, ScratchTypeOK
  <2>2. folder[n] # x /\ \A q \in quarantine : q.name = n => q.holds # x
    BY <1>1, <2>1
  <2>3. folder'[n] # x
    BY <1>3, <1>7, <2>1, <2>2
  <2>4. QED
    BY <1>4, <1>5, <2>1, <2>2, <2>3
<1>11. ASSUME stage'[r] \in {"claimed", "registered"}
       PROVE  /\ folder'[scratch'[r]] # r
              /\ \A q \in quarantine' : q.name = scratch'[r] => q.holds # r
  <2>1. CASE CreateClaim(r)
    <3>1. scratch'[r] \in Names \ drawn /\ UNCHANGED <<folder, quarantine>>
      BY <2>1, ScratchesMove DEF CreateClaim
    <3>2. folder[scratch'[r]] = None
      BY <3>1 DEF NamesAreDrawn
    <3>3. QED
      BY <1>2, <1>3, <3>1, <3>2
  <2>2. CASE WriteClaim(r)
    BY <1>1, <2>2 DEF WriteClaim
  <2>3. QED
    BY <1>11, <2>1, <2>2, ScratchesComeAbout
<1>12. \A x \in TestRuns : stage'[x] \in {"claimed", "registered"} =>
            /\ folder'[scratch'[x]] # x
            /\ \A q \in quarantine' : q.name = scratch'[x] => q.holds # x
  BY <1>10, <1>11
<1>13. QED
  BY <1>8, <1>9, <1>12 DEF TreesAreApart

\* What an undisturbed sweep sees, part by part.
AsksTruly(r) == \A p \in Pids : sweep[r].asked[p] \in {None, Probe(r, p)}
SeesItsName(r) ==
    LET s == sweep[r]
    IN  /\ stage[r] \in InFolders =>
             s.id # None /\ TreeOf(s.at, s.id) \in s.old /\ claim[s.at] = s.saw
        /\ stage[r] \in {"captured", "condemned", "checked"} => folder[s.at] = s.id
        /\ stage[r] \in InOrphans => folder[s.at] = None /\ claim[s.at] = s.saw
MovesAreDue(r) ==
    /\ \A q \in quarantine :
         IF q.by = r
         THEN stage[r] \in {"moved", "confirmed"} /\ q.name = sweep[r].at
         ELSE q \in sweep[r].quarantines \/ Stays(r, q)
    /\ \A n \in sweep[r].hidden : \E q \in quarantine : q.name = n /\ q.by # r
DueName(r, n) ==
    IF folder[n] # None
    THEN \/ TreeOf(n, folder[n]) \notin sweep[r].old
         \/ n \in sweep[r].folders
         \/ stage[r] \in InFolders /\ n = sweep[r].at
    ELSE \/ Quarantined(n)
         \/ ClaimOf(n, claim[n]) \notin sweep[r].old
         \/ n \in sweep[r].claims
         \/ stage[r] \in {"emptied"} \cup InOrphans /\ n = sweep[r].at
NamesAreDue(r) == \A n \in Names : Abandoned(r, claim[n]) => DueName(r, n)
SeesAll(r) == AsksTruly(r) /\ SeesItsName(r) /\ MovesAreDue(r) /\ NamesAreDue(r)

LEMMA AloneIsSeeing == AloneSeesAll <=> \A r \in TestRuns : Undisturbed(r) => SeesAll(r)
BY DEF AloneSeesAll, SeesAll, AsksTruly, SeesItsName, MovesAreDue, NamesAreDue, DueName

LEMMA AloneIsSeeingNext ==
    AloneSeesAll' <=> \A r \in TestRuns : Undisturbed(r)' => SeesAll(r)'
BY DEF AloneSeesAll, SeesAll, AsksTruly, SeesItsName, MovesAreDue, NamesAreDue, DueName

\* While only r moves, nobody is born or dies.
LEMMA NobodyMoves ==
    ASSUME ScratchTypeOK, NEW r \in TestRuns, Acts(r), Alive(r), stage'[r] # "gone"
    PROVE  /\ \A p \in Pids : Probe(r, p)' = Probe(r, p)
           /\ \A n \in Names : Abandoned(r, claim[n])' = Abandoned(r, claim'[n])
<1>1. \A x \in TestRuns : Alive(x)' <=> Alive(x)
  <2>1. TAKE x \in TestRuns
  <2>2. CASE x = r
    BY <2>2, StagesMove DEF Alive
  <2>3. CASE x # r
    BY <2>3, OthersStand DEF Alive
  <2>4. QED
    BY <2>2, <2>3
<1>2. UNCHANGED <<pid, ns>>
  BY OthersStand
<1>3. ASSUME NEW p
      PROVE  Probe(r, p)' = Probe(r, p)
  <2> DEFINE seen == {x \in TestRuns : Alive(x) /\ SamePlace(r, x) /\ pid[x] = p}
             next == {x \in TestRuns : Alive(x)' /\ SamePlace(r, x)' /\ pid'[x] = p}
  <2>1. \A x \in TestRuns : SamePlace(r, x)' <=> SamePlace(r, x)
    BY <1>2 DEF SamePlace
  <2>2. next = seen
    BY <1>1, <1>2, <2>1
  <2>3. Probe(r, p) = IF seen = {} THEN "gone" ELSE CHOOSE x \in seen : TRUE
    BY DEF Probe
  <2>4. Probe(r, p)' = IF next = {} THEN "gone" ELSE CHOOSE x \in next : TRUE
    BY DEF Probe
  <2> HIDE DEF seen, next
  <2>5. QED
    BY <2>2, <2>3, <2>4
<1>4. \A n \in Names : Abandoned(r, claim[n])' = Abandoned(r, claim'[n])
  <2>1. TAKE n \in Names
  <2>2. /\ Abandoned(r, claim[n])' = (/\ Readable(claim'[n])
                                      /\ ns'[claim'[n].rec] = ns'[r]
                                      /\ Probe(r, pid[claim[n].rec])' = "gone")
    BY DEF Abandoned, SamePlace
  <2>3. Abandoned(r, claim'[n]) = (/\ Readable(claim'[n])
                                   /\ ns[claim'[n].rec] = ns[r]
                                   /\ Probe(r, pid[claim'[n].rec]) = "gone")
    BY DEF Abandoned, SamePlace
  <2>4. Probe(r, pid[claim[n].rec])' = Probe(r, pid[claim'[n].rec])
    <3> DEFINE k == pid[claim'[n].rec]
               seen == {x \in TestRuns : Alive(x) /\ SamePlace(r, x) /\ pid[x] = k}
               next == {x \in TestRuns : /\ Alive(x)' /\ SamePlace(r, x)'
                                          /\ pid'[x] = pid'[claim'[n].rec]}
    <3>1. \A x \in TestRuns : SamePlace(r, x)' <=> SamePlace(r, x)
      BY <1>2 DEF SamePlace
    <3>2. next = seen
      BY <1>1, <1>2, <3>1
    <3>3. Probe(r, k) = IF seen = {} THEN "gone" ELSE CHOOSE x \in seen : TRUE
      BY DEF Probe
    <3>4. Probe(r, pid[claim[n].rec])' = IF next = {} THEN "gone" ELSE CHOOSE x \in next : TRUE
      BY DEF Probe
    <3> HIDE DEF seen, next
    <3>5. QED
      BY <3>2, <3>3, <3>4
  <2>5. QED
    BY <1>2, <2>2, <2>3, <2>4
<1>5. QED
  BY <1>3, <1>4

\* What r asks, it is told truly while it is alone.
LEMMA AskedTruly ==
    ASSUME ScratchTypeOK, NEW r \in TestRuns, AsksTruly(r)
    PROVE  /\ \A p \in Pids : Answer(r, p) = Probe(r, p)
           /\ \A p \in Pids : \A k \in Pids : Asked(r, p)[k] \in {None, Probe(r, k)}
           /\ \A c \in Claims \cup {None} :
                /\ \A k \in Pids : AskedAbout(r, c)[k] \in {None, Probe(r, k)}
                /\ Abandoned(r, c) => Condemned(r, c)
<1>1. \A p \in Pids : Answer(r, p) = Probe(r, p)
  BY DEF AsksTruly, Answer
<1>2. \A p \in Pids : \A k \in Pids : Asked(r, p)[k] \in {None, Probe(r, k)}
  <2>1. TAKE p \in Pids
  <2>2. TAKE k \in Pids
  <2>3. CASE k = p
    BY <1>1, <2>3, AnswerTyped
  <2>4. CASE k # p
    BY <2>4, AnswerTyped DEF AsksTruly
  <2>5. QED
    BY <2>3, <2>4
<1>3. ASSUME NEW c \in Claims \cup {None}
      PROVE  /\ \A k \in Pids : AskedAbout(r, c)[k] \in {None, Probe(r, k)}
             /\ Abandoned(r, c) => Condemned(r, c)
  <2>1. \A k \in Pids : AskedAbout(r, c)[k] \in {None, Probe(r, k)}
    BY <1>2, AskedAboutTyped DEF AsksTruly
  <2>2. ASSUME Abandoned(r, c)
        PROVE  Condemned(r, c)
    <3>1. Readable(c) /\ SamePlace(r, c.rec) /\ Probe(r, pid[c.rec]) = "gone"
      BY <2>2 DEF Abandoned
    <3>2. c.rec \in TestRuns /\ pid[c.rec] \in Pids
      BY <3>1 DEF Readable, Claims, ScratchTypeOK
    <3>3. Answer(r, pid[c.rec]) = "gone" /\ c.rec # "gone"
      BY <1>1, <3>1, <3>2, ScratchAssumption
    <3> DEFINE isGone == SamePlace(r, c.rec) /\ Answer(r, pid[c.rec]) = "gone"
               isLive == SamePlace(r, c.rec) /\ Answer(r, pid[c.rec]) = c.rec
    <3>4. OwnerState(r, c.rec) = CASE isGone -> "Gone" [] isLive -> "Live" [] OTHER -> "Unknown"
      BY DEF OwnerState
    <3>5. isGone /\ ~isLive
      BY <3>1, <3>3
    <3> HIDE DEF isGone, isLive
    <3>6. OwnerState(r, c.rec) = "Gone"
      BY <3>4, <3>5
    <3>7. QED
      BY <3>1, <3>6 DEF Condemned
  <2>3. QED
    BY <2>1, <2>2
<1>4. QED
  BY <1>1, <1>2, <1>3

LEMMA QuarantinesStay ==
    ASSUME ScratchTypeOK, NEW r \in TestRuns, Acts(r), Alive(r), stage'[r] # "gone",
           NEW q \in Quarantines, Stays(r, q), sweep'[r].old = sweep[r].old,
           folder'[q.name] = folder[q.name] \/ folder'[q.name] # None
    PROVE  Stays(r, q)'
<1>1. \A x \in TestRuns : Alive(x)' <=> Alive(x)
  <2>1. TAKE x \in TestRuns
  <2>2. CASE x = r
    BY <2>2, StagesMove DEF Alive
  <2>3. CASE x # r
    BY <2>3, OthersStand DEF Alive
  <2>4. QED
    BY <2>2, <2>3
<1>2. UNCHANGED <<pid, ns>>
  BY OthersStand
<1>3. Probe(r, pid[q.by])' = Probe(r, pid[q.by])
  <2> DEFINE k == pid[q.by]
             seen == {x \in TestRuns : Alive(x) /\ SamePlace(r, x) /\ pid[x] = k}
             next == {x \in TestRuns : Alive(x)' /\ SamePlace(r, x)' /\ pid'[x] = pid'[q.by]}
  <2>1. \A x \in TestRuns : SamePlace(r, x)' <=> SamePlace(r, x)
    BY <1>2 DEF SamePlace
  <2>2. next = seen
    BY <1>1, <1>2, <2>1
  <2>3. Probe(r, k) = IF seen = {} THEN "gone" ELSE CHOOSE x \in seen : TRUE
    BY DEF Probe
  <2>4. Probe(r, pid[q.by])' = IF next = {} THEN "gone" ELSE CHOOSE x \in next : TRUE
    BY DEF Probe
  <2> HIDE DEF seen, next
  <2>5. QED
    BY <2>2, <2>3, <2>4
<1>4. QED
  BY <1>3 DEF Stays

\* A step that leaves the files as they are, and the sweep's lists.
LEMMA SeesTheSame ==
    ASSUME ScratchIInv, NEW r \in TestRuns, Acts(r), Alive(r), stage'[r] # "gone", SeesAll(r),
           UNCHANGED files, SameLists(sweep'[r], sweep[r]),
           \/ stage[r] \notin {"moved", "confirmed"}
           \/ stage'[r] \in {"moved", "confirmed"} /\ sweep'[r].at = sweep[r].at
    PROVE  /\ MovesAreDue(r)'
           /\ \A n \in Names : /\ Abandoned(r, claim[n])' = Abandoned(r, claim[n])
                               /\ Quarantined(n)' = Quarantined(n)
<1> USE DEF ScratchIInv
<1>1. UNCHANGED <<folder, claim, quarantine>>
  BY DEF files
<1>2. quarantine \subseteq Quarantines
  BY DEF ScratchTypeOK
<1>3. \A q \in quarantine : Stays(r, q) => Stays(r, q)'
  BY <1>1, <1>2, QuarantinesStay DEF SameLists
<1>4. MovesAreDue(r)
  BY DEF SeesAll
<1>5. \A q \in quarantine' :
         IF q.by = r
         THEN stage'[r] \in {"moved", "confirmed"} /\ q.name = sweep'[r].at
         ELSE q \in sweep'[r].quarantines \/ Stays(r, q)'
  BY <1>1, <1>3, <1>4 DEF MovesAreDue, SameLists
<1>6. \A n \in sweep'[r].hidden : \E q \in quarantine' : q.name = n /\ q.by # r
  BY <1>1, <1>4 DEF MovesAreDue, SameLists
<1>7. \A n \in Names : /\ Abandoned(r, claim[n])' = Abandoned(r, claim[n])
                       /\ Quarantined(n)' = Quarantined(n)
  BY <1>1, NobodyMoves DEF Quarantined
<1>8. QED
  BY <1>5, <1>6, <1>7 DEF MovesAreDue

LEMMA SeesItsListing ==
    ASSUME ScratchIInv, NEW r \in TestRuns, ListRoot(r)
    PROVE  SeesAll(r)'
<1> USE DEF ScratchIInv
<1> DEFINE t == sweep'[r]
<1>1. /\ t.quarantines = quarantine /\ t.hidden = {q.name : q \in quarantine}
      /\ t.folders = {n \in Names : folder[n] # None}
      /\ t.claims = {n \in Names : claim[n] # None}
      /\ t.old = aged /\ t.asked = [p \in Pids |-> None]
  BY ListingIsTaken
<1>2. stage[r] = "listing" /\ stage'[r] = "sweeping" /\ UNCHANGED <<folder, claim, quarantine>>
  BY DEF ListRoot, files, ScratchTypeOK
<1>3. \A q \in quarantine : q.by # r
  BY <1>2 DEF MovesAreOwn
<1>4. AsksTruly(r)'
  BY <1>1 DEF AsksTruly
<1>5. SeesItsName(r)'
  BY <1>2 DEF SeesItsName, InFolders, InOrphans
<1>6. MovesAreDue(r)'
  BY <1>1, <1>2, <1>3 DEF MovesAreDue
<1>7. NamesAreDue(r)'
  <2>1. SUFFICES ASSUME NEW n \in Names, Abandoned(r, claim[n])'
                 PROVE  DueName(r, n)'
    BY DEF NamesAreDue
  <2>2. claim'[n] # None
    BY <2>1 DEF Abandoned, Readable
  <2>3. QED
    BY <1>1, <1>2, <2>2 DEF DueName
<1>8. QED
  BY <1>4, <1>5, <1>6, <1>7 DEF SeesAll

LEMMA SeesWhatItRestores ==
    ASSUME ScratchIInv, NEW r \in TestRuns, RestoreQuarantine(r), SeesAll(r)
    PROVE  SeesAll(r)'
<1> USE DEF ScratchIInv
<1> DEFINE s == sweep[r]
           t == sweep'[r]
<1>1. PICK q \in s.quarantines :
        /\ q \in Quarantines /\ SameName(t, s)
        /\ t.quarantines = s.quarantines \ {q} /\ t.claims = s.claims /\ t.old = s.old
        /\ t.asked = Asked(r, pid[q.by])
        /\ IF DueBack(r, q)
           THEN /\ folder' = [folder EXCEPT ![q.name] = q.holds]
                /\ quarantine' = quarantine \ {q}
                /\ t.folders = s.folders \cup {q.name}
                /\ t.hidden = {p.name : p \in quarantine'} \cap s.hidden
           ELSE /\ UNCHANGED <<folder, quarantine>>
                /\ t.folders = s.folders /\ t.hidden = s.hidden
  BY RestoringTakesOne
<1>2. stage[r] = "sweeping" /\ stage'[r] = "sweeping" /\ UNCHANGED claim
  BY DEF RestoreQuarantine, Goto, ScratchTypeOK
<1>3. Acts(r) /\ Alive(r) /\ stage'[r] # "gone"
  BY <1>2 DEF Acts, SweepStep, Alive
<1>4. q.name \in Names /\ q.holds # None /\ q.by \in TestRuns /\ pid[q.by] \in Pids
  BY <1>1, ScratchAssumption DEF Quarantines, ScratchTypeOK
<1>5. AsksTruly(r) /\ MovesAreDue(r) /\ NamesAreDue(r)
  BY DEF SeesAll
<1>6. AsksTruly(r)'
  BY <1>1, <1>3, <1>4, <1>5, AskedTruly, NobodyMoves DEF AsksTruly
<1>7. SeesItsName(r)'
  BY <1>2 DEF SeesItsName, InFolders, InOrphans
<1>8. \A n \in Names : IF DueBack(r, q) /\ n = q.name THEN folder[n] = None /\ folder'[n] = q.holds
                       ELSE folder'[n] = folder[n]
  BY <1>1, <1>4 DEF ScratchTypeOK, DueBack
<1>9. quarantine' \subseteq quarantine /\ (DueBack(r, q) => quarantine' = quarantine \ {q})
  BY <1>1
<1>10. \A m \in quarantine : m.by # r /\ m.name \in Names /\ m \in Quarantines
  BY <1>2, <1>5 DEF MovesAreDue, ScratchTypeOK, Quarantines
<1>11. ASSUME NEW m \in quarantine'
       PROVE  m \in t.quarantines \/ Stays(r, m)'
  <2>1. m \in quarantine /\ m.by # r /\ m.name \in Names /\ m \in Quarantines
    BY <1>9, <1>10, <1>11
  <2>2. Stays(r, m) => Stays(r, m)'
    <3>1. folder'[m.name] = folder[m.name] \/ folder'[m.name] # None
      BY <1>4, <1>8, <2>1
    <3>2. QED
      BY <1>1, <1>3, <2>1, <3>1, QuarantinesStay
  <2>3. CASE m # q
    BY <1>1, <1>5, <2>1, <2>2, <2>3 DEF MovesAreDue
  <2>4. CASE m = q
    <3>1. ~DueBack(r, q)
      BY <1>9, <1>11, <2>4
    <3>2. Answer(r, pid[q.by]) = Probe(r, pid[q.by])
      BY <1>4, <1>5, AskedTruly
    <3>3. Stays(r, q)
      BY <2>1, <2>4, <3>1, <3>2 DEF DueBack, Stays
    <3>4. QED
      BY <2>2, <2>4, <3>3
  <2>5. QED
    BY <2>3, <2>4
<1>12. \A n \in t.hidden : \E m \in quarantine' : m.name = n /\ m.by # r
  <2>1. CASE DueBack(r, q)
    BY <1>1, <1>9, <1>10, <2>1
  <2>2. CASE ~DueBack(r, q)
    BY <1>1, <1>5, <2>2 DEF MovesAreDue
  <2>3. QED
    BY <2>1, <2>2
<1>13. MovesAreDue(r)'
  BY <1>9, <1>10, <1>11, <1>12 DEF MovesAreDue
<1>14. NamesAreDue(r)'
  <2>1. SUFFICES ASSUME NEW n \in Names, Abandoned(r, claim[n])'
                 PROVE  DueName(r, n)'
    BY DEF NamesAreDue
  <2>2. Abandoned(r, claim[n])
    BY <1>2, <1>3, <2>1, NobodyMoves
  <2>3. DueName(r, n)
    BY <1>5, <2>2 DEF NamesAreDue
  <2>4. CASE DueBack(r, q) /\ n = q.name
    BY <1>1, <1>4, <1>8, <2>4 DEF DueName
  <2>5. CASE ~(DueBack(r, q) /\ n = q.name)
    <3>1. folder'[n] = folder[n]
      BY <1>8, <2>5
    <3>2. Quarantined(n) => Quarantined(n)'
      BY <1>1, <2>5 DEF Quarantined
    <3>3. s.folders \subseteq t.folders /\ t.claims = s.claims /\ t.old = s.old
      BY <1>1
    <3>4. QED
      BY <1>2, <2>3, <3>1, <3>2, <3>3 DEF DueName, InFolders, InOrphans
  <2>6. QED
    BY <2>4, <2>5
<1>15. QED
  BY <1>6, <1>7, <1>13, <1>14 DEF SeesAll

LEMMA SeesWhatItCaptures ==
    ASSUME ScratchIInv, NEW r \in TestRuns, CaptureFolder(r) \/ CaptureOrphan(r), SeesAll(r)
    PROVE  SeesAll(r)'
<1> USE DEF ScratchIInv
<1> DEFINE s == sweep[r]
           t == sweep'[r]
<1>1. stage[r] = "sweeping" /\ UNCHANGED <<folder, claim, quarantine>> /\ s.quarantines = {}
      /\ (CaptureOrphan(r) => s.folders = {})
  BY DEF CaptureFolder, CaptureOrphan, files
<1>2. stage'[r] \in {"captured", "orphan", "sweeping"}
  BY CapturingTakesOne, CapturingAnOrphan
<1>3. Acts(r) /\ Alive(r) /\ stage'[r] # "gone"
  BY <1>1, <1>2 DEF Acts, SweepStep, Alive
<1>4. t.quarantines = s.quarantines /\ t.old = s.old /\ t.hidden = s.hidden /\ t.asked = s.asked
  BY CapturingTakesOne, CapturingAnOrphan
<1>5. AsksTruly(r) /\ MovesAreDue(r) /\ NamesAreDue(r)
  BY DEF SeesAll
<1>6. AsksTruly(r)'
  BY <1>3, <1>4, <1>5, NobodyMoves DEF AsksTruly
<1>7. \A q \in quarantine : q.by # r /\ q \in Quarantines /\ Stays(r, q)
  BY <1>1, <1>5 DEF MovesAreDue, ScratchTypeOK
<1>8. \A q \in quarantine : Stays(r, q)'
  BY <1>1, <1>3, <1>4, <1>7, QuarantinesStay
<1>9. MovesAreDue(r)'
  BY <1>1, <1>4, <1>5, <1>7, <1>8 DEF MovesAreDue
<1>10. \A n \in Names : /\ Abandoned(r, claim[n])' = Abandoned(r, claim[n])
                        /\ Quarantined(n)' = Quarantined(n)
  BY <1>1, <1>3, NobodyMoves DEF Quarantined
<1>11. \A n \in Names : Abandoned(r, claim[n])' => claim[n] # None /\ DueName(r, n)
  BY <1>1, <1>5, <1>10 DEF NamesAreDue, Abandoned, Readable
<1>12. CASE CaptureFolder(r)
  <2>1. PICK n \in s.folders :
          /\ n \in Names /\ t.claims = s.claims /\ t.folders = s.folders \ {n}
          /\ IF folder[n] # None /\ TreeOf(n, folder[n]) \in s.old
             THEN stage'[r] = "captured" /\ t.at = n /\ t.id = folder[n] /\ t.saw = claim[n]
             ELSE stage'[r] = "sweeping"
    BY <1>12, CapturingTakesOne
  <2>2. SeesItsName(r)'
    BY <1>1, <1>4, <2>1 DEF SeesItsName, InFolders, InOrphans
  <2>3. \A m \in Names : Abandoned(r, claim[m])' => DueName(r, m)'
    BY <1>1, <1>4, <1>10, <1>11, <2>1 DEF DueName, InFolders, InOrphans
  <2>4. QED
    BY <1>6, <1>9, <2>2, <2>3 DEF SeesAll, NamesAreDue
<1>13. CASE CaptureOrphan(r)
  <2>1. PICK n \in s.claims :
          /\ n \in Names /\ t.folders = s.folders /\ t.claims = s.claims \ {n}
          /\ IF /\ claim[n] # None /\ folder[n] = None
                /\ ClaimOf(n, claim[n]) \in s.old /\ n \notin s.hidden
             THEN stage'[r] = "orphan" /\ t.at = n /\ t.saw = claim[n]
             ELSE stage'[r] = "sweeping"
    BY <1>13, CapturingAnOrphan
  <2>2. SeesItsName(r)'
    BY <1>1, <2>1 DEF SeesItsName, InFolders, InOrphans
  <2>3. n \in s.hidden => Quarantined(n)
    BY <1>5 DEF MovesAreDue, Quarantined
  <2>4. \A m \in Names : Abandoned(r, claim[m])' => DueName(r, m)'
    BY <1>1, <1>4, <1>10, <1>11, <1>13, <2>1, <2>3 DEF DueName, InFolders, InOrphans
  <2>5. QED
    BY <1>6, <1>9, <2>2, <2>4 DEF SeesAll, NamesAreDue
<1>14. QED
  BY <1>12, <1>13

LEMMA SeesWhatItJudges ==
    ASSUME ScratchIInv, NEW r \in TestRuns, JudgeFolder(r) \/ JudgeOrphan(r), SeesAll(r)
    PROVE  SeesAll(r)'
<1> USE DEF ScratchIInv
<1> DEFINE s == sweep[r]
           t == sweep'[r]
<1>1. /\ SameLists(t, s) /\ t.asked = AskedAbout(r, s.saw)
      /\ \/ Condemned(r, s.saw) /\ SameName(t, s)
            /\ \/ stage'[r] = "condemned" /\ stage[r] = "captured"
               \/ /\ stage'[r] = "orphanGone" /\ stage[r] = "orphan"
                  /\ folder[s.at] = None /\ claim[s.at] = s.saw
         \/ /\ t.at = None /\ stage'[r] = "sweeping"
            /\ \/ ~Condemned(r, s.saw)
               \/ stage[r] = "orphan" /\ ~(folder[s.at] = None /\ claim[s.at] = s.saw)
  BY JudgingAsks
<1>2. /\ stage[r] \in {"captured", "orphan"} /\ UNCHANGED files
      /\ UNCHANGED <<folder, claim, quarantine>>
  BY DEF JudgeFolder, JudgeOrphan, files
<1>3. Acts(r) /\ Alive(r) /\ stage'[r] # "gone"
  BY <1>1, <1>2 DEF Acts, SweepStep, Alive
<1>4. AsksTruly(r) /\ SeesItsName(r) /\ MovesAreDue(r) /\ NamesAreDue(r)
  BY DEF SeesAll
<1>5. s.saw \in Claims \cup {None}
  BY SweepsTyped DEF ScratchTypeOK, SweepTyped
<1>6. claim[s.at] = s.saw /\ (stage[r] = "orphan" => folder[s.at] = None)
  BY <1>2, <1>4 DEF SeesItsName, InFolders, InOrphans
<1>7. AsksTruly(r)'
  BY <1>1, <1>3, <1>4, <1>5, AskedTruly, NobodyMoves DEF AsksTruly
<1>8. /\ MovesAreDue(r)'
      /\ \A n \in Names : /\ Abandoned(r, claim[n])' = Abandoned(r, claim[n])
                          /\ Quarantined(n)' = Quarantined(n)
  BY <1>1, <1>2, <1>3, SeesTheSame
<1>9. Abandoned(r, s.saw) => Condemned(r, s.saw)
  BY <1>4, <1>5, AskedTruly
<1>10. CASE Condemned(r, s.saw)
  <2>1. /\ SameName(t, s)
        /\ \/ stage'[r] = "condemned" /\ stage[r] = "captured"
           \/ stage'[r] = "orphanGone" /\ stage[r] = "orphan"
    BY <1>1, <1>6, <1>10
  <2>2. SeesItsName(r)'
    BY <1>1, <1>2, <1>4, <2>1 DEF SeesItsName, InFolders, InOrphans, SameLists, SameName
  <2>3. \A n \in Names : Abandoned(r, claim[n])' => DueName(r, n)'
    BY <1>1, <1>2, <1>4, <1>8, <2>1
       DEF NamesAreDue, DueName, InFolders, InOrphans, SameLists, SameName
  <2>4. QED
    BY <1>7, <1>8, <2>2, <2>3 DEF SeesAll, NamesAreDue
<1>11. CASE ~Condemned(r, s.saw)
  <2>1. stage'[r] = "sweeping" /\ ~Abandoned(r, s.saw)
    BY <1>1, <1>9, <1>11
  <2>2. SeesItsName(r)'
    BY <2>1 DEF SeesItsName, InFolders, InOrphans
  <2>3. \A n \in Names : Abandoned(r, claim[n]) => n # s.at
    BY <1>6, <2>1
  <2>4. \A n \in Names : Abandoned(r, claim[n])' => DueName(r, n)'
    BY <1>1, <1>2, <1>4, <1>8, <2>1, <2>3 DEF NamesAreDue, DueName, SameLists
  <2>5. QED
    BY <1>7, <1>8, <2>2, <2>4 DEF SeesAll, NamesAreDue
<1>12. QED
  BY <1>10, <1>11

\* The recheck, and the check in the quarantine: nothing is new to either.
LEMMA SeesWhatItChecks ==
    ASSUME ScratchIInv, NEW r \in TestRuns, RecheckFolder(r) \/ ConfirmMove(r), SeesAll(r),
           r \in alone'
    PROVE  SeesAll(r)'
<1> USE DEF ScratchIInv
<1>1. AsksTruly(r) /\ SeesItsName(r) /\ MovesAreDue(r) /\ NamesAreDue(r)
  BY DEF SeesAll
<1>2. /\ UNCHANGED files /\ UNCHANGED <<folder, claim, quarantine, sweep>>
      /\ \/ stage[r] = "condemned" /\ stage'[r] = "checked"
         \/ stage[r] = "moved" /\ stage'[r] = "confirmed"
  <2>1. CASE RecheckFolder(r)
    <3>1. stage[r] = "condemned"
      BY <2>1 DEF RecheckFolder
    <3>2. folder[sweep[r].at] = sweep[r].id /\ claim[sweep[r].at] = sweep[r].saw
      BY <1>1, <3>1 DEF SeesItsName, InFolders
    <3>3. Goto(r, "checked") /\ UNCHANGED <<files, sweep>>
      BY <2>1, <3>2 DEF RecheckFolder
    <3>4. QED
      BY <3>1, <3>3 DEF Goto, files, ScratchTypeOK
  <2>2. CASE ConfirmMove(r)
    <3>1. ~PutBack(r)
      BY DEF PutBack
    <3>2. QED
      BY <2>2, <3>1 DEF ConfirmMove, Goto, files, ScratchTypeOK
  <2>3. QED
    BY <2>1, <2>2
<1>3. Acts(r) /\ Alive(r) /\ stage'[r] # "gone"
  BY <1>2 DEF Acts, SweepStep, Alive
<1>4. SameLists(sweep'[r], sweep[r]) /\ sweep'[r].at = sweep[r].at
  BY <1>2 DEF SameLists
<1>5. /\ MovesAreDue(r)'
      /\ \A n \in Names : /\ Abandoned(r, claim[n])' = Abandoned(r, claim[n])
                          /\ Quarantined(n)' = Quarantined(n)
  BY <1>2, <1>3, <1>4, SeesTheSame
<1>6. AsksTruly(r)'
  BY <1>1, <1>2, <1>3, NobodyMoves DEF AsksTruly
<1>7. SeesItsName(r)'
  BY <1>1, <1>2 DEF SeesItsName, InFolders, InOrphans
<1>8. \A n \in Names : Abandoned(r, claim[n])' => DueName(r, n)'
  BY <1>1, <1>2, <1>5 DEF NamesAreDue, DueName, InFolders, InOrphans
<1>9. QED
  BY <1>5, <1>6, <1>7, <1>8 DEF SeesAll, NamesAreDue

LEMMA SeesWhatItMoves ==
    ASSUME ScratchIInv, NEW r \in TestRuns, MoveAside(r), SeesAll(r)
    PROVE  SeesAll(r)'
<1> USE DEF ScratchIInv
<1> DEFINE s == sweep[r]
           n == s.at
           new == [name |-> n, by |-> r, holds |-> folder[n]]
<1>1. AsksTruly(r) /\ SeesItsName(r) /\ MovesAreDue(r) /\ NamesAreDue(r)
  BY DEF SeesAll
<1>2. stage[r] = "checked" /\ n \in Names
  BY SweepsTyped DEF MoveAside, VerdictsStand, InFolders, ScratchTypeOK, SweepTyped
<1>3. /\ s.id # None /\ TreeOf(n, s.id) \in s.old /\ claim[n] = s.saw /\ folder[n] = s.id
      /\ s.quarantines = {}
  BY <1>1, <1>2 DEF SeesItsName, MovesAreOwn, InFolders
<1>4. /\ quarantine' = quarantine \cup {new} /\ folder' = [folder EXCEPT ![n] = None]
      /\ stage'[r] = "moved" /\ UNCHANGED <<sweep, claim>>
  BY <1>3 DEF MoveAside, Goto, ScratchTypeOK
<1>5. new.name = n /\ new.by = r /\ new.holds = folder[n]
  OBVIOUS
<1> HIDE DEF new
<1>6. Acts(r) /\ Alive(r) /\ stage'[r] # "gone"
  BY <1>2, <1>4 DEF Acts, SweepStep, Alive
<1>7. /\ folder'[n] = None
      /\ \A m \in Names \ {n} : folder'[m] = folder[m]
  BY <1>2, <1>4 DEF ScratchTypeOK
<1>8. AsksTruly(r)'
  BY <1>1, <1>4, <1>6, NobodyMoves DEF AsksTruly
<1>9. SeesItsName(r)'
  BY <1>3, <1>4 DEF SeesItsName, InOrphans
<1>10. \A q \in quarantine : q.by # r /\ q \in Quarantines /\ Stays(r, q)
  BY <1>1, <1>2, <1>3 DEF MovesAreDue, ScratchTypeOK
<1>11. ASSUME NEW q \in quarantine
       PROVE  Stays(r, q)'
  <2>1. q.name \in Names
    BY <1>10 DEF Quarantines
  <2>2. CASE q.name # n
    BY <1>4, <1>6, <1>7, <1>10, <2>1, <2>2, QuarantinesStay
  <2>3. CASE q.name = n
    <3>1. s.id # q.holds
      BY <1>3, <2>3 DEF TreesAreApart
    <3>2. s.id \in Makers
      BY <1>2, <1>3 DEF ScratchTypeOK
    <3>3. \E x \in Makers \ {q.holds} : TreeOf(q.name, x) \in sweep'[r].old
      BY <1>3, <1>4, <2>3, <3>1, <3>2
    <3>4. QED
      BY <3>3 DEF Stays
  <2>4. QED
    BY <2>2, <2>3
<1>12. MovesAreDue(r)'
  BY <1>1, <1>4, <1>5, <1>10, <1>11 DEF MovesAreDue
<1>13. ASSUME NEW m \in Names, Abandoned(r, claim[m])'
       PROVE  DueName(r, m)'
  <2>1. Abandoned(r, claim[m])
    BY <1>4, <1>6, <1>13, NobodyMoves
  <2>2. DueName(r, m)
    BY <1>1, <2>1 DEF NamesAreDue
  <2>3. CASE m = n
    BY <1>4, <1>5, <1>7, <2>3 DEF DueName, Quarantined
  <2>4. CASE m # n
    <3>1. Quarantined(m) => Quarantined(m)'
      BY <1>4 DEF Quarantined
    <3>2. folder'[m] = folder[m]
      BY <1>7, <2>4
    <3>3. QED
      BY <1>4, <2>2, <2>4, <3>1, <3>2 DEF DueName
  <2>5. QED
    BY <2>3, <2>4
<1>14. QED
  BY <1>8, <1>9, <1>12, <1>13 DEF SeesAll, NamesAreDue

LEMMA SeesWhatItRemoves ==
    ASSUME ScratchIInv, NEW r \in TestRuns, RemoveTree(r), SeesAll(r)
    PROVE  SeesAll(r)'
<1> USE DEF ScratchIInv
<1> DEFINE s == sweep[r]
           n == s.at
<1>1. AsksTruly(r) /\ SeesItsName(r) /\ MovesAreDue(r) /\ NamesAreDue(r)
  BY DEF SeesAll
<1>2. /\ stage[r] = "confirmed" /\ stage'[r] = "emptied" /\ UNCHANGED <<folder, claim, sweep>>
      /\ quarantine' = (IF HasMoved(r) THEN quarantine \ {Moved(r)} ELSE quarantine)
  BY DEF RemoveTree, Goto, ScratchTypeOK
<1>3. Acts(r) /\ Alive(r) /\ stage'[r] # "gone"
  BY <1>2 DEF Acts, SweepStep, Alive
<1>4. AsksTruly(r)'
  BY <1>1, <1>2, <1>3, NobodyMoves DEF AsksTruly
<1>5. SeesItsName(r)'
  BY <1>1, <1>2 DEF SeesItsName, InFolders, InOrphans
<1>6. ASSUME NEW q \in quarantine
      PROVE  IF q.by = r THEN q \notin quarantine' /\ q.name = n ELSE q \in quarantine'
  <2>1. CASE q.by = r
    <3>1. q.name = n /\ HasMoved(r)
      BY <1>1, <2>1 DEF MovesAreDue, HasMoved
    <3>2. \A p \in quarantine : p.by = r /\ p.name = q.name => p = q
      BY <1>2, <2>1, <3>1 DEF MovesAreOwn
    <3>3. Moved(r) = q
      BY <3>1, <3>2, MovedIsOne
    <3>4. QED
      BY <1>2, <2>1, <3>1, <3>3
  <2>2. CASE q.by # r
    BY <1>2, <2>2, MovedIsOne
  <2>3. QED
    BY <2>1, <2>2
<1>7. quarantine' \subseteq quarantine /\ quarantine \subseteq Quarantines
  BY <1>2 DEF ScratchTypeOK
<1>8. MovesAreDue(r)'
  <2>1. \A q \in quarantine' : q.by # r /\ (q \in s.quarantines \/ Stays(r, q))
    BY <1>1, <1>6, <1>7 DEF MovesAreDue
  <2>2. \A q \in quarantine' : Stays(r, q) => Stays(r, q)'
    BY <1>2, <1>3, <1>7, QuarantinesStay
  <2>3. \A m \in s.hidden : \E q \in quarantine' : q.name = m /\ q.by # r
    BY <1>1, <1>6 DEF MovesAreDue
  <2>4. QED
    BY <1>2, <2>1, <2>2, <2>3 DEF MovesAreDue
<1>9. ASSUME NEW m \in Names, Abandoned(r, claim[m])'
      PROVE  DueName(r, m)'
  <2>1. Abandoned(r, claim[m])
    BY <1>2, <1>3, <1>9, NobodyMoves
  <2>2. DueName(r, m)
    BY <1>1, <2>1 DEF NamesAreDue
  <2>3. Quarantined(m) => Quarantined(m)' \/ m = n
    BY <1>6 DEF Quarantined
  <2>4. QED
    BY <1>2, <2>2, <2>3 DEF DueName, InFolders, InOrphans
<1>10. QED
  BY <1>4, <1>5, <1>8, <1>9 DEF SeesAll, NamesAreDue

LEMMA SeesItsClaimGo ==
    ASSUME ScratchIInv, NEW r \in TestRuns, RemoveItsClaim(r) \/ RemoveOrphan(r), SeesAll(r)
    PROVE  SeesAll(r)'
<1> USE DEF ScratchIInv
<1> DEFINE s == sweep[r]
           t == sweep'[r]
           n == s.at
<1>1. AsksTruly(r) /\ SeesItsName(r) /\ MovesAreDue(r) /\ NamesAreDue(r)
  BY DEF SeesAll
<1>2. stage[r] \in {"emptied", "orphanGone"} /\ n \in Names /\ claim[n] = s.saw
  BY <1>1, SweepsTyped
     DEF RemoveItsClaim, RemoveOrphan, VerdictsStand, InFolders, InOrphans, ScratchTypeOK,
         SweepTyped, SeesItsName
<1>3. claim' = [claim EXCEPT ![n] = None] /\ Keep(r) /\ UNCHANGED <<folder, quarantine>>
  BY <1>2 DEF RemoveItsClaim, RemoveOrphan
<1>4. claim'[n] = None /\ \A m \in Names \ {n} : claim'[m] = claim[m]
  BY <1>2, <1>3 DEF ScratchTypeOK
<1>5. stage'[r] = "sweeping" /\ SameLists(t, s) /\ t.asked = s.asked
  BY <1>3, KeepClears DEF Keep, Goto, ScratchTypeOK
<1>6. Acts(r) /\ Alive(r) /\ stage'[r] # "gone"
  BY <1>2, <1>5 DEF Acts, SweepStep, Alive
<1>7. AsksTruly(r)'
  BY <1>1, <1>5, <1>6, NobodyMoves DEF AsksTruly
<1>8. SeesItsName(r)'
  BY <1>5 DEF SeesItsName, InFolders, InOrphans
<1>9. \A q \in quarantine : q.by # r /\ (q \in s.quarantines \/ Stays(r, q)) /\ q \in Quarantines
  BY <1>1, <1>2 DEF MovesAreDue, ScratchTypeOK
<1>10. \A q \in quarantine : Stays(r, q) => Stays(r, q)'
  BY <1>3, <1>5, <1>6, <1>9, QuarantinesStay DEF SameLists
<1>11. MovesAreDue(r)'
  BY <1>1, <1>3, <1>5, <1>9, <1>10 DEF MovesAreDue, SameLists
<1>12. ASSUME NEW m \in Names, Abandoned(r, claim[m])'
       PROVE  DueName(r, m)'
  <2>1. m # n
    BY <1>4, <1>12 DEF Abandoned, Readable
  <2>2. claim'[m] = claim[m] /\ Abandoned(r, claim[m])
    BY <1>4, <1>6, <1>12, <2>1, NobodyMoves
  <2>3. DueName(r, m) /\ Quarantined(m)' = Quarantined(m)
    BY <1>1, <1>3, <2>2 DEF NamesAreDue, Quarantined
  <2>4. QED
    BY <1>3, <1>5, <2>1, <2>2, <2>3 DEF DueName, SameLists
<1>13. QED
  BY <1>7, <1>8, <1>11, <1>12 DEF SeesAll, NamesAreDue

LEMMA TheAloneStillSee ==
    ASSUME ScratchIInv, NEW r \in TestRuns, Acts(r)
    PROVE  AloneSeesAll'
<1> USE DEF ScratchIInv
<1>1. SUFFICES ASSUME NEW x \in TestRuns, Undisturbed(x)'
               PROVE  SeesAll(x)'
  BY AloneIsSeeingNext
<1>2. x = r /\ r \in alone' /\ stage'[r] \in {"sweeping"} \cup InFolders \cup InOrphans
  BY <1>1, StagesMove DEF Undisturbed
<1>3. CASE ListRoot(r)
  BY <1>2, <1>3, SeesItsListing
<1>4. CASE ~ListRoot(r)
  <2>1. SweepStep(r)
    BY <1>2, StagesMove DEF Acts, Start, Goto, ScratchTypeOK, InFolders, InOrphans, WithName
  <2>2. r \in alone /\ stage[r] \in {"sweeping"} \cup InFolders \cup InOrphans
    BY <1>2, <1>4, <2>1, StagesMove, StepsHavePlaces
  <2>3. SeesAll(r)
    BY <2>2, AloneIsSeeing DEF Undisturbed
  <2>4. ~SweepEnds(r)
    BY <1>2 DEF SweepEnds, Goto, InFolders, InOrphans, ScratchTypeOK
  <2>5. ~RemoveTreeGivesUp(r)
    BY <1>2 DEF RemoveTreeGivesUp, PutBack
  <2>6. QED
    BY <1>2, <1>4, <2>1, <2>3, <2>4, <2>5, SeesWhatItRestores, SeesWhatItCaptures,
       SeesWhatItJudges, SeesWhatItChecks, SeesWhatItMoves, SeesWhatItRemoves, SeesItsClaimGo
       DEF SweepStep
<1>5. QED
  BY <1>3, <1>4

\* The parts that do not speak of folders, or of stamps.
LEMMA SteadyParts ==
    ASSUME ScratchIInv,
           UNCHANGED <<stage, pid, ns, record, claim, quarantine, drawn, scratch, sweep>>
    PROVE  /\ RecordsAreOfBorn' /\ ScratchesAreOwn' /\ ClaimsTell' /\ AnswersStand'
           /\ VerdictsStand' /\ ClaimsAreKept' /\ MovesAreOwn'
<1> USE DEF ScratchIInv
<1>1. RecordsAreOfBorn' /\ ScratchesAreOwn' /\ ClaimsTell'
  BY DEF RecordsAreOfBorn, ScratchesAreOwn, ClaimsTell, Born, Tells
<1>2. AnswersStand'
  BY DEF AnswersStand, Outdated, SamePlace, Alive, Listed
<1>3. VerdictsStand' /\ ClaimsAreKept' /\ MovesAreOwn'
  BY DEF VerdictsStand, ClaimsAreKept, MovesAreOwn, Alive
<1>4. QED
  BY <1>1, <1>2, <1>3

LEMMA TimeKeepsAll ==
    ASSUME ScratchIInv, Age \/ UNCHANGED scratchVars
    PROVE  ScratchIInv'
<1> USE DEF ScratchIInv
<1>1. /\ UNCHANGED <<stage, pid, ns, record, folder, claim, quarantine, drawn, scratch, sweep>>
      /\ UNCHANGED <<mishaps, alone>> /\ aged' \in {aged, Entries}
  BY DEF Age, scratchVars, identity, files
<1>2. Entries' = Entries
  BY <1>1 DEF Entries, Trees
<1>3. ScratchTypeOK'
  <2>1. aged' \subseteq Entries'
    BY <1>1, <1>2 DEF ScratchTypeOK
  <2>2. QED
    BY <1>1, <2>1 DEF ScratchTypeOK
<1>4. NamesAreDrawn' /\ MakersClaim' /\ TreesAreApart'
  BY <1>1 DEF NamesAreDrawn, MakersClaim, TreesAreApart, Listed
<1>5. AloneSeesAll'
  <2>1. SUFFICES ASSUME NEW r \in TestRuns, Undisturbed(r)' PROVE SeesAll(r)'
    BY AloneIsSeeingNext
  <2>2. SeesAll(r)
    BY <1>1, <2>1, AloneIsSeeing DEF Undisturbed
  <2>3. AsksTruly(r)' /\ MovesAreDue(r)' /\ SeesItsName(r)'
    BY <1>1, <2>2 DEF SeesAll, AsksTruly, MovesAreDue, SeesItsName, Probe, Stays, Alive, SamePlace
  <2>4. NamesAreDue(r)'
    BY <1>1, <2>2 DEF SeesAll, NamesAreDue, DueName, Abandoned, Probe, Alive, SamePlace, Quarantined
  <2>5. QED
    BY <2>3, <2>4 DEF SeesAll
<1>6. QED
  BY <1>1, <1>3, <1>4, <1>5, SteadyParts

LEMMA StrangersKeepAll ==
    ASSUME ScratchIInv, Squat
    PROVE  ScratchIInv'
<1> USE DEF ScratchIInv
<1>1. PICK n \in drawn : TreeOf(n, Stranger) \notin Trees
                         /\ folder' = [folder EXCEPT ![n] = Stranger]
  BY DEF Squat
<1>2. /\ UNCHANGED <<stage, pid, ns, record, claim, quarantine, drawn, scratch, sweep>>
      /\ alone' = {} /\ aged' \subseteq Entries' /\ mishaps' \in 0..MaxMishaps
  BY ScratchAssumption DEF Squat, identity, Restamp, Mishap, ScratchTypeOK
<1>3. n \in Names /\ Stranger \in Makers /\ Stranger \notin TestRuns
  BY ScratchAssumption DEF ScratchTypeOK, Makers
<1>4. folder'[n] = Stranger /\ \A m \in Names \ {n} : folder'[m] = folder[m]
  BY <1>1, <1>3 DEF ScratchTypeOK
<1>5. ScratchTypeOK'
  BY <1>1, <1>2, <1>3 DEF ScratchTypeOK
<1>6. NamesAreDrawn'
  BY <1>2, <1>4 DEF NamesAreDrawn, Listed
<1>7. MakersClaim'
  BY <1>2, <1>3, <1>4 DEF MakersClaim, Agree
<1>8. TreesAreApart'
  <2>1. \A q \in quarantine : q.name \in Names /\ (q.name = n => q.holds # Stranger)
    BY <1>1 DEF Trees, ScratchTypeOK, Quarantines
  <2>2. \A x \in TestRuns : stage[x] \in {"claimed", "registered"} => scratch[x] \in Names
    BY DEF ScratchesAreOwn, WithName, ScratchTypeOK
  <2>3. QED
    BY <1>2, <1>3, <1>4, <2>1, <2>2 DEF TreesAreApart
<1>9. AloneSeesAll'
  BY <1>2, AloneIsSeeingNext DEF Undisturbed
<1>10. QED
  BY <1>2, <1>5, <1>6, <1>7, <1>8, <1>9, SteadyParts

LEMMA RunsKeepAll ==
    ASSUME ScratchIInv, NEW r \in TestRuns, Acts(r)
    PROVE  ScratchIInv'
<1>1. ScratchTypeOK'
  BY ActsTyped DEF ScratchIInv
<1>2. QED
  BY <1>1, RecordsStayBorn, NamesStayDrawn, ScratchesStayOwn, ClaimsStillTell, MakersStillClaim,
     AnswersStillStand, VerdictsStillStand, ClaimsStayKept, MovesStayOwn, TreesStayApart,
     TheAloneStillSee DEF ScratchIInv

LEMMA NothingMadeYet == ScratchInit => ScratchIInv
<1> SUFFICES ASSUME ScratchInit PROVE ScratchIInv
  OBVIOUS
<1> USE DEF ScratchInit
<1>1. \A x \in TestRuns :
        /\ stage[x] = "unborn" /\ sweep[x] = NoSweep /\ scratch[x] = None /\ record[x] = x
  OBVIOUS
<1>2. /\ NoSweep.quarantines = {} /\ NoSweep.folders = {} /\ NoSweep.claims = {}
      /\ NoSweep.hidden = {} /\ NoSweep.at = None /\ NoSweep.id = None /\ NoSweep.saw = None
      /\ NoSweep.asked = [p \in Pids |-> None]
  BY DEF NoSweep
<1>3. None # "gone" /\ None \notin TestRuns
  BY ScratchAssumption DEF Makers
<1>4. ScratchTypeOK
  <2>1. sweep \in [TestRuns -> Sweeps]
    BY NoSweepTyped
  <2>2. mishaps \in 0..MaxMishaps
    BY ScratchAssumption
  <2>3. QED
    BY <2>1, <2>2 DEF ScratchTypeOK, Stages
<1>5. RecordsAreOfBorn /\ ScratchesAreOwn /\ ClaimsTell
  BY <1>1, <1>2 DEF RecordsAreOfBorn, ScratchesAreOwn, ClaimsTell, Born, Tells, WithName
<1>6. NamesAreDrawn /\ MakersClaim
  BY <1>1, <1>2, <1>3 DEF NamesAreDrawn, MakersClaim, Agree, Listed
<1>7. AnswersStand
  <2>1. \A x \in TestRuns : ~Alive(x)
    BY <1>1 DEF Alive
  <2>2. QED
    BY <2>1 DEF AnswersStand, Outdated
<1>8. VerdictsStand /\ ClaimsAreKept
  BY <1>1, <1>2
     DEF VerdictsStand, ClaimsAreKept, InFolders, InOrphans, Condemns
<1>9. MovesAreOwn /\ TreesAreApart
  BY <1>1, <1>2 DEF MovesAreOwn, TreesAreApart, InFolders
<1>10. AloneSeesAll
  BY AloneIsSeeing DEF Undisturbed
<1>11. QED
  BY <1>4, <1>5, <1>6, <1>7, <1>8, <1>9, <1>10 DEF ScratchIInv

LEMMA StepsAreOfSomebody ==
    [ScratchNext]_scratchVars => \/ \E r \in TestRuns : Acts(r)
                                 \/ Age \/ Squat \/ UNCHANGED scratchVars
BY DEF ScratchNext, Acts

\* Types, names, claims and verdicts hold together in every interleaving of the runs'
\* system calls, kills, ages and strangers' folders.
THEOREM ScratchInductive == ScratchSpec => []ScratchIInv
<1>1. ScratchIInv /\ [ScratchNext]_scratchVars => ScratchIInv'
  BY StepsAreOfSomebody, RunsKeepAll, TimeKeepsAll, StrangersKeepAll
<1>2. QED
  BY <1>1, NothingMadeYet, PTL DEF ScratchSpec

\* Every variable keeps its type, and what is aged exists.
THEOREM ScratchTyped == ScratchSpec => []ScratchTypeOK
<1>1. ScratchIInv => ScratchTypeOK
  BY DEF ScratchIInv
<1>2. QED
  BY <1>1, ScratchInductive, PTL

\* A live run's scratch keeps its claim, whatever sweeps run beside it: a sweep that
\* condemns a claim saw a run that is over, and a run that is over stays so.
THEOREM LiveScratches == ScratchSpec => []LiveScratchIsClaimed
<1>1. ScratchIInv => LiveScratchIsClaimed
  BY DEF ScratchIInv, ClaimsAreKept, LiveScratchIsClaimed
<1>2. QED
  BY <1>1, ScratchInductive, PTL

\* What a step takes out of the quarantines.
LEMMA TakenFromQuarantine ==
    ASSUME ScratchIInv, NEW r \in TestRuns, Acts(r), NEW q \in quarantine \ quarantine'
    PROVE  \/ folder'[q.name] = q.holds
           \/ stage[r] = "confirmed" /\ q.by = r /\ q.name = sweep[r].at
<1> USE DEF ScratchIInv
<1>1. q.name \in Names /\ folder \in [Names -> Makers \cup {None}]
  BY DEF ScratchTypeOK, Quarantines
<1>2. CASE RestoreQuarantine(r)
  <2>1. PICK p \in sweep[r].quarantines :
          IF DueBack(r, p)
          THEN folder' = [folder EXCEPT ![p.name] = p.holds] /\ quarantine' = quarantine \ {p}
          ELSE UNCHANGED <<folder, quarantine>>
    BY <1>2, RestoringTakesOne
  <2>2. p = q /\ folder' = [folder EXCEPT ![p.name] = p.holds]
    BY <2>1
  <2>3. QED
    BY <1>1, <2>2
<1>3. CASE PutBack(r)
  <2>1. HasMoved(r) /\ folder[sweep[r].at] = None /\ q = Moved(r)
    BY <1>3 DEF PutBack
  <2>2. folder' = [folder EXCEPT ![sweep[r].at] = Moved(r).holds] /\ q.name = sweep[r].at
    BY <1>3, <2>1, MovedIsOne DEF PutBack
  <2>3. QED
    BY <1>1, <2>1, <2>2
<1>4. CASE RemoveTree(r)
  <2>1. HasMoved(r) /\ q = Moved(r)
    BY <1>4 DEF RemoveTree
  <2>2. QED
    BY <1>4, <2>1, MovedIsOne DEF RemoveTree
<1>5. CASE MoveAside(r) \/ ConfirmMove(r) \/ RemoveTreeGivesUp(r)
  BY <1>3, <1>5 DEF MoveAside, ConfirmMove, RemoveTreeGivesUp
<1>6. CASE ListRoot(r) \/ CaptureFolder(r) \/ JudgeFolder(r) \/ RecheckFolder(r)
           \/ RemoveItsClaim(r) \/ CaptureOrphan(r) \/ JudgeOrphan(r) \/ RemoveOrphan(r)
           \/ SweepEnds(r) \/ Start(r) \/ Ends(r)
  BY <1>6
     DEF files, ListRoot, CaptureFolder, JudgeFolder, RecheckFolder, RemoveItsClaim, CaptureOrphan,
         JudgeOrphan, RemoveOrphan, SweepEnds, Start, Ends
<1>7. CASE ScratchStep(r)
  BY <1>7
     DEF ScratchStep, files, CreateClaim, WriteClaim, WriteClaimFails, CreateDir, CreateDirFails,
         TakeClaimBack, TakeBackGivesUp, DropFolder, DropClaim, DropGivesUp
<1>8. QED
  BY <1>2, <1>4, <1>5, <1>6, <1>7 DEF Acts, SweepStep

\* Whatever came to the name between the checks, a tree is removed only out of the
\* quarantine of the sweep that judged it, and never one of a run whose record is live.
THEOREM OnlyCondemned == ScratchSpec => OnlyTheCondemnedIsRemoved
<1> DEFINE Right == \A q \in quarantine \ quarantine' :
                      \/ folder'[q.name] = q.holds
                      \/ /\ q.holds = sweep[q.by].id
                         /\ q.holds \in TestRuns => ~Alive(record[q.holds])
<1>1. ScratchIInv /\ [ScratchNext]_scratchVars => Right
  <2> SUFFICES ASSUME ScratchIInv, [ScratchNext]_scratchVars, NEW q \in quarantine \ quarantine',
                      folder'[q.name] # q.holds
               PROVE  /\ q.holds = sweep[q.by].id
                      /\ q.holds \in TestRuns => ~Alive(record[q.holds])
    OBVIOUS
  <2> USE DEF ScratchIInv
  <2>1. PICK r \in TestRuns : Acts(r)
    BY StepsAreOfSomebody DEF Age, Squat, scratchVars, files
  <2>2. stage[r] = "confirmed" /\ q.by = r /\ q.name = sweep[r].at
    BY <2>1, TakenFromQuarantine
  <2>3. q.holds = sweep[r].id
    BY <2>2 DEF MovesAreOwn
  <2> DEFINE c == sweep[r].saw
  <2>4. c # None /\ c.rec \in TestRuns /\ stage[c.rec] = "gone"
    BY <2>2 DEF VerdictsStand, Condemns
  <2>5. c.rec = record[c.by]
    BY <2>4, ScratchAssumption DEF ClaimsTell, Tells
  <2>6. q.holds \in TestRuns => c.by = q.holds
    BY <2>3, <2>4 DEF MakersClaim, Agree
  <2>7. QED
    BY <2>2, <2>3, <2>4, <2>5, <2>6 DEF Alive
<1>2. QED
  BY <1>1, ScratchInductive, PTL DEF ScratchSpec, OnlyTheCondemnedIsRemoved

\* A sweep that nobody disturbed ends with nothing left that it should have taken.
THEOREM SweepCollects == ScratchSpec => UndisturbedSweepCollects
<1> DEFINE Right == \A r \in TestRuns :
              stage[r] = "sweeping" /\ stage'[r] = "ready" /\ r \in alone =>
                  /\ \A n \in Names :
                        Abandoned(r, claim[n]) =>
                            IF folder[n] # None THEN TreeOf(n, folder[n]) \notin sweep[r].old
                            ELSE Quarantined(n) \/ ClaimOf(n, claim[n]) \notin sweep[r].old
                  /\ \A q \in quarantine : Stays(r, q)
<1>1. ScratchIInv /\ [ScratchNext]_scratchVars => Right
  <2> SUFFICES ASSUME ScratchIInv, [ScratchNext]_scratchVars, NEW r \in TestRuns,
                      stage[r] = "sweeping", stage'[r] = "ready", r \in alone
               PROVE  /\ \A n \in Names :
                            Abandoned(r, claim[n]) =>
                                IF folder[n] # None THEN TreeOf(n, folder[n]) \notin sweep[r].old
                                ELSE Quarantined(n) \/ ClaimOf(n, claim[n]) \notin sweep[r].old
                      /\ \A q \in quarantine : Stays(r, q)
    OBVIOUS
  <2> USE DEF ScratchIInv
  <2>1. PICK x \in TestRuns : Acts(x)
    BY StepsAreOfSomebody DEF Age, Squat, scratchVars
  <2>2. x = r
    BY <2>1, OthersStand
  <2>3. SweepStep(r)
    BY <2>1, <2>2, StepsHavePlaces DEF Acts, Ends, Goto, ScratchTypeOK, CreateClaim, WithName
  <2>4. SweepEnds(r)
    <3>1. ~Goto(r, "sweeping") /\ ~Goto(r, "captured") /\ ~Goto(r, "orphan")
      BY DEF Goto, ScratchTypeOK
    <3>2. ~CaptureFolder(r) /\ ~CaptureOrphan(r) /\ ~RestoreQuarantine(r)
      BY <3>1 DEF CaptureFolder, CaptureOrphan, RestoreQuarantine
    <3>3. QED
      BY <2>3, <3>2
         DEF SweepStep, ListRoot, JudgeFolder, RecheckFolder, MoveAside, ConfirmMove, RemoveTree,
             RemoveTreeGivesUp, RemoveItsClaim, JudgeOrphan, RemoveOrphan
  <2>5. sweep[r].quarantines = {} /\ sweep[r].folders = {} /\ sweep[r].claims = {}
    BY <2>4 DEF SweepEnds
  <2>6. SeesAll(r)
    BY AloneIsSeeing DEF Undisturbed
  <2>7. \A q \in quarantine : Stays(r, q)
    BY <2>5, <2>6 DEF SeesAll, MovesAreDue
  <2>8. \A n \in Names : Abandoned(r, claim[n]) => DueName(r, n)
    BY <2>6 DEF SeesAll, NamesAreDue
  <2>9. QED
    BY <2>5, <2>7, <2>8 DEF DueName, InFolders, InOrphans
<1>2. QED
  BY <1>1, ScratchInductive, PTL DEF ScratchSpec, UndisturbedSweepCollects
=============================================================================
