------------------------------ MODULE Calendar ------------------------------
(* The calendar of the log folders (src/src/logging.rs): a civil date from a *)
(* day number and back.  The code works in seconds and formats text; here a  *)
(* day is its number since 1970-01-01 and a folder name is a sequence:       *)
(* <<y, m, d>> for the spelling the product writes, <<y, m, d, odd>> for any *)
(* other ten characters that parse to the same three numbers ("2026-+1-01"), *)
(* anything else for a name without the shape of a date.                     *)
EXTENDS Integers, Sequences

(* Mutant of Civil: the century rule of the era is forgotten. *)
CivilWithoutCenturies(n) ==
    LET z   == n + 719468
        doe == z % 146097
        yoe == (doe - doe \div 1460) \div 365
        doy == doe - (365 * yoe + yoe \div 4)
        mp  == (5 * doy + 2) \div 153
        m   == IF mp < 10 THEN mp + 3 ELSE mp - 9
    IN  << yoe + 400 * (z \div 146097) + (IF m <= 2 THEN 1 ELSE 0), m,
           doy - (153 * mp + 2) \div 5 + 1 >>

(* day_and_clock: the date of day n. *)
Civil(n) ==
    LET z   == n + 719468
        doe == z % 146097
        yoe == (doe - doe \div 1460 + doe \div 36524 - doe \div 146096) \div 365
        doy == doe - (365 * yoe + yoe \div 4 - yoe \div 100)
        mp  == (5 * doy + 2) \div 153
        m   == IF mp < 10 THEN mp + 3 ELSE mp - 9
    IN  << yoe + 400 * (z \div 146097) + (IF m <= 2 THEN 1 ELSE 0), m,
           doy - (153 * mp + 2) \div 5 + 1 >>

(* day_start: the day a year, month and day stand for arithmetically, which  *)
(* for a date that does not exist is some other day.                         *)
DayStart(year, month, day) ==
    LET y   == IF month <= 2 THEN year - 1 ELSE year
        era == y \div 400
        yoe == y - era * 400
        mp  == IF month > 2 THEN month - 3 ELSE month + 9
        doy == (153 * mp + 2) \div 5 + day - 1
    IN  era * 146097 + (yoe * 365 + yoe \div 4 - yoe \div 100 + doy) - 719468

NoDay == -1

(* day_folder_start: the day of a folder name, NoDay unless the name is the  *)
(* very spelling the product would write for that day.                       *)
DayOfFolder(name) ==
    IF Len(name) < 3 THEN NoDay
    ELSE LET start == DayStart(name[1], name[2], name[3])
         IN  IF start >= 0 /\ Civil(start) = name THEN start ELSE NoDay

-----------------------------------------------------------------------------
(* A calendar by its rules, to compare with. *)
Leap(y) == (y % 4 = 0 /\ y % 100 # 0) \/ y % 400 = 0

MonthLength(y, m) == IF m = 2 THEN IF Leap(y) THEN 29 ELSE 28
                     ELSE IF m \in {4, 6, 9, 11} THEN 30 ELSE 31

IsDate(name) == /\ Len(name) = 3 /\ name[2] \in 1 .. 12
                /\ name[3] \in 1 .. MonthLength(name[1], name[2])

Tomorrow(date) ==
    LET y == date[1]
        m == date[2]
        d == date[3]
    IN  IF d < MonthLength(y, m) THEN <<y, m, d + 1>>
        ELSE IF m < 12 THEN <<y, m + 1, 1>> ELSE <<y + 1, 1, 1>>

(* The date arithmetic is the Gregorian calendar on the days of a span: it   *)
(* counts forward day by day from the epoch as the rules of the months say,  *)
(* and every date leads back to its own day (logging.rs, day_and_clock and   *)
(* day_start, whose round trip is what lets retention delete folders).       *)
AgreesOn(span) ==
    \A n \in span : /\ Civil(n + 1) = Tomorrow(Civil(n))
                    /\ DayOfFolder(Civil(n)) = n

EpochIsRight == Civil(0) = <<1970, 1, 1>>
=============================================================================
