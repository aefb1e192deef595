------------------------------ MODULE FatTime -------------------------------
(* Times in directory entries: fat_time_unix2fat and fat_time_fat2unix.  A    *)
(* UNIX time is a day since 1970 and a second of the day (64-bit build).      *)
EXTENDS Integers, Sequences

DAYS_DELTA  == 10 * 365 + 2      \* 1970 to 1980
YEAR_2100   == 120
Days2108    == 50403             \* UNIX_SECS_2108
daysInYear  == <<0, 0, 31, 59, 90, 120, 151, 181, 212, 243, 273, 304, 334, 0, 0, 0>>
BeforeMonth(m) == daysInYear[m + 1]

IsLeapYear(y) == y % 4 = 0 /\ y # YEAR_2100

(* Leap days before the year: 2100 has none.                                   *)
LeapDays(y) == (y + 3) \div 4 - (IF y > YEAR_2100 THEN 1 ELSE 0)

MaxOfTwo(a, b) == IF a > b THEN a ELSE b
TimeOf(day, sec) == [day |-> day + sec \div 86400, sec |-> sec % 86400]

(* A FAT time: the fields of date and time, time in steps of two seconds, and  *)
(* time_cs with the odd second in hundredths.                                  *)
Fat(y, m, d, half, cs) == [year |-> y, month |-> m, day |-> d, half |-> half, cs |-> cs]

-----------------------------------------------------------------------------
(* fat_time_fat2unix, with the minutes west of the time zone.                  *)
FatToUnix(f, west) ==
  LET month == MaxOfTwo(1, f.month)
      day   == MaxOfTwo(1, f.day) - 1
      leap  == LeapDays(f.year) + (IF IsLeapYear(f.year) /\ month > 2 THEN 1 ELSE 0)
  IN  TimeOf(f.year * 365 + leap + BeforeMonth(month) + day + DAYS_DELTA,
             2 * f.half + west * 60 + f.cs \div 100)

(* fat_time_unix2fat.                                                          *)
Month(y, day) ==
  LET dry == IF IsLeapYear(y) /\ day > BeforeMonth(3) THEN day - 1 ELSE day
  IN  IF IsLeapYear(y) /\ day = BeforeMonth(3) THEN [month |-> 2, day |-> day]
      ELSE [month |-> CHOOSE m \in 1..12 :
                        /\ BeforeMonth(m) <= dry
                        /\ m < 12 => BeforeMonth(m + 1) > dry,
            day |-> dry]

UnixToFat(t, west) ==
  LET u    == TimeOf(t.day, t.sec - west * 60)
      n    == u.day - DAYS_DELTA
      past == LET y == n \div 365 IN IF y * 365 + LeapDays(y) > n THEN y - 1 ELSE y
      when == Month(past, n - (past * 365 + LeapDays(past)))
  IN  IF u.day < DAYS_DELTA THEN Fat(0, 1, 1, 0, 0)
      ELSE IF u.day >= Days2108 THEN Fat(127, 12, 31, 43199, 199)
      ELSE Fat(past, when.month, when.day - BeforeMonth(when.month) + 1,
               u.sec \div 2, (t.sec % 2) * 100)

-----------------------------------------------------------------------------
(* The calendar.                                                              *)
Leap(y) == LET c == y + 1980 IN c % 4 = 0 /\ (c % 100 # 0 \/ c % 400 = 0)
MonthLength(y, m) == IF m = 2 THEN IF Leap(y) THEN 29 ELSE 28
                     ELSE IF m \in {4, 6, 9, 11} THEN 30 ELSE 31
Tomorrow(f) ==
  IF f.day < MonthLength(f.year, f.month) THEN [f EXCEPT !.day = @ + 1]
  ELSE IF f.month < 12 THEN [f EXCEPT !.month = @ + 1, !.day = 1]
  ELSE [f EXCEPT !.year = @ + 1, !.month = 1, !.day = 1]

Days    == DAYS_DELTA..(Days2108 - 1)
Seconds == {0, 1, 2, 59, 60, 3599, 3600, 43199, 86398, 86399}
Zones   == {-720, -330, 0, 300, 720}
Edges   == {d \in Days : \E e \in {DAYS_DELTA, Days2108 - 1} \cup
                                  {DAYS_DELTA + y * 365 + LeapDays(y) + 59 : y \in {0, 1, 119, 120, 121}} :
                           d - e \in -2..2}
Date(day) == UnixToFat([day |-> day, sec |-> 0], 0)

(* The fields follow the calendar, day by day from 1980 to 2107; a time comes  *)
(* back as it was, to the second, in every time zone that leaves it in these   *)
(* years, and as the nearest one they hold if it is outside.  A month or a day *)
(* of 0 is read as 1.                                                          *)
Conversions ==
  /\ Date(DAYS_DELTA) = Fat(0, 1, 1, 0, 0)
  /\ \A d \in Days \ {Days2108 - 1} : Date(d + 1) = Tomorrow(Date(d))
  /\ \A d \in Days : FatToUnix(Date(d), 0) = [day |-> d, sec |-> 0]
  /\ \A d \in Edges, s \in Seconds, w \in Zones :
       LET t == [day |-> d, sec |-> s]
           u == TimeOf(d, s - w * 60)
           back == FatToUnix(UnixToFat(t, w), w)
       IN  IF u.day \in Days THEN back = t
           ELSE IF u.day < DAYS_DELTA THEN back = TimeOf(DAYS_DELTA, w * 60)
           ELSE back = TimeOf(Days2108 - 1, 86399 + w * 60)
  /\ FatToUnix(Fat(0, 0, 0, 0, 0), 0) = [day |-> DAYS_DELTA, sec |-> 0]
=============================================================================
