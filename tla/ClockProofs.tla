---------------------------- MODULE ClockProofs ----------------------------
(***************************************************************************)
(* The date arithmetic stays in its ranges on every day, and the real-time *)
(* clock gives back what it was given.                                     *)
(***************************************************************************)
EXTENDS Clock, TLAPS

(* What a quotient by each of the constants means.                         *)
LEMMA Quotients ==
  ASSUME NEW x \in Nat
  PROVE  /\ x \div 1460 \in Nat   /\ 1460 * (x \div 1460) <= x
         /\ x < 1460 * (x \div 1460) + 1460
         /\ x \div 146097 \in Nat /\ 146097 * (x \div 146097) <= x
         /\ x < 146097 * (x \div 146097) + 146097
         /\ x \div 36524 \in Nat  /\ 36524 * (x \div 36524) <= x
         /\ x < 36524 * (x \div 36524) + 36524
         /\ x \div 146096 \in Nat /\ 146096 * (x \div 146096) <= x
         /\ x < 146096 * (x \div 146096) + 146096
         /\ x \div 365 \in Nat    /\ 365 * (x \div 365) <= x
         /\ x < 365 * (x \div 365) + 365
         /\ x \div 100 \in Nat    /\ 100 * (x \div 100) <= x
         /\ x < 100 * (x \div 100) + 100
         /\ x \div 4 \in Nat      /\ 4 * (x \div 4) <= x
         /\ x < 4 * (x \div 4) + 4
BY SMT

(* The day of the year, counted from March, with the quotients as numbers. *)
LEMMA DayOfYear ==
  \A doe, a, b, c, y, q, h \in Int :
    (/\ 0 <= doe /\ doe <= 146096
     /\ 1460 * a <= doe /\ doe < 1460 * a + 1460
     /\ 36524 * b <= doe /\ doe < 36524 * b + 36524
     /\ 146096 * c <= doe /\ doe < 146096 * c + 146096
     /\ 365 * y <= doe - a + b - c /\ doe - a + b - c < 365 * y + 365
     /\ 4 * q <= y /\ y < 4 * q + 4
     /\ 100 * h <= y /\ y < 100 * h + 100)
    => 0 <= doe - (365 * y + q - h) /\ doe - (365 * y + q - h) <= 365
BY SMTT(30)

(* Hour, minute and second of a second of the day.                         *)
LEMMA SecondsOfDay ==
  ASSUME NEW secs \in Nat, secs <= 86399
  PROVE  /\ secs \div 3600 \in 0..23
         /\ secs % 60 \in 0..59
         /\ (secs % 3600) \div 60 \in 0..59
<1>1. secs \div 3600 \in 0..23
  BY SMT
<1>2. secs % 60 \in 0..59
  BY SMT
<1>3. (secs % 3600) \div 60 \in 0..59
  BY SMT
<1> QED BY <1>1, <1>2, <1>3

(* The dates of rtc.rs: a full year and fields in their ranges.            *)
DateTime ==
    [year : Nat, month : 1..12, day : 1..31,
     hour : 0..23, minute : 0..59, second : 0..59]

LEMMA DateInRange ==
  ASSUME NEW days \in Nat, NEW secs \in Nat, secs <= 86399
  PROVE  datetime_from_unix(<<days, secs>>) \in DateTime
<1> DEFINE z   == days + 719468
           era == (IF z >= 0 THEN z ELSE z - 146096) \div 146097
           doe == z - 146097 * era
           n   == doe - doe \div 1460 + doe \div 36524 - doe \div 146096
           yoe == n \div 365
           doy == doe - (365 * yoe + yoe \div 4 - yoe \div 100)
           mp  == (5 * doy + 2) \div 153
           m   == IF mp < 10 THEN mp + 3 ELSE mp - 9
           t   == datetime_from_unix(<<days, secs>>)
<1>1. era \in Nat /\ doe \in Nat /\ doe <= 146096
  <2>1. z \in Nat /\ era = z \div 146097
    OBVIOUS
  <2> HIDE DEF z
  <2>2. doe = z - 146097 * era
    OBVIOUS
  <2> HIDE DEF era, doe
  <2>3. era \in Nat /\ 146097 * era <= z /\ z < 146097 * era + 146097
    BY <2>1, Quotients
  <2>4. doe \in Int /\ 0 <= doe /\ doe <= 146096
    BY <2>1, <2>2, <2>3
  <2> QED BY <2>3, <2>4
<1> HIDE DEF era, doe
<1>2. doy \in 0..365 /\ yoe \in Nat
  <2> DEFINE a == doe \div 1460
             b == doe \div 36524
             c == doe \div 146096
             q == yoe \div 4
             h == yoe \div 100
  <2>0. doe \in Nat
    BY <1>1
  <2>1. /\ a \in Nat /\ b \in Nat /\ c \in Nat
        /\ 1460 * a <= doe /\ doe < 1460 * a + 1460
        /\ 36524 * b <= doe /\ doe < 36524 * b + 36524
        /\ 146096 * c <= doe /\ doe < 146096 * c + 146096
    BY <2>0, Quotients
  <2>2. n = doe - a + b - c
    OBVIOUS
  <2> HIDE DEF n, a, b, c
  <2>3. n \in Nat
    BY <1>1, <2>1, <2>2
  <2>4. yoe \in Nat /\ 365 * yoe <= n /\ n < 365 * yoe + 365
    BY <2>3, Quotients DEF yoe
  <2>5. doy = doe - (365 * yoe + q - h)
    BY DEF doy
  <2> HIDE DEF yoe, doy
  <2>6. /\ q \in Nat /\ h \in Nat
        /\ 4 * q <= yoe /\ yoe < 4 * q + 4
        /\ 100 * h <= yoe /\ yoe < 100 * h + 100
    BY <2>4, Quotients
  <2> HIDE DEF q, h
  <2>7. 0 <= doy /\ doy <= 365
    <3>1. /\ doe \in Int /\ a \in Int /\ b \in Int /\ c \in Int
          /\ yoe \in Int /\ q \in Int /\ h \in Int
          /\ 0 <= doe /\ doe <= 146096
      BY <1>1, <2>1, <2>4, <2>6
    <3>2. 365 * yoe <= doe - a + b - c /\ doe - a + b - c < 365 * yoe + 365
      BY <2>2, <2>4
    <3> QED BY <3>1, <3>2, <2>1, <2>5, <2>6, DayOfYear
  <2> QED BY <1>1, <2>4, <2>5, <2>6, <2>7
<1> HIDE DEF doy, yoe
<1>3. mp \in 0..11 /\ doy - (153 * mp + 2) \div 5 + 1 \in 1..31
  <2>1. \A d \in 0..365 : /\ (5 * d + 2) \div 153 \in 0..11
                          /\ d - (153 * ((5 * d + 2) \div 153) + 2) \div 5 + 1 \in 1..31
    BY SMT
  <2> QED BY <1>2, <2>1
<1> HIDE DEF mp
<1>4. m \in 1..12
  BY <1>3
<1>5. t = [year   |-> (yoe + era * 400 + (IF m <= 2 THEN 1 ELSE 0)) % 65536,
           month  |-> m,
           day    |-> doy - (153 * mp + 2) \div 5 + 1,
           hour   |-> secs \div 3600,
           minute |-> (secs % 3600) \div 60,
           second |-> secs % 60]
  BY DEF datetime_from_unix, mp, doy, yoe, doe, era
<1>6. (yoe + era * 400 + (IF m <= 2 THEN 1 ELSE 0)) % 65536 \in Nat
  <2>1. yoe + era * 400 + (IF m <= 2 THEN 1 ELSE 0) \in Nat
    BY <1>1, <1>2
  <2>2. \A x \in Nat : x % 65536 \in Nat
    BY SMT
  <2> QED BY <2>1, <2>2
<1>7. secs \div 3600 \in 0..23 /\ secs % 60 \in 0..59
  BY SecondsOfDay
<1>8. (secs % 3600) \div 60 \in 0..59
  BY SecondsOfDay
<1> HIDE DEF m
<1> HIDE DEF t
<1> QED
  BY <1>3, <1>4, <1>5, <1>6, <1>7, <1>8 DEF DateTime, t

(***************************************************************************)
(* The calendar: a date as a number of days, which NextDate raises by one  *)
(* and datetime_from_unix turns back into the date.  The years of DayOf    *)
(* begin in March, as those of datetime_from_unix do.                      *)
(***************************************************************************)
MarchYear(y, m) == IF m <= 2 THEN y - 1 ELSE y
MarchMonth(m) == IF m > 2 THEN m - 3 ELSE m + 9
MarchDay(m, d) == (153 * MarchMonth(m) + 2) \div 5 + d - 1

DayOf(y, m, d) ==
    365 * MarchYear(y, m) + LeapDays(MarchYear(y, m)) + MarchDay(m, d) - 693901

(* A year has a leap day if Leap says so.                                  *)
LEMMA LeapDaysOfYear ==
  ASSUME NEW y \in Nat, y >= 1
  PROVE  /\ LeapDays(y - 1) \in Nat /\ LeapDays(y) \in Nat
         /\ LeapDays(y) = LeapDays(y - 1) + (IF Leap(y) THEN 1 ELSE 0)
<1>1. /\ y \div 4 = (y - 1) \div 4 + (IF y % 4 = 0 THEN 1 ELSE 0)
      /\ y \div 4 \in Nat /\ (y - 1) \div 4 \in Nat
  BY SMT
<1>2. /\ y \div 100 = (y - 1) \div 100 + (IF y % 100 = 0 THEN 1 ELSE 0)
      /\ y \div 100 \in Nat /\ (y - 1) \div 100 \in Nat
  BY SMT
<1>3. /\ y \div 400 = (y - 1) \div 400 + (IF y % 400 = 0 THEN 1 ELSE 0)
      /\ y \div 400 \in Nat /\ (y - 1) \div 400 \in Nat
  BY SMT
<1>4. (y % 100 = 0 => y % 4 = 0) /\ (y % 400 = 0 => y % 100 = 0)
  BY SMT
<1>5. y \div 100 <= y \div 4 /\ (y - 1) \div 100 <= (y - 1) \div 4
  BY SMT
<1> QED
  BY <1>1, <1>2, <1>3, <1>4, <1>5 DEF LeapDays, Leap

Dates == {d \in Nat \X (1..12) \X (1..31) : d[1] >= 1900 /\ d[3] <= DaysIn(d[1], d[2])}

(* The day after a date.                                                   *)
FollowedByNextDay(y, m, d) ==
    LET n == NextDate(<<y, m, d>>)
    IN  n \in Dates /\ DayOf(n[1], n[2], n[3]) = DayOf(y, m, d) + 1

LEMMA NextDateIsNextDay ==
  ASSUME NEW y \in Nat, NEW m \in 1..12, NEW d \in 1..31,
         y >= 1900, d <= DaysIn(y, m)
  PROVE  FollowedByNextDay(y, m, d)
<1> DEFINE n == NextDate(<<y, m, d>>)
<1> SUFFICES n \in Dates /\ DayOf(n[1], n[2], n[3]) = DayOf(y, m, d) + 1
  BY DEF FollowedByNextDay
<1>0. LeapDays(y - 1) \in Nat /\ LeapDays(y) \in Nat
  BY LeapDaysOfYear
<1>1. CASE d < DaysIn(y, m)
  <2>1. n = <<y, m, d + 1>>
    BY <1>1 DEF NextDate
  <2>2. d + 1 \in 1..31 /\ d + 1 <= DaysIn(y, m)
    BY <1>1 DEF DaysIn
  <2>3. MarchDay(m, d + 1) = MarchDay(m, d) + 1 /\ MarchDay(m, d) \in Int
    BY SMT DEF MarchDay, MarchMonth
  <2>4. DayOf(y, m, d + 1) = DayOf(y, m, d) + 1
    BY <2>3, <1>0 DEF DayOf, MarchYear
  <2> QED BY <2>1, <2>2, <2>4 DEF Dates
<1>2. CASE ~(d < DaysIn(y, m)) /\ m < 12
  <2>1. n = <<y, m + 1, 1>> /\ d = DaysIn(y, m)
    BY <1>2 DEF NextDate, DaysIn
  <2>2. m + 1 \in 1..12 /\ 1 <= DaysIn(y, m + 1)
    BY <1>2 DEF DaysIn
  <2>3. CASE m = 2
    <3>1. /\ MarchDay(3, 1) = 0 /\ MarchDay(2, d) = 336 + d
          /\ MarchYear(y, 3) = y /\ MarchYear(y, 2) = y - 1
      BY SMT DEF MarchDay, MarchMonth, MarchYear
    <3>2. d = 28 + (IF Leap(y) THEN 1 ELSE 0)
      BY <2>1, <2>3 DEF DaysIn
    <3>3. LeapDays(y) = LeapDays(y - 1) + (IF Leap(y) THEN 1 ELSE 0)
      BY LeapDaysOfYear
    <3>4. DayOf(y, 3, 1) = DayOf(y, 2, d) + 1
      BY <3>1, <3>2, <3>3, <1>0 DEF DayOf
    <3> QED BY <2>1, <2>2, <2>3, <3>4 DEF Dates
  <2>4. CASE m # 2
    <3>1. d = (IF m \in {4, 6, 9, 11} THEN 30 ELSE 31)
      BY <2>1, <2>4 DEF DaysIn
    <3>2. MarchDay(m + 1, 1) = MarchDay(m, d) + 1 /\ MarchDay(m, d) \in Int
      <4>1. m \in {1, 3, 4, 5, 6, 7, 8, 9, 10, 11}
        BY <1>2, <2>4
      <4> QED BY <3>1, <4>1, SMT DEF MarchDay, MarchMonth
    <3>3. MarchYear(y, m + 1) = MarchYear(y, m) /\ MarchYear(y, m) \in {y, y - 1}
      BY <1>2, <2>4 DEF MarchYear
    <3>4. DayOf(y, m + 1, 1) = DayOf(y, m, d) + 1
      BY <3>2, <3>3, <1>0 DEF DayOf
    <3> QED BY <2>1, <2>2, <3>4 DEF Dates
  <2> QED BY <2>3, <2>4
<1>3. CASE ~(d < DaysIn(y, m)) /\ ~(m < 12)
  <2>1. n = <<y + 1, 1, 1>> /\ m = 12 /\ d = 31
    BY <1>3 DEF NextDate, DaysIn
  <2>2. /\ MarchDay(1, 1) = 306 /\ MarchDay(12, 31) = 305
        /\ MarchYear(y + 1, 1) = y /\ MarchYear(y, 12) = y
    BY SMT DEF MarchDay, MarchMonth, MarchYear
  <2>3. DayOf(y + 1, 1, 1) = DayOf(y, 12, 31) + 1
    BY <2>2, <1>0 DEF DayOf
  <2> QED BY <2>1, <2>3 DEF Dates, DaysIn
<1> QED
  BY <1>1, <1>2, <1>3

(* The year of an era, when the day of the year is given: h centuries, q   *)
(* times four years and t years into the era, a is the quotient by 1460.   *)
LEMMA YearOfEra ==
  \A h, q, t, doy, doe, a, b, c \in Int :
    (/\ 0 <= h /\ h <= 3 /\ 0 <= q /\ q <= 24 /\ 0 <= t /\ t <= 3
     /\ 0 <= doy /\ doy <= 365 /\ (doy = 365 => t = 3 /\ (q < 24 \/ h = 3))
     /\ doe = 36524 * h + 1461 * q + 365 * t + doy
     /\ 1460 * a <= doe /\ doe < 1460 * a + 1460
     /\ 36524 * b <= doe /\ doe < 36524 * b + 36524
     /\ 146096 * c <= doe /\ doe < 146096 * c + 146096)
    => LET y == 100 * h + 4 * q + t
       IN  365 * y <= doe - a + b - c /\ doe - a + b - c < 365 * y + 365
<1> SUFFICES ASSUME NEW h \in Int, NEW q \in Int, NEW t \in Int, NEW doy \in Int,
                    NEW doe \in Int, NEW a \in Int, NEW b \in Int, NEW c \in Int,
                    0 <= h /\ h <= 3 /\ 0 <= q /\ q <= 24 /\ 0 <= t /\ t <= 3,
                    0 <= doy /\ doy <= 365 /\ (doy = 365 => t = 3 /\ (q < 24 \/ h = 3)),
                    doe = 36524 * h + 1461 * q + 365 * t + doy,
                    1460 * a <= doe /\ doe < 1460 * a + 1460,
                    36524 * b <= doe /\ doe < 36524 * b + 36524,
                    146096 * c <= doe /\ doe < 146096 * c + 146096
             PROVE  /\ 365 * (100 * h + 4 * q + t) <= doe - a + b - c
                    /\ doe - a + b - c < 365 * (100 * h + 4 * q + t) + 365
  OBVIOUS
<1>1. b - c = h
  <2>1. 1461 * q + 365 * t + doy <= 36524
    OBVIOUS
  <2>2. 1461 * q + 365 * t + doy = 36524 => h = 3
    OBVIOUS
  <2>3. CASE 1461 * q + 365 * t + doy = 36524
    BY <2>2, <2>3
  <2>4. CASE 1461 * q + 365 * t + doy < 36524
    <3>1. 0 <= 1461 * q + 365 * t + doy
      OBVIOUS
    <3>2. b = h
      BY <2>4, <3>1
    <3>3. c = 0
      BY <2>4, <3>1
    <3> QED BY <3>2, <3>3
  <2> QED BY <2>1, <2>3, <2>4
<1>2. \/ a = 25 * h + q /\ 24 * h + q + 365 * t + doy < 1460
      \/ a = 25 * h + q + 1 /\ 24 * h + q + 365 * t + doy >= 1460
  OBVIOUS
<1>3. doe - a + b - c = doe - a + h
  BY <1>1
<1> QED
  BY <1>2, <1>3

At(dt, secs) ==
    [year |-> dt[1], month |-> dt[2], day |-> dt[3], hour |-> secs \div 3600,
     minute |-> (secs % 3600) \div 60, second |-> secs % 60]

(* What datetime_from_unix returns for a date since 1900.                  *)
LEMMA DateFromUnix ==
  ASSUME NEW dt \in Dates, NEW secs \in Nat, NEW days \in Int,
         days = DayOf(dt[1], dt[2], dt[3]) - NTP_UNIX_DELTA,
         days < EraDay
  PROVE  datetime_from_unix(<<days, secs>>) = At(dt, secs)
<1> DEFINE y   == dt[1]
           m   == dt[2]
           d   == dt[3]
           Y   == MarchYear(y, m)
           r   == Y % 400
           e   == Y \div 400
           D   == MarchDay(m, d)
           z   == days + 719468
           era == (IF z >= 0 THEN z ELSE z - 146096) \div 146097
           doe == z - 146097 * era
           n   == doe - doe \div 1460 + doe \div 36524 - doe \div 146096
           yoe == n \div 365
           doy == doe - (365 * yoe + yoe \div 4 - yoe \div 100)
           mp  == (5 * doy + 2) \div 153
           mo  == IF mp < 10 THEN mp + 3 ELSE mp - 9
<1>0. /\ y \in Nat /\ m \in 1..12 /\ d \in 1..31 /\ y >= 1900 /\ d <= DaysIn(y, m)
      /\ days = DayOf(y, m, d) - NTP_UNIX_DELTA /\ At(dt, secs) =
           [year |-> y, month |-> m, day |-> d, hour |-> secs \div 3600,
            minute |-> (secs % 3600) \div 60, second |-> secs % 60]
  BY DEF Dates, At
<1> USE <1>0
<1> HIDE DEF y, m, d
<1> HIDE DEF Y, r, e, D, z, era, doe, n, yoe, doy, mp, mo
<1>1. Y \in Nat /\ Y = (IF m <= 2 THEN y - 1 ELSE y) /\ r \in 0..399 /\ e \in Nat /\ Y = 400 * e + r
  <2>1. Y \in Nat /\ Y = (IF m <= 2 THEN y - 1 ELSE y)
    BY DEF MarchYear, Y
  <2> QED BY <2>1, SMT DEF r, e
<1>2. D \in 0..365 /\ (D = 365 => m = 2 /\ Leap(y))
  <2>1. d <= (CASE m = 2 -> 29 [] m \in {4, 6, 9, 11} -> 30 [] OTHER -> 31)
    BY DEF DaysIn
  <2>2. D \in 0..365 /\ (D = 365 => m = 2 /\ d = 29)
    BY <2>1, SMT DEF MarchDay, MarchMonth, D
  <2> QED BY <2>2 DEF DaysIn
<1>3. MarchMonth(m) = (5 * D + 2) \div 153 /\ d = D - (153 * MarchMonth(m) + 2) \div 5 + 1
  <2>1. d <= (CASE m = 2 -> 29 [] m \in {4, 6, 9, 11} -> 30 [] OTHER -> 31)
    BY DEF DaysIn
  <2> QED BY <2>1, SMT DEF MarchDay, MarchMonth, D
<1>4. PICK h \in 0..3, q \in 0..24, t \in 0..3 : r = 100 * h + 4 * q + t
  <2> DEFINE h == r \div 100
             q == (r % 100) \div 4
             t == r % 4
  <2>1. h \in 0..3 /\ q \in 0..24 /\ t \in 0..3 /\ r = 100 * h + 4 * q + t
    BY <1>1, SMT
  <2> HIDE DEF h, q, t
  <2> QED BY <2>1
<1>5. r \div 4 = 25 * h + q /\ r \div 100 = h
  BY <1>4, SMT
<1>6. LeapDays(Y) = 97 * e + r \div 4 - r \div 100
  <2>1. Y \div 4 = 100 * e + r \div 4 /\ Y \div 100 = 4 * e + r \div 100 /\ Y \div 400 = e
    BY <1>1, SMT
  <2> QED BY <2>1, <1>1, <1>5 DEF LeapDays
<1>7. D = 365 => t = 3 /\ (q < 24 \/ h = 3)
  <2> SUFFICES ASSUME D = 365
               PROVE  t = 3 /\ (q < 24 \/ h = 3)
    OBVIOUS
  <2>1. Leap(y) /\ y = 400 * e + 100 * h + 4 * q + t + 1
    BY <1>1, <1>2, <1>4
  <2>2. (400 * e + 100 * h + 4 * q + t + 1) % 4 = 0 => t = 3
    BY <1>1, SMT
  <2>3. ASSUME t = 3, q = 24, h < 3
        PROVE  y % 100 = 0 /\ y % 400 # 0
    BY <2>1, <2>3, <1>1, SMT
  <2> QED BY <2>1, <2>2, <2>3 DEF Leap
<1>8. /\ z = 146097 * e + (36524 * h + 1461 * q + 365 * t + D)
      /\ z < EraDay + 719468
  <2>1. DayOf(y, m, d) = 365 * Y + LeapDays(Y) + D - 693901
    BY DEF DayOf, Y, D
  <2>2. z = DayOf(y, m, d) + 693901 /\ DayOf(y, m, d) \in Int
    BY <1>1, <1>2, <1>4, <1>5, <1>6, <2>1 DEF NTP_UNIX_DELTA, z
  <2> QED BY <1>1, <1>2, <1>4, <1>5, <1>6, <2>1, <2>2 DEF EraDay, NTP_UNIX_DELTA
<1>9. era = e /\ doe = 36524 * h + 1461 * q + 365 * t + D
  <2> DEFINE x == 36524 * h + 1461 * q + 365 * t + D
  <2>1. x \in Int /\ 0 <= x /\ x <= 146096 /\ z = 146097 * e + x
    BY <1>2, <1>7, <1>8
  <2> HIDE DEF x
  <2>2. z \in Nat /\ era = z \div 146097
    BY <2>1, <1>1 DEF era
  <2>3. 146097 * era <= z /\ z < 146097 * era + 146097 /\ era \in Nat
    BY <2>2, Quotients
  <2>4. era = e
    BY <2>1, <2>3, <1>1
  <2> QED BY <2>1, <2>4, <1>1 DEF x, doe
<1>10. yoe = r
  <2>1. doe \in Nat /\ doe <= 146096
    BY <1>2, <1>7, <1>9
  <2> DEFINE a == doe \div 1460
             b == doe \div 36524
             c == doe \div 146096
  <2>2. /\ a \in Nat /\ b \in Nat /\ c \in Nat
        /\ 1460 * a <= doe /\ doe < 1460 * a + 1460
        /\ 36524 * b <= doe /\ doe < 36524 * b + 36524
        /\ 146096 * c <= doe /\ doe < 146096 * c + 146096
    BY <2>1, Quotients
  <2>3. n = doe - a + b - c
    BY DEF n
  <2> HIDE DEF a, b, c
  <2>4. 365 * r <= n /\ n < 365 * r + 365
    <3>1. /\ h \in Int /\ q \in Int /\ t \in Int /\ D \in Int /\ doe \in Int
          /\ a \in Int /\ b \in Int /\ c \in Int
      BY <1>2, <2>1, <2>2
    <3>2. /\ 0 <= h /\ h <= 3 /\ 0 <= q /\ q <= 24 /\ 0 <= t /\ t <= 3
          /\ 0 <= D /\ D <= 365
      BY <1>2
    <3>3. /\ 365 * (100 * h + 4 * q + t) <= doe - a + b - c
          /\ doe - a + b - c < 365 * (100 * h + 4 * q + t) + 365
      BY <3>1, <3>2, <1>7, <1>9, <2>2, YearOfEra
    <3> QED BY <3>3, <2>3, <1>4
  <2>5. n \in Nat
    BY <2>2, <2>3, <2>4, <1>1
  <2>6. yoe \in Nat /\ 365 * yoe <= n /\ n < 365 * yoe + 365
    BY <2>5, Quotients DEF yoe
  <2> QED BY <2>4, <2>5, <2>6, <1>1
<1>11. doy = D
  BY <1>2, <1>4, <1>5, <1>9, <1>10 DEF doy
<1>12. mp = MarchMonth(m) /\ mo = m
  <2>1. mp = MarchMonth(m)
    BY <1>3, <1>11 DEF mp
  <2> QED BY <2>1 DEF MarchMonth, mo
<1>13. (yoe + era * 400 + (IF m <= 2 THEN 1 ELSE 0)) % 65536 = y
  <2>1. yoe + era * 400 + (IF m <= 2 THEN 1 ELSE 0) = y
    BY <1>1, <1>9, <1>10
  <2>2. y < 65536
    <3>1. e <= 10
      BY <1>1, <1>2, <1>4, <1>8 DEF EraDay
    <3> QED BY <3>1, <1>1
  <2> QED BY <2>1, <2>2, SMT
<1>14. doy - (153 * mp + 2) \div 5 + 1 = d
  BY <1>3, <1>11, <1>12
<1>15. datetime_from_unix(<<days, secs>>) =
           [year   |-> (yoe + era * 400 + (IF mo <= 2 THEN 1 ELSE 0)) % 65536,
            month  |-> mo,
            day    |-> doy - (153 * mp + 2) \div 5 + 1,
            hour   |-> secs \div 3600,
            minute |-> (secs % 3600) \div 60,
            second |-> secs % 60]
  BY DEF datetime_from_unix, mo, mp, doy, yoe, n, doe, era, z
<1> QED
  BY <1>12, <1>13, <1>14, <1>15

(***************************************************************************)
(* The registers.                                                          *)
(***************************************************************************)
LEMMA BcdReadsBack ==
    \A v \in 0..99 : bin2bcd(v) \in 0..153 /\ bcd2bin(bin2bcd(v)) = v
BY SMT DEF bin2bcd, bcd2bin

(* The masks cut nothing off.                                              *)
LEMMA MasksKeep ==
    /\ \A v \in 0..59 : (bin2bcd(v) % 128) % 128 = bin2bcd(v)
    /\ \A v \in 0..31 : (bin2bcd(v) % 64) % 64 = bin2bcd(v)
    /\ \A v \in 0..12 : (bin2bcd(v) % 32) % 32 = bin2bcd(v)
BY SMT DEF bin2bcd

(* get, of registers that were written.                                    *)
LEMMA RegistersReadBack ==
  ASSUME NEW t \in [year : 2000..2099, month : 1..12, day : 1..31,
                    hour : 0..23, minute : 0..59, second : 0..59],
         rtc' = Payload(t)
  PROVE  get' = t
<1>1. /\ rtc'[1] % 128 = bin2bcd(t.second)
      /\ rtc'[2] % 128 = bin2bcd(t.minute)
      /\ rtc'[3] % 64 = bin2bcd(t.hour)
      /\ rtc'[4] % 64 = bin2bcd(t.day)
      /\ rtc'[6] % 32 = bin2bcd(t.month)
      /\ rtc'[7] = bin2bcd(t.year % 100)
  <2>1. /\ t.second \in 0..59 /\ t.minute \in 0..59 /\ t.hour \in 0..31
        /\ t.day \in 0..31 /\ t.month \in 0..12
    OBVIOUS
  <2>2. /\ rtc'[1] = bin2bcd(t.second) % 128 /\ rtc'[2] = bin2bcd(t.minute) % 128
        /\ rtc'[3] = bin2bcd(t.hour) % 64 /\ rtc'[4] = bin2bcd(t.day) % 64
        /\ rtc'[6] = bin2bcd(t.month) % 32 /\ rtc'[7] = bin2bcd(t.year % 100)
    BY DEF Payload
  <2> QED BY <2>1, <2>2, MasksKeep
<1>2. t.year % 100 \in 0..99 /\ 2000 + (t.year % 100) = t.year
  <2>1. \A y \in 2000..2099 : y % 100 \in 0..99 /\ 2000 + (y % 100) = y
    BY SMT
  <2> QED BY <2>1
<1>3. /\ bcd2bin(rtc'[1] % 128) = t.second /\ bcd2bin(rtc'[2] % 128) = t.minute
      /\ bcd2bin(rtc'[3] % 64) = t.hour /\ bcd2bin(rtc'[4] % 64) = t.day
      /\ bcd2bin(rtc'[6] % 32) = t.month /\ 2000 + bcd2bin(rtc'[7]) = t.year
  <2>1. /\ t.second \in 0..99 /\ t.minute \in 0..99 /\ t.hour \in 0..99
        /\ t.day \in 0..99 /\ t.month \in 0..99
    OBVIOUS
  <2> QED BY <1>1, <1>2, <2>1, BcdReadsBack
<1> QED
  BY <1>3 DEF get

(***************************************************************************)
(* The inductive invariant: the calendar is at the day's date, which ties  *)
(* the date kept by NextDate to the number the server sends.               *)
(***************************************************************************)
ClockInv ==
    /\ day \in Nat
    /\ second \in Seconds
    /\ date \in Dates
    /\ day = DayOf(date[1], date[2], date[3])
    /\ ReadsBack
    /\ GivenIsTrue

LEMMA AnswerInRange ==
  ASSUME day \in Nat, second \in Nat, second <= 86399, sntp_unix # NoTime
  PROVE  \E d \in Nat, s \in Nat : s <= 86399 /\ sntp_unix = <<d, s>>
<1>1. \E d \in Int, s \in Nat : s <= 86399 /\ SecsSince1900 = <<d, s>>
  <2>1. CASE ~Wrapped
    <3>1. SecsSince1900 = <<day, second>>
      BY <2>1 DEF SecsSince1900
    <3> QED BY <3>1
  <2>2. CASE Wrapped /\ second >= EraSecond
    <3> DEFINE d == day - EraDay
               s == second - EraSecond
    <3>1. d \in Int /\ s \in Nat /\ s <= 86399
      BY <2>2 DEF EraDay, EraSecond
    <3>2. SecsSince1900 = <<d, s>>
      BY <2>2 DEF SecsSince1900
    <3> HIDE DEF d, s
    <3> QED BY <3>1, <3>2
  <2>3. CASE Wrapped /\ ~(second >= EraSecond)
    <3> DEFINE d == day - EraDay - 1
               s == second - EraSecond + 86400
    <3>1. d \in Int /\ s \in Nat /\ s <= 86399
      BY <2>3 DEF EraDay, EraSecond
    <3>2. SecsSince1900 = <<d, s>>
      BY <2>3 DEF SecsSince1900
    <3> HIDE DEF d, s
    <3> QED BY <3>1, <3>2
  <2> QED BY <2>1, <2>2, <2>3
<1>2. PICK d \in Int, s \in Nat : s <= 86399 /\ SecsSince1900 = <<d, s>>
  BY <1>1
<1> DEFINE e == d - NTP_UNIX_DELTA
<1>3. d >= NTP_UNIX_DELTA /\ sntp_unix = <<e, s>>
  BY <1>2 DEF sntp_unix
<1>4. e \in Nat
  BY <1>2, <1>3 DEF NTP_UNIX_DELTA
<1> HIDE DEF e
<1> QED
  BY <1>2, <1>3, <1>4

(* Before 7 February 2106 an answer that is not refused is the true time.  *)
LEMMA AnswerIsTrue ==
  ASSUME day \in Nat, second \in Nat, second <= 86399, sntp_unix # NoTime,
         day < EraDay + NTP_UNIX_DELTA
  PROVE  sntp_unix = <<day - NTP_UNIX_DELTA, second>>
<1>1. SecsSince1900[1] >= NTP_UNIX_DELTA
  BY DEF sntp_unix
<1>2. CASE ~Wrapped
  BY <1>1, <1>2 DEF sntp_unix, SecsSince1900
<1>3. CASE Wrapped
  <2>1. SecsSince1900[1] = day - EraDay \/ SecsSince1900[1] = day - EraDay - 1
    BY <1>3 DEF SecsSince1900
  <2>2. SecsSince1900[1] < NTP_UNIX_DELTA
    BY <2>1 DEF EraDay, NTP_UNIX_DELTA
  <2>3. SecsSince1900[1] \in Int
    BY <2>1 DEF EraDay
  <2> QED BY <1>1, <2>2, <2>3 DEF NTP_UNIX_DELTA
<1> QED
  BY <1>2, <1>3

(* What a sync writes in full before that day is the true time.            *)
LEMMA SyncGivesNow ==
  ASSUME ClockInv, Synced
  PROVE  GivenIsTrue'
<1>1. /\ day \in Nat /\ second \in Nat /\ second <= 86399
      /\ day' = day /\ second' = second /\ date' = date /\ sntp_unix # NoTime
  <2>1. second \in Nat /\ second < 86400
    BY ClockAssumption DEF ClockInv
  <2> QED BY <2>1 DEF ClockInv, Synced
<1>2. SUFFICES ASSUME given' # NoDate, day < EraDay + NTP_UNIX_DELTA
               PROVE  given' = Now
  <2>1. Now' = Now
    BY <1>1 DEF Now
  <2> QED BY <1>1, <2>1 DEF GivenIsTrue
<1>3. given' = datetime_from_unix(sntp_unix)
  BY <1>2 DEF Synced, set
<1>4. sntp_unix = <<day - NTP_UNIX_DELTA, second>>
  BY <1>1, <1>2, AnswerIsTrue
<1>5. datetime_from_unix(sntp_unix) = At(date, second)
  <2> DEFINE days == day - NTP_UNIX_DELTA
  <2>1. /\ sntp_unix = <<days, second>> /\ days < EraDay /\ days \in Int
        /\ days = DayOf(date[1], date[2], date[3]) - NTP_UNIX_DELTA
    BY <1>1, <1>2, <1>4 DEF ClockInv, EraDay, NTP_UNIX_DELTA
  <2>2. date \in Dates
    BY DEF ClockInv
  <2> HIDE DEF days
  <2>3. datetime_from_unix(<<days, second>>) = At(date, second)
    BY <1>1, <2>1, <2>2, DateFromUnix
  <2> QED BY <2>1, <2>3
<1>6. Now = At(date, second)
  <2>1. (second % 3600) \div 60 = (second \div 60) % 60
    BY <1>1, SMT
  <2> QED BY <2>1 DEF Now, At
<1> QED
  BY <1>3, <1>5, <1>6

LEMMA SyncReadsBack ==
  ASSUME ClockInv, Synced
  PROVE  ClockInv'
<1>1. day \in Nat /\ second \in Nat /\ second <= 86399
  <2>1. second \in Nat /\ second < 86400
    BY ClockAssumption DEF ClockInv
  <2> QED BY <2>1 DEF ClockInv
<1>2. PICK d \in Nat, s \in Nat : s <= 86399 /\ sntp_unix = <<d, s>>
  <2>1. sntp_unix # NoTime
    BY DEF Synced
  <2> QED BY <1>1, <2>1, AnswerInRange
<1>3. PICK t \in DateTime : set(t)
  <2>1. datetime_from_unix(<<d, s>>) \in DateTime
    BY <1>2, DateInRange
  <2>2. set(datetime_from_unix(<<d, s>>))
    <3>1. set(datetime_from_unix(sntp_unix))
      BY DEF Synced
    <3> QED BY <1>2, <3>1
  <2> DEFINE u == datetime_from_unix(<<d, s>>)
  <2> HIDE DEF u
  <2> QED BY <2>1, <2>2 DEF u
<1>4. ReadsBack'
  <2>1. CASE rtc' = Payload(t) /\ given' = t
    <3>1. ASSUME t.year \in 2000..2099
          PROVE  get' = t
      <4>1. t \in [year : 2000..2099, month : 1..12, day : 1..31,
                   hour : 0..23, minute : 0..59, second : 0..59]
        BY <3>1 DEF DateTime
      <4> QED BY <2>1, <4>1, RegistersReadBack
    <3> QED BY <2>1, <3>1 DEF ReadsBack
  <2>2. CASE given' = NoDate
    BY <2>2 DEF ReadsBack
  <2>3. \/ rtc' = Payload(t) /\ given' = t
        \/ given' = NoDate
    BY <1>3 DEF set
  <2> QED BY <2>1, <2>2, <2>3
<1> QED
  BY <1>4, SyncGivesNow DEF Synced, ClockInv

(* The first day is in the calendar, and the next day is the next date.    *)
LEMMA FirstDate ==
    ClockInit => day \in Nat /\ date \in Dates /\ day = DayOf(date[1], date[2], date[3])
<1> SUFFICES ASSUME ClockInit
             PROVE  day \in Nat /\ date \in Dates /\ day = DayOf(date[1], date[2], date[3])
  OBVIOUS
<1>1. date = <<FirstYear, 1, 1>> /\ FirstYear \in Nat /\ FirstYear >= 1900
  BY ClockAssumption DEF ClockInit
<1>2. date \in Dates
  BY <1>1 DEF Dates, DaysIn
<1>3. LeapDays(1899) = 460
  BY SMT DEF LeapDays
<1>4. day = 365 * (FirstYear - 1900) + LeapDays(FirstYear - 1) - 460
  BY <1>3, ClockAssumption DEF ClockInit
<1>5. MarchDay(1, 1) = 306 /\ MarchYear(FirstYear, 1) = FirstYear - 1
  BY SMT DEF MarchDay, MarchMonth, MarchYear
<1>6. LeapDays(FirstYear - 1) \in Nat /\ LeapDays(FirstYear - 1) >= 460
  <2> DEFINE x == FirstYear - 1
  <2>1. x \in Nat /\ x >= 1899
    BY <1>1
  <2> HIDE DEF x
  <2>2. x \div 4 = 25 * (x \div 100) + (x % 100) \div 4 /\ x \div 400 >= 4
    BY <2>1, SMT
  <2>3. \/ x \div 100 >= 19 /\ (x % 100) \div 4 >= 0
        \/ x \div 100 = 18 /\ (x % 100) \div 4 = 24
    BY <2>1, SMT
  <2>4. x \div 100 \in Int /\ (x % 100) \div 4 \in Int /\ x \div 400 \in Int
    BY <2>1, SMT
  <2> QED BY <2>2, <2>3, <2>4 DEF LeapDays, x
<1>7. day = DayOf(FirstYear, 1, 1)
  BY <1>1, <1>4, <1>5, <1>6 DEF DayOf
<1>8. date[1] = FirstYear /\ date[2] = 1 /\ date[3] = 1
  BY <1>1
<1>9. day \in Nat
  BY <1>1, <1>4, <1>6
<1> QED
  BY <1>2, <1>7, <1>8, <1>9

LEMMA TomorrowsDate ==
  ASSUME date \in Dates
  PROVE  /\ NextDate(date) \in Dates
         /\ DayOf(NextDate(date)[1], NextDate(date)[2], NextDate(date)[3]) =
              DayOf(date[1], date[2], date[3]) + 1
<1>1. PICK y \in Nat, m \in 1..12, d \in 1..31 : date = <<y, m, d>>
  BY DEF Dates
<1>2. date[1] = y /\ date[2] = m /\ date[3] = d
  BY <1>1
<1>3. y >= 1900 /\ d <= DaysIn(y, m)
  BY <1>2 DEF Dates
<1>4. FollowedByNextDay(y, m, d)
  BY <1>3, NextDateIsNextDay
<1> QED
  BY <1>1, <1>2, <1>4 DEF FollowedByNextDay

LEMMA AlwaysClock == ClockSpec => []ClockInv
<1>1. ClockInit => ClockInv
  BY FirstDate DEF ClockInit, ClockInv, ReadsBack, GivenIsTrue
<1>2. ClockInv /\ [ClockNext]_clockVars => ClockInv'
  <2> SUFFICES ASSUME ClockInv, [ClockNext]_clockVars
               PROVE  ClockInv'
    OBVIOUS
  <2>1. CASE Synced
    BY <2>1, SyncReadsBack
  <2>2. CASE SyncFails
    BY <2>2 DEF SyncFails, ClockInv, ReadsBack, get, GivenIsTrue, Now
  <2>3. CASE WaitOver
    <3>1. date' \in Dates /\ day' = DayOf(date'[1], date'[2], date'[3]) /\ day' \in Nat
      <4>1. CASE day' = day + 1 /\ date' = NextDate(date)
        BY <4>1, TomorrowsDate DEF ClockInv
      <4> QED BY <2>3, <4>1 DEF WaitOver, ClockInv
    <3> QED BY <2>3, <3>1 DEF WaitOver, ClockInv, ReadsBack, GivenIsTrue
  <2>4. CASE UNCHANGED clockVars
    BY <2>4 DEF clockVars, ClockInv, ReadsBack, get, GivenIsTrue, Now
  <2> QED BY <2>1, <2>2, <2>3, <2>4 DEF ClockNext
<1> QED
  BY <1>1, <1>2, PTL DEF ClockSpec

(* Whatever the day, a date that was written in full is read back.         *)
THEOREM ClockReadsBack == ClockSpec => []ReadsBack
<1>1. ClockInv => ReadsBack
  BY DEF ClockInv
<1> QED
  BY AlwaysClock, <1>1, PTL

(* Whatever the first year, the bound on the days and the seconds looked   *)
(* at: what a sync gives the clock before 7 February 2106 is the true date *)
(* and time.                                                               *)
THEOREM ClockIsGivenTheTime == ClockSpec => []GivenIsTrue
<1>1. ClockInv => GivenIsTrue
  BY DEF ClockInv
<1> QED
  BY AlwaysClock, <1>1, PTL

(* In this century the clock then shows it: what get reads is the time of  *)
(* the sync, through the server's seconds, the calendar and the registers. *)
THEOREM ClockShowsTheTime ==
    ClockSpec => [](given # NoDate /\ given.year \in 2000..2099 /\ day < EraDay => get = Now)
<1>1. ClockInv => (given # NoDate /\ given.year \in 2000..2099 /\ day < EraDay => get = Now)
  BY DEF ClockInv, ReadsBack, GivenIsTrue, EraDay, NTP_UNIX_DELTA
<1> QED
  BY AlwaysClock, <1>1, PTL
=============================================================================
