------------------------------- MODULE Clock -------------------------------
(***************************************************************************)
(* The time task: every hour it asks an SNTP server for the time, turns it *)
(* into a date and writes that into the real-time clock.                   *)
(*                                                                         *)
(* A time is a day, counted from 1900, and a second of the day.  The true  *)
(* date is kept beside it by a calendar that goes from day to day.         *)
(***************************************************************************)
EXTENDS Integers

CONSTANTS
    FirstDay,       \* the first day, 1 January of FirstYear
    FirstYear,
    LastDay,        \* bound: the last day looked at
    Seconds         \* the seconds of a day looked at

(* The server sends seconds since 1900 in 32 bits: they start again on day *)
(* 49710, 7 February 2036, and a second time after twice as long.          *)
EraDay == 49710
EraSecond == 23296

(* The leap days from year 1 to year y.                                    *)
LeapDays(y) == y \div 4 - y \div 100 + y \div 400

ASSUME ClockAssumption ==
    /\ FirstYear \in Nat /\ FirstYear >= 1900
    /\ FirstDay = 365 * (FirstYear - 1900) + LeapDays(FirstYear - 1) - LeapDays(1899)
    /\ LastDay \in Nat /\ LastDay < 2 * EraDay
    /\ \A s \in Seconds : s \in Nat /\ s < 86400

VARIABLES
    day, second,    \* the true time
    date,           \* the true date, <<year, month, day>>
    zpc,            \* time_task: "sync" or "wait"
    rtc,            \* the clock's registers, as last written
    given           \* history: the date and time written in full

clockVars == <<day, second, date, zpc, rtc, given>>

NoTime == <<>>
NoDate == [year |-> 0, month |-> 0, day |-> 0, hour |-> 0, minute |-> 0, second |-> 0]
Blank == [r \in 1..7 |-> 0]

ClockInit ==
    /\ day = FirstDay
    /\ second \in Seconds
    /\ date = <<FirstYear, 1, 1>>
    /\ zpc = "sync"
    /\ rtc = Blank
    /\ given = NoDate

-----------------------------------------------------------------------------
(* The calendar.                                                           *)
Leap(y) == y % 4 = 0 /\ (y % 100 # 0 \/ y % 400 = 0)

DaysIn(y, m) ==
    CASE m = 2 -> IF Leap(y) THEN 29 ELSE 28
      [] m \in {4, 6, 9, 11} -> 30
      [] OTHER -> 31

NextDate(d) ==
    IF d[3] < DaysIn(d[1], d[2]) THEN <<d[1], d[2], d[3] + 1>>
    ELSE IF d[2] < 12 THEN <<d[1], d[2] + 1, 1>>
    ELSE <<d[1] + 1, 1, 1>>

Now == [year   |-> date[1], month |-> date[2], day |-> date[3],
        hour   |-> second \div 3600,
        minute |-> (second \div 60) % 60,
        second |-> second % 60]

Wrapped == day > EraDay \/ (day = EraDay /\ second >= EraSecond)

SecsSince1900 ==
    IF ~Wrapped THEN <<day, second>>
    ELSE IF second >= EraSecond THEN <<day - EraDay, second - EraSecond>>
    ELSE <<day - EraDay - 1, second - EraSecond + 86400>>

NTP_UNIX_DELTA == 25567

(* checked_sub.                                                            *)
sntp_unix ==
    IF SecsSince1900[1] >= NTP_UNIX_DELTA
    THEN <<SecsSince1900[1] - NTP_UNIX_DELTA, SecsSince1900[2]>> ELSE NoTime

(* Mutant of datetime_from_unix: January and February keep the year the    *)
(* others of their March-based year have.                                  *)
datetime_from_unix_march(unix) ==
    LET secs == unix[2]
        z    == unix[1] + 719468
        era  == (IF z >= 0 THEN z ELSE z - 146096) \div 146097
        doe  == z - 146097 * era
        yoe  == (doe - doe \div 1460 + doe \div 36524 - doe \div 146096) \div 365
        doy  == doe - (365 * yoe + yoe \div 4 - yoe \div 100)
        mp   == (5 * doy + 2) \div 153
    IN  [year   |-> (yoe + era * 400) % 65536,
         month  |-> IF mp < 10 THEN mp + 3 ELSE mp - 9,
         day    |-> doy - (153 * mp + 2) \div 5 + 1,
         hour   |-> secs \div 3600,
         minute |-> (secs % 3600) \div 60,
         second |-> secs % 60]

(* Days since 1970 and a second of the day as date and time.               *)
datetime_from_unix(unix) ==
    LET secs == unix[2]
        z    == unix[1] + 719468
        era  == (IF z >= 0 THEN z ELSE z - 146096) \div 146097
        doe  == z - 146097 * era
        yoe  == (doe - doe \div 1460 + doe \div 36524 - doe \div 146096) \div 365
        doy  == doe - (365 * yoe + yoe \div 4 - yoe \div 100)
        mp   == (5 * doy + 2) \div 153
        m    == IF mp < 10 THEN mp + 3 ELSE mp - 9
    IN  [year   |-> (yoe + era * 400 + (IF m <= 2 THEN 1 ELSE 0)) % 65536,
         month  |-> m,
         day    |-> doy - (153 * mp + 2) \div 5 + 1,
         hour   |-> secs \div 3600,
         minute |-> (secs % 3600) \div 60,
         second |-> secs % 60]

-----------------------------------------------------------------------------
(* The PCF85063 driver.                                                    *)
bin2bcd(v) == (v \div 10) * 16 + (v % 10)
bcd2bin(v) == (v \div 16) * 10 + (v % 16)

(* Mutant of Payload: the hour is written for a 12-hour clock.             *)
Payload_half(t) ==
    <<bin2bcd(t.second) % 128, bin2bcd(t.minute) % 128, bin2bcd(t.hour) % 32,
      bin2bcd(t.day) % 64, 0, bin2bcd(t.month) % 32, bin2bcd(t.year % 100)>>

Payload(t) ==
    <<bin2bcd(t.second) % 128, bin2bcd(t.minute) % 128, bin2bcd(t.hour) % 64,
      bin2bcd(t.day) % 64, 0, bin2bcd(t.month) % 32, bin2bcd(t.year % 100)>>

get == [year   |-> 2000 + bcd2bin(rtc[7]), month |-> bcd2bin(rtc[6] % 32),
        day    |-> bcd2bin(rtc[4] % 64),   hour  |-> bcd2bin(rtc[3] % 64),
        minute |-> bcd2bin(rtc[2] % 128),  second |-> bcd2bin(rtc[1] % 128)]

(* The write may fail after some registers: it is reported and left so.    *)
set(t) ==
    \/ rtc' = Payload(t) /\ given' = t
    \/ /\ \E k \in 0..6 : rtc' = [r \in 1..7 |-> IF r <= k THEN Payload(t)[r] ELSE rtc[r]]
       /\ given' = NoDate

(* The server answers; a time that is not after 1970 is refused.           *)
Synced ==
    /\ zpc = "sync"
    /\ zpc' = "wait"
    /\ sntp_unix # NoTime
    /\ set(datetime_from_unix(sntp_unix))
    /\ UNCHANGED <<day, second, date>>

(* No name, no answer within SNTP_TIMEOUT_SECS, a short or refused one.    *)
SyncFails ==
    /\ zpc = "sync"
    /\ zpc' = "wait"
    /\ UNCHANGED <<day, second, date, rtc, given>>

(* NTP_RESYNC_INTERVAL_SECS pass, here any time up to the next day; what   *)
(* the clock makes of its registers meanwhile is not followed.             *)
WaitOver ==
    /\ zpc = "wait"
    /\ zpc' = "sync"
    /\ second' \in Seconds
    /\ \/ second' > second /\ UNCHANGED <<day, date>>
       \/ day < LastDay /\ day' = day + 1 /\ date' = NextDate(date)
    /\ rtc' = Blank
    /\ given' = NoDate

ClockNext == Synced \/ SyncFails \/ WaitOver

ClockSpec == ClockInit /\ [][ClockNext]_clockVars
-----------------------------------------------------------------------------
(* What a sync gives the clock is the true time, on every day; past the    *)
(* end of the server's 32 bits it gives nothing rather than a wrong one,   *)
(* until in 2106 the seconds that started again are themselves past 1970.  *)
GivenIsTrue == given # NoDate /\ day < EraDay + NTP_UNIX_DELTA => given = Now

(* What was written in full is read back, the BCD digits and the masks of  *)
(* the registers lose nothing in the years from 2000 to 2099.              *)
ReadsBack == given # NoDate /\ given.year \in 2000..2099 => get = given
=============================================================================
