----------------------------- MODULE TimeOfDay -----------------------------
(***************************************************************************)
(* The time of day: the variant's conversions between seconds since 2000   *)
(* and a date (beagleboard/src/variant.cpp), and the TPS65950's real time  *)
(* clock, whose BCD registers are accessed one after another over I2C      *)
(* (SetRtcData(), GetRtcData() in shared/tps65950/tps65950.cpp).           *)
(***************************************************************************)
EXTENDS Integers, Sequences

CONSTANTS
    Times,          \* the times that are set, in seconds since 2000
    KMaxDays        \* the clock then runs for so many days

VARIABLES
    rtc,        \* the clock's registers, GET_TIME's copy of them, days run since
    reader,     \* GetRtcData(): the registers read so far
    got         \* the date read, the day it was read on, the time returned

timeVars == <<rtc, reader, got>>

KSecsPerMin == 60
KSecsPerHour == 3600
KSecsPerDay == 86400
KSecsPerYr == 365 * KSecsPerDay
KSecsDaysPer4Years == 4 * KSecsPerYr + KSecsPerDay

\* mTab: the days of the months, by isLeap.
mTab(leap) == <<31, IF leap THEN 29 ELSE 28, 31, 30, 31, 30, 31, 31, 30, 31, 30, 31>>

DaysBefore(leap, month) ==
    LET f[m \in 1..12] == IF m = 1 THEN 0 ELSE f[m - 1] + mTab(leap)[m - 1]
    IN  f[month]

-----------------------------------------------------------------------------
(* Conversions *)

\* dayInYear counts from 0.
GetMonthData(dayInYear, leap) ==
    LET month == CHOOSE m \in 1..12 : /\ DaysBefore(leap, m) <= dayInYear
                                      /\ m < 12 => dayInYear < DaysBefore(leap, m + 1)
    IN  [month |-> month, day |-> dayInYear - DaysBefore(leap, month) + 1]

SecondsToYMD(time) ==
    LET years4 == (time \div KSecsDaysPer4Years) * 4
        adjyear == time % KSecsDaysPer4Years
        first == KSecsPerYr + KSecsPerDay
        rest == adjyear - first
        in == IF adjyear < first THEN GetMonthData(adjyear \div KSecsPerDay, TRUE)
              ELSE GetMonthData((rest % KSecsPerYr) \div KSecsPerDay, FALSE)
    IN  [day |-> in.day, month |-> in.month,
         year |-> IF adjyear < first THEN years4 ELSE years4 + rest \div KSecsPerYr + 1]

\* From ten up the tens stay in the low digit.
DecimalToBcd(n) == (16 * (n \div 10) + (n - (n \div 10))) % 256
BcdToDecimal(b) == (b % 16) + 10 * (b \div 16)

\* SystemTimeInSecondsFrom2000(): the years of a leap cycle are added in its
\* first year only, where there are none, with a day for it.
SystemTime(t) ==
    LET leap == t.year % 4 = 0
    IN  t.second + KSecsPerMin * t.minute + KSecsPerHour * t.hour
        + KSecsPerDay * (t.day - 1 + DaysBefore(leap, t.month))
        + KSecsDaysPer4Years * (t.year \div 4)
        + IF leap THEN KSecsPerDay ELSE 0

Registers == <<"second", "minute", "hour", "day", "month", "year">>
Date(time) ==
    [r \in {"second", "minute", "hour", "day", "month", "year"} |->
        CASE r = "second" -> time % KSecsPerMin
          [] r = "minute" -> (time % KSecsPerHour) \div KSecsPerMin
          [] r = "hour" -> (time % KSecsPerDay) \div KSecsPerHour
          [] OTHER -> SecondsToYMD(time)[r]]

-----------------------------------------------------------------------------
(* The chip counts in BCD *)

Bcd(n) == 16 * (n \div 10) + (n % 10)
NextDay(t) ==
    LET year == BcdToDecimal(t.year)
        month == BcdToDecimal(t.month)
        day == BcdToDecimal(t.day)
    IN  IF day < mTab(year % 4 = 0)[month] THEN [t EXCEPT !.day = Bcd(day + 1)]
        ELSE IF month < 12 THEN [t EXCEPT !.day = 1, !.month = Bcd(month + 1)]
        ELSE [t EXCEPT !.day = 1, !.month = 1, !.year = Bcd(year + 1)]

Result(time) == [date |-> Date(time), days |-> 0, time |-> SystemTime(Date(time))]
NoCopy == [r \in DOMAIN Date(0) |-> 0]

TimeInit ==
    \E time \in Times :
        /\ rtc = [now |-> [r \in DOMAIN Date(0) |-> DecimalToBcd(Date(time)[r])],
                  copy |-> NoCopy, set |-> time, days |-> 0]
        /\ reader = <<>>
        /\ got = Result(time)

\* SetSystemTimeInSecondsFrom2000(): the clock is stopped while it is written.
SetSystemTime(time) ==
    /\ reader = <<>>
    /\ rtc' = [rtc EXCEPT !.now = [r \in DOMAIN @ |-> DecimalToBcd(Date(time)[r])],
                          !.set = time, !.days = 0]
    /\ got' = Result(time)
    /\ UNCHANGED reader

\* Midnight passes: once in a read at most.  A result is kept for the day.
Midnight ==
    /\ rtc.days < KMaxDays
    /\ reader # <<>> => got.days = rtc.days
    /\ rtc' = [rtc EXCEPT !.now = NextDay(@), !.days = @ + 1]
    /\ got' = IF reader = <<>> THEN Result(rtc.set) ELSE got
    /\ UNCHANGED reader

-----------------------------------------------------------------------------
(* GetRtcData() *)

\* Called by SystemTimeInSecondsFrom2000().  Setting GET_TIME copies the registers to those that are read.
GetTime ==
    /\ reader = <<>>
    /\ rtc' = [rtc EXCEPT !.copy = rtc.now]
    /\ reader' = <<"latched">>
    /\ got' = [got EXCEPT !.days = rtc.days]

\* Mutant: the registers that run are read.
Reads_Running(r) == rtc.now[r]
Reads(r) == rtc.copy[r]

ReadRegister ==
    /\ reader # <<>> /\ Len(reader) <= Len(Registers)
    /\ reader' = Append(reader, Registers[Len(reader)])
    /\ got' = [got EXCEPT !.date[Registers[Len(reader)]] =
                  BcdToDecimal(Reads(Registers[Len(reader)]))]
    /\ UNCHANGED rtc

GetReturns ==
    /\ Len(reader) = Len(Registers) + 1
    /\ reader' = <<>>
    /\ got' = [got EXCEPT !.time = SystemTime(got.date)]
    /\ rtc' = [rtc EXCEPT !.copy = NoCopy]

TimeNext ==
    \/ \E time \in Times : SetSystemTime(time)
    \/ Midnight
    \/ GetTime \/ ReadRegister \/ GetReturns

TimeSpec == TimeInit /\ [][TimeNext]_timeVars
-----------------------------------------------------------------------------
(* Properties *)

\* The calendar.
SecondsOf(t) ==
    t.second + KSecsPerMin * t.minute + KSecsPerHour * t.hour
    + KSecsPerDay * (t.day - 1 + DaysBefore(t.year % 4 = 0, t.month)
                     + 365 * t.year + (t.year + 3) \div 4)

TimeTypeOK ==
    /\ rtc.days \in 0..KMaxDays /\ rtc.set \in Times
    /\ \A r \in DOMAIN rtc.now : rtc.now[r] \in 0..255
    /\ Len(reader) <= 1 + Len(Registers)

\* A date that has been read is that of one moment, the time set and the days
\* since, over month and year ends and leap days, though midnight may pass
\* between two of the registers (SecondsToYMD(), SetRtcData(), GetRtcData()).
DateIsOneMoment ==
    reader = <<>> => SecondsOf(got.date) = rtc.set + KSecsPerDay * got.days

=============================================================================
