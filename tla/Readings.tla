------------------------------- MODULE Readings ------------------------------
(***************************************************************************)
(* How long ago: the phone's formatRelativeTime and the dashboard's        *)
(* relativeTime and timestamp, over milliseconds.  The phone rounds down   *)
(* at each unit, the dashboard once; the dashboard shows a device's age in *)
(* one table and an alert's calendar day in another.  A time that is null  *)
(* ("Never") or does not parse ("Unknown") is left out.                    *)
(***************************************************************************)
EXTENDS Integers, TLAPS

MINUTE_MS == 60000
HOUR_MS == 3600000
DAY_MS == 86400000

\* A time ahead of the clock is "Just now".
Age(n, unit) == [n |-> n, unit |-> unit]
JustNow == Age(0, "now")

formatRelativeTime(elapsed) ==
    LET seconds == elapsed \div 1000
        minutes == seconds \div 60
        hours == minutes \div 60
    IN  IF seconds < 60 THEN JustNow
        ELSE IF minutes < 60 THEN Age(minutes, "min")
        ELSE IF hours < 24 THEN Age(hours, "hour")
        ELSE Age(hours \div 24, "day")

\* Of one day it says "Yesterday", where the phone says "1 day ago".
relativeTime(elapsed) ==
    IF elapsed < MINUTE_MS THEN JustNow
    ELSE IF elapsed < HOUR_MS THEN Age(elapsed \div MINUTE_MS, "min")
    ELSE IF elapsed < DAY_MS THEN Age(elapsed \div HOUR_MS, "hour")
    ELSE Age(elapsed \div DAY_MS, "day")

\* The viewer's calendar, where the clocks do not change: days of 24 hours.
CalendarDay(at, zone) == (at + zone) \div DAY_MS
isSameDay(a, b, zone) == CalendarDay(a, zone) = CalendarDay(b, zone)

\* "dated": the date is written out.
timestamp(then, now, zone) ==
    IF isSameDay(then, now, zone) THEN "Today"
    ELSE IF isSameDay(then, now - DAY_MS, zone) THEN "Yesterday"
    ELSE "dated"

-----------------------------------------------------------------------------

\* Whatever time has passed, or lies ahead, a phone and the dashboard give the
\* same age: rounding down unit by unit loses nothing.
THEOREM SameAge ==
    ASSUME NEW elapsed \in Int
    PROVE  formatRelativeTime(elapsed) = relativeTime(elapsed)
<1> DEFINE seconds == elapsed \div 1000
           minutes == seconds \div 60
           hours == minutes \div 60
<1>1. /\ seconds \in Int /\ minutes \in Int /\ hours \in Int
      /\ elapsed < MINUTE_MS <=> seconds < 60
  BY DEF MINUTE_MS
<1>2. minutes = elapsed \div MINUTE_MS /\ (elapsed < HOUR_MS <=> minutes < 60)
  BY DEF MINUTE_MS, HOUR_MS
<1>3. hours = elapsed \div HOUR_MS /\ (elapsed < DAY_MS <=> hours < 24)
  BY DEF HOUR_MS, DAY_MS
<1>4. hours \div 24 = elapsed \div DAY_MS
  BY DEF DAY_MS
<1>. HIDE DEF seconds, minutes, hours
<1>5. formatRelativeTime(elapsed)
        = IF seconds < 60 THEN JustNow
          ELSE IF minutes < 60 THEN Age(minutes, "min")
          ELSE IF hours < 24 THEN Age(hours, "hour")
          ELSE Age(hours \div 24, "day")
  BY DEF formatRelativeTime, seconds, minutes, hours
<1>. QED
  BY <1>1, <1>2, <1>3, <1>4, <1>5 DEF relativeTime

\* What one table dates today is nowhere a day old, what is dated yesterday is
\* less than two days old, and what is written out is a day old at least.
THEOREM DatesFollowAges ==
    ASSUME NEW then \in Int, NEW now \in Int, NEW zone \in Int, then <= now
    PROVE  /\ timestamp(then, now, zone) = "Today"
                => relativeTime(now - then).unit # "day"
           /\ timestamp(then, now, zone) = "Yesterday"
                => \/ relativeTime(now - then).unit # "day"
                   \/ relativeTime(now - then).n = 1
           /\ timestamp(then, now, zone) = "dated"
                => relativeTime(now - then).unit = "day"
<1> DEFINE elapsed == now - then
           age == relativeTime(elapsed)
<1>1. elapsed \in Int /\ elapsed >= 0
  OBVIOUS
<1>2. (age.unit = "day" <=> elapsed >= DAY_MS) /\ (age.unit = "day" => age.n = elapsed \div DAY_MS)
  BY <1>1 DEF relativeTime, Age, JustNow, MINUTE_MS, HOUR_MS, DAY_MS
<1>3. isSameDay(then, now, zone) => elapsed < DAY_MS
  BY DEF isSameDay, CalendarDay, DAY_MS
<1>4. isSameDay(then, now - DAY_MS, zone) => elapsed < 2 * DAY_MS
  BY DEF isSameDay, CalendarDay, DAY_MS
<1>5. elapsed >= DAY_MS /\ elapsed < 2 * DAY_MS => elapsed \div DAY_MS = 1
  BY <1>1 DEF DAY_MS
<1>6. ~isSameDay(then, now, zone) /\ ~isSameDay(then, now - DAY_MS, zone) => elapsed >= DAY_MS
  BY DEF isSameDay, CalendarDay, DAY_MS
<1>7. /\ timestamp(then, now, zone) = "Today" => isSameDay(then, now, zone)
      /\ timestamp(then, now, zone) = "Yesterday" => isSameDay(then, now - DAY_MS, zone)
      /\ timestamp(then, now, zone) = "dated"
           => ~isSameDay(then, now, zone) /\ ~isSameDay(then, now - DAY_MS, zone)
  BY DEF timestamp
<1>8. 2 * DAY_MS \in Int /\ DAY_MS \in Int
  BY DEF DAY_MS
<1>. HIDE DEF elapsed, age
<1>9. /\ timestamp(then, now, zone) = "Today" => age.unit # "day"
      /\ timestamp(then, now, zone) = "Yesterday" => age.unit # "day" \/ age.n = 1
      /\ timestamp(then, now, zone) = "dated" => age.unit = "day"
  BY <1>1, <1>2, <1>3, <1>4, <1>5, <1>6, <1>7, <1>8
<1>. QED
  BY <1>9 DEF age, elapsed
=============================================================================
