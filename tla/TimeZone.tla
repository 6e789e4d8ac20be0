------------------------------ MODULE TimeZone ------------------------------
(***************************************************************************)
(* muduo's Date.cc and TimeZone.cc: the conversions between seconds since  *)
(* 1970 and a date with a time of day, in UTC and in a zone's local time.  *)
(* A zone is a sequence of moments at which the local time's distance from *)
(* UTC changes.                                                            *)
(*                                                                         *)
(* A zone is [transitions, localtimes]: localtimes holds the distances, a  *)
(* transition its moment in UTC and in the new local time, and the index   *)
(* of its distance.  Indices begin with 1.                                 *)
(***************************************************************************)
EXTENDS Integers, Sequences

kSecondsPerDay == 24 * 60 * 60

(* a / b and a % b of C++, for b > 0: they round towards zero.             *)
Quotient(a, b) == IF a >= 0 THEN a \div b ELSE -((-a) \div b)
Remainder(a, b) == a - b * Quotient(a, b)

getJulianDayNumber(date) ==
  LET a == Quotient(14 - date.month, 12)
      y == date.year + 4800 - a
      m == date.month + 12 * a - 3
  IN date.day + Quotient(153 * m + 2, 5) + y * 365 + Quotient(y, 4)
       - Quotient(y, 100) + Quotient(y, 400) - 32045

getYearMonthDay(julianDayNumber) ==
  LET a == julianDayNumber + 32044
      b == Quotient(4 * a + 3, 146097)
      c == a - Quotient(b * 146097, 4)
      d == Quotient(4 * c + 3, 1461)
      e == c - Quotient(1461 * d, 4)
      m == Quotient(5 * e + 2, 153)
  IN [day |-> e - Quotient(153 * m + 2, 5) + 1,
      month |-> m + 3 - 12 * Quotient(m, 10),
      year |-> b * 100 + d - 4800 + Quotient(m, 10)]

kJulianDayOf1970 == getJulianDayNumber([year |-> 1970, month |-> 1, day |-> 1])

fillHMS(seconds) ==
  [hour |-> (seconds \div 60) \div 60, minute |-> (seconds \div 60) % 60,
   second |-> seconds % 60]

(* Mutant: a time before 1970 keeps the day it was rounded to.             *)
BreakTimeRoundsUp(t) ==
  LET rest == Remainder(t, kSecondsPerDay)
  IN [date |-> getYearMonthDay(Quotient(t, kSecondsPerDay) + kJulianDayOf1970),
      time |-> fillHMS(IF rest < 0 THEN rest + kSecondsPerDay ELSE rest)]

BreakTime(t) ==
  LET rest == Remainder(t, kSecondsPerDay)
      before == rest < 0
      days == Quotient(t, kSecondsPerDay) - (IF before THEN 1 ELSE 0)
  IN [date |-> getYearMonthDay(days + kJulianDayOf1970),
      time |-> fillHMS(IF before THEN rest + kSecondsPerDay ELSE rest)]

fromUtcTime(dt) ==
  (getJulianDayNumber(dt.date) - kJulianDayOf1970) * kSecondsPerDay
    + dt.time.hour * 3600 + dt.time.minute * 60 + dt.time.second

-----------------------------------------------------------------------------

(* TimeZone::Data as readDataBlock fills it: addLocalTime for each         *)
(* distance, addTransition for each moment in order.                       *)
Zone(localtimes, moments) ==
  [localtimes |-> localtimes,
   transitions |->
     [i \in 1..Len(moments) |->
        [utctime |-> moments[i].at,
         localtime |-> moments[i].at + localtimes[moments[i].idx],
         localtimeIdx |-> moments[i].idx]]]

(* std::upper_bound of times in order: the first that is later, or one     *)
(* past the last.                                                          *)
upper_bound(times, time) ==
  CHOOSE i \in 1..Len(times) + 1 :
    /\ \A j \in 1..i - 1 : times[j] <= time
    /\ i <= Len(times) => time < times[i]

UtcTimes(zone) ==
  [i \in DOMAIN zone.transitions |-> zone.transitions[i].utctime]
LocalTimes(zone) ==
  [i \in DOMAIN zone.transitions |-> zone.transitions[i].localtime]

OffsetAfter(zone, i) == zone.localtimes[zone.transitions[i].localtimeIdx]

(* findLocalTime of a moment: before the first transition, the zone's      *)
(* first entry; after the last, the last transition's.                     *)
findLocalTime(zone, utc) ==
  LET i == upper_bound(UtcTimes(zone), utc)
  IN IF i = 1 THEN zone.localtimes[1] ELSE OffsetAfter(zone, i - 1)

(* The last second before transition i, in the local time before it.       *)
PriorSecond(zone, i) ==
  zone.transitions[i].utctime - 1 + OffsetAfter(zone, i - 1)

(* Mutant: a time that comes twice is looked for around the next           *)
(* transition, not the one before it.                                      *)
findLocalTimeOfLocalLooksAhead(zone, local, postTransition) ==
  LET i == upper_bound(LocalTimes(zone), local)
      n == Len(zone.transitions)
      skipped == PriorSecond(zone, i) < local
  IN CASE i = 1 -> zone.localtimes[1]
       [] i = n + 1 -> OffsetAfter(zone, n)
       [] i \in 2..n /\ skipped ->
            OffsetAfter(zone, IF postTransition THEN i ELSE i - 1)
       [] OTHER -> OffsetAfter(zone, i - 1)

(* findLocalTime of a local time, which may be skipped when clocks go      *)
(* forward, or come twice when they go back.  At the first transition the  *)
(* prior second is still that of the second one, which is not before a     *)
(* time that is not skipped: both answers are the same.                    *)
findLocalTimeOfLocal(zone, local, postTransition) ==
  LET i == upper_bound(LocalTimes(zone), local)
      n == Len(zone.transitions)
      skipped == PriorSecond(zone, i) < local
      repeated == i > 2 /\ local <= PriorSecond(zone, i - 1)
  IN CASE i = 1 -> zone.localtimes[1]
       [] i = n + 1 -> OffsetAfter(zone, n)
       [] i \in 2..n /\ skipped ->
            OffsetAfter(zone, IF postTransition THEN i ELSE i - 1)
       [] i \in 2..n /\ ~skipped /\ repeated ->
            OffsetAfter(zone, IF postTransition THEN i - 1 ELSE i - 2)
       [] OTHER -> OffsetAfter(zone, i - 1)

toLocalTime(zone, utc) == BreakTime(utc + findLocalTime(zone, utc))

fromLocalTime(zone, dt, postTransition) ==
  LET local == fromUtcTime(dt)
  IN local - findLocalTimeOfLocal(zone, local, postTransition)

-----------------------------------------------------------------------------
(* A local second that the code does not settle: around the first          *)
(* transition, where TimeZone.cc:334 and 365 say that the entry before it  *)
(* should be another one, and one that comes twice at the last, which      *)
(* lines 350 and 376 leave to the TZ rule that is not read.                *)
Unsettled(zone, local) ==
  LET n == Len(zone.transitions)
      Between(a, b) == (a <= local /\ local < b) \/ (b <= local /\ local < a)
  IN \/ n > 0 /\ Between(zone.transitions[1].utctime + zone.localtimes[1],
                         zone.transitions[1].localtime)
     \/ n > 1 /\ zone.transitions[n].localtime <= local
              /\ local <= PriorSecond(zone, n)

(* TimeZone.cc:318-431, 461-491.  The moments that show a local second are *)
(* exactly the two answers of fromLocalTime, the earlier one before the    *)
(* transition; a second that no moment shows, because clocks skip it, is   *)
(* placed by each answer with the distance that holds at the other one.    *)
LocalSecondFound(zone, local) ==
  LET moments == {local - zone.localtimes[i] : i \in DOMAIN zone.localtimes}
      shown == {u \in moments : u + findLocalTime(zone, u) = local}
      pre == fromLocalTime(zone, BreakTime(local), FALSE)
      post == fromLocalTime(zone, BreakTime(local), TRUE)
  IN ~Unsettled(zone, local) =>
       \/ shown = {pre, post} /\ pre <= post
       \/ /\ shown = {} /\ post < pre
          /\ pre = local - findLocalTime(zone, post)
          /\ post = local - findLocalTime(zone, pre)
=============================================================================
