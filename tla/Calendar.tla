------------------------------ MODULE Calendar -------------------------------
(***************************************************************************)
(* Dates, times, timestamps and durations: what their operations return,   *)
(* and how they are written as texts and read from them.                   *)
(***************************************************************************)
EXTENDS Characters, FiniteSets, SequencesExt

(***************************************************************************)
(* Date, Time, Timestamp and Duration (base/date.cpp, time.cpp,            *)
(* timestamp.cpp, duration.cpp): what their operations return.  A date is  *)
(* the number of a day, a time the milliseconds of a day, a timestamp both *)
(* (the code keeps date * 100000000 + time), a duration its parts.         *)
(*                                                                         *)
(* An operation that may throw returns a set: without an element for an    *)
(* exception, with one for a value.                                        *)
(***************************************************************************)
Thrown == {}
Returned(condition, v) == IF condition THEN {v} ELSE Thrown

UInt8(n) == n % 256
UInt16(n) == n % 65536
Int16(n) == ((n + 32768) % 65536) - 32768

(* Division that truncates.                                                *)
Quot(a, b) == IF a < 0 THEN -((-a) \div b) ELSE a \div b
Rem(a, b) == a - Quot(a, b) * b

(* quotient() and modulo().                                                *)
QuotientIn(a, low, high) == (a - low) \div (high - low)
ModuloIn(a, low, high) == ((a - low) % (high - low)) + low
-----------------------------------------------------------------------------
(* Date                                                                    *)
DaysOfMonth == <<31, 28, 31, 30, 31, 30, 31, 31, 30, 31, 30, 31>>

IsLeapYear(year) == (year % 4 = 0 /\ year % 100 # 0) \/ year % 400 = 0

MonthLength(year, month) ==
  DaysOfMonth[month] + (IF IsLeapYear(year) /\ month = 2 THEN 1 ELSE 0)

ValidDate(year, month, day) ==
  /\ month >= 1 /\ month <= 12 /\ year >= 0 /\ year <= 9999
  /\ day >= 1 /\ day <= MonthLength(year, month)

maximumDayInMonthFor(year, month) ==
  Returned(ValidDate(year, month, 1), MonthLength(year, month))

calcJulDay(year, month, day) ==
  LET a == (14 - month) \div 12
      y == year + 4800 - a
      m == month + 12 * a - 3
  IN  day + ((153 * m + 2) \div 5) + 365 * y + (y \div 4) - (y \div 100) + (y \div 400) - 32045

calcFromJulDay(date) ==
  LET a == date + 32044
      b == (4 * a + 3) \div 146097
      c == a - (146097 * b) \div 4
      d == (4 * c + 3) \div 1461
      e == c - ((1461 * d) \div 4)
      m == (5 * e + 2) \div 153
  IN  [day   |-> e - ((153 * m + 2) \div 5) + 1,
       month |-> m + (3 - 12 * (m \div 10)),
       year  |-> UInt16(100 * b + d - 4800 + m \div 10)]

DateOf(year, month, day) ==
  Returned(ValidDate(year, month, day), calcJulDay(year, month, day))

(* day(), month() and year() that set a part.                              *)
SetDate(date, part, n) ==
  UNION {DateOf(d.year, d.month, d.day) : d \in {[calcFromJulDay(date) EXCEPT ![part] = n]}}

(* The days are an int16_t.                                                *)
addDays(date, days) == date + Int16(days)

dayOfWeek(date) == (date + 1) % 7

dayOfYear(date) ==
  LET d == calcFromJulDay(date)
      Before[m \in 1 .. 12] == IF m = 1 THEN 0 ELSE Before[m - 1] + DaysOfMonth[m - 1]
  IN  Before[d.month] + d.day + (IF IsLeapYear(d.year) /\ d.month > 2 THEN 1 ELSE 0)

weekOfYear(date) ==
  LET d4 == ((((date + 31741) - (date % 7)) % 146097) % 36524) % 1461
      L == d4 \div 1460
      d1 == ((d4 - L) % 365) + L
  IN  (d1 \div 7) + 1
-----------------------------------------------------------------------------
(* Time                                                                    *)
MillisecondsPerDay == 86400000

ValidTime(hour, minute, second, millisecond) ==
  hour <= 23 /\ minute <= 59 /\ second <= 59 /\ millisecond <= 999

calcNumberFromTime(hour, minute, second, millisecond) ==
  (hour * 3600 + minute * 60 + second) * 1000 + millisecond

(* The parts are cut to a byte.                                            *)
TimeParts(time, seconds) ==
  [hour |-> UInt8(Quot(seconds, 3600)), minute |-> UInt8(Quot(Rem(seconds, 3600), 60)),
   second |-> UInt8(Rem(seconds, 60)), millisecond |-> UInt16(time - seconds * 1000)]
calcTimeFromNumber(time) ==
  Returned(time <= MillisecondsPerDay, TimeParts(time, Quot(time, 1000)))
PartsOfTime(time) == TimeParts(time, Quot(time, 1000))

TimeOf(hour, minute, second, millisecond) ==
  Returned(ValidTime(hour, minute, second, millisecond),
           calcNumberFromTime(hour, minute, second, millisecond))

(* Time(int32_t).                                                          *)
TimeOfNumber(time) ==
  {time : t \in {t \in calcTimeFromNumber(time) : ValidTime(t.hour, t.minute, t.second, t.millisecond)}}

SetTime(time, part, n) ==
  UNION {TimeOf(t.hour, t.minute, t.second, t.millisecond)
         : t \in {[p EXCEPT ![part] = n] : p \in calcTimeFromNumber(time)}}

(* The days that addSeconds() returns, with the time that it leaves.  No   *)
(* seconds leave any time as it is, one below 0 too.                       *)
addSeconds(time, seconds) ==
  LET sum == time + seconds * 1000
      days == Quot(sum, MillisecondsPerDay)
      rest == Rem(sum, MillisecondsPerDay)
  IN  IF seconds = 0 THEN [days |-> 0, time |-> time]
      ELSE IF rest < 0 THEN [days |-> days - 1, time |-> MillisecondsPerDay + rest]
      ELSE [days |-> days, time |-> rest]
-----------------------------------------------------------------------------
(* Timestamp.                                                              *)
Stamp(date, time) == [date |-> date, time |-> time]

TimestampOf(year, month, day, hour, minute, second, millisecond) ==
  Returned(ValidDate(year, month, day) /\ ValidTime(hour, minute, second, millisecond),
           Stamp(calcJulDay(year, month, day), calcNumberFromTime(hour, minute, second, millisecond)))

StampOfDate(date) ==
  UNION {TimestampOf(d.year, d.month, d.day, 0, 0, 0, 0) : d \in {calcFromJulDay(date)}}

(* A timestamp of a time is made of its parts, and has the year, month and *)
(* day 0.                                                                  *)
StampOfTime(time) ==
  {Stamp(calcJulDay(0, 0, 0), t)
   : t \in UNION {TimeOf(p.hour, p.minute, p.second, p.millisecond) : p \in calcTimeFromNumber(time)}}

(* All parts.                                                              *)
Parts(stamp) == calcFromJulDay(stamp.date) @@ PartsOfTime(stamp.time)
OfParts(p) == TimestampOf(p.year, p.month, p.day, p.hour, p.minute, p.second, p.millisecond)

SetStamp(stamp, part, n) == UNION {OfParts(p) : p \in {[Parts(stamp) EXCEPT ![part] = n]}}

(* operator-: the seconds between two timestamps, those of whole days      *)
(* (times 86400) apart.                                                    *)
Seconds(left, right) ==
  [days |-> left.date - right.date, seconds |-> left.time \div 1000 - right.time \div 1000]

(* The day, week and weekday of a timestamp are those of a new Date.       *)
DateOfStamp(stamp) == UNION {DateOf(p.year, p.month, p.day) : p \in {calcFromJulDay(stamp.date)}}
-----------------------------------------------------------------------------
(* Duration                                                                *)
DurationParts == <<"years", "months", "days", "hours", "minutes", "seconds">>
Signed(duration, part) ==
  Int16(IF duration.sign = "positive" THEN duration[part] ELSE -duration[part])

(* operator> and operator<: the first part that differs decides, unless    *)
(* the signs do.                                                           *)
FirstDifferent(d, e) ==
  {k \in 1 .. 6 : /\ d[DurationParts[k]] # e[DurationParts[k]]
                  /\ \A j \in 1 .. k - 1 : d[DurationParts[j]] = e[DurationParts[j]]}
DurationGreater(d, e) ==
  \/ d.sign = "positive" /\ e.sign = "negative"
  \/ \E k \in FirstDifferent(d, e) : d[DurationParts[k]] > e[DurationParts[k]]
DurationLess(d, e) ==
  \/ d.sign = "negative" /\ e.sign = "positive"
  \/ \E k \in FirstDifferent(d, e) : d[DurationParts[k]] < e[DurationParts[k]]

AddDurations(d, e) ==
  Returned(d.sign = e.sign,
           [part \in DOMAIN d |-> IF part = "sign" THEN d.sign ELSE UInt16(d[part] + e[part])])

(* Time::addDuration() does not look at the sign.                          *)
AddToTime(time, d) == addSeconds(time, d.seconds + d.minutes * 60 + d.hours * 3600)
-----------------------------------------------------------------------------
(* Date::addDuration() to the parts of a timestamp: first the months, then *)
(* the seconds, minutes and hours, and with what they carry the days.      *)
Carried(n, low, high) == [n |-> UInt16(ModuloIn(n, low, high)), carry |-> QuotientIn(n, low, high)]

(* What could go wrong, for the runs that test the properties: the length  *)
(* of a month is the one that the year before had.                         *)
RECURSIVE LateLeapDay(_, _, _)
LateLeapDay(year, month, days) ==
  LET next == Carried(month + 1, 1, 13)
  IN  UNION {IF days <= length THEN {[year |-> year, month |-> month, day |-> days]}
             ELSE LateLeapDay(UInt16(year + next.carry), next.n, days - length)
             : length \in maximumDayInMonthFor(UInt16(year - 1), month)}

(* The days that are too few or too many for the month.                    *)
RECURSIVE InMonth(_, _, _)
InMonth(year, month, days) ==
  LET back == days < 1
      next == Carried(IF back THEN month - 1 ELSE month + 1, 1, 13)
  IN  UNION {IF ~ back /\ days <= length THEN {[year |-> year, month |-> month, day |-> days]}
             ELSE InMonth(UInt16(year + next.carry), next.n, IF back THEN days + length ELSE days - length)
             : length \in maximumDayInMonthFor(year, IF back THEN month - 1 ELSE month)}

addDuration(p, d) ==
  LET month == Carried(p.month + Signed(d, "months"), 1, 13)
      year == UInt16(p.year + Signed(d, "years") + month.carry)
      second == Carried(p.second + Signed(d, "seconds"), 0, 60)
      minute == Carried(p.minute + Signed(d, "minutes") + second.carry, 0, 60)
      hour == Carried(p.hour + Signed(d, "hours") + minute.carry, 0, 24)
      Kept(longest) == IF p.day > longest THEN longest ELSE IF p.day < 1 THEN 1 ELSE p.day
      days == UNION {InMonth(year, month.n, Kept(longest) + Signed(d, "days") + hour.carry)
                     : longest \in maximumDayInMonthFor(year, month.n)}
  IN  {date @@ [hour |-> hour.n, minute |-> minute.n, second |-> second.n, millisecond |-> p.millisecond]
       : date \in days}

AddToStamp(stamp, d) == UNION {OfParts(q) : q \in UNION {addDuration(p, d) : p \in {Parts(stamp)}}}
AddToDate(date, d) == {s.date : s \in AddToStamp(Stamp(date, 0), d)}
-----------------------------------------------------------------------------
(***************************************************************************)
(* Dates, times and timestamps as text: the functions DATE_FORMAT,         *)
(* TIME_FORMAT and TIMESTAMP_FORMAT (Date::format() and its like), EXTRACT,*)
(* and the conversions from text of comparisons and casts                  *)
(* (base/time_helper.cpp) and of the csv parser (base/csv_parser.cpp).     *)
(***************************************************************************)
Percent == Text("%")[1]

(* %F of a year: zeros as the year seems to need them, the fifth character *)
(* is overwritten by the separator.                                        *)
Zeros(n) == [i \in 1 .. n |-> Digit(0)]
YearText(year) ==
  LET zeros == IF year > 1000 THEN 0 ELSE IF year > 100 THEN 1 ELSE IF year > 10 THEN 2 ELSE 3
  IN  SubSeq(Zeros(zeros) \o itoa(year), 1, 4)

TwoDigits(n) == IF n > 9 THEN itoa(n) ELSE Zeros(1) \o itoa(n)

DateText(p) == YearText(p.year) \o Text("-") \o TwoDigits(p.month) \o Text("-") \o TwoDigits(p.day)
TimeText(p) == TwoDigits(p.hour) \o Text(":") \o TwoDigits(p.minute) \o Text(":") \o TwoDigits(p.second)

(* The letters behind a percent sign; j, U and w are those of the date.    *)
Letter(s) == Code[s]
OfDay(c, date) ==
  CASE c = Letter("j") -> Filled(dayOfYear(date), 3)
    [] c = Letter("U") -> Filled(weekOfYear(date), 2)
    [] c = Letter("w") -> itoa(dayOfWeek(date))
PartText(c, p) ==
  CASE c = Letter("Y") -> Filled(p.year, 4)
    [] c = Letter("m") -> Filled(p.month, 2)
    [] c = Letter("d") -> Filled(p.day, 2)
    [] c = Letter("H") -> Filled(p.hour, 2)
    [] c = Letter("M") -> Filled(p.minute, 2)
    [] c = Letter("S") -> Filled(p.second, 2)
    [] c = Letter("s") -> Filled(p.millisecond, 3)
DayLetters == {Letter("j"), Letter("U"), Letter("w")}
DateLetters == {Letter("Y"), Letter("m"), Letter("d")}
TimeLetters == {Letter("H"), Letter("M"), Letter("S"), Letter("s")}

DateSpecifier(c, date) ==
  IF c \in DayLetters THEN {OfDay(c, date)}
  ELSE {IF c \in DateLetters THEN PartText(c, p) ELSE IF c = Letter("F") THEN DateText(p) ELSE <<>>
        : p \in {calcFromJulDay(date)}}

TimestampSpecifier(c, stamp) ==
  IF c \in DayLetters THEN {OfDay(c, date) : date \in DateOfStamp(stamp)}
  ELSE {IF c \in DateLetters \cup TimeLetters THEN PartText(c, p)
        ELSE IF c = Letter("F") THEN DateText(p) \o Text("T") \o TimeText(p) ELSE <<>>
        : p \in {Parts(stamp)}}

(* Only that of a time refuses letters it does not know.                   *)
TimeSpecifier(c, time) ==
  UNION {IF c \in TimeLetters THEN {PartText(c, p)}
         ELSE IF c = Letter("I") THEN {Filled(IF p.hour > 12 THEN p.hour - 12 ELSE p.hour, 2)}
         ELSE IF c = Letter("p") THEN {Text(IF p.hour > 12 THEN "pm" ELSE "am")}
         ELSE IF c = Letter("X") THEN {TimeText(p)}
         ELSE IF c = Percent THEN {<<Percent>>}
         ELSE Thrown
         : p \in calcTimeFromNumber(time)}

Specifier(type, c, v) ==
  CASE type = "DATE" -> DateSpecifier(c, v)
    [] type = "TIME" -> TimeSpecifier(c, v)
    [] type = "TIMESTAMP" -> TimestampSpecifier(c, v)

(* format(): the text is written character by character, one behind a      *)
(* percent sign as a specifier; the format must not end with such a sign.  *)
Reading(text, percent) == {[text |-> text, percent |-> percent]}
Formatted(type, v, reading, c) ==
  UNION {IF r.percent THEN UNION {Reading(r.text \o t, FALSE) : t \in Specifier(type, c, v)}
         ELSE IF c = Percent THEN Reading(r.text, TRUE) ELSE Reading(Append(r.text, c), FALSE)
         : r \in reading}
Format(type, v, format) ==
  LET Step(reading, c) == Formatted(type, v, reading, c)
  IN  {r.text : r \in {r \in FoldLeft(Step, Reading(<<>>, FALSE), format) : ~ r.percent}}

(* EXTRACT(part FROM timestamp), the part by its number.                   *)
ExtractParts == <<"second", "minute", "hour", "day", "month", "year">>
Extract(part, stamp) ==
  IF part \in DOMAIN ExtractParts THEN {Parts(stamp)[ExtractParts[part]]} ELSE Thrown
-----------------------------------------------------------------------------
(* std::stoi(), cut to 16 bits: spaces, a sign, and the digits up to the   *)
(* first character that is none; no digit is an exception.                 *)
Leading(t, Belongs(_)) ==
  LET stops == {i \in DOMAIN t : ~ Belongs(t[i])}
  IN  IF stops = {} THEN t ELSE SubSeq(t, 1, (CHOOSE i \in stops : \A j \in stops : i <= j) - 1)
Unspaced(t) == LET IsSpace(c) == c = Space IN SubSeq(t, Len(Leading(t, IsSpace)) + 1, Len(t))
HasSign(t) == t # <<>> /\ t[1] \in {Plus, Minus}
NumberOf(digits) == FoldLeft(LAMBDA n, c : 10 * n + (c - 48), 0, digits)
SignedNumber(t) ==
  {UInt16(IF HasSign(t) /\ t[1] = Minus THEN -NumberOf(digits) ELSE NumberOf(digits))
   : digits \in {Leading(IF HasSign(t) THEN Tail(t) ELSE t, IsDigit)} \ {<<>>}}
stoi(t) == UNION {SignedNumber(number) : number \in {Unspaced(t)}}
substr(t, from, length) ==
  SubSeq(t, from + 1, IF from + length > Len(t) THEN Len(t) ELSE from + length)

(* The numbers at places of a text, or an exception for any of them.       *)
DatePlaces == <<<<0, 4>>, <<5, 2>>, <<8, 2>>>>
TimePlaces == <<<<0, 2>>, <<3, 2>>, <<6, 2>>>>
LaterPlaces == <<<<11, 2>>, <<14, 2>>, <<17, 2>>>>
Joined(numbers, more) == {Append(n, m) : n \in numbers, m \in more}
NumbersAt(t, places) ==
  LET Step(numbers, place) == Joined(numbers, stoi(substr(t, place[1], place[2])))
  IN  FoldLeft(Step, {<<>>}, places)

dateFromString(t) == UNION {DateOf(n[1], n[2], n[3]) : n \in NumbersAt(t, DatePlaces)}
timeFromString(t) == UNION {TimeOf(n[1], n[2], n[3], 0) : n \in NumbersAt(t, TimePlaces)}
timestampFromString(t) ==
  UNION {TimestampOf(n[1], n[2], n[3], n[4], n[5], n[6], 0) : n \in NumbersAt(t, DatePlaces \o LaterPlaces)}

FromString(type, t) ==
  CASE type = "DATE" -> dateFromString(t)
    [] type = "TIME" -> timeFromString(t)
    [] type = "TIMESTAMP" -> timestampFromString(t)
-----------------------------------------------------------------------------
(* The csv parser's own conversions, of what is in its string buffer (the  *)
(* first character is at 0).  A character that is no digit counts as well, *)
(* the end of the text too, and behind it what was there before.           *)
Pair(b, at) == UInt16(UInt16((b[at] - 48)) * 10 + UInt16(b[at + 1] - 48))
Year(b) == UInt16(UInt16(b[0] - 48) * 1000 + UInt16(b[1] - 48) * 100
                  + UInt16(b[2] - 48) * 10 + UInt16(b[3] - 48))
HasDashes(b) == b[4] = Minus /\ b[7] = Minus
HasColons(b, at) == b[at] = Colon /\ b[at + 3] = Colon

CsvDate(b) == IF HasDashes(b) THEN DateOf(Year(b), Pair(b, 5), Pair(b, 8)) ELSE Thrown
CsvTime(b) == IF HasColons(b, 2) THEN TimeOf(Pair(b, 0), Pair(b, 3), Pair(b, 6), 0) ELSE Thrown
CsvTimestamp(b) ==
  IF HasDashes(b) /\ (b[10] = Text("T")[1] \/ b[10] = Space) /\ HasColons(b, 13)
  THEN TimestampOf(Year(b), Pair(b, 5), Pair(b, 8), Pair(b, 11), Pair(b, 14), Pair(b, 17), 0)
  ELSE Thrown
=============================================================================
