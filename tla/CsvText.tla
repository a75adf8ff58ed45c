------------------------------- MODULE CsvText -------------------------------
(***************************************************************************)
(* The rows of a csv file, from its characters to values, and what is done *)
(* to a value that is a date, a time or a timestamp: the parser in two     *)
(* parts (the file, a field), then the operations on moments.              *)
(***************************************************************************)
EXTENDS Calendar

(***************************************************************************)
(* CSVParser and CSVStringParser (base/csv_parser.cpp,                     *)
(* base/csv_string_parser.cpp), called by BlockReader::readBlocks(): a     *)
(* file is read buffer by buffer, and from the buffer character by         *)
(* character; the values of a line go to the callbacks of the block        *)
(* reader, here to the row they build.                                     *)
(*                                                                         *)
(* A file is a record: types (the columns), bytes (its characters, the     *)
(* first line is a header), and lines, what the bytes stand for: of every  *)
(* line the fields, each the set that holds its value, or the empty set if *)
(* the text is none of its type.                                           *)
(***************************************************************************)
CONSTANTS Files,              \* the files
          BufferLength,       \* the length of the buffer that the file is read to
          StringBufferSize,   \* the length of the buffer of a field
          Delimiter,          \* the delimiter of the mapping
          MaxRows             \* bounds the rows of a parse that does not end

ASSUME CsvAssumption ==
  /\ BufferLength \in Nat \ {0} /\ StringBufferSize \in Nat \ (0 .. 19) /\ MaxRows \in Nat

VARIABLES
  file,           \* the file
  in,             \* taken: the characters read from the stream; buffer, count, n, state
  stringBuffer,   \* the buffer of a field; what an earlier field left stays
  field,          \* the locals of the function that reads a field
  typeAt,         \* the position of the type iterator
  lineCount,      \* the number of the line in messages
  row,            \* the values that the callbacks got since the last nextRow()
  rows,           \* the rows before
  errors,         \* the messages: the line that each names, and what it says
  pc

(* A value with its type, or the NULL of every type.                       *)
Value(type, v) == <<type, v>>
NULL == <<"NULL">>

csv == <<file, in, stringBuffer, field, typeAt, lineCount, row, rows, errors, pc>>
-----------------------------------------------------------------------------
(* The stream and the buffer                                               *)
readBuffer(i) ==
  LET left == Len(file.bytes) - i.taken
      count == IF left < BufferLength THEN left ELSE BufferLength
  IN  [i EXCEPT !.taken = @ + count, !.count = count, !.n = 0,
         !.buffer = [k \in DOMAIN @ |-> IF k < count THEN file.bytes[i.taken + k + 1] ELSE @[k]]]

(* checkBuffer() leaves a character to read, or it returned false.         *)
checkBuffer(i) == IF i.n >= i.count THEN readBuffer(i) ELSE i
HasInput(i) == i.n < i.count

(* The spaces behind a delimiter.  The first look is not at what was read  *)
(* if the delimiter was the last character: it is at what the buffer holds *)
(* from before, and behind the buffer it may be anything.                  *)
RECURSIVE Spaces(_)
Skipped(i) == IF HasInput(i) THEN Spaces(i) ELSE {[i EXCEPT !.state = "END"]}
Spaces(i) ==
  LET skipped == UNION {Skipped(next) : next \in {checkBuffer([i EXCEPT !.n = @ + 1])}}
  IN  IF i.n = BufferLength THEN {i} \cup skipped
      ELSE IF i.buffer[i.n] = Space THEN skipped ELSE {i}

(* What could go wrong, for the runs that test the properties: the two     *)
(* characters of a line's end are one end only within the buffer.          *)
SplitLineEnd(i) ==
  IF HasInput(i) /\ i.buffer[i.n] = NewLine THEN [i EXCEPT !.n = @ + 1] ELSE checkBuffer(i)

(* The second character of a line's end.                                   *)
LineEnd(i) ==
  LET next == checkBuffer(i)
  IN  IF HasInput(next) /\ next.buffer[next.n] = NewLine THEN [next EXCEPT !.n = @ + 1] ELSE next

(* The characters that readNextChar() may return, with what it leaves.     *)
NextChar(now, c, ignoreDelimiter) ==
  LET next(state) == [now EXCEPT !.n = @ + 1, !.state = state]
  IN  IF ~ HasInput(now) THEN {[c |-> NUL, in |-> [now EXCEPT !.state = "END"]]}
      ELSE IF ~ ignoreDelimiter /\ c = Delimiter THEN {[c |-> NUL, in |-> s] : s \in Spaces(next("FIELDSTART"))}
      ELSE IF c \in {NewLine, Return} THEN {[c |-> NUL, in |-> LineEnd(next("LINESTART"))]}
      ELSE {[c |-> c, in |-> next(now.state)]}
readNextChar(i, ignoreDelimiter) ==
  UNION {NextChar(now, now.buffer[now.n], ignoreDelimiter) : now \in {checkBuffer(i)}}
-----------------------------------------------------------------------------
NoField == [c |-> NUL, value |-> 0, negative |-> FALSE, pos |-> 0,
            state |-> "START", final |-> TRUE, ignoreDelimiter |-> FALSE]

Init ==
  /\ file \in Files
  /\ in = readBuffer([taken |-> 0, buffer |-> [k \in 0 .. BufferLength - 1 |-> NUL],
                      count |-> 0, n |-> 0, state |-> "INIT"])
  /\ stringBuffer = [k \in 0 .. StringBufferSize - 1 |-> NUL]
  /\ field = NoField
  /\ typeAt = 1 /\ lineCount = 1
  /\ row = <<>> /\ rows = <<>> /\ errors = <<>>
  /\ pc = "header"

(* findEndOfLine() of the constructor: it does not end if the file does.   *)
SkipHeader ==
  /\ pc = "header"
  /\ \E out \in readNextChar(in, FALSE) :
       /\ in' = out.in
       /\ IF in'.state = "LINESTART" THEN lineCount' = lineCount + 1 /\ pc' = "line"
          ELSE UNCHANGED <<lineCount, pc>>
  /\ UNCHANGED <<file, stringBuffer, field, typeAt, row, rows, errors>>

(* readBlocks(): nextRow() follows every parseLine().                      *)
NextRow == rows' = Append(rows, row) /\ row' = <<>>

ParseLine ==
  /\ pc = "line" /\ in.count > 0
  /\ in' = [in EXCEPT !.state = "FIELDSTART"]
  /\ typeAt' = 1
  /\ pc' = "field"
  /\ UNCHANGED <<file, stringBuffer, field, lineCount, row, rows, errors>>

(* Without a line after the header parseLine() returns true for ever.      *)
ParseNothing ==
  /\ pc = "line" /\ in.count = 0 /\ Len(rows) < MaxRows
  /\ in' = [in EXCEPT !.state = "FIELDSTART"]
  /\ rows' = Append(rows, row)
  /\ UNCHANGED <<file, stringBuffer, field, typeAt, lineCount, row, errors, pc>>

(* A field was parsed: the next type, unless the line ended too early or   *)
(* too late.                                                               *)
AfterField ==
  /\ pc = "parsed field"
  /\ typeAt' = typeAt + 1
  /\ LET last == typeAt = Len(file.types)
         ended == in.state \in {"LINESTART", "END"}
     IN  errors' = IF last /\ ~ ended THEN Append(errors, [line |-> lineCount, what |-> "too many fields"])
                   ELSE IF ~ last /\ ended THEN Append(errors, [line |-> lineCount, what |-> "too few fields"])
                   ELSE errors
  /\ pc' = "caught"
  /\ UNCHANGED <<file, in, stringBuffer, field, lineCount, row, rows>>

(* Behind the handler: the line or the file ended, or it goes on.  The     *)
(* buffer is read again if the two characters of a line's end were its     *)
(* last.  (What parseLine() has for a buffer that is empty behind a line's *)
(* end or a field cannot come about: readNextChar() has read on.)          *)
EndOfLine ==
  /\ pc = "caught"
  /\ in.state \in {"LINESTART", "END"}
  /\ NextRow
  /\ in' = IF in.state = "LINESTART" THEN checkBuffer(in) ELSE in
  /\ IF in.state = "LINESTART" /\ in'.count > 0 THEN lineCount' = lineCount + 1 /\ pc' = "line"
     ELSE UNCHANGED lineCount /\ pc' = "parsed"
  /\ UNCHANGED <<file, stringBuffer, field, typeAt, errors>>

NextField ==
  /\ pc = "caught" /\ in.state = "FIELDSTART"
  /\ pc' = "field"
  /\ UNCHANGED <<file, in, stringBuffer, field, typeAt, lineCount, row, rows, errors>>

(* Behind the last type there is none.                                     *)
NoType ==
  /\ pc = "field" /\ typeAt > Len(file.types)
  /\ pc' = "type overrun"
  /\ UNCHANGED <<file, in, stringBuffer, field, typeAt, lineCount, row, rows, errors>>

Type == IF typeAt > Len(file.types) THEN "NONE" ELSE file.types[typeAt]
-----------------------------------------------------------------------------
(* The functions that read a field.                                        *)
Deliver(value) ==
  row' = Append(row, value) /\ pc' = "parsed field" /\ UNCHANGED errors
Throw(what) ==
  errors' = Append(errors, [line |-> lineCount, what |-> what]) /\ pc' = "caught" /\ UNCHANGED row
GoOn(at) == pc' = at /\ UNCHANGED <<row, errors>>

(* parseLong(), up to the loop.                                            *)
StartLong ==
  /\ pc = "field" /\ Type = "LONG"
  /\ \E first \in readNextChar(in, FALSE) :
       /\ stringBuffer' = [stringBuffer EXCEPT ![0] = first.c]
       /\ \E digit \in IF first.c \in {Minus, Plus} THEN readNextChar(first.in, FALSE) ELSE {first} :
            /\ in' = digit.in
            /\ field' = [NoField EXCEPT !.c = digit.c, !.negative = first.c = Minus]
  /\ GoOn("long")
  /\ UNCHANGED <<file, typeAt, lineCount, rows>>

LongDigit ==
  /\ pc = "long" /\ field.c # NUL
  /\ IF IsDigit(field.c)
     THEN /\ \E out \in readNextChar(in, FALSE) :
               /\ in' = out.in
               /\ field' = [field EXCEPT !.value = 10 * @ + (field.c - 48), !.c = out.c]
          /\ GoOn("long")
     ELSE /\ UNCHANGED <<in, field>>
          /\ Throw("no long")
  /\ UNCHANGED <<file, stringBuffer, typeAt, lineCount, rows>>

EndLong ==
  /\ pc = "long" /\ field.c = NUL
  /\ Deliver(IF stringBuffer[0] = NUL THEN NULL
             ELSE Value("LONG", IF field.negative THEN -field.value ELSE field.value))
  /\ UNCHANGED <<file, in, stringBuffer, field, typeAt, lineCount, rows>>

(* parseBool(): the value is delivered before the character behind it is   *)
(* looked at.                                                              *)
ParseBool ==
  /\ pc = "field" /\ Type = "BOOLEAN"
  /\ \E first \in readNextChar(in, FALSE) :
       IF first.c = NUL THEN in' = first.in /\ Deliver(NULL)
       ELSE IF ~ IsDigit(first.c) THEN in' = first.in /\ Throw("no bool")
       ELSE \E second \in readNextChar(first.in, FALSE) :
              /\ in' = second.in
              /\ row' = Append(row, Value("BOOLEAN", first.c # Digit(0)))
              /\ IF second.c = NUL THEN pc' = "parsed field" /\ UNCHANGED errors
                 ELSE /\ errors' = Append(errors, [line |-> lineCount, what |-> "no bool"])
                      /\ pc' = "caught"
  /\ UNCHANGED <<file, stringBuffer, field, typeAt, lineCount, rows>>

(* The loops of parseDouble(), parseDate(), parseTime(), parseTimestamp(). *)
Gathered == {"DOUBLE", "DATE", "TIME", "TIMESTAMP"}
Gather ==
  /\ (pc = "field" /\ Type \in Gathered) \/ pc = "gather"
  /\ LET n == IF pc = "field" THEN 0 ELSE field.pos
     IN  \E out \in readNextChar(in, FALSE) :
           /\ in' = out.in
           /\ IF n = StringBufferSize
              THEN GoOn("string overrun") /\ UNCHANGED <<stringBuffer, field>>
              ELSE /\ stringBuffer' = [stringBuffer EXCEPT ![n] = out.c]
                   /\ field' = [NoField EXCEPT !.pos = n + 1]
                   /\ GoOn(IF out.c = NUL THEN "gathered" ELSE "gather")
  /\ UNCHANGED <<file, typeAt, lineCount, rows>>

(* The characters before the end of the text.                              *)
BufferText(b, length) == [k \in 1 .. length |-> b[k - 1]]

Converted ==
  CASE Type = "DATE" -> CsvDate(stringBuffer)
    [] Type = "TIME" -> CsvTime(stringBuffer)
    [] Type = "TIMESTAMP" -> CsvTimestamp(stringBuffer)
    [] Type = "DOUBLE" -> {BufferText(stringBuffer, field.pos - 1)}

EndGathered ==
  /\ pc = "gathered"
  /\ IF stringBuffer[0] = NUL THEN Deliver(NULL)
     ELSE \E results \in {Converted} :
            IF results = Thrown THEN Throw("no date or time")
            ELSE \E v \in results : Deliver(Value(Type, v))
  /\ UNCHANGED <<file, in, stringBuffer, field, typeAt, lineCount, rows>>
-----------------------------------------------------------------------------
(* CSVStringParser: what a character of a category does in a state: the    *)
(* next state, and whether it is copied, may be the last one, and has the  *)
(* delimiter ignored behind it.                                            *)
charCategory(c) ==
  IF c = SingleQuote THEN "SINGLE_QUOTE" ELSE IF c = DoubleQuote THEN "DOUBLE_QUOTE" ELSE "OTHER"

Into(state, copy, final, ignoreDelimiter) ==
  [state |-> state, copy |-> copy, final |-> final, ignoreDelimiter |-> ignoreDelimiter]
Quoted(state) == Into(state, TRUE, FALSE, TRUE)
Opened(state) == Into(state, FALSE, FALSE, TRUE)
Closed(state) == Into(state, FALSE, TRUE, FALSE)
Unquoted == Into("NO_QUOTE_STRING", TRUE, TRUE, FALSE)

OwnQuote(state) ==
  IF state \in {"DOUBLE_QUOTE_STRING", "DOUBLE_QUOTE_STRING_END"} THEN "DOUBLE_QUOTE" ELSE "SINGLE_QUOTE"
transitionTable(state, category) ==
  CASE state = "START" ->
         IF category = "SINGLE_QUOTE" THEN Opened("SINGLE_QUOTE_STRING")
         ELSE IF category = "DOUBLE_QUOTE" THEN Opened("DOUBLE_QUOTE_STRING") ELSE Unquoted
    [] state = "DOUBLE_QUOTE_STRING" ->
         IF category = OwnQuote(state) THEN Closed("DOUBLE_QUOTE_STRING_END") ELSE Quoted(state)
    [] state = "SINGLE_QUOTE_STRING" ->
         IF category = OwnQuote(state) THEN Closed("SINGLE_QUOTE_STRING_END") ELSE Quoted(state)
    [] state = "DOUBLE_QUOTE_STRING_END" ->
         IF category = OwnQuote(state) THEN Quoted("DOUBLE_QUOTE_STRING") ELSE Closed("ERROR")
    [] state = "SINGLE_QUOTE_STRING_END" ->
         IF category = OwnQuote(state) THEN Quoted("SINGLE_QUOTE_STRING") ELSE Closed("ERROR")
    [] state = "NO_QUOTE_STRING" -> Unquoted
    [] state = "ERROR" -> Closed("ERROR")

(* parseToBuffer(), up to the loop.                                        *)
StartString ==
  /\ pc = "field" /\ Type = "STRING"
  /\ \E out \in readNextChar(in, FALSE) :
       in' = out.in /\ field' = [NoField EXCEPT !.c = out.c]
  /\ GoOn("string")
  /\ UNCHANGED <<file, stringBuffer, typeAt, lineCount, rows>>

(* The buffer is never made longer: resize() is given its first length.    *)
StringCharacter ==
  /\ pc = "string" /\ field.c # NUL
  /\ LET new == transitionTable(field.state, charCategory(field.c))
     IN  IF new.copy /\ field.pos >= StringBufferSize
         THEN GoOn("string overrun") /\ UNCHANGED <<in, stringBuffer, field>>
         ELSE /\ stringBuffer' = IF new.copy THEN [stringBuffer EXCEPT ![field.pos] = field.c] ELSE stringBuffer
              /\ \E out \in readNextChar(in, new.ignoreDelimiter) :
                   /\ in' = out.in
                   /\ field' = [field EXCEPT !.c = out.c, !.state = new.state, !.final = new.final,
                                  !.pos = IF new.copy THEN @ + 1 ELSE @]
              /\ GoOn("string")
  /\ UNCHANGED <<file, typeAt, lineCount, rows>>

(* What could go wrong, for the runs that test the properties: a quote     *)
(* that is still open is taken as closed.                                  *)
LenientString ==
  /\ pc = "string" /\ field.c = NUL /\ field.pos < StringBufferSize
  /\ stringBuffer' = [stringBuffer EXCEPT ![field.pos] = NUL]
  /\ Deliver(IF stringBuffer'[0] = NUL THEN NULL ELSE Value("STRING", BufferText(stringBuffer, field.pos)))
  /\ UNCHANGED <<file, in, field, typeAt, lineCount, rows>>
EndString ==
  /\ pc = "string" /\ field.c = NUL
  /\ IF field.pos >= StringBufferSize
     THEN GoOn("string overrun") /\ UNCHANGED stringBuffer
     ELSE /\ stringBuffer' = [stringBuffer EXCEPT ![field.pos] = NUL]
          /\ IF field.state = "ERROR" \/ ~ field.final THEN Throw("wrong delimiters")
             ELSE Deliver(IF stringBuffer'[0] = NUL THEN NULL
                          ELSE Value("STRING", BufferText(stringBuffer, field.pos)))
  /\ UNCHANGED <<file, in, field, typeAt, lineCount, rows>>
-----------------------------------------------------------------------------
ReadField ==
  \/ StartLong \/ LongDigit \/ EndLong
  \/ ParseBool
  \/ Gather \/ EndGathered
  \/ StartString \/ StringCharacter \/ EndString

ParseFile ==
  \/ SkipHeader \/ ParseLine \/ ParseNothing
  \/ NoType \/ ReadField
  \/ AfterField \/ EndOfLine \/ NextField
-----------------------------------------------------------------------------
(***************************************************************************)
(* What is done to a date, a time, a timestamp or a duration once it has   *)
(* been read: a value of the file is taken, operations of its class change *)
(* it (base/date.h, time.h, timestamp.h, duration.h), it is written with   *)
(* a format, and what was written is read again.                           *)
(***************************************************************************)
CONSTANTS Operations,       \* the operations with their arguments
          Formats,          \* the formats that a value is written with
          MaxOperations     \* bounds the operations done to one value

ASSUME DateAssumption == MaxOperations \in Nat

VARIABLES
  value,        \* the value
  last,         \* the last operation, the value before it, and whether it threw
  steps,        \* the operations so far
  text          \* what was written, with the format, and what it was read as

dates == <<value, last, steps, text>>

NoOperation == [op |-> [on |-> "NONE"], from |-> NULL, threw |-> FALSE]
NoText == [format |-> <<>>, written |-> Thrown, read |-> Thrown]

InitDates == value = NULL /\ last = NoOperation /\ steps = 0 /\ text = NoText
-----------------------------------------------------------------------------
(* The values of the results.                                              *)
As(type, results) == {Value(type, r) : r \in results}
Is(type, v) == {Value(type, v)}

OnDate(op, date) ==
  CASE op.do = "addDays" -> Is("DATE", addDays(date, op.n))
    [] op.do = "set" -> As("DATE", SetDate(date, op.part, op.n))
    [] op.do = "addDuration" -> As("DATE", AddToDate(date, op.duration))
    [] op.do = "toTimestamp" -> As("TIMESTAMP", StampOfDate(date))

OnTime(op, time) ==
  CASE op.do = "addSeconds" -> Is("TIME", addSeconds(time, op.n).time)
    [] op.do = "addDuration" -> Is("TIME", AddToTime(time, op.duration).time)
    [] op.do = "set" -> As("TIME", SetTime(time, op.part, op.n))
    [] op.do = "ofNumber" -> As("TIME", TimeOfNumber(time + op.n))
    [] op.do = "toTimestamp" -> As("TIMESTAMP", StampOfTime(time))

OnStamp(op, stamp) ==
  CASE op.do = "set" -> As("TIMESTAMP", SetStamp(stamp, op.part, op.n))
    [] op.do = "addDuration" -> As("TIMESTAMP", AddToStamp(stamp, op.duration))
    [] op.do = "minus" -> Is("SECONDS", Seconds(stamp, op.stamp))
    [] op.do = "extract" -> As("LONG", Extract(op.n, stamp))

OnDuration(op, duration) ==
  CASE op.do = "add" -> As("DURATION", AddDurations(duration, op.duration))
    [] op.do = "compare" -> Is("ORDER", [greater |-> DurationGreater(duration, op.duration),
                                         less |-> DurationLess(duration, op.duration)])

Result(op, v) ==
  CASE op.on = "DATE" -> OnDate(op, v)
    [] op.on = "TIME" -> OnTime(op, v)
    [] op.on = "TIMESTAMP" -> OnStamp(op, v)
    [] op.on = "DURATION" -> OnDuration(op, v)
-----------------------------------------------------------------------------
(* A value that the callbacks got; a duration is made of its parts.        *)
TakeValue ==
  /\ pc = "parsed" /\ file.query = "VALUES"
  /\ \E r \in DOMAIN rows : \E c \in DOMAIN rows[r] :
       rows[r][c] # NULL /\ value' = rows[r][c]
  /\ pc' = "value"
  /\ UNCHANGED <<last, steps, text>>

MakeDuration ==
  /\ pc = "parsed" /\ file.query = "VALUES"
  /\ \E op \in Operations : op.on = "DURATION" /\ op.do = "add" /\ value' = Value("DURATION", op.duration)
  /\ pc' = "value"
  /\ UNCHANGED <<last, steps, text>>

Operate ==
  /\ pc = "value" /\ steps < MaxOperations
  /\ \E op \in Operations :
       /\ op.on = value[1]
       /\ \E results \in {Result(op, value[2])} :
            /\ value' \in IF results = Thrown THEN {value} ELSE results
            /\ last' = [op |-> op, from |-> value, threw |-> results = Thrown]
  /\ steps' = steps + 1
  /\ UNCHANGED <<text, pc>>

Write ==
  /\ pc = "value" /\ value[1] \in {"DATE", "TIME", "TIMESTAMP"}
  /\ \E format \in Formats :
       text' = [format |-> format, written |-> Format(value[1], value[2], format), read |-> Thrown]
  /\ pc' = "written"
  /\ UNCHANGED <<value, last, steps>>

(* A cast or a comparison reads the text (dateFromString() and its like).  *)
Read ==
  /\ pc = "written" /\ text.written # Thrown
  /\ text' = [text EXCEPT !.read = UNION {FromString(value[1], t) : t \in text.written}]
  /\ pc' = "read"
  /\ UNCHANGED <<value, last, steps>>

UseValues == TakeValue \/ MakeDuration \/ Operate \/ Write \/ Read
-----------------------------------------------------------------------------
(* The calendar as it is meant, without the numbers of days.               *)
LengthOf(year, month) ==
  CASE month \in {4, 6, 9, 11} -> 30
    [] month = 2 -> IF year % 400 = 0 \/ (year % 4 = 0 /\ year % 100 # 0) THEN 29 ELSE 28
    [] OTHER -> 31
DayAfter(p) ==
  IF p.day < LengthOf(p.year, p.month) THEN [p EXCEPT !.day = @ + 1]
  ELSE IF p.month < 12 THEN [p EXCEPT !.day = 1, !.month = @ + 1]
  ELSE [p EXCEPT !.day = 1, !.month = 1, !.year = @ + 1]

FirstDay == 1721060        \* 0000-01-01
LastDay == 5373484         \* 9999-12-31
Saturday2000 == 2451545    \* 2000-01-01

(* The week of a day, after ISO 8601, is counted by its Thursdays.         *)
ThursdayOf(date) == date - ((date - Saturday2000 + 5) % 7) + 3
WeekMeant(date) ==
  LET thursday == ThursdayOf(date)
      year == calcFromJulDay(thursday).year
  IN  (thursday - calcJulDay(year, 1, 1)) \div 7 + 1

(* Every day that an operation reaches has the parts that follow those of  *)
(* the day before, back from them comes the same day, and its weekday, its *)
(* place in the year and its week are those of the calendar (Date,         *)
(* base/date.cpp:255-310).                                                 *)
InCalendar(date) == FirstDay < date /\ date <= LastDay
CalendarKept ==
  value[1] = "DATE" /\ InCalendar(value[2]) =>
    LET date == value[2]
        p == calcFromJulDay(date)
    IN  /\ p = DayAfter(calcFromJulDay(date - 1))
        /\ DateOf(p.year, p.month, p.day) = {date}
        /\ dayOfWeek(date) = (date - Saturday2000 + 6) % 7
        /\ dayOfYear(date) = date - calcJulDay(p.year, 1, 1) + 1
        /\ date > FirstDay + 10 /\ date < LastDay - 10 => weekOfYear(date) = WeekMeant(date)
-----------------------------------------------------------------------------
(* What an operation is meant to do, told without the code's own steps.    *)
MonthsOf(p, d) == 12 * (p.year + Signed(d, "years")) + p.month - 1 + Signed(d, "months")
SecondsOf(d) == Signed(d, "hours") * 3600 + Signed(d, "minutes") * 60 + Signed(d, "seconds")

(* The month is moved and the day kept within it; the rest is counted in   *)
(* seconds from there.  Two exceptions are the code's: a day before the    *)
(* first of January of the year that was reached, and a year beyond 9999.  *)
Least(a, b) == IF a < b THEN a ELSE b
DurationMeant(p, time, d) ==
  LET year == MonthsOf(p, d) \div 12
      month == (MonthsOf(p, d) % 12) + 1
      Carry == (time + 1000 * SecondsOf(d)) \div MillisecondsPerDay
      Days == Least(p.day, LengthOf(year, month)) + Signed(d, "days") + Carry - 1
      reached == {date \in {calcJulDay(year, month, 1) + Days} : date <= LastDay /\ date >= calcJulDay(year, 1, 1)}
  IN  IF year \notin 0 .. 9999 THEN Thrown
      ELSE {Stamp(date, (time + 1000 * SecondsOf(d)) % MillisecondsPerDay) : date \in reached}

PartsMeant(p) ==
  /\ p.year \in 0 .. 9999 /\ p.month \in 1 .. 12 /\ p.day \in 1 .. LengthOf(p.year, p.month)
  /\ p.hour \in 0 .. 23 /\ p.minute \in 0 .. 59 /\ p.second \in 0 .. 59 /\ p.millisecond \in 0 .. 999

StampOf(v) ==
  CASE v[1] = "DATE" -> Stamp(v[2], 0)
    [] v[1] = "TIME" -> Stamp(FirstDay, v[2])
    [] v[1] = "TIMESTAMP" -> v[2]

AddedAsMeant(op, from, to) ==
  \A p \in {calcFromJulDay(StampOf(from).date)} :
    \A meant \in {DurationMeant(p, StampOf(from).time, op.duration)} :
      /\ last.threw <=> meant = Thrown
      /\ \A m \in meant : to = IF from[1] = "DATE" THEN Value("DATE", m.date) ELSE Value("TIMESTAMP", m)
SetAsMeant(op, from, to) ==
  \A meant \in {[Parts(StampOf(from)) EXCEPT ![op.part] = op.n]} :
    IF last.threw THEN ~ PartsMeant(meant) ELSE PartsMeant(meant) /\ Parts(StampOf(to)) = meant

(* The time of a day goes round; a duration moves it forward whatever its  *)
(* sign.  A time that a number below 0 was accepted for stays below 0 if   *)
(* nothing moves it.                                                       *)
Forward(op) ==
  IF op.do = "addSeconds" THEN op.n
  ELSE op.duration.hours * 3600 + op.duration.minutes * 60 + op.duration.seconds
TimeAsMeant(op, from, to) ==
  LET added == addSeconds(from[2], Forward(op))
  IN  /\ to[2] = IF Forward(op) = 0 THEN from[2]
                 ELSE (from[2] + 1000 * Forward(op)) % MillisecondsPerDay
      /\ added.days * MillisecondsPerDay + added.time = from[2] + 1000 * Forward(op)

(* A number below 0 is a time if its hours, cut to a byte, are; it is then *)
(* the timestamp of these hours.                                           *)
HoursCut(n) == (n \div 3600000) % 256
NumberAsMeant(n, accepted) ==
  accepted <=> \/ n \in 0 .. MillisecondsPerDay - 1
               \/ n < 0 /\ n % 3600000 = 0 /\ HoursCut(n) <= 23
MomentAsMeant(from, to) ==
  ~ last.threw /\ to[2].time = IF from[2] < 0 THEN HoursCut(from[2]) * 3600000 ELSE from[2]

(* Of two durations with one sign exactly one is greater, or they are      *)
(* equal; with two signs the positive one is greater, and may be less too. *)
ComparedAsMeant(d, e, order) ==
  /\ order.greater = DurationLess(e, d) /\ order.less = DurationGreater(e, d)
  /\ IF d.sign = e.sign THEN (order.greater <=> ~ order.less /\ d # e) /\ (d = e => ~ order.less)
     ELSE IF d.sign = "positive" THEN order.greater ELSE order.less

(* A new time, timestamp or duration has the parts that the operation      *)
(* gives it, and an exception leaves the value as it was: months are added *)
(* with the day kept in the month, what is below a month is carried up,    *)
(* and only a result outside the years 0 to 9999, or one reached by days   *)
(* back across January 1, throws (Date::addDuration(), base/date.cpp:322,  *)
(* Time::addSeconds(), base/time.cpp:281, Duration, base/duration.cpp:113).*)
(* All days that are reached are days of the calendar.                     *)
OperationsByMeaning ==
  /\ CalendarKept
  /\ last.op.on # "NONE" =>
       LET op == last.op
       IN  /\ last.threw => value = last.from
           /\ op.do = "addDuration" /\ op.on # "TIME" /\ InCalendar(StampOf(last.from).date)
                 => AddedAsMeant(op, last.from, value)
           /\ op.do = "set" /\ InCalendar(StampOf(last.from).date + 1)
                 => SetAsMeant(op, last.from, value)
           /\ op.on = "TIME" /\ op.do \in {"addSeconds", "addDuration"}
                 => TimeAsMeant(op, last.from, value)
           /\ op.do = "ofNumber" => NumberAsMeant(last.from[2] + op.n, ~ last.threw)
           /\ op.on = "TIME" /\ op.do = "toTimestamp" => MomentAsMeant(last.from, value)
           /\ op.do = "compare" => ComparedAsMeant(last.from[2], op.duration, value[2])
           /\ op.do = "add" => last.threw = (last.from[2].sign # op.duration.sign)
           /\ op.do = "addDays" => value[2] - last.from[2] = op.n

(* What is written with the parts of a value in their places reads back as *)
(* the value without its milliseconds, but for the years 10, 100 and 1000, *)
(* which the shorthand of a date shifts, for years of more than four       *)
(* digits, and for numbers below 0 that a time was made of                 *)
(* (Date::format(), base/date.cpp:445, base/time_helper.cpp:80).           *)
Shorthand == Text("%F")
Whole ==
  [DATE |-> {Shorthand, Text("%Y-%m-%d")},
   TIME |-> {Text("%X"), Text("%H:%M:%S")},
   TIMESTAMP |-> {Shorthand, Text("%Y-%m-%d %H:%M:%S")}]
WithoutMilliseconds(v) ==
  CASE v[1] = "DATE" -> v[2]
    [] v[1] = "TIME" -> v[2] - (v[2] % 1000)
    [] v[1] = "TIMESTAMP" -> Stamp(v[2].date, v[2].time - (v[2].time % 1000))
MomentsReadBack ==
  pc = "read" /\ text.format \in Whole[value[1]] =>
    LET year == Parts(StampOf(value)).year
    IN  \/ text.read = {WithoutMilliseconds(value)}
        \/ year > 9999 \/ (value[1] = "TIME" /\ value[2] < 0)
        \/ text.format = Shorthand /\ year \in {10, 100, 1000}
=============================================================================
