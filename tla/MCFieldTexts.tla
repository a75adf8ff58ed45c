---------------------------- MODULE MCFieldTexts ----------------------------
(***************************************************************************)
(* Files, patterns, operations, tables and mappings for the model checking *)
(* of Texts.  With buffers of 8 characters every place of a line comes to  *)
(* the end of a buffer in some file.                                       *)
(***************************************************************************)
EXTENDS FieldTexts

(* A field is its text and the set of its values.                          *)
F(s, values) == [text |-> Text(s), is |-> values]
Bad(s) == F(s, {})
Empty == F("", {NULL})
L(s, n) == F(s, {Value("LONG", n)})
S(s, meant) == F(s, {Value("STRING", Text(meant))})
Plainly(s) == S(s, s)
B(s, v) == F(s, {Value("BOOLEAN", v)})
R(s) == F(s, {Value("DOUBLE", Text(s))})
D(s, date) == F(s, {Value("DATE", date)})
T(s, time) == F(s, {Value("TIME", time)})
TS(s, date, time) == F(s, {Value("TIMESTAMP", Stamp(date, time))})

Comma == 44
LineText(line) ==
  FlattenSeq([c \in DOMAIN line |-> (IF c = 1 THEN <<>> ELSE <<Comma>>) \o line[c].text])
Bytes(header, lines, end, closed) ==
  header \o end \o FlattenSeq([l \in DOMAIN lines |->
     LineText(lines[l]) \o (IF l < Len(lines) \/ closed THEN end ELSE <<>>)])
File(query, types, header, lines, end, closed) ==
  [query |-> query, types |-> types, blank |-> \E l \in DOMAIN lines : LineText(lines[l]) = <<>>,
   bytes |-> Bytes(header, lines, end, closed),
   lines |-> [l \in DOMAIN lines |-> [c \in DOMAIN lines[l] |-> lines[l][c].is]]]

LF == <<NewLine>>
CRLF == <<Return, NewLine>>
Headers == {Text("h"), Text("hh"), Text("hhh"), Text("hhhhhh")}

(* Two columns, a number and a string.                                     *)
TwoTypes == <<"LONG", "STRING">>
Pairs ==
  {<<<<L("12", 12), Plainly("ab")>>, <<L("-3", -3), S("\"x,y\"", "x,y")>>, <<Empty, Empty>>>>,
   <<<<L("+7", 7), S("'a''b'", "a'b")>>, <<L("0", 0), S("\"q\"\"q\"", "q\"q")>>>>,
   <<<<L("1", 1), F(" a", {Value("STRING", Text("a"))})>>, <<L("2", 2), Plainly("a b")>>, <<L("3", 3), Empty>>>>,
   <<<<L("1", 1), F("  ", {NULL})>>, <<L("44", 44), S("'\"'", "\"")>>>>}
Wrong ==
  {<<<<Bad("1x2"), Plainly("a")>>, <<L("5", 5), Plainly("b")>>>>,
   <<<<Bad("abc"), Plainly("a")>>, <<L("5", 5), Plainly("b")>>>>,
   <<<<L("1", 1), Bad("\"ab")>>, <<L("5", 5), Plainly("b")>>>>,
   <<<<L("1", 1), Bad("\"a\"b")>>, <<L("5", 5), Plainly("b")>>>>,
   <<<<Bad("-"), Plainly("a")>>, <<L("5", 5), Plainly("b")>>>>,
   <<<<L("1", 1)>>, <<L("5", 5), Plainly("b")>>>>,
   <<<<L("1", 1), Plainly("a"), Plainly("c")>>, <<L("5", 5), Plainly("b")>>>>,
   <<<<L("1", 1), Plainly("abcdefghijklmnopqrstuvwx")>>, <<L("5", 5), Plainly("b")>>>>,
   <<<<L("1", 1), Plainly("abcdefghijklmnopqrstuvwxyz")>>, <<L("5", 5), Plainly("b")>>>>,
   <<<<L("1", 1), Plainly("a")>>, <<>>, <<L("5", 5), Plainly("b")>>>>,
   <<<<L("1", 1), Bad("'a'\"")>>, <<L("5", 5), Plainly("b")>>>>}

(* Strings first, so that what follows a string in error is read as one.   *)
Shifted == {<<<<Bad("'a"), L("1", 1)>>, <<Plainly("b"), L("5", 5)>>>>,
            <<<<Bad("'a'x"), L("1", 1)>>, <<Plainly("b"), L("5", 5)>>>>}

Booleans == {<<<<B("1", TRUE), R("1.5")>>, <<B("0", FALSE), Empty>>, <<Empty, R("2")>>>>,
             <<<<Bad("12"), R("1")>>, <<B("1", TRUE), R("3")>>>>,
             <<<<Bad("t"), R("1")>>, <<B("1", TRUE), R("3")>>>>}

Moments == {<<<<D("2000-02-29", 2451604), T("23:59:59", 86399000)>>, <<Empty, Empty>>,
              <<Bad("2000-2-29"), T("00:00:00", 0)>>, <<Bad("1970-09-5"), Bad("1:2:3")>>,
              <<Bad("2001-02-29"), T("01:02:03", 3723000)>>>>,
            <<<<Bad("1970-01-01 and much more"), T("01:02:03", 3723000)>>>>}
StampLines == {<<<<TS("1999-12-31T23:59:59", 2451544, 86399000)>>, <<TS("2000-01-01 00:00:00", 2451545, 0)>>,
             <<Bad("2000-01-01x00:00:00")>>, <<Bad("2000-01-01")>>>>,
           <<<<Empty>>, <<TS("2000-01-01 00:00:00", 2451545, 0)>>>>}

Ends == {LF, CRLF}
NoQuery(types, lines) ==
  {File("NONE", types, h, ls, end, closed) : h \in Headers, ls \in lines, end \in Ends, closed \in BOOLEAN}
ShortHeader(types, lines) ==
  {File("NONE", types, Text("h"), ls, end, closed) : ls \in lines, end \in Ends, closed \in BOOLEAN}

HeaderOnly ==
  {File("NONE", TwoTypes, Text("h"), <<>>, LF, TRUE),
   [query |-> "NONE", types |-> TwoTypes, blank |-> FALSE, bytes |-> Text("h"), lines |-> <<>>]}

Strings == <<"a", "b", "aa", "ab", "ba", "abb", "c">>
LikeFile ==
  File("LIKE", <<"STRING">>, Text("h"),
       [i \in DOMAIN Strings |-> <<Plainly(Strings[i])>>], LF, TRUE)
ValueFiles ==
  {File("VALUES", <<"DATE", "TIME">>, Text("h"),
        <<<<D("2000-01-31", 2451575), T("23:59:59", 86399000)>>,
          <<D("1999-12-31", 2451544), T("00:00:00", 0)>>,
          <<D("0010-03-01", 1724772), T("12:30:00", 45000000)>>,
          <<D("9999-12-31", 5373484), Empty>>>>, LF, TRUE),
   File("VALUES", <<"TIMESTAMP">>, Text("h"),
        <<<<TS("2000-02-29 12:00:00", 2451604, 43200000)>>, <<TS("0100-12-31 23:59:59", 1757949, 86399000)>>>>, LF, TRUE)}

AllFiles ==
  NoQuery(TwoTypes, Pairs) \cup ShortHeader(TwoTypes, Wrong) \cup ShortHeader(<<"STRING", "LONG">>, Shifted)
  \cup ShortHeader(<<"BOOLEAN", "DOUBLE">>, Booleans) \cup ShortHeader(<<"DATE", "TIME">>, Moments)
  \cup ShortHeader(<<"TIMESTAMP">>, StampLines) \cup HeaderOnly \cup {LikeFile} \cup ValueFiles
-----------------------------------------------------------------------------
(* Patterns.                                                               *)
Op(s, kind) == [text |-> Text(s), kind |-> kind, means |-> {}, odd |-> FALSE]
Part(s, means) == [text |-> Text(s), kind |-> "SINGLE", means |-> means, odd |-> FALSE]
OddOne(s, means) == [Part(s, means) EXCEPT !.odd = TRUE]
Broken(s) == Op(s, "BROKEN")
Chars(s) == {Text(s)[i] : i \in DOMAIN Text(s)}
Letters == Chars("abc")

Core == {Part("a", Chars("a")), Part("b", Chars("b")), Op("*", "STAR"), Op("+", "PLUS"),
         Op("?", "QUEST"), Op("|", "PIPE"), Op("(", "LPAREN"), Op(")", "RPAREN")}
Sets == {Part("[ab]", Chars("ab")), Part("[b-c]", Chars("bc")), Part("[^b]", Chars("ac")),
         Part("[-a]", Chars("-a")), Part("[a-]", Chars("-a")), Part("[\\]a]", Chars("]a")),
         Part("[^-a]", Chars("bc")), Part(".", Letters), Part("\\w", Letters), Part("\\d", {}),
         Part("\\s", {}), Part("\\.", Chars(".")), Part("\\a", Chars("a")),
         OddOne("[ab-c]", Chars("abc")), OddOne("[R-T]", Chars("RST")), OddOne("[Ra]", Chars("Ra")),
         OddOne("[a\\b]", Chars("ab")), OddOne("[]", {}),
         Broken("["), Broken("[a"), Broken("[a-"), Broken("\\"), Broken("]"), Broken("^")}
Texts(alphabet, n) == UNION {[1 .. k -> alphabet] : k \in 0 .. n}
Star == Op("*", "STAR")
Longer ==
  LET a == Part("a", Chars("a"))
      b == Part("b", Chars("b"))
      open == Op("(", "LPAREN")
      close == Op(")", "RPAREN")
      bar == Op("|", "PIPE")
      plus == Op("+", "PLUS")
      quest == Op("?", "QUEST")
  IN  {<<open, a, bar, b, close, c>> : c \in {Star, plus, quest}}
      \cup {<<open, a, d, close, c>> : c \in {Star, plus, quest}, d \in {Star, plus, quest}}
      \cup {<<open, a, bar, b, close, Star, b>>, <<a, open, a, bar, b, close, quest, b>>,
            <<open, a, close, bar, b, Star, a>>, <<a, b, bar, b, a>>, <<open, open, a, close, b, close>>,
            <<open, a, Star, b, Star, close, Star>>, <<a, open, b, quest, close, Star>>,
            <<open, a, bar, a, close, Star, b>>, <<open, a, b, close, quest, a>>}
AllPatterns ==
  Texts(Core, 4) \cup Longer \cup {<<s>> : s \in Sets} \cup {<<s, Star>> : s \in Sets}
  \cup {<<s, t>> : s \in Sets, t \in Sets}
-----------------------------------------------------------------------------
(* Operations.                                                             *)
Du(y, mo, d, h, mi, s, sign) ==
  [years |-> y, months |-> mo, days |-> d, hours |-> h, minutes |-> mi, seconds |-> s, sign |-> sign]
Durations ==
  {Du(0, 1, 0, 0, 0, 0, "positive"), Du(0, 1, 0, 0, 0, 0, "negative"), Du(0, 13, 30, 0, 0, 0, "positive"),
   Du(0, 0, 40, 0, 0, 0, "negative"), Du(1, 0, 0, 0, 0, 1, "positive"), Du(0, 0, 0, 25, 61, 61, "negative"),
   Du(400, 0, 400, 0, 0, 0, "positive"), Du(2000, 0, 0, 0, 0, 0, "negative"), Du(0, 0, 0, 0, 0, 0, "positive"),
   Du(0, 65535, 0, 0, 0, 0, "positive")}
On(type, do) == [on |-> type, do |-> do]
Timed == {"DATE", "TIME", "TIMESTAMP"}
AllOperations ==
  {On("DATE", "addDays") @@ [n |-> n] : n \in {1, -1, 59, -366, 32767}}
  \cup {On(type, "addDuration") @@ [duration |-> d] : type \in Timed, d \in Durations}
  \cup {On("DATE", "set") @@ [part |-> p, n |-> n] : p \in {"year", "month", "day"}, n \in {0, 2, 4, 31, 1900, 10000}}
  \cup {On("TIMESTAMP", "set") @@ [part |-> p, n |-> n] :
          p \in {"year", "month", "day", "hour", "minute", "second", "millisecond"}, n \in {0, 12, 59, 999}}
  \cup {On("TIME", "set") @@ [part |-> p, n |-> n] :
          p \in {"hour", "minute", "second", "millisecond"}, n \in {0, 12, 24, 60, 999}}
  \cup {On("TIME", "addSeconds") @@ [n |-> n] : n \in {1, -1, 86400, -90000, 100}}
  \cup {On("TIME", "ofNumber") @@ [n |-> n] : n \in {0, 1, -86400000, -921600000, -838800000, 86400000}}
  \cup {On("DATE", "toTimestamp"), On("TIME", "toTimestamp")}
  \cup {On("TIMESTAMP", "minus") @@ [stamp |-> Stamp(2451545, 1)]}
  \cup {On("TIMESTAMP", "extract") @@ [n |-> n] : n \in 0 .. 7}
  \cup {On("DURATION", do) @@ [duration |-> d] : do \in {"add", "compare"}, d \in Durations}

AllFormats ==
  {Text("%F"), Text("%Y-%m-%d"), Text("%X"), Text("%H:%M:%S"), Text("%Y-%m-%d %H:%M:%S"),
   Text("%j/%U/%w %s"), Text("%I%p%%"), Text("%")}
-----------------------------------------------------------------------------
(* Statements of the catalog, with defaults, checks, patterns and          *)
(* delimiters that hold quotes and backslashes, and pieces of JSON.        *)
Column(name, type, default, check) ==
  [name |-> Text(name), type |-> type, primaryKey |-> FALSE, notNull |-> TRUE, unique |-> FALSE,
   default |-> default, check |-> Text(check), length |-> 10]
Keys(primary, unique, check) ==
  [primaryKeys |-> primary, uniqueKeys |-> unique, check |-> Text(check)]
Table(columns, constraints) == [name |-> Text("T1"), columns |-> columns, constraints |-> constraints]
Defaults == {{}, {Text("")}, {Text("ab")}, {Text("a\"b")}, {Text("a\\nb")}, {Text("a\\")}, {Text("\\\\")}}
AllTables ==
  {Table(<<Column("A", "STRING", d, "")>>, <<>>) : d \in Defaults}
  \cup {Table(<<Column("A", "INT", {}, c), Column("B", "INT", {}, "")>>,
              <<Keys(<<Text("A"), Text("B")>>, <<>>, ""), Keys(<<>>, <<Text("B")>>, "A > B")>>) :
          c \in {"A > 1", "B = 'x\"'", "B = '\\d'"}}
  \cup {Table(<<Column("A", "INT", {Text("1")}, "")>>, <<>>)}

OneMapping(pattern, delimiter) ==
  [pattern |-> Text(pattern), delimiter |-> Text(delimiter)[1], skipFirstLine |-> TRUE]
AllMappings ==
  {[name |-> Text(name), mappings |-> <<OneMapping(pattern, delimiter)>>] :
     name \in {"t_X", "T1"}, pattern \in {"a.csv", "\\d*.csv", "a->b", "a\"b"}, delimiter \in {",", "\"", "\\"}}

AllPieces ==
  {Text(s) : s \in {"{", "}", "[", "]", ":", ",", "\"a\"", "\"b\"", "1", "null", "-", "-0", "2.5e-1", "1.",
                    "\"\\n", "\"\\x\"", "tru"}}
  \cup {<<EndMark>>}
=============================================================================
