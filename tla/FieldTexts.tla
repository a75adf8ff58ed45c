----------------------------- MODULE FieldTexts ------------------------------
(***************************************************************************)
(* The texts that the database reads and writes: the patterns of LIKE, the *)
(* fields of csv files and what the expressions make of them, and, with    *)
(* CatalogFiles, the JSON files of the catalog.                            *)
(***************************************************************************)
EXTENDS Characters, FiniteSets, SequencesExt, CsvText, CatalogFiles

(***************************************************************************)
(* RegExp (base/regexp.cpp), the patterns of LIKE: the lexer, the parser,  *)
(* which builds the states of an automaton while it reads, and the steps   *)
(* of the automaton on the characters of a string.                         *)
(***************************************************************************)
Between(c, low, high) == Code[low] <= c /\ c <= Code[high]
Alphanumeric == {c \in 0 .. 127 : Between(c, "0", "9") \/ Between(c, "A", "Z") \/ Between(c, "a", "z")}
-----------------------------------------------------------------------------
(* Lexer.  A parser is at a place of the pattern; behind the last          *)
(* character there is NUL.                                                 *)
At(pattern, i) == IF i <= Len(pattern) THEN pattern[i] ELSE NUL
Rest(pattern, i) == SubSeq(pattern, i, Len(pattern))

NoSet == [negate |-> FALSE, groups |-> <<>>]
Token(kind, c) == [kind |-> kind, c |-> c, set |-> NoSet]
Invalid == Token("INVALID", NUL)

Operator == [o \in {"*", "+", "|", "?", "(", ")"} |->
  CASE o = "*" -> "STAR" [] o = "+" -> "PLUS" [] o = "|" -> "PIPE"
    [] o = "?" -> "QUEST" [] o = "(" -> "LPAREN" [] o = ")" -> "RPAREN"]
Punctuation == ToSet(Text(" !\"#$%&',-/:;<=>@_{}~")) \cup {GraveAccent}
TokenOf ==
  [c \in 0 .. 127 |->
     IF \E o \in DOMAIN Operator : Code[o] = c
     THEN Token(Operator[CHOOSE o \in DOMAIN Operator : Code[o] = c], c)
     ELSE IF c \in Alphanumeric \cup Punctuation THEN Token("CHAR", c)
     ELSE IF c = Code["."] THEN Token("CHARCLASS", c)
     ELSE IF c = NUL THEN Token("EOP", NUL) ELSE Invalid]
Escaped ==
  [c \in 0 .. 127 |->
     IF c = Code["w"] THEN Token("CHARCLASS", Code["W"])
     ELSE IF c = Code["d"] THEN Token("CHARCLASS", Code["D"])
     ELSE IF c = Code["s"] THEN Token("CHARCLASS", Code["S"])
     ELSE Token("CHAR", c)]

(* CharacterSetParser::findSets(): characters are taken in pairs, or in    *)
(* threes with a minus; only the first of a pair may be escaped.  What is  *)
(* returned are the groups, and the characters behind the closing bracket: *)
(* all of them, an empty set if it is missing.                             *)
Backslash == Code["\\"]
Closing == Code["]"]
Found(groups, s, n) == {[set |-> groups, behind |-> Rest(s, n)]}
RECURSIVE findSets(_, _, _, _)
findSets(s, escaped, group, groups) ==
  IF s = <<>> THEN {}
  ELSE IF ~ escaped /\ s[1] = Closing THEN Found(Append(groups, group), s, 2)
  ELSE IF ~ escaped /\ s[1] = Backslash THEN findSets(Tail(s), TRUE, group, groups)
  ELSE IF At(s, 2) = Minus /\ At(s, 3) = Closing THEN Found(Append(groups, group \o <<s[1], Minus>>), s, 4)
  ELSE IF At(s, 2) = Minus THEN findSets(Rest(s, 4), FALSE, group, Append(groups, <<Code["R"], s[1], At(s, 3)>>))
  ELSE IF At(s, 2) = Closing THEN Found(Append(groups, Append(group, s[1])), s, 3)
  ELSE findSets(Rest(s, 3), FALSE, group \o SubSeq(s, 1, 2), groups)

(* parse(): a caret, a minus, and the groups.                              *)
AfterMinus(s) ==
  IF At(s, 1) = Minus THEN findSets(Tail(s), FALSE, <<>>, <<<<Minus>>>>) ELSE findSets(s, FALSE, <<>>, <<>>)
CharacterSet(s) ==
  LET negate == At(s, 1) = Code["^"]
  IN  {[set |-> [negate |-> negate, groups |-> f.set], behind |-> f.behind]
       : f \in AfterMinus(IF negate THEN Tail(s) ELSE s)}

(* nextToken(): the token, with the characters behind it.                  *)
Lexed(token, behind) == [token |-> token, behind |-> behind]
nextToken(s) ==
  IF At(s, 1) = Backslash /\ Len(s) > 1 THEN {Lexed(Escaped[s[2]], Rest(s, 3))}
  ELSE IF At(s, 1) = Code["["]
  THEN {Lexed([Token("CHARSET", NUL) EXCEPT !.set = f.set], f.behind) : f \in CharacterSet(Tail(s))}
  ELSE {Lexed(TokenOf[At(s, 1)], Rest(s, 2))} \ {Lexed(Invalid, Rest(s, 2))}
-----------------------------------------------------------------------------
(* Parser.  The states of the automaton are a sequence, a pointer to a     *)
(* state is its place, 0 the null pointer.  expression() and factor() call *)
(* each other: a parser keeps the calls that wait on a stack, each with    *)
(* its state; now is the part of expression() that comes next, and state   *)
(* the state that it has or that a call returned.                          *)
State(on, out1, out2, end) == [on |-> on, out1 |-> out1, out2 |-> out2, end |-> end]
Final == State(Token("FINAL", NUL), 0, 0, 0)
Epsilon == Token("EPSILON", NUL)

Parser(s) ==
  [behind |-> s, token |-> Epsilon, states |-> <<>>, state |-> 0,
   stack |-> <<>>, now |-> "start", fault |-> "none"]

Throws(p) == [p EXCEPT !.fault = "invalid expression"]
Crash(p) == [p EXCEPT !.fault = "null pointer"]
Advance(p, now) ==
  LET next == nextToken(p.behind)
  IN  IF next = {} THEN Throws(p)
      ELSE CHOOSE q \in {[p EXCEPT !.token = t.token, !.behind = t.behind, !.now = now] : t \in next} : TRUE
Call(p, from) == [p EXCEPT !.stack = Append(@, [from |-> from, state |-> p.state]), !.now = "factor"]
To(p, now) == [p EXCEPT !.now = now]

(* Two states more: a final one, and one that leads into what there is.    *)
NextFinal(p) == Len(p.states) + 1
Extended(p, on, out1, out2) ==
  [p EXCEPT !.states = @ \o <<Final, State(on, out1, out2, NextFinal(p))>>,
            !.state = NextFinal(p) + 1]

(* The end of a state leads on: setAccept().                               *)
Leads(states, from, out1, out2) ==
  [states EXCEPT ![states[from].end] = [@ EXCEPT !.on = Epsilon, !.out1 = out1, !.out2 = out2]]

(* What could go wrong, for the runs that test the properties: the right   *)
(* side of an alternative is not led to the common end.                    *)
LostAlternative(p, left) ==
  IF left = 0 \/ p.state = 0 THEN Crash(p)
  ELSE [Extended(p, Epsilon, left, p.state) EXCEPT !.states = Leads(@, left, NextFinal(p), 0)]

Alternative(p, left) ==
  IF left = 0 \/ p.state = 0 THEN Crash(p)
  ELSE [Extended(p, Epsilon, left, p.state) EXCEPT
          !.states = Leads(Leads(@, left, NextFinal(p), 0), p.state, NextFinal(p), 0)]

(* STAR may skip the state and comes back to it, PLUS only comes back,     *)
(* QUEST only skips it.                                                    *)
Repeated(p, kind) ==
  IF p.state = 0 THEN Crash(p)
  ELSE [Extended(p, Epsilon, p.state, IF kind = "PLUS" THEN 0 ELSE NextFinal(p)) EXCEPT
          !.states = IF kind = "QUEST" THEN Leads(@, p.state, NextFinal(p), 0)
                     ELSE Leads(@, p.state, p.state, NextFinal(p))]

Followed(p, left) ==
  IF left = 0 \/ p.state = 0 THEN Crash(p)
  ELSE [p EXCEPT !.states = [Leads(@, left, p.state, 0) EXCEPT ![left].end = p.states[p.state].end],
                 !.state = left]

Singles == {"CHAR", "CHARCLASS", "CHARSET"}
Closures == {"STAR", "PLUS", "QUEST"}

(* factor(): a group is an expression of its own.                          *)
Factor(p) ==
  IF p.token.kind = "LPAREN" THEN Advance(Call(p, "group"), "factor")
  ELSE IF p.token.kind \in Singles THEN Advance(Extended(p, p.token, NextFinal(p), 0), "alternative")
  ELSE [p EXCEPT !.state = 0, !.now = "alternative"]

(* expression(): an alternative, a closure, and what follows.              *)
MaybeAlternative(p) ==
  IF p.token.kind = "PIPE" THEN Advance(Call(p, "alternative"), "factor") ELSE To(p, "closure")
MaybeClosure(p) ==
  IF p.token.kind \in Closures THEN Advance(p, p.token.kind) ELSE To(p, "rest")
MaybeRest(p) ==
  IF p.token.kind \in {"RPAREN", "EOP"} THEN To(p, "return") ELSE Call(p, "rest")

(* What waits goes on with the state that was returned.                    *)
ReturnTo(p, frame) ==
  CASE frame.from = "group" -> IF p.token.kind = "RPAREN" THEN Advance(p, "alternative") ELSE Throws(p)
    [] frame.from = "alternative" -> To(Alternative(p, frame.state), "closure")
    [] frame.from = "rest" -> To(Followed(p, frame.state), "return")
BackTo(p) ==
  IF p.stack = <<>> THEN To(p, "compiled")
  ELSE ReturnTo([p EXCEPT !.stack = Front(@)], Last(p.stack))

(* A step of parse().                                                      *)
Parsed(p) ==
  CASE p.now = "start" -> Advance(p, "factor")
    [] p.now = "factor" -> Factor(p)
    [] p.now = "alternative" -> MaybeAlternative(p)
    [] p.now = "closure" -> MaybeClosure(p)
    [] p.now \in Closures -> To(Repeated(p, p.now), "rest")
    [] p.now = "rest" -> MaybeRest(p)
    [] p.now = "return" -> BackTo(p)
-----------------------------------------------------------------------------
(* match(): eClosure() of a state, without the states that only lead on.   *)
(* Where it comes back to itself, it never returns.                        *)
Endless == 0
RECURSIVE eClosure(_, _, _)
eClosure(states, s, path) ==
  IF s = 0 THEN <<>>
  ELSE IF s \in path THEN <<Endless>>
  ELSE IF states[s].on # Epsilon THEN <<s>>
  ELSE eClosure(states, states[s].out1, path \cup {s}) \o eClosure(states, states[s].out2, path \cup {s})

InGroup(c, group) ==
  IF group # <<>> /\ group[1] = Code["R"] THEN At(group, 2) <= c /\ c <= At(group, 3)
  ELSE c \in ToSet(group)
Class(c, w) ==
  CASE w = Code["."] -> TRUE
    [] w = Code["W"] -> c \in Alphanumeric
    [] w = Code["D"] -> IsDigit(c)
    [] w = Code["S"] -> c \in {Space, Tab, Return, NewLine}
Matches(on, c) ==
  CASE on.kind = "CHAR" -> c = on.c
    [] on.kind = "CHARCLASS" -> Class(c, on.c)
    [] on.kind = "CHARSET" -> on.set.negate # (\E g \in ToSet(on.set.groups) : InGroup(c, g))
    [] on.kind = "FINAL" -> FALSE

(* The states to work on before the first character, and behind another;   *)
(* a state that is reached twice is in them twice.                         *)
Started(p) == eClosure(p.states, p.state, {})
After(p, work, c) ==
  LET matching == SelectSeq(work, LAMBDA s : Matches(p.states[s].on, c))
  IN  FlattenSeq([i \in DOMAIN matching |-> eClosure(p.states, p.states[matching[i]].out1, {})])
Accepts(p, work) == \E s \in ToSet(work) : p.states[s].on.kind = "FINAL"
-----------------------------------------------------------------------------
(***************************************************************************)
(* The text of a field from the file to the expressions of a statement: a  *)
(* file is parsed (CsvText), and the values of its rows are matched with   *)
(* the pattern of a LIKE (csvsqldb/visitor.h:154) or go through the        *)
(* operations on dates and times (CsvText).                                *)
(***************************************************************************)
CONSTANT Patterns       \* the patterns: sequences of parts

(* A part is an operator, or a character, class or set with what it means: *)
(* its text, its kind, and the characters that it stands for.              *)
VARIABLES
  parts,      \* the pattern
  regexp,     \* what the pattern was compiled to
  rest,       \* the string and how many characters of it were matched
  work        \* the states that the automaton works on

likes == <<parts, regexp, rest, work>>
vars == <<csv, dates, likes>>

NoRest == [string |-> <<>>, done |-> 0]
InitLikes == parts = <<>> /\ regexp = Parser(<<>>) /\ rest = NoRest /\ work = <<>>

TextOf(pattern) == FlattenSeq([i \in DOMAIN pattern |-> pattern[i].text])

(* The compilation of the expression: new RegExp(node._like).              *)
Compile ==
  /\ pc = "parsed" /\ file.query = "LIKE"
  /\ \E pattern \in Patterns : parts' = pattern /\ regexp' = Parser(TextOf(pattern))
  /\ pc' = "compile"
  /\ UNCHANGED <<rest, work>>

ParsePattern ==
  /\ pc = "compile" /\ regexp.fault = "none"
  /\ regexp' = Parsed(regexp)
  /\ pc' = IF regexp'.now = "compiled" THEN "compiled" ELSE pc
  /\ UNCHANGED <<parts, rest, work>>

(* match() of the string of a row.                                         *)
BeginMatch ==
  /\ pc = "compiled"
  /\ \E r \in DOMAIN rows : rows[r][1] # NULL /\ rest' = [string |-> rows[r][1][2], done |-> 0]
  /\ work' = Started(regexp)
  /\ pc' = "match"
  /\ UNCHANGED <<parts, regexp>>

MatchCharacter ==
  /\ pc = "match" /\ Endless \notin ToSet(work)
  /\ rest.done < Len(rest.string)
  /\ work' = After(regexp, work, rest.string[rest.done + 1])
  /\ rest' = [rest EXCEPT !.done = @ + 1]
  /\ UNCHANGED <<parts, regexp, pc>>

MatchFields == Compile \/ ParsePattern \/ BeginMatch \/ MatchCharacter

(* Without a state, an empty pattern, only the empty string matches.       *)
matched ==
  IF regexp.states = <<>> THEN rest.string = <<>> ELSE Accepts(regexp, work)

UseFields == UseValues /\ UNCHANGED <<file, in, stringBuffer, field, typeAt, lineCount, row, rows, errors>>

FileNext == ParseFile /\ UNCHANGED <<dates, likes>>
ValueNext == UseFields /\ UNCHANGED likes
LikeNext ==
  /\ MatchFields
  /\ UNCHANGED <<file, in, stringBuffer, field, typeAt, lineCount, row, rows, errors, dates>>

FieldsInit == Init /\ InitDates /\ InitLikes
FieldsNext == FileNext \/ ValueNext \/ LikeNext
-----------------------------------------------------------------------------
(* What the file stands for.                                               *)
Lines == DOMAIN file.lines
GoodLine(l) ==
  /\ Len(file.lines[l]) = Len(file.types)
  /\ \A c \in DOMAIN file.types : file.lines[l][c] # {}
Meant(l) == [c \in DOMAIN file.types |-> CHOOSE v \in file.lines[l][c] : TRUE]

(* A last line that stops behind a delimiter has no field there, if the    *)
(* buffer holds a space from before, or the space is behind the buffer.    *)
StopsOpen == Len(file.bytes) > 0 /\ file.bytes[Len(file.bytes)] \in {Delimiter, Space}

(* Spaces behind a delimiter stay if the buffer ended between them.        *)
SpaceAtEnd ==
  \E k \in 1 .. Len(file.bytes) - 1 :
    k % BufferLength = 0 /\ file.bytes[k] = Delimiter /\ file.bytes[k + 1] = Space

(* A line that is well formed is read as what it stands for and gets no    *)
(* message, whatever is wrong with the other lines: each is delivered as a *)
(* row of its own in the order of the file, and a message names the line   *)
(* it is about.  Blank lines aside, the parser comes back at every line's  *)
(* end (CSVParser::parseLine(), base/csv_parser.cpp:67), wherever the      *)
(* buffers end.                                                            *)
LinesStandAlone ==
  pc = "parsed" /\ Lines # {} /\ ~ file.blank /\ ~ SpaceAtEnd =>
    /\ Len(rows) = Len(file.lines)
    /\ \A l \in Lines :
         GoodLine(l) /\ ~ (l = Len(file.lines) /\ StopsOpen) =>
           rows[l] = Meant(l) /\ \A e \in ToSet(errors) : e.line # l + 1
    /\ \A l \in Lines : Len(rows[l]) # Len(file.types) => \E e \in ToSet(errors) : e.line = l + 1

(* What goes wrong with a file is told by it.  A type that is not there is *)
(* read in a line that was reported for its fields; the string buffer is   *)
(* overrun only where a line is as long as it; a header without a line end *)
(* is read for ever, and a file of a header alone gives rows for ever.     *)
(* What is not reported although it is none of its type is a number, a     *)
(* date or a time, never a string or a boolean, and never too few fields   *)
(* (csvsqldb/base/csv_parser.cpp:74, :209, :307, csv_string_parser.cpp:65).*)
Reported(l) == \E e \in ToSet(errors) : e.line = l + 1
LineEnds == {k \in DOMAIN file.bytes : file.bytes[k] \in {NewLine, Return}}
LongLine ==
  \E k \in 0 .. Len(file.bytes) - StringBufferSize :
    LineEnds \cap (k + 1 .. k + StringBufferSize) = {}
ReadByPlace == {"LONG", "DOUBLE", "DATE", "TIME", "TIMESTAMP"}
CsvFilesExplained ==
  /\ pc = "type overrun" => \E l \in Lines : Reported(l) /\ ~ GoodLine(l)
  /\ pc = "string overrun" => LongLine
  /\ pc = "header" /\ in.state = "END" => LineEnds = {}
  /\ ~ file.blank /\ Len(rows) > Len(file.lines) => Lines = {}
  /\ pc = "parsed" /\ ~ file.blank =>
       \A l \in Lines : Reported(l) \/ GoodLine(l)
                        \/ /\ Len(file.lines[l]) = Len(file.types)
                           /\ \E c \in DOMAIN file.types : file.lines[l][c] = {} /\ file.types[c] \in ReadByPlace
-----------------------------------------------------------------------------
(* The meaning of a pattern, by the parts of its text.                     *)
Closes(pattern, i) ==
  LET Depth(k) == Cardinality({j \in i .. k : pattern[j].kind = "LPAREN"})
                  - Cardinality({j \in i .. k : pattern[j].kind = "RPAREN"})
      ends == {k \in i .. Len(pattern) : Depth(k) = 0}
  IN  IF ends = {} THEN 0 ELSE CHOOSE k \in ends : \A j \in ends : k <= j

Kind(pattern, i) == IF i <= Len(pattern) THEN pattern[i].kind ELSE "EOP"
(* The length of the first operand: a group or a single part.              *)
Operand(pattern) ==
  IF Kind(pattern, 1) = "LPAREN" THEN Closes(pattern, 1)
  ELSE IF Kind(pattern, 1) = "SINGLE" THEN 1 ELSE 0
Upto(pattern, n) == SubSeq(pattern, 1, n)
Behind(pattern, n) == SubSeq(pattern, n + 1, Len(pattern))
Inside(pattern) == SubSeq(pattern, 2, Operand(pattern) - 1)

Bars(pattern) ==
  {k \in DOMAIN pattern :
     /\ pattern[k].kind = "PIPE"
     /\ Cardinality({j \in 1 .. k : pattern[j].kind = "LPAREN"})
        = Cardinality({j \in 1 .. k : pattern[j].kind = "RPAREN"})}

RECURSIVE Means(_, _)
One(pattern, w) ==
  IF Kind(pattern, 1) = "LPAREN" THEN Means(Inside(pattern), w)
  ELSE Len(w) = 1 /\ w[1] \in pattern[1].means
RECURSIVE Many(_, _)
Many(pattern, w) ==
  w = <<>> \/ \E n \in 1 .. Len(w) : One(pattern, Upto(w, n)) /\ Many(pattern, Behind(w, n))
Repeats(pattern, closure, w) ==
  CASE closure = "STAR" -> Many(pattern, w)
    [] closure = "PLUS" -> One(pattern, w) \/ \E n \in 1 .. Len(w) : One(pattern, Upto(w, n)) /\ Many(pattern, Behind(w, n))
    [] closure = "QUEST" -> w = <<>> \/ One(pattern, w)
    [] OTHER -> One(pattern, w)
Means(pattern, w) ==
  IF Bars(pattern) # {}
  THEN LET k == CHOOSE k \in Bars(pattern) : TRUE
       IN  Means(Upto(pattern, k - 1), w) \/ Means(Behind(pattern, k), w)
  ELSE IF pattern = <<>> THEN w = <<>>
  ELSE LET n == Operand(pattern)
           closure == Kind(pattern, n + 1)
           next == Behind(pattern, IF closure \in Closures THEN n + 1 ELSE n)
       IN  \E k \in 0 .. Len(w) : Repeats(pattern, closure, Upto(w, k)) /\ Means(next, Behind(w, k))

(* The patterns that the parser reads as they are meant: every operator    *)
(* has its operands, an alternative begins behind the first operand of a   *)
(* group, no more is repeated that may be empty.                           *)
RECURSIVE Plain(_)
Plain(pattern) ==
  LET n == Operand(pattern)
      closure == Kind(pattern, n + 1)
      next == Behind(pattern, IF closure \in Closures THEN n + 1 ELSE n)
  IN  /\ n # 0
      /\ Kind(pattern, 1) = "LPAREN" =>
           Plain(Inside(pattern)) /\ (closure \in {"STAR", "PLUS"} => ~ Means(Inside(pattern), <<>>))
      /\ IF next = <<>> THEN TRUE
         ELSE IF Kind(next, 1) = "PIPE" THEN closure \notin Closures /\ Plain(Tail(next))
         ELSE Bars(next) = {} /\ Plain(next)
Odd(pattern) == \E i \in DOMAIN pattern : pattern[i].odd

(* A pattern that is read as it is meant compiles, and a string matches it *)
(* exactly if its language has the string; without a character it matches  *)
(* the empty string (RegExp::match(), base/regexp.cpp:409).                *)
PatternsByMeaning ==
  (Plain(parts) \/ parts = <<>>) /\ ~ Odd(parts) =>
    /\ regexp.fault = "none"
    /\ pc = "match" =>
         /\ Endless \notin ToSet(work)
         /\ rest.done = Len(rest.string) => matched = Means(parts, rest.string)

(* What stops another pattern is in its text: an exception is for a group  *)
(* or set that is not closed or for a character the lexer does not know; a *)
(* null pointer is followed for an operator without its operand, an empty  *)
(* group in a sequence, or an alternative behind a repetition; and the     *)
(* matching never returns only if what is repeated may be empty            *)
(* (base/regexp.cpp:472-564, eClosure() at 452).                           *)
Before(i) == IF i = 1 THEN "LPAREN" ELSE parts[i - 1].kind
Operandless(i) ==
  \/ parts[i].kind \in Closures \cup {"PIPE"} /\ Before(i) \in Closures \cup {"LPAREN", "PIPE"}
  \/ parts[i].kind = "PIPE" /\ Kind(parts, i + 1) \in {"RPAREN", "EOP"}
  \/ parts[i].kind = "LPAREN" /\ Kind(parts, i + 1) = "RPAREN"
RepeatsEmpty(i) ==
  /\ parts[i].kind \in {"STAR", "PLUS"} /\ Before(i) = "RPAREN"
  /\ \E j \in 1 .. i - 1 : parts[j].kind \in {"STAR", "QUEST"}
PatternFaultsExplained ==
  /\ regexp.fault = "null pointer" => \E i \in DOMAIN parts : Operandless(i)
  /\ regexp.fault = "invalid expression" =>
       \E i \in DOMAIN parts : parts[i].kind = "BROKEN" \/ (parts[i].kind = "LPAREN" /\ Closes(parts, i) = 0)
  /\ Endless \in ToSet(work) => \E i \in DOMAIN parts : RepeatsEmpty(i)

(* LIKE, over all patterns: they mean what they say, or what stops them is  *)
(* in their text.                                                          *)
PatternsExplained == PatternsByMeaning /\ PatternFaultsExplained
-----------------------------------------------------------------------------
(***************************************************************************)
(* The fields of csv files with what the expressions make of them, and the *)
(* JSON files of the catalog (CatalogFiles).  They share no state, so a    *)
(* behaviour is one of one of them.                                        *)
(***************************************************************************)
VARIABLE reads      \* whose behaviour it is

(* In a behaviour of the catalog the csv file does not matter.             *)
TextsInit ==
  /\ FieldsInit /\ FilesInit
  /\ \/ reads = "fields" /\ ~ arrives
     \/ reads = "catalog" /\ file = CHOOSE f \in Files : TRUE

Fields == reads = "fields" /\ FieldsNext /\ UNCHANGED files
CatalogTexts == reads = "catalog" /\ FilesNext /\ UNCHANGED vars
TextsNext == (Fields \/ CatalogTexts) /\ UNCHANGED reads
TextsSpec == TextsInit /\ [][TextsNext]_<<vars, files, reads>>
-----------------------------------------------------------------------------
(* What is written is read again as what it was: dates, times and          *)
(* timestamps by their formats (base/date.cpp:445), tables and mappings in *)
(* the files of the catalog (tabledata.cpp:104, file_mapping.cpp:135).     *)
TextsReadBack == MomentsReadBack /\ FilesReadBack

(* What goes wrong with a file is told by its text, be it of rows          *)
(* (base/csv_parser.cpp:67) or of JSON (base/json_parser.cpp:412).         *)
FilesExplained == CsvFilesExplained /\ JsonByGrammar
=============================================================================
