---------------------------- MODULE CatalogFiles -----------------------------
(***************************************************************************)
(* JSON texts and the files of the catalog that are made of them.          *)
(***************************************************************************)
EXTENDS Characters, FiniteSets, SequencesExt

(***************************************************************************)
(* JSON texts: the tokenizer, the parser (base/json_parser.cpp) and the    *)
(* callback that makes objects of what the parser finds                    *)
(* (base/json_object.cpp).  The parser's frames are those of the           *)
(* callback's stack.  A text is fixed, or it comes piece by piece.         *)
(***************************************************************************)
CONSTANTS Pieces,       \* what a text that comes piece by piece is made of
          MaxLexemes    \* bounds the lexemes of such a text

ASSUME JsonAssumption == MaxLexemes \in Nat

VARIABLES
  ahead,        \* the text from the current character on
  arrives,         \* whether more of it comes
  lexemes,      \* what the tokenizer found
  place,        \* where the parser is: what it expects next
  objectStack, keyStack, object,        \* of the callback
  jsonState     \* "idle", "reading", or how parse() ended

json == <<ahead, arrives, lexemes, place, objectStack, keyStack, object, jsonState>>
-----------------------------------------------------------------------------
(* The tokenizer.  A character of code 255 is taken for the end.           *)
EndMark == 255
Layout == {Space, Tab, Return, NewLine}
BackSlash == Code["\\"]

(* The run of characters from i on that belong, and where it ends.         *)
RunEnd(t, i, belong) ==
  Min({j \in i .. Len(t) : t[j] \notin belong} \cup {Len(t) + 1})
Ten == 48 .. 57

Lexeme(token, value, length) == [token |-> token, value |-> value, length |-> length, throws |-> "no"]
Nothing == <<>>
Refused(how) == [token |-> "BAD", value |-> Nothing, length |-> 0, throws |-> how]
Unexpected == Refused("JsonException")

(* Behind a backslash every character is escaped.                          *)
EscapedIn(t) ==
  LET escaped[i \in DOMAIN t] == i > 2 /\ t[i - 1] = BackSlash /\ ~ escaped[i - 1]
  IN  {i \in DOMAIN t : escaped[i]}
Escapes == [c \in {DoubleQuote, BackSlash, Code["/"]} |-> c]
           @@ Code["b"] :> 8 @@ Code["f"] :> 12 @@ Code["n"] :> NewLine
           @@ Code["r"] :> Return @@ Code["t"] :> Tab
StringLexeme(t) ==
  LET escaped == EscapedIn(t)
      ends == {i \in 2 .. Len(t) : t[i] = DoubleQuote /\ i \notin escaped}
      end == Min(ends)
      Kept(i) == t[i] # BackSlash \/ i \in escaped
      kept == SelectSeq([i \in 1 .. end - 2 |-> i + 1], Kept)
      Meant(i) == IF i \in escaped THEN Escapes[t[i]] ELSE t[i]
  IN  IF ends = {} \/ \E i \in escaped : i < end /\ t[i] \notin DOMAIN Escapes
      THEN Unexpected
      ELSE Lexeme("STRING", [k \in DOMAIN kept |-> Meant(kept[k])], end)

(* A number may not be the end of the text.  A sign alone is no number for *)
(* std::stod(), whose exception is none of the parser's.                   *)
NumberLexeme(t) ==
  LET first == IF t[1] = Minus THEN 2 ELSE 1
      whole == RunEnd(t, first, Ten)
      point == whole <= Len(t) /\ t[whole] = Code["."]
      mantissa == IF point THEN RunEnd(t, whole + 1, Ten) ELSE whole
      power == mantissa <= Len(t) /\ t[mantissa] \in {Code["e"], Code["E"]}
      signed == power /\ mantissa < Len(t) /\ t[mantissa + 1] \in {Plus, Minus}
      end == IF power THEN RunEnd(t, mantissa + (IF signed THEN 2 ELSE 1), Ten) ELSE mantissa
  IN  IF first <= Len(t) /\ t[first] = Digit(0)
      THEN IF first = Len(t) THEN Unexpected ELSE Lexeme("NUMBER", Text("0"), first)
      ELSE IF end > Len(t) \/ (point /\ mantissa = whole + 1) THEN Unexpected
      ELSE IF whole = first /\ ~ point THEN Refused("invalid_argument")
      ELSE Lexeme("NUMBER", SubSeq(t, 1, end - 1), end - 1)

Punctuations == {"{", "}", "[", "]", ":", ","}
Words == "TRUE" :> Text("true") @@ "FALSE" :> Text("false") @@ "NIL" :> Text("null")
Starts(t, word) == IsPrefix(word, t)

nextLexeme(text) ==
  LET seen == SubSeq(text, 1, RunEnd(text, 1, 0 .. EndMark - 1) - 1)
      skipped == RunEnd(seen, 1, Layout) - 1
      t == SubSeq(seen, skipped + 1, Len(seen))
      signs == {p \in Punctuations : Starts(t, Text(p))}
      words == {w \in DOMAIN Words : Starts(t, Words[w])}
      lexeme == CASE t = <<>> -> Lexeme("NONE", Nothing, 0)
                  [] signs # {} -> Lexeme(CHOOSE p \in signs : TRUE, Nothing, 1)
                  [] words # {} -> LET w == CHOOSE w \in words : TRUE IN Lexeme(w, Nothing, Len(Words[w]))
                  [] t[1] = DoubleQuote -> StringLexeme(t)
                  [] t[1] \in Ten \cup {Minus} -> NumberLexeme(t)
                  [] OTHER -> Unexpected
  IN  [lexeme EXCEPT !.length = @ + skipped]
-----------------------------------------------------------------------------
(* The values of the callback.  The elements of an array that are no       *)
(* objects get no type.                                                    *)
Unset == "unset"
NewObject(type) == [type |-> type, objects |-> <<>>, array |-> <<>>, value |-> Nothing]
JsonValue(type, value) == [NewObject(type) EXCEPT !.value = value]

(* insert() keeps what a key already has.                                  *)
Inserted(obj, key, value) ==
  [obj EXCEPT !.objects = IF key \in DOMAIN @ THEN @ ELSE key :> value @@ @]
Appended(obj, value) == [obj EXCEPT !.array = Append(@, value)]

Top == Last(objectStack)
Under == Front(objectStack)
OnTop(obj) == objectStack' = Append(Under, obj)
InObject == Top.type = "Object"

JsonInit ==
  /\ ahead = <<>> /\ arrives \in BOOLEAN /\ lexemes = <<>>
  /\ place = "document" /\ objectStack = <<>> /\ keyStack = <<>>
  /\ object = NewObject(Unset) /\ jsonState = IF arrives THEN "reading" ELSE "idle"
-----------------------------------------------------------------------------
(* What the parser accepts at a place.                                     *)
Scalars == {"STRING", "NUMBER", "FALSE", "TRUE", "NIL"}
ValueStarts == {"{", "["} \cup Scalars
ValuePlaces == {"value", "first value", "next value"}
Expected ==
  [document |-> {"{", "[", "NONE"}, key |-> {"STRING"}, colon |-> {":"}, member |-> {",", "}"},
   value |-> ValueStarts, element |-> {",", "]"}]
  @@ "first key" :> {"STRING", "}"} @@ "first value" :> ValueStarts \cup {"]"} @@ "next value" :> ValueStarts

(* The place behind a value that ended, by what it is in.                  *)
PlaceBehind(stack) ==
  IF stack = <<>> THEN "document" ELSE IF Last(stack).type = "Object" THEN "member" ELSE "element"

StartObject(lex) ==
  /\ lex.token = "{"
  /\ objectStack' = Append(objectStack, NewObject("Object"))
  /\ place' = "first key"
  /\ UNCHANGED <<keyStack, object, jsonState>>

StartArray(lex) ==
  /\ lex.token = "["
  /\ objectStack' = Append(objectStack, NewObject("Array"))
  /\ place' = "first value"
  /\ UNCHANGED <<keyStack, object, jsonState>>

Key(lex) ==
  /\ lex.token = "STRING" /\ place \in {"first key", "key"}
  /\ keyStack' = Append(keyStack, lex.value)
  /\ place' = "colon"
  /\ UNCHANGED <<objectStack, object, jsonState>>

Separator(lex) ==
  /\ lex.token \in {":", ","}
  /\ place' = CASE place = "colon" -> "value" [] place = "member" -> "key" [] place = "element" -> "next value"
  /\ UNCHANGED <<objectStack, keyStack, object, jsonState>>

EndObject(lex) ==
  /\ lex.token = "}"
  /\ place' = PlaceBehind(Under)
  /\ IF Under = <<>>
     THEN objectStack' = <<>> /\ object' = Top /\ UNCHANGED keyStack
     ELSE /\ UNCHANGED object
          /\ LET parent == Last(Under) IN
             IF parent.type = "Object"
             THEN /\ objectStack' = Append(Front(Under), Inserted(parent, Last(keyStack), Top))
                  /\ keyStack' = Front(keyStack)
             ELSE /\ objectStack' = Append(Front(Under), Appended(parent, Top))
                  /\ UNCHANGED keyStack
  /\ UNCHANGED jsonState

(* An array takes a key for granted.  One that is the document is dropped. *)
EndArray(lex) ==
  /\ lex.token = "]"
  /\ place' = PlaceBehind(Under)
  /\ CASE Under = <<>> -> objectStack' = <<>> /\ UNCHANGED <<keyStack, jsonState>>
       [] Under # <<>> /\ keyStack = <<>> -> jsonState' = "undefined" /\ UNCHANGED <<objectStack, keyStack>>
       [] OTHER ->
            /\ objectStack' = Append(Front(Under), Inserted(Last(Under), Last(keyStack), Top))
            /\ keyStack' = Front(keyStack) /\ UNCHANGED jsonState
  /\ UNCHANGED object

ScalarOf(lex) ==
  CASE lex.token = "STRING" -> <<"string", lex.value>>
    [] lex.token = "NUMBER" -> <<"number", lex.value>>
    [] lex.token \in {"TRUE", "FALSE"} -> <<"boolean", lex.token = "TRUE">>
    [] lex.token = "NIL" -> Nothing
Scalar(lex) ==
  /\ lex.token \in Scalars /\ place \in ValuePlaces
  /\ IF InObject
     THEN OnTop(Inserted(Top, Last(keyStack), JsonValue("Value", ScalarOf(lex)))) /\ keyStack' = Front(keyStack)
     ELSE OnTop(Appended(Top, JsonValue(Unset, ScalarOf(lex)))) /\ UNCHANGED keyStack
  /\ place' = PlaceBehind(objectStack)
  /\ UNCHANGED <<object, jsonState>>

(* parse() goes on with the next object or array until the text ends.      *)
EndDocument(lex) ==
  /\ lex.token = "NONE"
  /\ jsonState' = "parsed"
  /\ UNCHANGED <<place, objectStack, keyStack, object>>

Illegal(how) ==
  /\ jsonState' = how
  /\ UNCHANGED <<place, objectStack, keyStack, object>>

(* The lexeme at the front of a text.                                      *)
Parse(text) ==
  LET lex == nextLexeme(text) IN
  /\ ahead' = SubSeq(text, lex.length + 1, Len(text))
  /\ lexemes' = Append(lexemes, <<lex.token, lex.value>>)
  /\ IF lex.token \notin Expected[place]
     THEN Illegal(IF lex.throws = "no" THEN "JsonException" ELSE lex.throws)
     ELSE \/ StartObject(lex) \/ StartArray(lex) \/ Key(lex) \/ Separator(lex) \/ EndObject(lex)
          \/ EndArray(lex) \/ Scalar(lex) \/ EndDocument(lex)

(* A text that is whole, and one of which another piece comes.             *)
ReadText == jsonState = "reading" /\ ~ arrives /\ Parse(ahead) /\ UNCHANGED arrives
ReadPiece ==
  /\ jsonState = "reading" /\ arrives /\ Len(lexemes) < MaxLexemes
  /\ \E more \in {<<>>} \cup Pieces, spaced \in BOOLEAN :
       /\ arrives' = spaced /\ (spaced => more # <<>>)
       /\ Parse(ahead \o more \o (IF spaced THEN <<Space>> ELSE <<>>))

ReadJson == ReadText \/ ReadPiece
-----------------------------------------------------------------------------
(* The grammar of RFC 4627 over the kinds of lexemes, and all documents of *)
(* a few lexemes with the end behind them.                                 *)
KindOf(lexeme) == IF lexeme[1] \in Scalars \ {"STRING"} THEN "SCALAR" ELSE lexeme[1]
Kinds == [i \in DOMAIN lexemes |-> KindOf(lexemes[i])]

Join(A, middle, B) == {a \o middle \o b : a \in A, b \in B}
RECURSIVE ValueKinds(_), ListKinds(_, _)
ItemKinds(ofObject, n) ==
  IF ~ ofObject THEN ValueKinds(n)
  ELSE IF n < 3 THEN {} ELSE Join({<<"STRING">>}, <<":">>, ValueKinds(n - 2))
ListKinds(ofObject, n) ==
  ItemKinds(ofObject, n)
  \cup UNION {Join(ItemKinds(ofObject, k), <<",">>, ListKinds(ofObject, n - k - 1)) : k \in 1 .. n - 2}
InsideKinds(ofObject, n) == IF n = 0 THEN {<<>>} ELSE ListKinds(ofObject, n)
ContainerKinds(n) ==
  IF n < 2 THEN {}
  ELSE Join({<<"{">>}, <<>>, Join(InsideKinds(TRUE, n - 2), <<>>, {<<"}">>}))
       \cup Join({<<"[">>}, <<>>, Join(InsideKinds(FALSE, n - 2), <<>>, {<<"]">>}))
ValueKinds(n) == IF n = 1 THEN {<<"STRING">>, <<"SCALAR">>} ELSE ContainerKinds(n)
RECURSIVE TextKinds(_)
TextKinds(n) ==
  IF n = 0 THEN {<<>>}
  ELSE UNION {Join(ContainerKinds(k), <<>>, TextKinds(n - k)) : k \in 1 .. n}
Documents == UNION {Join(TextKinds(n), <<"NONE">>, {<<>>}) : n \in 0 .. MaxLexemes}

(* What a document stands for.                                             *)
Deep(s, i) ==
  Cardinality({j \in 1 .. i : s[j][1] \in {"{", "["}}) - Cardinality({j \in 1 .. i - 1 : s[j][1] \in {"}", "]"}})
Items(s) ==
  LET Bounds(i) == i \in {1, Len(s)} \/ (s[i][1] = "," /\ Deep(s, i) = 1)
      bounds == SelectSeq([i \in DOMAIN s |-> i], Bounds)
  IN  IF Len(s) = 2 THEN <<>>
      ELSE [k \in 1 .. Len(bounds) - 1 |-> SubSeq(s, bounds[k] + 1, bounds[k + 1] - 1)]
RECURSIVE Tree(_)
Tree(s) ==
  CASE s[1][1] = "{" ->
         LET items == Items(s)
             keys == {items[k][1][2] : k \in DOMAIN items}
             First(key) == Min({k \in DOMAIN items : items[k][1][2] = key})
             ValueOf(item) == SubSeq(item, 3, Len(item))
         IN  [NewObject("Object") EXCEPT !.objects = [key \in keys |-> Tree(ValueOf(items[First(key)]))]]
    [] s[1][1] = "[" ->
         LET items == Items(s)
             Element(item) == IF item[1][1] = "{" THEN Tree(item) ELSE [Tree(item) EXCEPT !.type = Unset]
         IN  [NewObject("Array") EXCEPT !.array = [k \in DOMAIN items |-> Element(items[k])]]
    [] OTHER -> JsonValue("Value", ScalarOf([token |-> s[1][1], value |-> s[1][2]]))

(* The last object of a document that is in nothing else.                  *)
Opens == {i \in DOMAIN lexemes : lexemes[i][1] = "{" /\ Deep(lexemes, i) = 1}
ClosedAt(i) == Min({j \in DOMAIN lexemes : j > i /\ lexemes[j][1] = "}" /\ Deep(lexemes, j) = 1})
ObjectMeant ==
  IF Opens = {} THEN NewObject(Unset)
  ELSE Tree(SubSeq(lexemes, Max(Opens), ClosedAt(Max(Opens))))

(* An array that is an element of an array.                                *)
ArrayInArray ==
  \E i, j \in DOMAIN lexemes :
    /\ i < j /\ lexemes[i][1] = "[" /\ lexemes[j][1] = "[" /\ Deep(lexemes, j) = Deep(lexemes, i) + 1
    /\ \A k \in i + 1 .. j - 1 : lexemes[k][1] # "]" \/ Deep(lexemes, k) > Deep(lexemes, i)

(* The parser accepts just the documents of the grammar, and refuses what  *)
(* is none as soon as none begins with it; the object is what the last one *)
(* of the document stands for, of a key that comes twice the first value.  *)
(* Only an array in an array is beyond the callback, which takes a key     *)
(* that is not there (Parser::parse(), base/json_parser.cpp:412;           *)
(* JsonObjectCallback::endArray(), base/json_object.cpp:134).              *)
JsonByGrammar ==
  /\ jsonState = "parsed" =>
       /\ Len(lexemes) <= MaxLexemes + 1 => Kinds \in Documents
       /\ ~ ArrayInArray /\ object = ObjectMeant
  /\ jsonState \in {"JsonException", "invalid_argument"} => \A d \in Documents : ~ IsPrefix(Kinds, d)
  /\ jsonState = "undefined" => ArrayInArray
-----------------------------------------------------------------------------
(***************************************************************************)
(* The files of the catalog as texts: what CREATE TABLE and CREATE MAPPING *)
(* write (TableData::asJson(), FileMapping::asJson()), and what is read of *)
(* it (fromJson()), by the next start or by CREATE MAPPING itself.  The    *)
(* layout between the lexemes is left out.  A writer may stop on its way.  *)
(***************************************************************************)
CONSTANTS Tables,       \* the tables of CREATE TABLE
          MappingLists  \* the table and the mappings of CREATE MAPPING

VARIABLES
  stored,       \* the statement
  cut,          \* whether its file stops before its end
  found         \* what was read, once it is: a set, empty if the reader threw

files == <<json, stored, cut, found>>

FilesInit == JsonInit /\ stored = [kind |-> "NONE"] /\ cut = FALSE /\ found = <<>>
-----------------------------------------------------------------------------
(* Writing.  Strings go as they are between quotes.                        *)
InQuotes(s) == <<DoubleQuote>> \o s \o <<DoubleQuote>>
Entry(name, text) == InQuotes(Text(name)) \o Text(":") \o text
Listed(texts) ==
  FlattenSeq([i \in DOMAIN texts |-> (IF i = 1 THEN <<>> ELSE Text(",")) \o texts[i]])
ArrayText(texts) == Text("[") \o Listed(texts) \o Text("]")
ObjectText(entries) == Text("{") \o Listed(entries) \o Text("}")
BoolText(b) == IF b THEN Text("true") ELSE Text("false")

UpperLetter(c) == IF c \in 97 .. 122 THEN c - 32 ELSE c
Upper(s) == [i \in DOMAIN s |-> UpperLetter(s[i])]

(* regex_match() with (.+)->([a-zA-Z_]+): the two groups, if it matches.   *)
TableLetters == 65 .. 90 \cup 97 .. 122 \cup {Code["_"]}
PatternAndTable(s) ==
  {[pattern |-> SubSeq(s, 1, i - 1), table |-> SubSeq(s, i + 2, Len(s))] :
     i \in {j \in 2 .. Len(s) - 2 : /\ SubSeq(s, j, j + 1) = Text("->")
                                    /\ \A k \in j + 2 .. Len(s) : s[k] \in TableLetters}}

(* What could go wrong, for the runs that test the properties: a pattern   *)
(* goes as it is, like the other strings.                                  *)
AsItIs(s) == s

(* A backslash of a pattern is escaped.                                    *)
EscapeBackslash(s) ==
  FlattenSeq([i \in DOMAIN s |-> IF s[i] = BackSlash THEN <<BackSlash, BackSlash>> ELSE <<s[i]>>])
MappingText(m, pattern) ==
  ObjectText(<<Entry("pattern", InQuotes(EscapeBackslash(pattern))),
               Entry("delimiter", InQuotes(<<m.delimiter>>)),
               Entry("skipFirstLine", BoolText(m.skipFirstLine))>>)

(* The statement adds the name of its table behind each pattern.           *)
ForTable(list, m) == m.pattern \o Text("->") \o list.name
MappingListText(list) ==
  LET Matched(m) == PatternAndTable(ForTable(list, m))
      OfTable(m) == \E g \in Matched(m) : Upper(g.table) = Upper(list.name)
      chosen == SelectSeq(list.mappings, OfTable)
      PatternOf(m) == (CHOOSE g \in Matched(m) : TRUE).pattern
  IN  IF \E i \in DOMAIN list.mappings : Matched(list.mappings[i]) = {} THEN {}
      ELSE {ObjectText(<<Entry("Mapping", ObjectText(
             <<Entry("name", InQuotes(Upper(list.name))),
               Entry("mappings", ArrayText([i \in DOMAIN chosen |-> MappingText(chosen[i], PatternOf(chosen[i]))]))>>))>>)}

TypeText == [STRING |-> Text("VARCHAR"), INT |-> Text("INTEGER"), BOOLEAN |-> Text("BOOLEAN")]
ColumnText(c) ==
  ObjectText(<<Entry("name", InQuotes(c.name)), Entry("type", InQuotes(TypeText[c.type])),
               Entry("primary key", BoolText(c.primaryKey)), Entry("not null", BoolText(c.notNull)),
               Entry("unique", BoolText(c.unique)),
               Entry("default", InQuotes(IF c.default = {} THEN <<>> ELSE CHOOSE d \in c.default : TRUE)),
               Entry("check", InQuotes(c.check)), Entry("length", itoa(c.length))>>)
KeysText(keys) == ArrayText([i \in DOMAIN keys |-> InQuotes(keys[i])])
ConstraintText(c) ==
  ObjectText(<<Entry("primary keys", KeysText(c.primaryKeys)), Entry("unique keys", KeysText(c.uniqueKeys)),
               Entry("check", InQuotes(c.check))>>)

(* printType() casts the value of a default, which is a string, to the     *)
(* type of its column.                                                     *)
BadDefault(c) == c.default # {} /\ c.type # "STRING"
TableFileText(t) ==
  IF \E i \in DOMAIN t.columns : BadDefault(t.columns[i]) THEN {}
  ELSE {ObjectText(<<Entry("Table", ObjectText(
         <<Entry("name", InQuotes(t.name)),
           Entry("columns", ArrayText([i \in DOMAIN t.columns |-> ColumnText(t.columns[i])])),
           Entry("constraints",
                 ArrayText([i \in DOMAIN t.constraints |-> ConstraintText(t.constraints[i])]))>>))>>)}
-----------------------------------------------------------------------------
(* Reading.  A reader gives a set, which is empty if something threw.      *)
Get(obj, name) ==
  IF obj.type = "Object" /\ Text(name) \in DOMAIN obj.objects THEN {obj.objects[Text(name)]} ELSE {}
Cast(kind, values) == {v.value[2] : v \in {w \in values : w.value # Nothing /\ w.value[1] = kind}}
StringAt(obj, name) == Cast("string", Get(obj, name))
BoolAt(obj, name) == Cast("boolean", Get(obj, name))
LongAt(obj, name) ==
  {FoldLeft(LAMBDA n, c : 10 * n + (c - 48), 0, digits) : digits \in Cast("number", Get(obj, name))}
ArrayAt(obj, name) == {v.array : v \in {w \in Get(obj, name) : w.type = "Array"}}

(* A sequence of readings is the reading of a sequence.                    *)
EachOf(readings) ==
  IF \E i \in DOMAIN readings : readings[i] = {} THEN {}
  ELSE {[i \in DOMAIN readings |-> CHOOSE r \in readings[i] : TRUE]}
EachRead(arrays, Reader(_)) ==
  UNION {EachOf([i \in DOMAIN a |-> Reader(a[i])]) : a \in arrays}

FirstOf(s) == IF s = <<>> THEN NUL ELSE s[1]
MappingOf(obj) ==
  {[pattern |-> p, delimiter |-> FirstOf(d), skipFirstLine |-> s] :
     p \in StringAt(obj, "pattern"), d \in StringAt(obj, "delimiter"), s \in BoolAt(obj, "skipFirstLine")}

(* addMapping() keeps the first mapping of a table.                        *)
MappingRead(obj) ==
  UNION {{[name |-> Upper(name), mappings |-> SubSeq(ms, 1, 1)] :
            name \in StringAt(m, "name"), ms \in EachRead(ArrayAt(m, "mappings"), MappingOf)} :
           m \in Get(obj, "Mapping")}

(* stringToType(); an empty default is none.                               *)
stringToType(s) == {type \in DOMAIN TypeText : TypeText[type] = s}
ColumnOf(obj) ==
  {[name |-> n, type |-> t, primaryKey |-> p, notNull |-> u, unique |-> q,
    default |-> IF d = <<>> THEN {} ELSE {d}, check |-> c, length |-> l] :
     n \in StringAt(obj, "name"), t \in UNION {stringToType(s) : s \in StringAt(obj, "type")},
     p \in BoolAt(obj, "primary key"), u \in BoolAt(obj, "not null"), q \in BoolAt(obj, "unique"),
     d \in StringAt(obj, "default"), c \in StringAt(obj, "check"), l \in LongAt(obj, "length")}
KeyOf(obj) == Cast("string", {obj})
ConstraintOf(obj) ==
  {[primaryKeys |-> p, uniqueKeys |-> u, check |-> c] :
     p \in EachRead(ArrayAt(obj, "primary keys"), KeyOf), u \in EachRead(ArrayAt(obj, "unique keys"), KeyOf),
     c \in StringAt(obj, "check")}
TableRead(obj) ==
  UNION {{[name |-> n, columns |-> c, constraints |-> k] :
            n \in StringAt(t, "name"), c \in EachRead(ArrayAt(t, "columns"), ColumnOf),
            k \in EachRead(ArrayAt(t, "constraints"), ConstraintOf)} :
           t \in Get(obj, "Table")}
-----------------------------------------------------------------------------
(* asJson() throws behind the opening of the file, which stays empty.      *)
WriteFile(kind, what, texts) ==
  /\ jsonState = "idle" /\ stored.kind = "NONE"
  /\ stored' = [kind |-> kind, what |-> what]
  /\ jsonState' = "reading"
  /\ IF texts = {} THEN ahead' = <<>> /\ cut' = TRUE
     ELSE ahead' \in texts /\ UNCHANGED cut
  /\ UNCHANGED <<arrives, lexemes, place, objectStack, keyStack, object, found>>
CreateMapping == \E list \in MappingLists : WriteFile("Mapping", list, MappingListText(list))
CreateTable == \E t \in Tables : WriteFile("Table", t, TableFileText(t))

(* The file stops within the lexeme that is read next.                     *)
StopWriting ==
  /\ jsonState = "reading" /\ stored.kind # "NONE" /\ ~ cut
  /\ \E k \in 0 .. nextLexeme(ahead).length - 1 : ahead' = SubSeq(ahead, 1, k)
  /\ cut' = TRUE
  /\ UNCHANGED <<arrives, lexemes, place, objectStack, keyStack, object, jsonState, stored, found>>

ReadFile == ReadJson /\ UNCHANGED <<stored, cut, found>>

(* fromJson(), behind the parser.                                          *)
TakeFile ==
  /\ jsonState \notin {"idle", "reading"} /\ stored.kind # "NONE" /\ found = <<>>
  /\ found' = <<IF jsonState # "parsed" THEN {}
                ELSE IF stored.kind = "Mapping" THEN MappingRead(object) ELSE TableRead(object)>>
  /\ UNCHANGED <<json, stored, cut>>

FilesNext == CreateMapping \/ CreateTable \/ StopWriting \/ ReadFile \/ TakeFile
-----------------------------------------------------------------------------
(* The strings of a statement that go into its file as they are.           *)
Verbatim ==
  IF stored.kind = "Mapping"
  THEN {<<m.delimiter>> : m \in ToSet(stored.what.mappings)}
  ELSE LET columns == ToSet(stored.what.columns)
           constraints == ToSet(stored.what.constraints)
       IN  {c.check : c \in columns \cup constraints} \cup UNION {c.default : c \in columns}
Quotes(s) == DoubleQuote \in ToSet(s)
Patterned == IF stored.kind = "Mapping" THEN {m.pattern : m \in ToSet(stored.what.mappings)} ELSE {}
Harmless ==
  (\A s \in Verbatim : ~ Quotes(s) /\ BackSlash \notin ToSet(s)) /\ \A s \in Patterned : ~ Quotes(s)
DefaultMeant(c) == [c EXCEPT !.default = @ \ {<<>>}]
StatementMeant ==
  IF stored.kind = "Mapping"
  THEN [name |-> Upper(stored.what.name), mappings |-> SubSeq(stored.what.mappings, 1, 1)]
  ELSE [stored.what EXCEPT !.columns = [i \in DOMAIN @ |-> DefaultMeant(@[i])]]

(* A file of the catalog is read as the statement that wrote it just if no *)
(* quote or backslash was in a default, a check or a delimiter, and no     *)
(* quote in a pattern: only the backslashes of a pattern are escaped.  A   *)
(* file that stops anywhere before its end is refused, and never read as   *)
(* a smaller table or mapping (TableData::asJson(), tabledata.cpp:104;     *)
(* FileMapping::asJson(), file_mapping.cpp:135, fromJson() at 112).        *)
FilesReadBack ==
  stored.kind # "NONE" /\ found # <<>> =>
    IF cut THEN found = <<{}>> ELSE (found = <<{StatementMeant}>>) <=> Harmless
=============================================================================
