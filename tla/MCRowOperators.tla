---------------------------- MODULE MCRowOperators ----------------------------
(***************************************************************************)
(* Statements for the model checking of RowOperators, with blocks of 11    *)
(* bytes: a value of size 8 is the largest that fits into a block, and two *)
(* functions do.                                                           *)
(***************************************************************************)
EXTENDS RowOperators

V(n, size) == [type |-> "INT", n |-> n, null |-> FALSE, size |-> size]
S(n, size) == [type |-> "STRING", n |-> n, null |-> FALSE, size |-> size]
N(type) == [type |-> type, n |-> 0, null |-> TRUE, size |-> 1]
R(values, block) == [values |-> values, block |-> block]

(* Two columns; numbers that are equal, NULL or 0; rows cut anywhere.      *)
Table1 == <<R(<<V(2, 1), V(5, 1)>>, 1), R(<<V(1, 1), V(7, 4)>>, 1),
            R(<<V(2, 4), V(3, 1)>>, 2), R(<<V(0, 1), V(5, 1)>>, 3)>>
Table2 == <<R(<<V(1, 1), N("INT")>>, 1), R(<<N("INT"), V(4, 1)>>, 1),
            R(<<V(0, 1), V(2, 1)>>, 2), R(<<N("INT"), N("INT")>>, 3)>>
Strings == <<R(<<S(2, 3), V(1, 1)>>, 1), R(<<S(3, 3), V(1, 1)>>, 2),
             R(<<S(1, 5), V(2, 1)>>, 3), R(<<S(2, 3), V(2, 1)>>, 4)>>
NullStrings == <<R(<<N("STRING"), V(1, 1)>>, 1), R(<<N("STRING"), V(1, 1)>>, 2)>>
Large == <<R(<<V(1, 8), V(2, 8)>>, 1), R(<<V(2, 1), V(1, 9)>>, 1)>>
Nulls == <<R(<<N("INT"), N("INT")>>, 1), R(<<N("INT"), V(1, 1)>>, 1)>>
Cutting == <<R(<<V(1, 1), V(2, 1)>>, 1), R(<<V(3, 1), V(4, 1)>>, 1), R(<<V(5, 8), V(6, 8)>>, 1)>>
NoRows == <<>>

(* What the rows are taken from: no limit, or one, and an offset, within   *)
(* the rows and beyond them; a second input of a union.                    *)
From(rows, more, union, limit, offset) ==
  [rows |-> rows, more |-> more, union |-> union, limit |-> limit, offset |-> offset, held |-> 0]
Alone(rows) == From(rows, NoRows, FALSE, -1, 0)
Short(rows) == {[Alone(rows) EXCEPT !.held = MaxActiveBlocks - k] : k \in 0 .. 3}
Cut(rows) == {From(rows, NoRows, FALSE, limit, offset) : limit \in {0, 2, 9}, offset \in {0, 1, 5}}
Both(rows, more) == {From(rows, more, TRUE, limit, offset) : limit \in {-1, 1}, offset \in {0, 3, 5}}

IntRows == {Alone(t) : t \in {Table1, Table2, Large, NoRows, Nulls}}
           \cup Cut(Table1) \cup Both(Table1, SubSeq(Table2, 1, 2)) \cup Both(NoRows, Large)
           \cup Both(Table2, NoRows) \cup Short(Table1) \cup {Alone(SubSeq(Large, 2, 2))}
StringRows == {Alone(t) : t \in {Strings, NullStrings, SubSeq(Strings, 1, 2)}}

Ints == <<"INT", "INT">>
StringInt == <<"STRING", "INT">>

By(index, descending) == [index |-> index, descending |-> descending]
OrderLists == {<<By(1, FALSE)>>, <<By(2, TRUE), By(1, FALSE)>>, <<By(1, TRUE), By(2, TRUE)>>}
Sorts ==
  {[kind |-> "sort", types |-> Ints, orders |-> o] @@ f : f \in IntRows, o \in OrderLists}
  \cup {[kind |-> "sort", types |-> StringInt, orders |-> <<By(1, FALSE)>>] @@ f : f \in StringRows}

F(function, column, type) ==
  [function |-> function, type |-> type, column |-> column, suppress |-> FALSE]
Hidden(column, type) == [F("PATHTHROUGH", column, type) EXCEPT !.suppress = TRUE]
OfInts == {<<F("PATHTHROUGH", 1, "INT"), F("SUM", 2, "INT"), F("AVG", 2, "INT")>>,
           <<F("COUNT", 2, "INT"), Hidden(1, "INT"), F("COUNT_STAR", 1, "INT")>>,
           <<F("MIN", 2, "INT"), F("MAX", 2, "INT"), F("ARBITRARY", 2, "INT")>>}
Counts == {<<F("COUNT", 2, "INT"), F("COUNT_STAR", 1, "INT")>>,
           <<F("SUM", 2, "INT"), F("AVG", 2, "INT")>>}
OfStrings == {<<F("MIN", 1, "STRING"), Hidden(2, "INT")>>, <<F("MAX", 1, "STRING"), F("COUNT", 1, "INT")>>}
Groups ==
  {[kind |-> "group", types |-> Ints, keys |-> k, functions |-> f] @@ r :
     k \in {<<1>>, <<1, 2>>}, f \in OfInts, r \in IntRows}
  \cup {[kind |-> "group", types |-> StringInt, keys |-> <<2>>, functions |-> f] @@ r :
          f \in OfStrings, r \in StringRows}
Aggregates ==
  {[kind |-> "aggregate", types |-> Ints, functions |-> f] @@ r :
     f \in Counts \cup {g \in OfInts : g[1].function = "MIN"}, r \in IntRows}
  \cup {[kind |-> "aggregate", types |-> StringInt,
         functions |-> <<F("MAX", 1, "STRING"), F("MIN", 1, "STRING")>>] @@ r : r \in StringRows}

Projections ==
  {[kind |-> "project", types |-> Ints, list |-> l] @@ r :
     l \in {<<1, 2>>, <<2>>, <<2, 1, 1>>, <<2, 2, 2, 2, 1>>}, r \in IntRows}
  \cup {[kind |-> "project", types |-> StringInt, list |-> <<1, 2>>] @@ r : r \in StringRows}
  \cup {[kind |-> "project", types |-> Ints, list |-> <<1, 2, 1>>] @@ Alone(Cutting)}

AllStatements == Sorts \cup Groups \cup Aggregates \cup Projections
=============================================================================
