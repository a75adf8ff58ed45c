----------------------------- MODULE Characters -----------------------------
(***************************************************************************)
(* Characters as the numbers that the code computes with.  A text is a     *)
(* sequence of them.                                                       *)
(***************************************************************************)
EXTENDS Integers, Sequences, TLC

(* The printable ones; the grave accent, which no string here can hold,    *)
(* has its code only.                                                      *)
Printable == " !\"#$%&'()*+,-./0123456789:;<=>?@ABCDEFGHIJKLMNOPQRSTUVWXYZ[\\]^_"
SmallLetters == "abcdefghijklmnopqrstuvwxyz{|}~"
Codes(letters, first) ==
  [c \in {SubSeq(letters, i, i) : i \in 1 .. Len(letters)} |->
     first - 1 + CHOOSE i \in 1 .. Len(letters) : SubSeq(letters, i, i) = c]
Code == Codes(Printable, 32) @@ Codes(SmallLetters, 97)

Text(s) == [i \in 1 .. Len(s) |-> Code[SubSeq(s, i, i)]]

NUL == 0
Tab == 9
NewLine == 10
Return == 13
Space == 32
DoubleQuote == 34
SingleQuote == 39
Plus == 43
Minus == 45
Colon == 58
GraveAccent == 96

In(c, letters) == \E i \in 1 .. Len(letters) : Code[SubSeq(letters, i, i)] = c
IsDigit(c) == 48 <= c /\ c <= 57
Digit(n) == 48 + n

(* itoa().                                                                 *)
Digits(n) == IF n < 10 THEN 1 ELSE IF n < 100 THEN 2 ELSE IF n < 1000 THEN 3 ELSE IF n < 10000 THEN 4 ELSE 5
itoa(n) == [i \in 1 .. Digits(n) |-> Digit((n \div 10 ^ (Digits(n) - i)) % 10)]

(* std::setw(width) and std::setfill('0').                                 *)
Filled(n, width) ==
  IF Digits(n) >= width THEN itoa(n) ELSE [i \in 1 .. width - Digits(n) |-> Digit(0)] \o itoa(n)
=============================================================================
