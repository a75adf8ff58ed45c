------------------------------ MODULE RowStream ------------------------------
(***************************************************************************)
(* What a table scan promises to the operator above it: the rows of the    *)
(* csv file, each once and in the order of the file, then the end.  Only a *)
(* line that does not have one value per column, or has a value too large  *)
(* for a block, lets the scan fail.  It need not: such a value is left     *)
(* out, and a line that has as many values too many reads as a row.  The   *)
(* operator may stop pulling at any time (LIMIT, or a failure of its own). *)
(* Nothing is said of threads, blocks or markers.                          *)
(***************************************************************************)
EXTENDS Naturals, Sequences

CONSTANTS
  Files,      (* csv files: a file is the sequence of the lines after the   *)
              (* header, a line the sequence of the sizes of its values     *)
  NumColumns, (* the columns of the table                                   *)
  MaxSize     (* the size of the largest value that can be stored           *)

VARIABLES
  file,      (* the file that the current scan reads                        *)
  delivered, (* the rows handed out so far                                  *)
  outcome    (* "none", "new", "open", or how the scan ended                *)

streamVars == <<file, delivered, outcome>>

(* The columns of line l whose values can be stored.                       *)
Stored(l) == {c \in DOMAIN file[l] : file[l][c] <= MaxSize}

(* Line l as a row, by the origins of its values: the first NumColumns of  *)
(* the values that can be stored, in their order.                          *)
RowsOf(l) ==
  {r \in [1 .. NumColumns -> {l} \X Stored(l)] :
    /\ \A i, j \in 1 .. NumColumns : i < j => r[i][2] < r[j][2]
    /\ \A c \in Stored(l) :
         c <= r[NumColumns][2] => \E i \in 1 .. NumColumns : r[i][2] = c}

(* The row ends where the line ends.                                       *)
FillsRow(l) == \E r \in RowsOf(l) : r[NumColumns][2] = Len(file[l])

(* One value per column, and each can be stored.                           *)
WellFormed(l) == Len(file[l]) = NumColumns /\ Stored(l) = DOMAIN file[l]

Init == file \in Files /\ delivered = <<>> /\ outcome = "none"

Open ==
  /\ outcome = "new"
  /\ outcome' = "open"
  /\ UNCHANGED <<file, delivered>>

(* getNextRow() returns the next row.  A line with a value too many still  *)
(* yields a row; the failure follows at the next call.                     *)
Deliver ==
  LET l == Len(delivered) + 1 IN
  /\ outcome = "open"
  /\ l <= Len(file)
  /\ \A k \in 1 .. l - 1 : FillsRow(k)
  /\ \E r \in RowsOf(l) : delivered' = Append(delivered, r)
  /\ UNCHANGED <<file, outcome>>

(* getNextRow() returns null: only after the whole file.                   *)
End ==
  /\ outcome = "open"
  /\ Len(delivered) = Len(file)
  /\ \A l \in 1 .. Len(file) : FillsRow(l)
  /\ outcome' = "eof"
  /\ UNCHANGED <<file, delivered>>

(* getNextRow() throws: the file cannot be opened, or one of the lines     *)
(* reached is malformed.                                                   *)
Fail ==
  /\ \/ outcome = "new"
     \/ /\ outcome = "open"
        /\ \E l \in 1 .. Len(delivered) + 1 : l <= Len(file) /\ ~ WellFormed(l)
  /\ outcome' = "threw"
  /\ UNCHANGED <<file, delivered>>

Abandon ==
  /\ outcome \in {"new", "open"}
  /\ outcome' = "abandoned"
  /\ UNCHANGED <<file, delivered>>

(* The next statement scans a file of its own.                             *)
NextScan ==
  /\ outcome \in {"none", "eof", "threw", "abandoned"}
  /\ file' \in Files
  /\ delivered' = <<>>
  /\ outcome' = "new"

Next == Open \/ Deliver \/ End \/ Fail \/ Abandon \/ NextScan

Spec == Init /\ [][Next]_streamVars
==============================================================================
