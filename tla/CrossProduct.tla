---------------------------- MODULE CrossProduct ----------------------------
(***************************************************************************)
(* What a join without a hash table promises: every row of the left input  *)
(* with every row of the right one for which the condition is true, each   *)
(* pair once and complete, left rows in their order and for each of them   *)
(* the right rows in theirs; then the end.  A cross join is one with a     *)
(* condition that is always true.                                          *)
(***************************************************************************)
EXTENDS Naturals, Sequences

CONSTANT
  Inputs   (* the inputs a statement may join: lhs, the number of left      *)
           (* rows; rhs, for each right row the sizes of its values; on and *)
           (* unknown, the pairs for which the condition is true and for    *)
           (* which it is NULL                                              *)

VARIABLES
  input,     (* the inputs of the current join                              *)
  delivered, (* the joined rows handed out                                  *)
  outcome    (* "none", "open", or how the join ended                       *)

joinVars == <<input, delivered, outcome>>

(* The pairs that the condition selects, and their order: row by row.      *)
Selected ==
  {p \in (1 .. input.lhs) \X (1 .. Len(input.rhs)) : p \in input.on}
Before(p, q) == p[1] < q[1] \/ (p[1] = q[1] /\ p[2] < q[2])

(* The left row of a pair joined with its right row, whose values all come *)
(* from there.                                                             *)
Joined(p) ==
  [lhs |-> p[1], rhs |-> [c \in DOMAIN input.rhs[p[2]] |-> <<p[2], c>>]]
Delivered == {delivered[i] : i \in DOMAIN delivered}

Init == input \in Inputs /\ delivered = <<>> /\ outcome = "none"

Deliver ==
  /\ outcome = "open"
  /\ \E p \in Selected :
       /\ Joined(p) \notin Delivered
       /\ \A q \in Selected : Before(q, p) => Joined(q) \in Delivered
       /\ delivered' = Append(delivered, Joined(p))
  /\ UNCHANGED <<input, outcome>>

End ==
  /\ outcome = "open"
  /\ \A p \in Selected : Joined(p) \in Delivered
  /\ outcome' = "eof"
  /\ UNCHANGED <<input, delivered>>

Stop ==
  /\ outcome = "open"
  /\ outcome' \in {"input", "limit", "value", "condition", "abandoned"}
  /\ UNCHANGED <<input, delivered>>

NextJoin ==
  /\ outcome # "open"
  /\ input' \in Inputs
  /\ delivered' = <<>>
  /\ outcome' = "open"

Next == Deliver \/ End \/ Stop \/ NextJoin

Spec == Init /\ [][Next]_joinVars
=============================================================================
