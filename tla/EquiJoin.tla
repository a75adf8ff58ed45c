------------------------------ MODULE EquiJoin ------------------------------
(***************************************************************************)
(* What an inner join on lhs.x = rhs.y promises: for each row of the left  *)
(* input, in its order, every row of the right input with an equal key,    *)
(* each once and complete, in any order; then the end.  NULL equals        *)
(* nothing.  An input, or the join itself, may fail with an exception, and *)
(* the operator above may stop pulling.                                    *)
(***************************************************************************)
EXTENDS Naturals, Sequences

CONSTANT
  Inputs   (* the pairs of inputs a statement may join: lhs, the keys of    *)
           (* the left rows; rhs, the right rows, [key, sizes, block]       *)

VARIABLES
  input,     (* the inputs of the current join                              *)
  delivered, (* the joined rows handed out: a left row, and the origins of  *)
             (* the values of the right row                                 *)
  outcome    (* "none", "open", or how the join ended                       *)

joinVars == <<input, delivered, outcome>>

(* A key is [type, n, null]; n stands for the value.  Unlike for the = of  *)
(* a condition an INT is never equal to a REAL: a join of an INT column    *)
(* with a REAL column has no rows, or fails.                               *)
Equal(j, k) == ~ j.null /\ ~ k.null /\ j.type = k.type /\ j.n = k.n

Matches(l) == {r \in DOMAIN input.rhs : Equal(input.lhs[l], input.rhs[r].key)}

(* Left row l joined with right row r, whose values all come from r.       *)
Joined(l, r) == [lhs |-> l, rhs |-> [c \in DOMAIN input.rhs[r].sizes |-> <<r, c>>]]
Delivered == {delivered[i] : i \in DOMAIN delivered}
Exhausted(l) == \A r \in Matches(l) : Joined(l, r) \in Delivered

Init == input \in Inputs /\ delivered = <<>> /\ outcome = "none"

Deliver ==
  /\ outcome = "open"
  /\ \E l \in DOMAIN input.lhs : \E r \in Matches(l) :
       /\ Joined(l, r) \notin Delivered
       /\ \A k \in 1 .. l - 1 : Exhausted(k)
       /\ delivered' = Append(delivered, Joined(l, r))
  /\ UNCHANGED <<input, outcome>>

End ==
  /\ outcome = "open"
  /\ \A l \in DOMAIN input.lhs : Exhausted(l)
  /\ outcome' = "eof"
  /\ UNCHANGED <<input, delivered>>

Stop ==
  /\ outcome = "open"
  /\ outcome' \in {"threw", "abandoned"}
  /\ UNCHANGED <<input, delivered>>

NextJoin ==
  /\ outcome # "open"
  /\ input' \in Inputs
  /\ delivered' = <<>>
  /\ outcome' = "open"

Next == Deliver \/ End \/ Stop \/ NextJoin

Spec == Init /\ [][Next]_joinVars
=============================================================================
