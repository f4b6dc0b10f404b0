-------------------------------- MODULE Lists --------------------------------
(***************************************************************************)
(* Array.prototype.filter on the in-memory lists.  It is a recursive       *)
(* function of the list and a set of positions, which the provers can      *)
(* reason about; SelectSeq takes an operator and is opaque to them.        *)
(***************************************************************************)
EXTENDS Naturals, Sequences

\* The members of a list at these positions, in their order; kept[n] are those
\* among the first n.
filter(list, positions) ==
  LET kept[n \in 0..Len(list)] ==
        IF n = 0 THEN <<>>
        ELSE IF n \in positions THEN Append(kept[n - 1], list[n]) ELSE kept[n - 1]
  IN  kept[Len(list)]
=============================================================================
