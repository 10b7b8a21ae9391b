-------------------------------- MODULE Lists --------------------------------
(***************************************************************************)
(* What Array.filter and Map.delete leave of a list.  SelectSeq says the   *)
(* same, but it is built into the provers without a definition; this one   *)
(* is a function whose value they can follow from element to element.      *)
(***************************************************************************)
EXTENDS Naturals, Sequences

\* The list without the elements in `gone`, in its order.
Without(s, gone) ==
  LET left[i \in 0..Len(s)] ==
        IF i = 0 THEN <<>>
        ELSE IF s[i] \in gone THEN left[i - 1] ELSE Append(left[i - 1], s[i])
  IN  left[Len(s)]
==============================================================================
