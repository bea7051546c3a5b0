----------------------------- MODULE Selections -----------------------------
(***************************************************************************)
(* What the code writes as [x for x in items if ...]: the items of a list  *)
(* that satisfy a condition, in their order.  The condition is the set of  *)
(* what satisfies it, and the recursion a function, so that the theorems   *)
(* of SelectionProofs can speak of it.                                     *)
(***************************************************************************)
EXTENDS Naturals, Sequences

In(s) == {s[k] : k \in DOMAIN s}

Selected(s, S) ==
    LET selected[k \in 0 .. Len(s)] ==
            IF k = 0 THEN << >>
            ELSE IF s[k] \in S THEN Append(selected[k - 1], s[k])
            ELSE selected[k - 1]
    IN selected[Len(s)]

=============================================================================
