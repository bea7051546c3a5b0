-------------------------- MODULE MCCategorization --------------------------
(***************************************************************************)
(* Small instances of Categorization: requests with and without a limit,   *)
(* listings shorter and longer than the cap on pages.                      *)
(***************************************************************************)
EXTENDS Categorization

CONSTANTS i1, i2, i3, i4

MCLimits == {NoLimit, 1}

MCListings == {<<i3, i1>>, <<i1, i2, i3>>, <<i2, i3, i1, i4>>}

=============================================================================
