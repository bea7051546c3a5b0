--------------------------- MODULE MCAlertIngest ----------------------------
(***************************************************************************)
(* Small instances of AlertIngest.                                         *)
(***************************************************************************)
EXTENDS AlertIngest

=============================================================================
