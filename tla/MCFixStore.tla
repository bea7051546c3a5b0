----------------------------- MODULE MCFixStore -----------------------------
(***************************************************************************)
(* Small instances of FixStore: passes over the whole table and passes     *)
(* that stop after one window.                                             *)
(***************************************************************************)
EXTENDS FixStore

MCLimits == {NoLimit, 1}

=============================================================================
