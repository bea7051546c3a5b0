---------------------------- MODULE MCFixSession ----------------------------
(***************************************************************************)
(* Small instances of FixSession: two fixes, one of a terminal and a       *)
(* manual step, one of a single terminal step; two commands, of which the  *)
(* static check allows one.                                                *)
(***************************************************************************)
EXTENDS FixSession, TLC

CONSTANTS f1, f2, ghost, good, bad

Terminal(command) == [tool |-> "terminal", command |-> command]

Manual == [tool |-> "other", command |-> None]

MCSteps == (f1 :> <<Terminal(good), Manual>>) @@ (f2 :> <<Terminal(good)>>)

(* The requests only compare equal. *)
ClientSymmetry == Permutations(Clients)

=============================================================================
