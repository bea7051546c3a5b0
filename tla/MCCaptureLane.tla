--------------------------- MODULE MCCaptureLane ----------------------------
(***************************************************************************)
(* Small instances of CaptureLane.                                         *)
(***************************************************************************)
EXTENDS CaptureLane, TLC

CONSTANTS e1, e2, e3   \* events of the instances

(* An action, a file and a resolution of the hook's own. *)
MCKind == [e \in Events \cup {Marker} |->
    CASE e = e1 -> "action"
      [] e = e2 -> "file_touched"
      [] e \in {e3, Marker} -> "resolution"]

(* The file and the resolution were posted with one timestamp; the marker  *)
(* carries the time of the server.                                         *)
MCStamp == [e \in Events \cup {Marker} |-> IF e = e3 THEN e2 ELSE e]

ClientSymmetry == Permutations(Clients)

=============================================================================
