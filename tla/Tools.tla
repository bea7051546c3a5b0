------------------------------- MODULE Tools --------------------------------
(***************************************************************************)
(* What the nodes of the graph call besides the model: the executor of     *)
(* commands and the retrieval of similar fixes.  They share nothing, so    *)
(* what one of them does is what it does beside the other, and a behaviour *)
(* is one of the one or one of the other.                                  *)
(***************************************************************************)
EXTENDS SafeExecutor, Retrieval

VARIABLE used    \* the tool of this behaviour

tools == <<used, vars, retrieval>>

ToolsInit ==
    /\ used \in {"executor", "retrieval"}
    /\ Init
    /\ RetrievalInit

ToolsNext ==
    \/ used = "executor" /\ Next /\ UNCHANGED <<used, retrieval>>
    \/ used = "retrieval" /\ RetrievalNext /\ UNCHANGED <<used, vars>>

(* The executor under its event loop; whoever inherits the pipes of a      *)
(* command may hold them for ever.                                         *)
HungSpec == ToolsInit /\ [][ToolsNext]_tools /\ LoopRuns

(* The same where the pipes are let go of in the end. *)
ToolsSpec == HungSpec /\ PipesAreLetGo

=============================================================================
