----------------------------- MODULE PlanReplay -----------------------------
(***************************************************************************)
(* What autonomous mode promises, without graph, requests or checkpoints:  *)
(* the steps of the chosen fix are acted on in their order, the run counts *)
(* as a success only when none is left, and the engineer can take it back  *)
(* before that.  An empty plan has nothing left from the start.            *)
(***************************************************************************)
EXTENDS Naturals

CONSTANTS
    Fixes,     \* fixes that can be replayed
    Length,    \* Length[f]: how many steps fix f has
    None       \* no fix

VARIABLES
    plan,      \* the fix being replayed
    acted,     \* the steps acted on so far
    outcome    \* "open", "succeeded" or "handed_back"

vars == <<plan, acted, outcome>>

StepsOf(p) == IF p \in Fixes THEN 0 .. (Length[p] - 1) ELSE {}

Init == plan = None /\ acted = {} /\ outcome = "open"

Load ==
    /\ outcome = "open" /\ acted = {}
    /\ plan' \in Fixes \cup {None}
    /\ UNCHANGED <<acted, outcome>>

Act(i) ==
    /\ outcome = "open"
    /\ \A j \in StepsOf(plan) : j < i => j \in acted
    /\ acted' = acted \cup {i}
    /\ UNCHANGED <<plan, outcome>>

Succeed ==
    /\ outcome = "open"
    /\ StepsOf(plan) \subseteq acted
    /\ outcome' = "succeeded"
    /\ UNCHANGED <<plan, acted>>

HandBack ==
    /\ outcome = "open"
    /\ outcome' = "handed_back"
    /\ UNCHANGED <<plan, acted>>

Restart == plan' = None /\ acted' = {} /\ outcome' = "open"

Next ==
    \/ Load \/ Succeed \/ HandBack \/ Restart
    \/ \E i \in StepsOf(plan) : Act(i)

Spec == Init /\ [][Next]_vars

=============================================================================
