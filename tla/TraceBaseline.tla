--------------------------- MODULE TraceBaseline ----------------------------
(***************************************************************************)
(* The plan a recorded trace is turned into without the model              *)
(* (_trace_to_baseline of nodes/capture/extract_steps.py): an action is a  *)
(* step, files are carried to the steps around them, notes are dropped and *)
(* the first resolution ends the plan.                                     *)
(***************************************************************************)
EXTENDS Naturals, Sequences

CONSTANTS
    Kind,      \* Kind[e]: the kind of event e
    ByHand     \* the step without a command that takes the files left over

Kinds == {"action", "file_touched", "note", "resolution"}

ASSUME KindAssumption == \A e \in DOMAIN Kind : Kind[e] \in Kinds

(* What the loop carries: the plan, the files no later step has taken yet, *)
(* and whether the resolution was met.                                     *)
Start == [plan |-> << >>, pending |-> {}, over |-> FALSE]

Step(e, files) == [event |-> e, files |-> files]

(* The last step names the files, unless it names some already; they stay  *)
(* pending all the same.                                                   *)
Attach(plan, files) ==
    IF plan # << >> /\ plan[Len(plan)].files = {}
    THEN [plan EXCEPT ![Len(plan)].files = files]
    ELSE plan

Take(s, e) ==
    CASE s.over \/ Kind[e] = "note" -> s
      [] ~s.over /\ Kind[e] = "resolution" -> [s EXCEPT !.over = TRUE]
      [] ~s.over /\ Kind[e] = "file_touched" ->
            LET files == s.pending \cup {e}
            IN [s EXCEPT !.pending = files, !.plan = Attach(@, files)]
      [] ~s.over /\ Kind[e] = "action" ->
            [s EXCEPT !.plan = Append(@, Step(e, s.pending)), !.pending = {}]

Scan(trace) ==
    LET scan[i \in 0 .. Len(trace)] == IF i = 0 THEN Start ELSE Take(scan[i - 1], trace[i])
    IN scan[Len(trace)]

(* Files after the last action become a step of their own. *)
Baseline(trace) ==
    LET s == Scan(trace)
    IN IF s.pending = {} THEN s.plan ELSE Append(s.plan, Step(ByHand, s.pending))

(* The events a plan speaks of. *)
Named(plan) == {plan[i].event : i \in DOMAIN plan} \cup UNION {plan[i].files : i \in DOMAIN plan}

=============================================================================
