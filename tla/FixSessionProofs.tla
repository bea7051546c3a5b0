-------------------------- MODULE FixSessionProofs --------------------------
(***************************************************************************)
(* Proofs about FixSession for every value of its constants: the types,    *)
(* and that a run that completes acted on every step of its plan.          *)
(***************************************************************************)
EXTENDS FixSession, TLAPS

-----------------------------------------------------------------------------
(***************************************************************************)
(* Types of the pure definitions.                                          *)
(***************************************************************************)
SavedSteps == [tool: {"terminal", "other"}, command: Commands \cup {None}]

(* The plan of a thread is a sequence of saved steps. *)
LEMMA PlanType ==
    ASSUME NEW s \in Threads
    PROVE  Plan(s) \in Seq(SavedSteps)
<1>1. CASE s.plan \in Fixes
  BY <1>1, StepAssumption DEF Plan, SavedSteps
<1>2. CASE s.plan \notin Fixes
  BY <1>2 DEF Plan
<1> QED
  BY <1>1, <1>2

(* Replacing the last result by a result leaves a sequence of results. *)
LEMMA ReplaceLastType ==
    ASSUME NEW results \in Seq(StepResult), NEW r \in StepResult, results # << >>
    PROVE  /\ ReplaceLast(results, r) \in Seq(StepResult)
           /\ Len(ReplaceLast(results, r)) = Len(results)
BY DEF ReplaceLast

(* The last result of a thread that has one is a result. *)
LEMMA LastResultType ==
    ASSUME NEW s \in Threads, s.results # << >>
    PROVE  LastResult(s) \in StepResult
BY DEF LastResult, Threads

(* The step under the index is a saved step. *)
LEMMA CurrentStepType ==
    ASSUME NEW s \in Threads, InPlan(s)
    PROVE  CurrentStep(s) \in SavedSteps
BY PlanType DEF CurrentStep, InPlan, Threads

(* What pre_execute_review stages is a result. *)
LEMMA StagedResultType ==
    ASSUME NEW s \in Threads, NEW cmd \in Commands \cup {None},
           NEW verdict \in {"allowed", "rejected", "manual"}
    PROVE  StagedResult(s, cmd, verdict) \in StepResult
BY DEF StagedResult, StepResult, Threads

(* _upsert_staged returns a sequence of results. *)
LEMMA UpsertType ==
    ASSUME NEW s \in Threads, NEW staged \in StepResult
    PROVE  UpsertStaged(s, staged) \in Seq(StepResult)
BY ReplaceLastType DEF UpsertStaged, Threads

(* What execute_step makes of the last result is a result. *)
LEMMA ExecutedResultType ==
    ASSUME NEW s \in Threads, s.results # << >>, NEW outcome \in Outcomes
    PROVE  /\ ExecutedResult(s, outcome) \in StepResult
           /\ ExecutedResult(s, outcome).step = LastResult(s).step
           /\ ExecutedResult(s, outcome).status # "staged"
BY LastResultType DEF ExecutedResult, Outcomes, StepResult

(* Every node turns a thread into a thread. *)
LEMMA NodeTypes ==
    ASSUME NEW s \in Threads
    PROVE  /\ IntakeNode(s) \in Threads
           /\ \A mode \in Modes : ClassifyNode(s, mode) \in Threads
           /\ \A node \in ObservingNodes : ObservingNode(s, node) \in Threads
           /\ \A top \in Shortlist \cup {None} : RrfRankNode(s, top) \in Threads
           /\ LoadFixPlanNode(s) \in Threads
           /\ \A adapted \in Commands : PreExecuteReviewNode(s, adapted) \in Threads
           /\ \A outcome \in Outcomes : ExecuteStepNode(s, outcome) \in Threads
           /\ HitlCheckpointNode(s) \in Threads
           /\ AdvanceStepNode(s) \in Threads
           /\ CompleteAutonomousNode(s) \in Threads
           /\ ManualFallbackNode(s) \in Threads
<1>0. /\ "pre_execute_review" \in Nodes /\ "execute_step" \in Nodes
      /\ "hitl_checkpoint" \in Nodes /\ "advance_step" \in Nodes
      /\ "complete_autonomous" \in Nodes /\ "manual_fallback" \in Nodes
  BY DEF Nodes
<1>1. IntakeNode(s) \in Threads
  <2>1. << >> \in Seq(StepResult) /\ "intake" \in Nodes
    BY DEF Nodes
  <2> QED
    BY <2>1 DEF IntakeNode, Threads
<1>2. \A mode \in Modes : ClassifyNode(s, mode) \in Threads
  BY DEF ClassifyNode, Threads, Nodes
<1>3. \A node \in ObservingNodes : ObservingNode(s, node) \in Threads
  BY DEF ObservingNode, ObservingNodes, Threads, Nodes
<1>4. \A top \in Shortlist \cup {None} : RrfRankNode(s, top) \in Threads
  BY FixAssumption DEF RrfRankNode, Threads, Nodes
<1>5. LoadFixPlanNode(s) \in Threads
  BY DEF LoadFixPlanNode, Threads, Nodes, FixIds
<1>6. ASSUME NEW adapted \in Commands
      PROVE  PreExecuteReviewNode(s, adapted) \in Threads
  <2>1. CASE ~InPlan(s)
    BY <1>0, <2>1 DEF PreExecuteReviewNode, Threads
  <2>2. CASE InPlan(s) /\ NeedsOperator(CurrentStep(s))
    <3>1. CurrentStep(s).command \in Commands \cup {None}
      BY <2>2, CurrentStepType DEF SavedSteps
    <3>2. StagedResult(s, CurrentStep(s).command, "manual") \in StepResult
      BY <3>1, StagedResultType
    <3>3. Append(s.results, StagedResult(s, CurrentStep(s).command, "manual"))
              \in Seq(StepResult)
      BY <3>2 DEF Threads
    <3> QED
      BY <1>0, <2>2, <3>3 DEF PreExecuteReviewNode, Threads
  <2>3. CASE InPlan(s) /\ ~NeedsOperator(CurrentStep(s))
    <3> DEFINE verdict == IF adapted \in SafeCommands THEN "allowed" ELSE "rejected"
    <3>1. StagedResult(s, adapted, verdict) \in StepResult
      BY StagedResultType
    <3>2. UpsertStaged(s, StagedResult(s, adapted, verdict)) \in Seq(StepResult)
      BY <3>1, UpsertType
    <3> QED
      BY <1>0, <2>3, <3>2 DEF PreExecuteReviewNode, Threads
  <2> QED
    BY <2>1, <2>2, <2>3
<1>7. ASSUME NEW outcome \in Outcomes
      PROVE  ExecuteStepNode(s, outcome) \in Threads
  <2>1. CASE Executable(s)
    <3>1. ReplaceLast(s.results, ExecutedResult(s, outcome)) \in Seq(StepResult)
      BY <2>1, ExecutedResultType, ReplaceLastType DEF Executable, Threads
    <3> QED
      BY <1>0, <2>1, <3>1 DEF ExecuteStepNode, Threads
  <2>2. CASE ~Executable(s)
    BY <1>0, <2>2 DEF ExecuteStepNode, Threads
  <2> QED
    BY <2>1, <2>2
<1>8. HitlCheckpointNode(s) \in Threads
  <2> DEFINE redo == IF s.decision = "redo" THEN s.redo + 1 ELSE s.redo
             decision == IF s.decision = "continue" \/ (s.decision = "redo" /\ redo <= MaxRedo)
                         THEN s.decision ELSE "manual"
  <2>1. redo \in Nat /\ decision \in Decisions \cup {"manual", None}
    BY DEF Threads
  <2>2. HitlCheckpointNode(s) = [s EXCEPT !.last = "hitl_checkpoint", !.redo = redo,
                                          !.decision = decision]
    BY DEF HitlCheckpointNode, Threads
  <2> HIDE DEF redo, decision
  <2> QED
    BY <1>0, <2>1, <2>2 DEF Threads
<1>9. AdvanceStepNode(s) \in Threads
  <2>1. s.idx + 1 \in Nat /\ 0 \in Nat /\ None \in Decisions \cup {"manual", None}
    BY DEF Threads
  <2> QED
    BY <1>0, <2>1 DEF AdvanceStepNode, Threads
<1>10. CompleteAutonomousNode(s) \in Threads
  BY <1>0 DEF CompleteAutonomousNode, Threads
<1>11. ManualFallbackNode(s) \in Threads
  BY <1>0 DEF ManualFallbackNode, Threads
<1> QED
  BY <1>1, <1>2, <1>3, <1>4, <1>5, <1>6, <1>7, <1>8, <1>9, <1>10, <1>11

-----------------------------------------------------------------------------
(***************************************************************************)
(* TypeOK is inductive.                                                    *)
(***************************************************************************)

(* A new thread is a thread. *)
LEMMA NewThreadType == NewThread \in Threads
<1>1. << >> \in Seq(StepResult)
  OBVIOUS
<1> QED
  BY <1>1 DEF NewThread, Threads

(* A checkpoint of a well-typed state keeps the types of what it writes. *)
LEMMA CheckpointType ==
    ASSUME TypeOK, NEW c \in Clients, NEW s \in Threads, Checkpoint(c, s)
    PROVE  /\ saved' \in Threads
           /\ pc' \in [Clients -> {"idle", "update", "resume", "run", "save"}]
           /\ body' \in [Clients -> Requests]
           /\ snap' \in [Clients -> Seq(StepResult)]
           /\ mem' \in [Clients -> Threads]
<1>1. NoRequest \in Requests /\ << >> \in Seq(StepResult)
  BY DEF Requests
<1> QED
  BY <1>1, NewThreadType DEF TypeOK, Checkpoint, Return, RunOn

(* What a request loses when it returns. *)
LEMMA ReturnType ==
    ASSUME TypeOK, NEW c \in Clients, Return(c)
    PROVE  /\ pc' \in [Clients -> {"idle", "update", "resume", "run", "save"}]
           /\ body' \in [Clients -> Requests]
           /\ snap' \in [Clients -> Seq(StepResult)]
           /\ mem' \in [Clients -> Threads]
<1>1. NoRequest \in Requests /\ << >> \in Seq(StepResult)
  BY DEF Requests
<1> QED
  BY <1>1, NewThreadType DEF TypeOK, Return

(* The types hold initially. *)
LEMMA InitType == Init => TypeOK
<1> SUFFICES ASSUME Init PROVE TypeOK
  OBVIOUS
<1>1. NoRequest \in Requests /\ << >> \in Seq(StepResult) /\ << >> \in Seq(Visits)
  BY DEF Requests
<1> QED
  BY <1>1, NewThreadType DEF Init, TypeOK

(* Every step of a request keeps the types. *)
LEMMA NextType == TypeOK /\ [Next]_vars => TypeOK'
<1> SUFFICES ASSUME TypeOK, [Next]_vars PROVE TypeOK'
  OBVIOUS
<1>u. CASE UNCHANGED vars
  BY <1>u DEF TypeOK, vars, local, bounds, history
<1>n. CASE Next
  <2> SUFFICES ASSUME NEW c \in Clients,
                      StartSession(c) \/ PostDecision(c) \/ Handler(c) \/ Die(c)
               PROVE  TypeOK'
    BY <1>n DEF Next
  <2>a. mem[c] \in Threads
    BY DEF TypeOK
  <2>1. CASE StartSession(c)
    <3>1. saved' \in Threads
      BY <2>1 DEF StartSession, TypeOK, Threads, Nodes
    <3> QED
      BY <2>1, <3>1 DEF StartSession, RunOn, TypeOK, history
  <2>2. CASE PostDecision(c)
    <3>1. PICK d \in Decisions, f \in Picks, e \in Edits :
              body' = [body EXCEPT ![c] = [decision |-> d, pick |-> f, edit |-> e,
                                           post |-> posts + 1]]
      BY <2>2 DEF PostDecision
    <3>2. body' \in [Clients -> Requests]
      BY <3>1 DEF TypeOK, Requests
    <3>3. saved.results \in Seq(StepResult)
      BY DEF TypeOK, Threads
    <3> QED
      BY <2>2, <3>2, <3>3 DEF PostDecision, TypeOK, history
  <2>3. CASE UpdateState(c)
    <3>1. /\ body[c].decision \in Decisions \cup {None}
          /\ body[c].pick \in FixIds \cup {None}
          /\ body[c].edit \in Commands \cup {None}
      BY RequestAssumption DEF TypeOK, Requests, NoRequest
    <3>2. snap[c] \in Seq(StepResult) /\ saved.results \in Seq(StepResult)
      BY DEF TypeOK, Threads
    <3>3. EditedResults(c) \in Seq(StepResult)
      <4>1. CASE body[c].edit # None /\ snap[c] # << >>
        <5> DEFINE r == [snap[c][Len(snap[c])] EXCEPT !.cmd = body[c].edit]
        <5>1. snap[c][Len(snap[c])] \in StepResult
          BY <3>2, <4>1
        <5>2. r \in StepResult
          BY <3>1, <5>1 DEF StepResult
        <5> QED
          BY <3>2, <4>1, <5>2, ReplaceLastType DEF EditedResults
      <4>2. CASE ~(body[c].edit # None /\ snap[c] # << >>)
        BY <3>2, <4>2 DEF EditedResults
      <4> QED
        BY <4>1, <4>2
    <3>4. saved' \in Threads
      <4> DEFINE pick == IF body[c].pick # None THEN body[c].pick ELSE saved.selected
      <4>1. saved \in Threads
        BY DEF TypeOK
      <4>2. pick \in FixIds \cup {None}
        BY <3>1, <4>1 DEF Threads
      <4>3. saved' = [saved EXCEPT !.decision = body[c].decision, !.selected = pick,
                                   !.results = EditedResults(c)]
        BY <2>3, <4>1 DEF UpdateState, Threads
      <4> HIDE DEF pick
      <4> QED
        BY <3>1, <3>3, <4>1, <4>2, <4>3 DEF Threads
    <3>5. picked' \in FixIds \cup {None}
      BY <2>3, <3>1 DEF UpdateState, TypeOK
    <3> QED
      BY <2>3, <3>4, <3>5 DEF UpdateState, TypeOK, bounds
  <2>4. CASE Resume(c)
    BY <2>4, ReturnType DEF Resume, RunOn, TypeOK, bounds, history
  <2>5. CASE Intake(c)
    BY <2>5, <2>a, NodeTypes, CheckpointType DEF Intake, TypeOK, bounds
  <2>6. CASE Classify(c)
    BY <2>6, <2>a, NodeTypes, CheckpointType DEF Classify, TypeOK, bounds, history
  <2>7. CASE Observe(c)
    BY <2>7, <2>a, NodeTypes, CheckpointType DEF Observe, TypeOK, bounds, history
  <2>8. CASE RrfRank(c)
    BY <2>8, <2>a, NodeTypes, CheckpointType DEF RrfRank, TypeOK, bounds, history
  <2>9. CASE LoadFixPlan(c)
    BY <2>9, <2>a, NodeTypes, CheckpointType DEF LoadFixPlan, TypeOK, bounds, history
  <2>10. CASE PreExecuteReview(c)
    BY <2>10, <2>a, NodeTypes, CheckpointType DEF PreExecuteReview, TypeOK, bounds, history
  <2>11. CASE ExecuteStep(c)
    <3>1. mem' \in [Clients -> Threads]
      BY <2>11, <2>a, NodeTypes DEF ExecuteStep, TypeOK
    <3>2. visits' \in Seq(Visits)
      <4>1. CASE Executable(mem[c])
        <5> DEFINE v == [step |-> mem[c].idx, cmd |-> LastResult(mem[c]).cmd,
                         decision |-> body[c].decision, post |-> body[c].post]
        <5>1. body[c].decision \in Decisions \cup {None} /\ body[c].post \in Nat
          BY DEF TypeOK, Requests, NoRequest
        <5>2. LastResult(mem[c]).cmd \in Commands \cup {None}
          BY <2>a, <4>1, LastResultType DEF Executable, StepResult
        <5>3. v \in Visits
          BY <2>a, <5>1, <5>2 DEF Visits, Threads
        <5>4. visits' = Append(visits, v)
          BY <2>11, <4>1 DEF ExecuteStep
        <5> QED
          BY <5>3, <5>4 DEF TypeOK
      <4>2. CASE ~Executable(mem[c])
        BY <2>11, <4>2 DEF ExecuteStep, TypeOK
      <4> QED
        BY <4>1, <4>2
    <3> QED
      BY <2>11, <3>1, <3>2 DEF ExecuteStep, TypeOK, bounds
  <2>12. CASE SaveExecuted(c)
    BY <2>12, <2>a, CheckpointType DEF SaveExecuted, TypeOK, bounds, history
  <2>13. CASE HitlCheckpoint(c)
    BY <2>13, <2>a, NodeTypes, CheckpointType DEF HitlCheckpoint, TypeOK, bounds, history
  <2>14. CASE AdvanceStep(c)
    BY <2>14, <2>a, NodeTypes, CheckpointType DEF AdvanceStep, TypeOK, bounds, history
  <2>15. CASE CompleteAutonomous(c)
    BY <2>15, <2>a, NodeTypes, CheckpointType DEF CompleteAutonomous, TypeOK, bounds, history
  <2>16. CASE ManualFallback(c)
    BY <2>16, <2>a, NodeTypes, CheckpointType DEF ManualFallback, TypeOK, bounds, history
  <2>17. CASE Die(c)
    BY <2>17, ReturnType DEF Die, TypeOK, history
  <2> QED
    BY <2>1, <2>2, <2>3, <2>4, <2>5, <2>6, <2>7, <2>8, <2>9, <2>10, <2>11, <2>12,
       <2>13, <2>14, <2>15, <2>16, <2>17 DEF Handler, Node
<1> QED
  BY <1>u, <1>n

(* The thread, the requests and the histories keep their types whatever    *)
(* the plans, the settings, the requests in flight and the bounds are.     *)
THEOREM TypesHold == Spec => []TypeOK
BY InitType, NextType, PTL DEF Spec

-----------------------------------------------------------------------------
(***************************************************************************)
(* A run that completes acted on every step.  The property says nothing of *)
(* the checkpoints before the last, so what is inductive is IndexIsBacked: *)
(* the index moves past a step only when that step was acted on, in the    *)
(* checkpoint and in every copy a request may still write back.            *)
(***************************************************************************)

(* The nodes that run at one place of the graph only. *)
LEMMA OnlyPredecessor ==
    ASSUME NEW s \in Threads
    PROVE  /\ Following(s) = "execute_step" => s.last = "pre_execute_review"
           /\ Following(s) = "hitl_checkpoint" => s.last = "execute_step"
           /\ Following(s) = "advance_step" =>
                  s.last = "hitl_checkpoint" /\ s.idx + 1 < Len(Plan(s))
           /\ Following(s) = "complete_autonomous" =>
                  s.last = "hitl_checkpoint" /\ s.idx + 1 >= Len(Plan(s))
BY DEF Following, StaticEdge, RouteAfterClassify, RouteAfterConsent,
       RouteAfterPreExecute, RouteAfterHitl

(* Replacing the last result disturbs no result but the last. *)
LEMMA ReplaceLastEntries ==
    ASSUME NEW results \in Seq(StepResult), NEW r \in StepResult, results # << >>
    PROVE  LET replaced == ReplaceLast(results, r)
           IN /\ DOMAIN replaced = DOMAIN results
              /\ Len(replaced) = Len(results)
              /\ replaced # << >>
              /\ replaced[Len(replaced)] = r
              /\ \A k \in DOMAIN results : k # Len(results) => replaced[k] = results[k]
<1>1. Len(results) \in 1 .. Len(results) /\ DOMAIN results = 1 .. Len(results)
  OBVIOUS
<1>2. Len(ReplaceLast(results, r)) = Len(results)
  BY ReplaceLastType
<1> QED
  BY <1>1, <1>2 DEF ReplaceLast

(* Acted depends on nothing but the results. *)
LEMMA ActedSameResults ==
    ASSUME NEW s, NEW t, NEW i, t.results = s.results
    PROVE  Acted(t, i) <=> Acted(s, i)
BY DEF Acted

(* An appended result takes nothing away. *)
LEMMA ActedAppend ==
    ASSUME NEW s \in Threads, NEW t, NEW r \in StepResult, NEW i,
           t.results = Append(s.results, r), Acted(s, i)
    PROVE  Acted(t, i)
<1>1. PICK k \in DOMAIN s.results :
          s.results[k].step = i /\ s.results[k].status # "staged"
  BY DEF Acted
<1>2. s.results \in Seq(StepResult)
  BY DEF Threads
<1>3. k \in DOMAIN t.results /\ t.results[k] = s.results[k]
  BY <1>2
<1> QED
  BY <1>1, <1>3 DEF Acted

(* Replacing the result of one step leaves the other steps acted on. *)
LEMMA ActedReplace ==
    ASSUME NEW s \in Threads, NEW t, NEW r \in StepResult, NEW i, s.results # << >>,
           t.results = ReplaceLast(s.results, r), i # LastResult(s).step, Acted(s, i)
    PROVE  Acted(t, i)
<1>1. PICK k \in DOMAIN s.results :
          s.results[k].step = i /\ s.results[k].status # "staged"
  BY DEF Acted
<1>2. s.results \in Seq(StepResult)
  BY DEF Threads
<1>3. k # Len(s.results)
  BY <1>1 DEF LastResult
<1>4. k \in DOMAIN t.results /\ t.results[k] = s.results[k]
  BY <1>2, <1>3, ReplaceLastEntries
<1> QED
  BY <1>1, <1>4 DEF Acted

(* A new thread, and one that starts over, is backed: it has no plan yet,  *)
(* or keeps the one whose steps before the index were acted on.            *)
LEMMA BackedNew == Backed(NewThread)
BY FixAssumption DEF Backed, NewThread, InPlan, Plan

(* Nodes that move neither plan, index nor results keep the index backed.  *)
LEMMA BackedFrame ==
    ASSUME NEW s \in Threads, NEW t \in Threads, Backed(s),
           t.plan = s.plan, t.idx = s.idx, t.results = s.results,
           t.last \notin {"execute_step", "hitl_checkpoint", "pre_execute_review",
                          "complete_autonomous"}
    PROVE  Backed(t)
<1>1. Plan(t) = Plan(s)
  BY DEF Plan
<1>2. \A i : Acted(t, i) <=> Acted(s, i)
  BY ActedSameResults
<1> QED
  BY <1>1, <1>2 DEF Backed

(* The nodes that only observe, and the one that hands back. *)
LEMMA BackedQuiet ==
    ASSUME NEW s \in Threads, Backed(s)
    PROVE  /\ \A mode \in Modes : Backed(ClassifyNode(s, mode))
           /\ \A node \in ObservingNodes : Backed(ObservingNode(s, node))
           /\ \A top \in Shortlist \cup {None} : Backed(RrfRankNode(s, top))
           /\ Backed(ManualFallbackNode(s))
<1>1. ASSUME NEW mode \in Modes PROVE Backed(ClassifyNode(s, mode))
  <2> DEFINE t == ClassifyNode(s, mode)
  <2>1. /\ t.plan = s.plan /\ t.idx = s.idx /\ t.results = s.results
        /\ t.last \notin {"execute_step", "hitl_checkpoint", "pre_execute_review",
                            "complete_autonomous"}
    BY DEF ClassifyNode, Threads
  <2>2. t \in Threads
    BY NodeTypes
  <2> HIDE DEF t
  <2>3. Backed(t)
    BY <2>1, <2>2, BackedFrame
  <2> QED
    BY <2>3 DEF t
<1>2. ASSUME NEW node \in ObservingNodes PROVE Backed(ObservingNode(s, node))
  <2> DEFINE t == ObservingNode(s, node)
  <2>1. /\ t.plan = s.plan /\ t.idx = s.idx /\ t.results = s.results
        /\ t.last \notin {"execute_step", "hitl_checkpoint", "pre_execute_review",
                            "complete_autonomous"}
    BY DEF ObservingNode, ObservingNodes, Threads
  <2>2. t \in Threads
    BY NodeTypes
  <2> HIDE DEF t
  <2>3. Backed(t)
    BY <2>1, <2>2, BackedFrame
  <2> QED
    BY <2>3 DEF t
<1>3. ASSUME NEW top \in Shortlist \cup {None} PROVE Backed(RrfRankNode(s, top))
  <2> DEFINE t == RrfRankNode(s, top)
  <2>1. /\ t.plan = s.plan /\ t.idx = s.idx /\ t.results = s.results
        /\ t.last \notin {"execute_step", "hitl_checkpoint", "pre_execute_review",
                            "complete_autonomous"}
    BY DEF RrfRankNode, Threads
  <2>2. t \in Threads
    BY NodeTypes
  <2> HIDE DEF t
  <2>3. Backed(t)
    BY <2>1, <2>2, BackedFrame
  <2> QED
    BY <2>3 DEF t
<1>4. Backed(ManualFallbackNode(s))
  BY NodeTypes, BackedFrame DEF ManualFallbackNode, Threads
<1> QED
  BY <1>1, <1>2, <1>3, <1>4

(* The engineer's update writes neither index nor plan, and results only   *)
(* to change the command of the last one.                                  *)
LEMMA BackedUpdate ==
    ASSUME NEW s \in Threads, NEW t \in Threads, Backed(s),
           t.plan = s.plan, t.idx = s.idx, t.last = s.last,
           Len(t.results) = Len(s.results),
           \A k \in 1 .. Len(s.results) : /\ t.results[k].step = s.results[k].step
                                          /\ t.results[k].status = s.results[k].status
    PROVE  Backed(t)
<1>1. Plan(t) = Plan(s) /\ (InPlan(t) <=> InPlan(s))
  BY DEF Plan, InPlan
<1>2. /\ s.results \in Seq(StepResult) /\ t.results \in Seq(StepResult)
      /\ DOMAIN s.results = 1 .. Len(s.results) /\ DOMAIN t.results = 1 .. Len(s.results)
  BY DEF Threads
<1>3. \A i : Acted(t, i) <=> Acted(s, i)
  BY <1>2 DEF Acted
<1>4. s.results # << >> => t.results # << >> /\ LastResult(t).step = LastResult(s).step
  BY <1>2 DEF LastResult
<1>5. \A i \in 0 .. (t.idx - 1) : i < Len(Plan(t)) => Acted(t, i)
  BY <1>1, <1>3 DEF Backed
<1>6. Acted(s, s.idx) => Acted(t, t.idx)
  BY <1>3
<1>7. InPlan(t) /\ t.last \in {"execute_step", "hitl_checkpoint"} => Acted(t, t.idx)
  BY <1>1, <1>6 DEF Backed
<1>8. t.last = "complete_autonomous" =>
          /\ t.idx + 1 >= Len(Plan(t))
          /\ InPlan(t) => Acted(t, t.idx)
  BY <1>1, <1>6 DEF Backed
<1>9. InPlan(t) /\ t.last = "pre_execute_review" =>
          t.results # << >> /\ LastResult(t).step = t.idx
  BY <1>1, <1>4 DEF Backed
<1> QED
  BY <1>5, <1>7, <1>8, <1>9 DEF Backed

(* load_fix_plan starts the plan it loads at step 0, or loads none. *)
LEMMA BackedLoad ==
    ASSUME NEW s \in Threads, Backed(s)
    PROVE  Backed(LoadFixPlanNode(s))
<1>1. CASE ChosenFix(s) \in Fixes
  BY <1>1 DEF LoadFixPlanNode, Backed, Threads
<1>2. CASE ChosenFix(s) \notin Fixes
  BY <1>2, FixAssumption DEF LoadFixPlanNode, Backed, Threads, Plan, InPlan
<1> QED
  BY <1>1, <1>2

(* intake drops the plan and starts at step 0. *)
LEMMA BackedIntake ==
    ASSUME NEW s \in Threads
    PROVE  Backed(IntakeNode(s))
BY FixAssumption DEF IntakeNode, Backed, Threads, Plan, InPlan

(* pre_execute_review replaces at most a result of the step it stages. *)
LEMMA BackedReview ==
    ASSUME NEW s \in Threads, Backed(s), NEW adapted \in Commands
    PROVE  Backed(PreExecuteReviewNode(s, adapted))
<1> DEFINE t == PreExecuteReviewNode(s, adapted)
<1>1. /\ t \in Threads
      /\ t.plan = s.plan /\ t.idx = s.idx /\ t.last = "pre_execute_review"
  BY NodeTypes DEF PreExecuteReviewNode, Threads
<1>2. Plan(t) = Plan(s) /\ (InPlan(t) <=> InPlan(s))
  BY <1>1 DEF Plan, InPlan
<1>3. s.results \in Seq(StepResult) /\ s.idx \in Nat
  BY DEF Threads
<1>4. CASE ~InPlan(s)
  <2>1. t.results = s.results
    BY <1>4 DEF PreExecuteReviewNode, Threads
  <2>2. \A i : Acted(t, i) <=> Acted(s, i)
    BY <2>1, ActedSameResults
  <2> QED
    BY <1>1, <1>2, <1>4, <2>2 DEF Backed
<1>5. ASSUME InPlan(s), NEW r \in StepResult, r.step = s.idx,
             \/ t.results = Append(s.results, r)
             \/ /\ t.results = ReplaceLast(s.results, r)
                /\ s.results # << >> /\ LastResult(s).step = s.idx
      PROVE  Backed(t)
  <2>1. ASSUME NEW i \in 0 .. (s.idx - 1), Acted(s, i)
        PROVE  Acted(t, i)
    <3>1. i # s.idx
      BY <1>3
    <3> HIDE DEF t
    <3> QED
      BY <1>5, <2>1, <3>1, ActedAppend, ActedReplace
  <2>2. t.results # << >> /\ LastResult(t).step = s.idx
    <3> HIDE DEF t
    <3>1. CASE t.results = Append(s.results, r)
      BY <1>3, <1>5, <3>1 DEF LastResult
    <3>2. CASE t.results = ReplaceLast(s.results, r) /\ s.results # << >>
      BY <1>3, <1>5, <3>2, ReplaceLastEntries DEF LastResult
    <3> QED
      BY <1>5, <3>1, <3>2
  <2> HIDE DEF t
  <2> QED
    BY <1>1, <1>2, <2>1, <2>2 DEF Backed
<1>6. CASE InPlan(s) /\ NeedsOperator(CurrentStep(s))
  <2> DEFINE r == StagedResult(s, CurrentStep(s).command, "manual")
  <2>1. r \in StepResult /\ r.step = s.idx
    BY <1>6, CurrentStepType, StagedResultType DEF SavedSteps, StagedResult
  <2>2. t.results = Append(s.results, r)
    BY <1>6 DEF PreExecuteReviewNode, Threads
  <2> QED
    BY <1>5, <1>6, <2>1, <2>2
<1>7. CASE InPlan(s) /\ ~NeedsOperator(CurrentStep(s))
  <2> DEFINE r == StagedResult(s, adapted,
                     IF adapted \in SafeCommands THEN "allowed" ELSE "rejected")
  <2>1. r \in StepResult /\ r.step = s.idx
    BY StagedResultType DEF StagedResult
  <2>2. t.results = UpsertStaged(s, r)
    BY <1>7 DEF PreExecuteReviewNode, Threads
  <2>3. \/ t.results = Append(s.results, r)
        \/ /\ t.results = ReplaceLast(s.results, r)
           /\ s.results # << >> /\ LastResult(s).step = s.idx
    BY <2>2 DEF UpsertStaged, LooksStaged
  <2> QED
    BY <1>5, <1>7, <2>1, <2>3
<1> QED
  BY <1>4, <1>6, <1>7

(* execute_step leaves a result that is not staged for the step it finds. *)
LEMMA BackedExecute ==
    ASSUME NEW s \in Threads, Backed(s), Following(s) = "execute_step",
           NEW outcome \in Outcomes
    PROVE  Backed(ExecuteStepNode(s, outcome))
<1> DEFINE t == ExecuteStepNode(s, outcome)
<1>1. /\ t.plan = s.plan /\ t.idx = s.idx /\ t.last = "execute_step"
  BY DEF ExecuteStepNode, Threads
<1>2. Plan(t) = Plan(s) /\ (InPlan(t) <=> InPlan(s))
  BY <1>1 DEF Plan, InPlan
<1>3. s.results \in Seq(StepResult) /\ s.idx \in Nat
  BY DEF Threads
<1>4. CASE ~InPlan(s)
  <2>1. t.results = s.results
    BY <1>4 DEF ExecuteStepNode, Executable, Threads
  <2>2. \A i : Acted(t, i) <=> Acted(s, i)
    BY <2>1, ActedSameResults
  <2> QED
    BY <1>1, <1>2, <1>4, <2>2 DEF Backed
<1>5. CASE InPlan(s)
  <2> DEFINE r == ExecutedResult(s, outcome)
  <2>1. s.results # << >> /\ LastResult(s).step = s.idx
    BY <1>5, OnlyPredecessor DEF Backed
  <2>2. r \in StepResult /\ r.step = s.idx /\ r.status # "staged"
    BY <2>1, ExecutedResultType
  <2>3. t.results = ReplaceLast(s.results, r)
    BY <1>5, <2>1 DEF ExecuteStepNode, Executable, Threads
  <2> HIDE DEF t, r
  <2>4. \A i \in 0 .. (s.idx - 1) : Acted(s, i) => Acted(t, i)
    BY <1>3, <2>1, <2>2, <2>3, ActedReplace
  <2>5. Acted(t, s.idx)
    <3>1. Len(t.results) \in DOMAIN t.results /\ t.results[Len(t.results)] = r
      BY <1>3, <2>1, <2>2, <2>3, ReplaceLastEntries
    <3> QED
      BY <2>2, <3>1 DEF Acted
  <2>6. \A i \in 0 .. (t.idx - 1) : i < Len(Plan(t)) => Acted(t, i)
    BY <1>1, <1>2, <2>4 DEF Backed
  <2>7. Acted(t, t.idx)
    BY <1>1, <2>5
  <2> QED
    BY <1>1, <2>6, <2>7 DEF Backed, t
<1> QED
  BY <1>4, <1>5

(* hitl_checkpoint runs after execute_step and keeps what it wrote. *)
LEMMA BackedHitl ==
    ASSUME NEW s \in Threads, Backed(s), Following(s) = "hitl_checkpoint"
    PROVE  Backed(HitlCheckpointNode(s))
<1> DEFINE t == HitlCheckpointNode(s)
<1>1. /\ t.plan = s.plan /\ t.idx = s.idx /\ t.results = s.results
      /\ t.last = "hitl_checkpoint"
  BY DEF HitlCheckpointNode, Threads
<1>2. Plan(t) = Plan(s) /\ (InPlan(t) <=> InPlan(s))
  BY <1>1 DEF Plan, InPlan
<1>3. \A i : Acted(t, i) <=> Acted(s, i)
  BY <1>1, ActedSameResults
<1>4. s.last = "execute_step"
  BY OnlyPredecessor
<1> HIDE DEF t
<1>5. \A i \in 0 .. (t.idx - 1) : i < Len(Plan(t)) => Acted(t, i)
  BY <1>1, <1>2, <1>3 DEF Backed
<1>6. InPlan(t) => Acted(s, s.idx)
  BY <1>2, <1>4 DEF Backed
<1>7. InPlan(t) => Acted(t, t.idx)
  BY <1>1, <1>3, <1>6
<1> QED
  BY <1>1, <1>5, <1>7 DEF Backed, t

(* advance_step moves past a step that was acted on. *)
LEMMA BackedAdvance ==
    ASSUME NEW s \in Threads, Backed(s), Following(s) = "advance_step"
    PROVE  Backed(AdvanceStepNode(s))
<1> DEFINE t == AdvanceStepNode(s)
<1>1. /\ t.plan = s.plan /\ t.idx = s.idx + 1 /\ t.results = s.results
      /\ t.last = "advance_step"
  BY DEF AdvanceStepNode, Threads
<1>2. Plan(t) = Plan(s)
  BY <1>1 DEF Plan
<1>3. \A i : Acted(t, i) <=> Acted(s, i)
  BY <1>1, ActedSameResults
<1>4. s.last = "hitl_checkpoint" /\ s.idx + 1 < Len(Plan(s))
  BY OnlyPredecessor
<1>5. s.idx \in Nat /\ Len(Plan(s)) \in Nat
  BY PlanType DEF Threads
<1>6. InPlan(s)
  BY <1>4, <1>5 DEF InPlan
<1>7. Acted(s, s.idx)
  BY <1>4, <1>6 DEF Backed
<1> HIDE DEF t
<1>8. ASSUME NEW i \in 0 .. (t.idx - 1), i < Len(Plan(t)) PROVE Acted(t, i)
  <2>1. CASE i = s.idx
    BY <1>3, <1>7, <2>1
  <2>2. CASE i # s.idx
    <3>1. i \in 0 .. (s.idx - 1)
      BY <1>1, <1>5, <2>2
    <3> QED
      BY <1>2, <1>3, <1>8, <3>1 DEF Backed
  <2> QED
    BY <2>1, <2>2
<1> QED
  BY <1>1, <1>8 DEF Backed, t

(* complete_autonomous is reached from the last step only. *)
LEMMA BackedComplete ==
    ASSUME NEW s \in Threads, Backed(s), Following(s) = "complete_autonomous"
    PROVE  Backed(CompleteAutonomousNode(s))
<1> DEFINE t == CompleteAutonomousNode(s)
<1>1. /\ t.plan = s.plan /\ t.idx = s.idx /\ t.results = s.results
      /\ t.last = "complete_autonomous"
  BY DEF CompleteAutonomousNode, Threads
<1>2. Plan(t) = Plan(s) /\ (InPlan(t) <=> InPlan(s))
  BY <1>1 DEF Plan, InPlan
<1>3. \A i : Acted(t, i) <=> Acted(s, i)
  BY <1>1, ActedSameResults
<1>4. s.last = "hitl_checkpoint" /\ s.idx + 1 >= Len(Plan(s))
  BY OnlyPredecessor
<1> HIDE DEF t
<1>5. \A i \in 0 .. (t.idx - 1) : i < Len(Plan(t)) => Acted(t, i)
  BY <1>1, <1>2, <1>3 DEF Backed
<1>6. InPlan(t) => Acted(s, s.idx)
  BY <1>2, <1>4 DEF Backed
<1>7. InPlan(t) => Acted(t, t.idx)
  BY <1>1, <1>3, <1>6
<1>8. t.idx + 1 >= Len(Plan(t))
  BY <1>1, <1>2, <1>4
<1> QED
  BY <1>1, <1>5, <1>7, <1>8 DEF Backed, t

(* What else a step may write: the checkpoint, the copies of the request   *)
(* that takes it, and no request's snapshot or body but its own.           *)
LEMMA CheckpointBacked ==
    ASSUME TypeOK, IndexIsBacked, NEW c \in Clients, NEW s, Backed(s), Checkpoint(c, s),
           pc[c] \in {"run", "save"},
           (Edits \subseteq {None}) \/ (\A d \in Clients : d = c)
    PROVE  IndexIsBacked'
<1>1. saved' = s
  BY DEF Checkpoint
<1>2. \A d \in Clients : mem'[d] \in {mem[d], s, NewThread}
  BY DEF Checkpoint, Return, RunOn, TypeOK
<1>3. \A d \in Clients : Backed(mem'[d])
  BY <1>2, BackedNew DEF IndexIsBacked
<1>4. ASSUME NEW d \in Clients, pc'[d] = "update", body'[d].edit # None
      PROVE  snap'[d] = saved'.results
  <2>1. d # c
    BY <1>4 DEF Checkpoint, Return, RunOn, TypeOK
  <2>2. body'[d] = body[d]
    BY <2>1 DEF Checkpoint, Return, RunOn, TypeOK
  <2>3. body[d].edit \in Edits \cup {None}
    BY DEF TypeOK, Requests, NoRequest
  <2> QED
    BY <1>4, <2>1, <2>2, <2>3
<1> QED
  BY <1>1, <1>3, <1>4 DEF IndexIsBacked

(* The index is backed initially. *)
LEMMA InitBacked == Init => IndexIsBacked
BY BackedNew DEF Init, IndexIsBacked

(* Every step keeps the index backed, as long as no edited command is      *)
(* written from a snapshot another request has made stale.                 *)
LEMMA NextBacked ==
    ASSUME (Edits \subseteq {None}) \/ (\A c, d \in Clients : c = d),
           TypeOK, IndexIsBacked, [Next]_vars
    PROVE  IndexIsBacked'
<1>u. CASE UNCHANGED vars
  BY <1>u DEF IndexIsBacked, vars, local, bounds, history
<1>n. CASE Next
  <2> SUFFICES ASSUME NEW c \in Clients,
                      StartSession(c) \/ PostDecision(c) \/ Handler(c) \/ Die(c)
               PROVE  IndexIsBacked'
    BY <1>n DEF Next
  <2>a. mem[c] \in Threads /\ saved \in Threads /\ Backed(mem[c]) /\ Backed(saved)
    BY DEF TypeOK, IndexIsBacked
  <2>b. (Edits \subseteq {None}) \/ (\A d \in Clients : d = c)
    OBVIOUS
  <2>c. \A d \in Clients : body[d].edit # None => \A e \in Clients : e = d
    BY <2>b DEF TypeOK, Requests, NoRequest
  <2>1. CASE StartSession(c)
    <3> DEFINE s == [saved EXCEPT !.last = "__start__"]
    <3>1. s \in Threads
      BY <2>a DEF Threads, Nodes
    <3>2. Backed(s)
      BY <2>a, <3>1, BackedFrame DEF Threads
    <3>3. saved' = s /\ mem' = [mem EXCEPT ![c] = s] /\ pc' = [pc EXCEPT ![c] = "run"]
          /\ body' = body /\ snap' = snap
      BY <2>1 DEF StartSession, RunOn
    <3>4. s.results = saved.results
      BY <2>a DEF Threads
    <3> HIDE DEF s
    <3> QED
      BY <3>2, <3>3, <3>4 DEF IndexIsBacked, TypeOK
  <2>2. CASE PostDecision(c)
    <3>1. saved' = saved /\ mem' = mem
          /\ snap' = [snap EXCEPT ![c] = saved.results] /\ pc' = [pc EXCEPT ![c] = "update"]
      BY <2>2 DEF PostDecision
    <3>2. \A d \in Clients : d # c => body'[d] = body[d]
      BY <2>2 DEF PostDecision, TypeOK
    <3> QED
      BY <3>1, <3>2 DEF IndexIsBacked, TypeOK
  <2>3. CASE UpdateState(c)
    <3> DEFINE pick == IF body[c].pick # None THEN body[c].pick ELSE saved.selected
    <3>1. /\ pc[c] = "update" /\ pc' = [pc EXCEPT ![c] = "resume"]
          /\ mem' = mem /\ body' = body /\ snap' = snap
          /\ saved' = [saved EXCEPT !.decision = body[c].decision, !.selected = pick,
                                    !.results = EditedResults(c)]
      BY <2>3, <2>a DEF UpdateState, Threads
    <3>2. /\ saved'.plan = saved.plan /\ saved'.idx = saved.idx /\ saved'.last = saved.last
          /\ saved'.results = EditedResults(c)
      BY <2>a, <3>1 DEF Threads
    <3>3. saved.results \in Seq(StepResult) /\ saved' \in Threads
      BY <2>a, NextType DEF TypeOK, Threads
    <3>4. /\ Len(EditedResults(c)) = Len(saved.results)
          /\ \A k \in 1 .. Len(saved.results) :
                 /\ EditedResults(c)[k].step = saved.results[k].step
                 /\ EditedResults(c)[k].status = saved.results[k].status
      <4>1. CASE body[c].edit # None /\ snap[c] # << >>
        <5> DEFINE last == snap[c][Len(snap[c])]
                   r == [last EXCEPT !.cmd = body[c].edit]
        <5>1. snap[c] = saved.results
          BY <3>1, <4>1 DEF IndexIsBacked
        <5>2. last \in StepResult /\ body[c].edit \in Commands
          BY <3>3, <4>1, <5>1, RequestAssumption DEF TypeOK, Requests, NoRequest
        <5>3. r \in StepResult /\ r.step = last.step /\ r.status = last.status
          BY <5>2 DEF StepResult
        <5>4. EditedResults(c) = ReplaceLast(saved.results, r)
          BY <4>1, <5>1 DEF EditedResults
        <5> HIDE DEF r
        <5> QED
          BY <3>3, <4>1, <5>1, <5>3, <5>4, ReplaceLastEntries
      <4>2. CASE ~(body[c].edit # None /\ snap[c] # << >>)
        BY <4>2 DEF EditedResults
      <4> QED
        BY <4>1, <4>2
    <3>5. Backed(saved')
      BY <2>a, <3>2, <3>3, <3>4, BackedUpdate
    <3>6. ASSUME NEW d \in Clients, pc'[d] = "update", body'[d].edit # None
          PROVE  FALSE
      BY <2>c, <3>1, <3>6 DEF TypeOK
    <3> QED
      BY <3>1, <3>5, <3>6 DEF IndexIsBacked
  <2>4. CASE Resume(c)
    <3>1. saved' = saved /\ \A d \in Clients : mem'[d] \in {mem[d], saved, NewThread}
      BY <2>4 DEF Resume, Return, RunOn, TypeOK
    <3>2. \A d \in Clients : pc'[d] = "update" =>
              pc[d] = "update" /\ body'[d] = body[d] /\ snap'[d] = snap[d]
      BY <2>4 DEF Resume, Return, RunOn, TypeOK
    <3> QED
      BY <2>a, <3>1, <3>2, BackedNew DEF IndexIsBacked
  <2>5. CASE Intake(c)
    BY <2>5, <2>a, <2>b, BackedIntake, CheckpointBacked DEF Intake, At
  <2>6. CASE Classify(c)
    <3>1. PICK mode \in Modes : Checkpoint(c, ClassifyNode(mem[c], mode))
      BY <2>6 DEF Classify
    <3>2. Backed(ClassifyNode(mem[c], mode))
      BY <2>a, BackedQuiet
    <3> QED
      BY <2>6, <2>b, <3>1, <3>2, CheckpointBacked DEF Classify, At
  <2>7. CASE Observe(c)
    <3>1. PICK node \in ObservingNodes :
              At(c, node) /\ Checkpoint(c, ObservingNode(mem[c], node))
      BY <2>7 DEF Observe
    <3>2. Backed(ObservingNode(mem[c], node))
      BY <2>a, BackedQuiet
    <3> QED
      BY <2>b, <3>1, <3>2, CheckpointBacked DEF At
  <2>8. CASE RrfRank(c)
    <3>1. PICK top \in Shortlist \cup {None} : Checkpoint(c, RrfRankNode(mem[c], top))
      BY <2>8 DEF RrfRank
    <3>2. Backed(RrfRankNode(mem[c], top))
      BY <2>a, BackedQuiet
    <3> QED
      BY <2>8, <2>b, <3>1, <3>2, CheckpointBacked DEF RrfRank, At
  <2>9. CASE LoadFixPlan(c)
    BY <2>9, <2>a, <2>b, BackedLoad, CheckpointBacked DEF LoadFixPlan, At
  <2>10. CASE PreExecuteReview(c)
    <3>1. PICK adapted \in Commands : Checkpoint(c, PreExecuteReviewNode(mem[c], adapted))
      BY <2>10 DEF PreExecuteReview
    <3>2. Backed(PreExecuteReviewNode(mem[c], adapted))
      BY <2>a, BackedReview
    <3> QED
      BY <2>10, <2>b, <3>1, <3>2, CheckpointBacked DEF PreExecuteReview, At
  <2>11. CASE ExecuteStep(c)
    <3>1. PICK outcome \in Outcomes : mem' = [mem EXCEPT ![c] = ExecuteStepNode(mem[c], outcome)]
      BY <2>11 DEF ExecuteStep
    <3>2. Backed(ExecuteStepNode(mem[c], outcome))
      BY <2>11, <2>a, BackedExecute DEF ExecuteStep, At
    <3>3. saved' = saved /\ body' = body /\ snap' = snap /\ pc' = [pc EXCEPT ![c] = "save"]
      BY <2>11 DEF ExecuteStep
    <3> QED
      BY <3>1, <3>2, <3>3 DEF IndexIsBacked, TypeOK
  <2>12. CASE SaveExecuted(c)
    BY <2>12, <2>a, <2>b, CheckpointBacked DEF SaveExecuted
  <2>13. CASE HitlCheckpoint(c)
    BY <2>13, <2>a, <2>b, BackedHitl, CheckpointBacked DEF HitlCheckpoint, At
  <2>14. CASE AdvanceStep(c)
    BY <2>14, <2>a, <2>b, BackedAdvance, CheckpointBacked DEF AdvanceStep, At
  <2>15. CASE CompleteAutonomous(c)
    BY <2>15, <2>a, <2>b, BackedComplete, CheckpointBacked DEF CompleteAutonomous, At
  <2>16. CASE ManualFallback(c)
    <3>1. Backed(ManualFallbackNode(mem[c]))
      BY <2>a, BackedQuiet
    <3> QED
      BY <2>16, <2>b, <3>1, CheckpointBacked DEF ManualFallback, At
  <2>17. CASE Die(c)
    <3>1. saved' = saved /\ \A d \in Clients : mem'[d] \in {mem[d], NewThread}
      BY <2>17 DEF Die, Return, TypeOK
    <3>2. \A d \in Clients : pc'[d] = "update" =>
              pc[d] = "update" /\ body'[d] = body[d] /\ snap'[d] = snap[d]
      BY <2>17 DEF Die, Return, TypeOK
    <3> QED
      BY <2>a, <3>1, <3>2, BackedNew DEF IndexIsBacked
  <2> QED
    BY <2>1, <2>2, <2>3, <2>4, <2>5, <2>6, <2>7, <2>8, <2>9, <2>10, <2>11, <2>12,
       <2>13, <2>14, <2>15, <2>16, <2>17 DEF Handler, Node
<1> QED
  BY <1>u, <1>n

(* In every instance of one request at a time, or without edited commands, *)
(* the index is backed in the checkpoint and in every copy of it.          *)
THEOREM IndexStaysBacked ==
    ASSUME (Edits \subseteq {None}) \/ (\A c, d \in Clients : c = d)
    PROVE  Spec => []IndexIsBacked
<1>1. TypeOK /\ IndexIsBacked /\ [Next]_vars => IndexIsBacked'
  BY NextBacked
<1> QED
  BY <1>1, InitBacked, TypesHold, PTL DEF Spec

(* complete_autonomous never reports a step that nobody acted on, whatever *)
(* plans, decisions, restarts, dead requests and races there are, as long  *)
(* as no two requests are in flight while commands are being edited.       *)
THEOREM CompletionIsSound ==
    ASSUME (Edits \subseteq {None}) \/ (\A c, d \in Clients : c = d)
    PROVE  Spec => []CompletedMeansEveryStepActed
<1>1. TypeOK /\ IndexIsBacked => CompletedMeansEveryStepActed
  <2> SUFFICES ASSUME TypeOK, Backed(saved), saved.last = "complete_autonomous",
                      NEW i \in 0 .. (Len(Plan(saved)) - 1)
               PROVE  Acted(saved, i)
    BY DEF CompletedMeansEveryStepActed, IndexIsBacked
  <2>1. saved \in Threads /\ saved.idx \in Nat /\ Len(Plan(saved)) \in Nat
    BY PlanType DEF TypeOK, Threads
  <2>2. saved.idx + 1 >= Len(Plan(saved))
    BY DEF Backed
  <2>3. CASE i < saved.idx
    BY <2>1, <2>3 DEF Backed
  <2>4. CASE i = saved.idx
    BY <2>1, <2>4 DEF Backed, InPlan
  <2> QED
    BY <2>1, <2>2, <2>3, <2>4
<1> QED
  BY <1>1, IndexStaysBacked, TypesHold, PTL

=============================================================================
