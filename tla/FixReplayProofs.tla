--------------------------- MODULE FixReplayProofs ---------------------------
(***************************************************************************)
(* Theorems about FixSession with one request at a time, for every set of  *)
(* fixes, plans, commands, decisions and edits and every number of starts, *)
(* posts and deaths: the session implements PlanReplay, its results follow *)
(* the plan and are of this run, and no visit of execute_step lacks a      *)
(* decision of its own.  The fix that was clicked is the one replayed,     *)
(* what a command printed stays on record, and a step is not repeated      *)
(* unless a request died.                                                  *)
(***************************************************************************)
EXTENDS FixSessionProofs, FiniteSetTheorems

-----------------------------------------------------------------------------
(***************************************************************************)
(* What holds between two steps.                                           *)
(***************************************************************************)

(* Nodes before a plan is loaded. *)
Early == {"none", "intake", "classify", "semantic_retrieve", "rule_filter", "rrf_rank",
          "present_similar", "consent_gate"}

(* RecordIsOfThisRun, of any results and visits. *)
Recorded(results, vs) ==
    \A k \in DOMAIN results :
        results[k].status # "staged" =>
            \E m \in DOMAIN vs :
                /\ vs[m].step = results[k].step
                /\ results[k].cmd \in {vs[m].cmd} \cup Edits

(* ResultsFollowPlan of any thread.  That the steps never fall, for any    *)
(* two results, and that the last one is at most one behind the index, is  *)
(* what makes it inductive.                                                *)
InPlanOrder(s) ==
    /\ \A k \in DOMAIN s.results : s.results[k].step <= s.idx
    /\ \A j, k \in DOMAIN s.results : j <= k => s.results[j].step <= s.results[k].step
    /\ \A k \in DOMAIN s.results :
           k + 1 \in DOMAIN s.results =>
               s.results[k + 1].step \in {s.results[k].step, s.results[k].step + 1}
    /\ s.results # << >> => s.idx <= LastResult(s).step + 1

EarlyIsEmpty(s, vs) == s.last \in Early => s.results = << >> /\ vs = << >> /\ s.idx = 0

Ledger(s, vs) == Recorded(s.results, vs) /\ InPlanOrder(s) /\ EarlyIsEmpty(s, vs)

(* Each visit answers a "continue" among the first n decisions. *)
Approved(vs, n) ==
    /\ \A k \in DOMAIN vs : vs[k].decision = "continue" /\ vs[k].post <= n
    /\ \A k, m \in DOMAIN vs : vs[k].post = vs[m].post => k = m

(* The n-th decision has not been acted on. *)
Fresh(b, vs, n) == b.post = n /\ \A k \in DOMAIN vs : vs[k].post < n

(* A run that a start began is paused before the first step; one that a    *)
(* decision began carries it as far as the next execute_step.              *)
Running(s, b, vs, n) ==
    \/ s.last \in Early \cup {"__start__"}
    \/ /\ Fresh(b, vs, n)
       /\ \/ s.decision = b.decision
          \/ s.last = "hitl_checkpoint" /\ Following(s) # "pre_execute_review"

Stage(c) ==
    /\ pc[c] = "idle" => body[c] = NoRequest
    /\ pc[c] = "update" => ~Over(saved)
    /\ pc[c] \in {"update", "resume"} => Fresh(body[c], visits, posts)
    /\ pc[c] = "resume" => saved.decision = body[c].decision
    /\ pc[c] = "run" => mem[c] = saved /\ Running(saved, body[c], visits, posts)
    /\ pc[c] = "save" =>
           /\ saved.last = "pre_execute_review" /\ mem[c].last = "execute_step"
           /\ mem[c].plan = saved.plan /\ mem[c].idx = saved.idx
           /\ Ledger(mem[c], visits)

Alone == Ledger(saved, visits) /\ Approved(visits, posts) /\ \A c \in Clients : Stage(c)

-----------------------------------------------------------------------------
(***************************************************************************)
(* The nodes.                                                              *)
(***************************************************************************)

LEMMA Predecessors ==
    ASSUME NEW s
    PROVE  /\ Following(s) \in {"classify", "semantic_retrieve", "rule_filter", "rrf_rank",
                                "present_similar", "consent_gate", "load_fix_plan"} =>
                  s.last \in Early
           /\ Following(s) = "intake" => s.last = "__start__"
           /\ s.last \in {"none", "complete_autonomous", "manual_fallback"} => Over(s)
           /\ s.last = "__start__" => Following(s) = "intake"
           /\ Following(s) = "execute_step" =>
                  s.last = "pre_execute_review" /\ s.decision = "continue"
           /\ Following(s) \in {"advance_step", "complete_autonomous"} =>
                  s.last = "hitl_checkpoint"
           /\ s.last = "load_fix_plan" => Following(s) = "pre_execute_review"
           /\ s.last = "advance_step" => Following(s) = "pre_execute_review"
           /\ s.last = "execute_step" => Following(s) = "hitl_checkpoint"
           /\ s.last = "emit_new_issue" => Over(s)
           /\ s.last = "pre_execute_review" => Following(s) \in {"execute_step", "manual_fallback"}
           /\ s.last = "consent_gate" => Following(s) \in {"load_fix_plan", "manual_fallback"}
  BY DEF Following, StaticEdge, RouteAfterClassify, RouteAfterConsent, RouteAfterPreExecute,
         RouteAfterHitl, Early, Over

(* Nodes that leave index and results alone. *)
LEMMA LedgerQuiet ==
    ASSUME NEW s, NEW t, NEW vs, Ledger(s, vs), t.idx = s.idx, t.results = s.results,
           t.last \in Early => s.last \in Early
    PROVE  Ledger(t, vs)
  BY DEF Ledger, Recorded, InPlanOrder, EarlyIsEmpty, LastResult

(* Nothing is recorded yet. *)
LEMMA LedgerEmpty ==
    ASSUME NEW s, NEW vs, s.results = << >>, s.last \notin Early \/ (vs = << >> /\ s.idx = 0)
    PROVE  Ledger(s, vs)
  BY DEF Ledger, Recorded, InPlanOrder, EarlyIsEmpty

LEMMA LedgerAppend ==
    ASSUME NEW s \in Threads, NEW t \in Threads, NEW vs, NEW r \in StepResult, Ledger(s, vs),
           t.results = Append(s.results, r), t.idx = s.idx, r.step = s.idx,
           r.status = "staged", t.last \notin Early
    PROVE  Ledger(t, vs)
<1>1. /\ s.results \in Seq(StepResult) /\ s.idx \in Nat /\ Len(s.results) \in Nat
      /\ t.results \in Seq(StepResult) /\ t.results # << >>
      /\ DOMAIN s.results = 1 .. Len(s.results) /\ DOMAIN t.results = 1 .. (Len(s.results) + 1)
      /\ \A k \in DOMAIN s.results : t.results[k] = s.results[k] /\ s.results[k].step \in Nat
      /\ t.results[Len(s.results) + 1] = r /\ LastResult(t) = r
  <2>1. s.results \in Seq(StepResult) /\ s.idx \in Nat
    BY DEF Threads
  <2>2. \A x \in StepResult : x.step \in Nat
    BY DEF StepResult
  <2>3. \A k \in DOMAIN s.results : s.results[k] \in StepResult
    BY <2>1
  <2>4. /\ Len(s.results) \in Nat /\ t.results \in Seq(StepResult)
        /\ Len(t.results) = Len(s.results) + 1
        /\ DOMAIN s.results = 1 .. Len(s.results) /\ DOMAIN t.results = 1 .. (Len(s.results) + 1)
        /\ \A k \in DOMAIN s.results : t.results[k] = s.results[k]
        /\ t.results[Len(s.results) + 1] = r
    BY <2>1
  <2>5. t.results # << >> /\ LastResult(t) = r
    BY <2>4 DEF LastResult
  <2> QED BY <2>1, <2>2, <2>3, <2>4, <2>5
<1>2. Recorded(t.results, vs)
  BY <1>1 DEF Ledger, Recorded
<1>3. /\ \A k \in DOMAIN t.results : t.results[k].step <= t.idx
      /\ \A j, k \in DOMAIN t.results : j <= k => t.results[j].step <= t.results[k].step
  <2>1. \A k \in DOMAIN s.results : s.results[k].step <= s.idx
    BY DEF Ledger, InPlanOrder
  <2>2. \A j, k \in DOMAIN s.results : j <= k => s.results[j].step <= s.results[k].step
    BY DEF Ledger, InPlanOrder
  <2>3. \A k \in DOMAIN t.results : k \in DOMAIN s.results \/ k = Len(s.results) + 1
    BY <1>1
  <2>4. \A k \in DOMAIN t.results : t.results[k].step <= t.idx
    BY <1>1, <2>1, <2>3
  <2>5. ASSUME NEW j \in DOMAIN t.results, NEW k \in DOMAIN t.results, j <= k
        PROVE  t.results[j].step <= t.results[k].step
    <3>1. CASE k \in DOMAIN s.results
      <4>1. j \in DOMAIN s.results
        BY <1>1, <2>5, <3>1
      <4> QED BY <1>1, <2>2, <2>5, <3>1, <4>1
    <3>2. CASE k = Len(s.results) + 1
      BY <1>1, <2>4, <3>2
    <3> QED BY <2>3, <3>1, <3>2
  <2> QED BY <2>4, <2>5
<1>4. ASSUME NEW k \in DOMAIN t.results, k + 1 \in DOMAIN t.results
      PROVE  t.results[k + 1].step \in {t.results[k].step, t.results[k].step + 1}
  <2>1. CASE k + 1 \in DOMAIN s.results
    BY <1>1, <1>4, <2>1 DEF Ledger, InPlanOrder
  <2>2. CASE k + 1 = Len(s.results) + 1
    <3>1. k = Len(s.results) /\ k \in DOMAIN s.results /\ s.results # << >>
      BY <1>1, <1>4, <2>2
    <3>2. s.idx <= s.results[k].step + 1 /\ s.results[k].step <= s.idx
      BY <3>1 DEF Ledger, InPlanOrder, LastResult
    <3> QED BY <1>1, <2>2, <3>1, <3>2
  <2> QED BY <1>1, <1>4, <2>1, <2>2
<1>5. t.idx <= LastResult(t).step + 1
  BY <1>1
<1> QED BY <1>2, <1>3, <1>4, <1>5 DEF Ledger, InPlanOrder, EarlyIsEmpty

(* The last result gives way to another one of the step under the index.   *)
LEMMA LedgerReplace ==
    ASSUME NEW s \in Threads, NEW t \in Threads, NEW vs, NEW ws, NEW r \in StepResult,
           Ledger(s, vs), Recorded(t.results, ws), s.results # << >>, LastResult(s).step = r.step,
           t.results = ReplaceLast(s.results, r), t.idx = s.idx, t.last \notin Early
    PROVE  Ledger(t, ws)
<1>1. /\ s.results \in Seq(StepResult) /\ Len(s.results) \in Nat
      /\ t.results \in Seq(StepResult)
      /\ DOMAIN t.results = DOMAIN s.results /\ Len(t.results) = Len(s.results)
      /\ t.results # << >> /\ t.results[Len(t.results)] = r
      /\ \A k \in DOMAIN s.results : k # Len(s.results) => t.results[k] = s.results[k]
  BY ReplaceLastEntries DEF Threads
<1>2. \A k \in DOMAIN s.results : t.results[k].step = s.results[k].step
  BY <1>1 DEF LastResult
<1>3. LastResult(t).step = LastResult(s).step
  BY <1>1 DEF LastResult
<1>4. InPlanOrder(t)
  BY <1>1, <1>2, <1>3 DEF Ledger, InPlanOrder
<1> QED BY <1>4 DEF Ledger, EarlyIsEmpty

LEMMA LedgerReview ==
    ASSUME NEW s \in Threads, NEW vs, Ledger(s, vs), NEW adapted \in Commands
    PROVE  Ledger(PreExecuteReviewNode(s, adapted), vs)
<1> DEFINE t == PreExecuteReviewNode(s, adapted)
<1>0. /\ t \in Threads /\ t.last = "pre_execute_review" /\ t.last \notin Early /\ t.idx = s.idx
  <2>1. t \in Threads
    BY NodeTypes
  <2>2. t.last = "pre_execute_review" /\ t.idx = s.idx
    BY DEF PreExecuteReviewNode, Threads
  <2> QED BY <2>1, <2>2 DEF Early
<1>1. CASE ~InPlan(s)
  <2>1. t.results = s.results
    BY <1>1 DEF PreExecuteReviewNode, Threads
  <2> QED BY <1>0, <2>1, LedgerQuiet
<1>2. CASE InPlan(s) /\ NeedsOperator(CurrentStep(s))
  <2> DEFINE r == StagedResult(s, CurrentStep(s).command, "manual")
  <2>1. CurrentStep(s).command \in Commands \cup {None}
    BY <1>2, CurrentStepType DEF SavedSteps
  <2>2. r \in StepResult /\ r.step = s.idx /\ r.status = "staged"
    BY <2>1, StagedResultType DEF StagedResult
  <2>3. t.results = Append(s.results, r)
    BY <1>2 DEF PreExecuteReviewNode, Threads
  <2> HIDE DEF r, t
  <2>4. Ledger(t, vs)
    BY <1>0, <2>2, <2>3, LedgerAppend
  <2> QED BY <2>4 DEF t
<1>3. CASE InPlan(s) /\ ~NeedsOperator(CurrentStep(s))
  <2> DEFINE r == StagedResult(s, adapted, IF adapted \in SafeCommands THEN "allowed" ELSE "rejected")
  <2>1. r \in StepResult /\ r.step = s.idx /\ r.status = "staged"
    BY StagedResultType DEF StagedResult
  <2>2. t.results = UpsertStaged(s, r)
    BY <1>3 DEF PreExecuteReviewNode, Threads
  <2> HIDE DEF r, t
  <2>3. CASE s.results # << >> /\ LooksStaged(s, LastResult(s))
    <3>1. t.results = ReplaceLast(s.results, r) /\ LastResult(s).step = r.step
      BY <2>1, <2>2, <2>3 DEF UpsertStaged, LooksStaged
    <3>2. Recorded(t.results, vs)
      <4>1. /\ DOMAIN t.results = DOMAIN s.results /\ t.results[Len(t.results)] = r
            /\ Len(t.results) = Len(s.results)
            /\ \A k \in DOMAIN s.results : k # Len(s.results) => t.results[k] = s.results[k]
        BY <2>1, <2>3, <3>1, ReplaceLastEntries DEF Threads
      <4> QED BY <2>1, <4>1 DEF Ledger, Recorded
    <3> QED BY <1>0, <2>1, <2>3, <3>1, <3>2, LedgerReplace DEF t
  <2>4. CASE ~(s.results # << >> /\ LooksStaged(s, LastResult(s)))
    <3>1. t.results = Append(s.results, r)
      BY <2>2, <2>4 DEF UpsertStaged
    <3>2. Ledger(t, vs)
      BY <1>0, <2>1, <3>1, LedgerAppend
    <3> QED BY <3>2 DEF t
  <2> QED BY <2>3, <2>4
<1> QED BY <1>1, <1>2, <1>3

LEMMA AppendEntries ==
    ASSUME NEW vs \in Seq(Visits), NEW v \in Visits
    PROVE  /\ \A k \in DOMAIN Append(vs, v) : k \in DOMAIN vs \/ k = Len(vs) + 1
           /\ \A k \in DOMAIN vs : Append(vs, v)[k] = vs[k]
           /\ Append(vs, v)[Len(vs) + 1] = v
  OBVIOUS

(* A further visit takes nothing away. *)
LEMMA RecordedAppend ==
    ASSUME NEW results, NEW vs \in Seq(Visits), NEW v \in Visits, Recorded(results, vs)
    PROVE  Recorded(results, Append(vs, v))
<1>1. \A m \in DOMAIN vs : m \in DOMAIN Append(vs, v) /\ Append(vs, v)[m] = vs[m]
  OBVIOUS
<1> QED BY <1>1 DEF Recorded

LEMMA LedgerExecute ==
    ASSUME NEW s \in Threads, NEW vs \in Seq(Visits), NEW v \in Visits, Ledger(s, vs),
           NEW outcome \in Outcomes, Executable(s), v.step = s.idx, v.cmd = LastResult(s).cmd
    PROVE  Ledger(ExecuteStepNode(s, outcome), Append(vs, v))
<1> DEFINE t == ExecuteStepNode(s, outcome)
           r == ExecutedResult(s, outcome)
<1>1. t \in Threads
  BY NodeTypes
<1>2. t.last = "execute_step" /\ t.idx = s.idx /\ t.results = ReplaceLast(s.results, r)
  BY DEF ExecuteStepNode, Threads
<1>3. s.results # << >> /\ LastResult(s).step = s.idx
  BY DEF Executable
<1>4. r \in StepResult /\ r.step = s.idx
  BY <1>3, ExecutedResultType
<1>5. r.cmd = LastResult(s).cmd
  BY <1>3, LastResultType DEF ExecutedResult, StepResult
<1>6. /\ Len(vs) + 1 \in DOMAIN Append(vs, v) /\ Append(vs, v)[Len(vs) + 1] = v
  OBVIOUS
<1> HIDE DEF t, r
<1>7. Recorded(t.results, Append(vs, v))
  <2>1. Recorded(s.results, Append(vs, v))
    BY RecordedAppend DEF Ledger
  <2>2. /\ DOMAIN t.results = DOMAIN s.results /\ t.results[Len(t.results)] = r
        /\ Len(t.results) = Len(s.results)
        /\ \A k \in DOMAIN s.results : k # Len(s.results) => t.results[k] = s.results[k]
    BY <1>2, <1>3, <1>4, ReplaceLastEntries DEF Threads
  <2> QED BY <1>4, <1>5, <1>6, <2>1, <2>2 DEF Recorded
<1>8. Ledger(t, Append(vs, v))
  BY <1>1, <1>2, <1>3, <1>4, <1>7, LedgerReplace DEF Early
<1> QED BY <1>8 DEF t

LEMMA LedgerAdvance ==
    ASSUME NEW s \in Threads, NEW vs, Ledger(s, vs), Backed(s), Following(s) = "advance_step"
    PROVE  Ledger(AdvanceStepNode(s), vs)
<1> DEFINE t == AdvanceStepNode(s)
<1>1. t.last = "advance_step" /\ t.idx = s.idx + 1 /\ t.results = s.results /\ s.idx \in Nat
  BY DEF AdvanceStepNode, Threads
<1>2. s.last = "hitl_checkpoint" /\ InPlan(s)
  <2>1. s.last = "hitl_checkpoint" /\ s.idx + 1 < Len(Plan(s)) /\ Len(Plan(s)) \in Nat
    BY OnlyPredecessor, PlanType
  <2> QED BY <1>1, <2>1 DEF InPlan
<1>3. PICK k \in DOMAIN s.results : s.results[k].step = s.idx
  BY <1>2 DEF Backed, Acted
<1>4. /\ s.results \in Seq(StepResult) /\ Len(s.results) \in DOMAIN s.results
      /\ k <= Len(s.results) /\ \A j \in DOMAIN s.results : s.results[j].step \in Nat
  <2>1. s.results \in Seq(StepResult)
    BY DEF Threads
  <2>2. \A x \in StepResult : x.step \in Nat
    BY DEF StepResult
  <2> QED BY <2>1, <2>2
<1>5. s.idx <= LastResult(s).step
  BY <1>3, <1>4 DEF Ledger, InPlanOrder, LastResult
<1> HIDE DEF t
<1>6. LastResult(t) = LastResult(s) /\ LastResult(s).step \in Nat
  BY <1>1, <1>4 DEF LastResult
<1>7. \A j \in DOMAIN t.results : t.results[j].step <= t.idx
  <2>1. \A j \in DOMAIN s.results : s.results[j].step <= s.idx
    BY DEF Ledger, InPlanOrder
  <2> QED BY <1>1, <1>4, <2>1
<1>8. t.idx <= LastResult(t).step + 1
  BY <1>1, <1>5, <1>6
<1>9. Recorded(t.results, vs) /\ EarlyIsEmpty(t, vs)
  BY <1>1 DEF Ledger, EarlyIsEmpty, Early
<1> QED BY <1>1, <1>7, <1>8, <1>9 DEF Ledger, InPlanOrder, t

(* An edit changes the command of a result, into one that was typed. *)
LEMMA LedgerUpdate ==
    ASSUME NEW s \in Threads, NEW t \in Threads, NEW vs, Ledger(s, vs), t.last = s.last,
           t.idx = s.idx, Len(t.results) = Len(s.results),
           \A k \in DOMAIN s.results :
               /\ t.results[k].step = s.results[k].step
               /\ t.results[k].status = s.results[k].status
               /\ t.results[k].cmd \in {s.results[k].cmd} \cup Edits
    PROVE  Ledger(t, vs)
<1>1. /\ s.results \in Seq(StepResult) /\ t.results \in Seq(StepResult)
  BY DEF Threads
<1>2. /\ DOMAIN t.results = DOMAIN s.results /\ Len(s.results) \in Nat
      /\ t.results = << >> <=> s.results = << >>
      /\ s.results # << >> => Len(s.results) \in DOMAIN s.results
  BY <1>1
<1>3. Recorded(t.results, vs)
  BY <1>2 DEF Ledger, Recorded
<1>4. s.results # << >> => LastResult(t).step = LastResult(s).step
  BY <1>2 DEF LastResult
<1>5. InPlanOrder(t)
  BY <1>2, <1>4 DEF Ledger, InPlanOrder
<1> QED BY <1>2, <1>3, <1>5 DEF Ledger, EarlyIsEmpty

-----------------------------------------------------------------------------
(***************************************************************************)
(* The steps.                                                              *)
(***************************************************************************)
OneAtATime == \A c, d \in Clients : c = d

LEMMA AloneInit == Init => Alone
<1> SUFFICES ASSUME Init PROVE Alone
  OBVIOUS
<1>1. /\ saved = NewThread /\ visits = << >>
      /\ \A c \in Clients : pc[c] = "idle" /\ body[c] = NoRequest
  BY DEF Init
<1>2. saved.results = << >> /\ saved.idx = 0
  BY <1>1 DEF NewThread
<1>3. Ledger(saved, visits)
  BY <1>1, <1>2, LedgerEmpty
<1> QED BY <1>1, <1>3 DEF Alone, Approved, Stage

(* The end of a superstep. *)
LEMMA AloneCheckpoint ==
    ASSUME TypeOK, OneAtATime, NEW c \in Clients, NEW s, Checkpoint(c, s),
           Ledger(s, visits'), Approved(visits', posts'),
           \/ Following(s) \in InterruptBefore \cup {"END"}
           \/ Running(s, body[c], visits', posts')
    PROVE  Alone'
<1>1. saved' = s
  BY DEF Checkpoint
<1>2. CASE Following(s) \in InterruptBefore \cup {"END"}
  <2>1. pc'[c] = "idle" /\ body'[c] = NoRequest
    BY <1>2 DEF Checkpoint, Return, TypeOK
  <2>2. Stage(c)'
    BY <2>1 DEF Stage
  <2> QED BY <1>1, <2>2 DEF Alone, OneAtATime
<1>3. CASE ~(Following(s) \in InterruptBefore \cup {"END"})
  <2>1. pc'[c] = "run" /\ mem'[c] = s /\ body' = body
    BY <1>3 DEF Checkpoint, RunOn, TypeOK
  <2>2. Stage(c)'
    BY <1>1, <1>3, <2>1 DEF Stage
  <2> QED BY <1>1, <2>2 DEF Alone, OneAtATime
<1> QED BY <1>2, <1>3

(* A request that runs: what the nodes may count on. *)
LEMMA AtNode ==
    ASSUME TypeOK, IndexIsBacked, Alone, NEW c \in Clients, NEW node, At(c, node)
    PROVE  /\ mem[c] = saved /\ saved \in Threads /\ Following(saved) = node
           /\ Ledger(saved, visits) /\ Approved(visits, posts) /\ Backed(saved)
           /\ Running(saved, body[c], visits, posts)
  BY DEF At, Alone, Stage, TypeOK, IndexIsBacked

(* Nodes that leave the decision alone carry the request on. *)
LEMMA RunningQuiet ==
    ASSUME NEW s, NEW t, NEW b, NEW vs, NEW n, Running(s, b, vs, n), t.decision = s.decision,
           s.last \in Early \cup {"__start__"} => t.last \in Early,
           s.last = "hitl_checkpoint" => Following(s) = "pre_execute_review"
    PROVE  Running(t, b, vs, n)
  BY DEF Running

LEMMA AloneIntake ==
    ASSUME TypeOK, IndexIsBacked, Alone, OneAtATime, NEW c \in Clients, Intake(c)
    PROVE  Alone'
<1> DEFINE t == IntakeNode(saved)
<1>1. /\ mem[c] = saved /\ saved \in Threads /\ Running(saved, body[c], visits, posts)
      /\ Checkpoint(c, t) /\ visits' = << >> /\ posts' = posts
  BY AtNode DEF Intake, bounds
<1>2. t.last = "intake" /\ t.idx = 0 /\ t.results = << >>
  BY <1>1 DEF IntakeNode, Threads
<1> HIDE DEF t
<1>3. Ledger(t, visits') /\ Approved(visits', posts')
  BY <1>1, <1>2, LedgerEmpty DEF Approved
<1>4. Running(t, body[c], visits', posts')
  BY <1>2 DEF Running, Early
<1> QED BY <1>1, <1>3, <1>4, AloneCheckpoint

LEMMA AloneQuiet ==
    ASSUME TypeOK, IndexIsBacked, Alone, OneAtATime, NEW c \in Clients,
           Classify(c) \/ Observe(c) \/ RrfRank(c)
    PROVE  Alone'
<1> DEFINE Middle == {"classify", "semantic_retrieve", "rule_filter", "rrf_rank",
                      "present_similar", "consent_gate"}
<1>1. PICK t, node : /\ At(c, node) /\ Checkpoint(c, t)
                     /\ node \in Middle \cup {"emit_new_issue"} /\ t.last = node
                     /\ t.idx = saved.idx /\ t.results = saved.results
                     /\ t.decision = saved.decision
  <2>1. CASE Classify(c)
    <3>1. PICK mode \in Modes : At(c, "classify") /\ Checkpoint(c, ClassifyNode(mem[c], mode))
      BY <2>1 DEF Classify
    <3>2. mem[c] = saved /\ saved \in Threads
      BY <3>1, AtNode
    <3> DEFINE t == ClassifyNode(saved, mode)
    <3>3. Checkpoint(c, t)
      BY <3>1, <3>2
    <3>4. /\ t.last = "classify" /\ t.idx = saved.idx /\ t.results = saved.results
          /\ t.decision = saved.decision
      BY <3>2 DEF ClassifyNode, Threads
    <3> HIDE DEF t
    <3> QED BY <3>1, <3>3, <3>4
  <2>2. CASE Observe(c)
    <3>1. PICK node \in ObservingNodes :
              At(c, node) /\ Checkpoint(c, ObservingNode(mem[c], node))
      BY <2>2 DEF Observe
    <3>2. mem[c] = saved /\ saved \in Threads
      BY <3>1, AtNode
    <3> QED BY <3>1, <3>2 DEF ObservingNode, ObservingNodes, Threads
  <2>3. CASE RrfRank(c)
    <3>1. PICK top : At(c, "rrf_rank") /\ Checkpoint(c, RrfRankNode(mem[c], top))
      BY <2>3 DEF RrfRank
    <3>2. mem[c] = saved /\ saved \in Threads
      BY <3>1, AtNode
    <3> DEFINE t == RrfRankNode(saved, top)
    <3>3. Checkpoint(c, t)
      BY <3>1, <3>2
    <3>4. /\ t.last = "rrf_rank" /\ t.idx = saved.idx /\ t.results = saved.results
          /\ t.decision = saved.decision
      BY <3>2 DEF RrfRankNode, Threads
    <3> HIDE DEF t
    <3> QED BY <3>1, <3>3, <3>4
  <2> QED BY <2>1, <2>2, <2>3
<1>2. visits' = visits /\ posts' = posts
  BY DEF Classify, Observe, RrfRank, bounds, history
<1>3. /\ Following(saved) = node /\ Ledger(saved, visits) /\ Approved(visits, posts)
      /\ Running(saved, body[c], visits, posts)
  BY <1>1, AtNode
<1>4. CASE node \in Middle
  <2>1. saved.last \in Early /\ t.last \in Early
    BY <1>1, <1>3, <1>4, Predecessors DEF Early
  <2>2. Ledger(t, visits)
    BY <1>1, <1>3, <2>1, LedgerQuiet
  <2>3. Running(t, body[c], visits, posts)
    BY <2>1 DEF Running
  <2> QED BY <1>1, <1>2, <1>3, <2>2, <2>3, AloneCheckpoint
<1>5. CASE node = "emit_new_issue"
  <2>1. t.last \notin Early /\ Following(t) = "END"
    BY <1>1, <1>5, Predecessors DEF Early, Over
  <2>2. Ledger(t, visits)
    BY <1>1, <1>3, <2>1, LedgerQuiet
  <2> QED BY <1>1, <1>2, <1>3, <2>1, <2>2, AloneCheckpoint
<1> QED BY <1>1, <1>4, <1>5

LEMMA AloneLoad ==
    ASSUME TypeOK, IndexIsBacked, Alone, OneAtATime, NEW c \in Clients, LoadFixPlan(c)
    PROVE  Alone' /\ saved.last \in Early /\ saved'.last = "load_fix_plan" /\ visits' = visits
           /\ saved'.plan \in Fixes \cup {None}
<1> DEFINE t == LoadFixPlanNode(saved)
<1>1. /\ saved \in Threads /\ Checkpoint(c, t) /\ visits' = visits /\ posts' = posts
      /\ Following(saved) = "load_fix_plan" /\ Ledger(saved, visits) /\ Approved(visits, posts)
  BY AtNode DEF LoadFixPlan, bounds, history
<1>2. saved.last \in Early /\ saved.results = << >>
  BY <1>1, Predecessors DEF Ledger, EarlyIsEmpty
<1>3. t.last = "load_fix_plan" /\ t.results = << >> /\ t.plan \in Fixes \cup {None}
  BY <1>1, <1>2 DEF LoadFixPlanNode, Threads
<1>4. saved' = t
  BY <1>1 DEF Checkpoint
<1> HIDE DEF t
<1>5. Ledger(t, visits)
  BY <1>3, LedgerEmpty DEF Early
<1>6. Following(t) \in InterruptBefore
  BY <1>3, Predecessors DEF InterruptBefore
<1>7. Alone'
  BY <1>1, <1>5, <1>6, AloneCheckpoint
<1> QED BY <1>1, <1>2, <1>3, <1>4, <1>7

LEMMA AloneReview ==
    ASSUME TypeOK, IndexIsBacked, Alone, OneAtATime, NEW c \in Clients, PreExecuteReview(c)
    PROVE  Alone' /\ saved'.last = "pre_execute_review" /\ saved'.plan = saved.plan
<1>0. At(c, "pre_execute_review") /\ visits' = visits /\ posts' = posts
  BY DEF PreExecuteReview, bounds, history
<1>1. /\ mem[c] = saved /\ saved \in Threads /\ Following(saved) = "pre_execute_review"
      /\ Ledger(saved, visits) /\ Approved(visits, posts)
      /\ Running(saved, body[c], visits, posts)
  BY <1>0, AtNode
<1>2. PICK adapted \in Commands : Checkpoint(c, PreExecuteReviewNode(saved, adapted))
  BY <1>1 DEF PreExecuteReview
<1> DEFINE t == PreExecuteReviewNode(saved, adapted)
<1>3. /\ t.last = "pre_execute_review" /\ t.decision = saved.decision /\ t.plan = saved.plan
  BY <1>1 DEF PreExecuteReviewNode, Threads
<1>4. Ledger(t, visits)
  BY <1>1, LedgerReview
<1>5. saved' = t
  BY <1>2 DEF Checkpoint
<1> HIDE DEF t
<1>6. saved.last \notin Early \cup {"__start__"}
  BY <1>1 DEF Following, StaticEdge, RouteAfterClassify, RouteAfterConsent, Early
<1>7. Running(t, body[c], visits, posts)
  BY <1>1, <1>3, <1>6 DEF Running
<1>8. Alone'
  BY <1>0, <1>1, <1>2, <1>4, <1>7, AloneCheckpoint DEF t
<1> QED BY <1>3, <1>5, <1>8

(* The visit of execute_step, before its result is saved. *)
LEMMA AloneExecute ==
    ASSUME TypeOK, TypeOK', IndexIsBacked, Alone, OneAtATime, NEW c \in Clients, ExecuteStep(c)
    PROVE  Alone'
<1>0. /\ At(c, "execute_step") /\ UNCHANGED <<saved, body, snap, starts, posts, deaths, picked>>
      /\ pc' = [pc EXCEPT ![c] = "save"]
  BY DEF ExecuteStep, bounds
<1>1. /\ mem[c] = saved /\ saved \in Threads /\ Following(saved) = "execute_step"
      /\ Ledger(saved, visits) /\ Approved(visits, posts)
      /\ Running(saved, body[c], visits, posts)
  BY <1>0, AtNode
<1>2. PICK outcome \in Outcomes : mem' = [mem EXCEPT ![c] = ExecuteStepNode(saved, outcome)]
  BY <1>1 DEF ExecuteStep
<1> DEFINE t == ExecuteStepNode(saved, outcome)
           v == [step |-> saved.idx, cmd |-> LastResult(saved).cmd,
                 decision |-> body[c].decision, post |-> body[c].post]
<1>3. mem'[c] = t /\ pc'[c] = "save"
  BY <1>0, <1>2 DEF TypeOK
<1>4. t.last = "execute_step" /\ t.idx = saved.idx /\ t.plan = saved.plan
  BY <1>1 DEF ExecuteStepNode, Threads
<1>5. /\ saved.last = "pre_execute_review" /\ saved.decision = "continue"
      /\ body[c].decision = "continue" /\ Fresh(body[c], visits, posts)
  <2>1. saved.last = "pre_execute_review" /\ saved.decision = "continue"
    BY <1>1, Predecessors
  <2> QED BY <1>1, <2>1 DEF Running, Early
<1>6. visits \in Seq(Visits) /\ posts \in Nat
  BY DEF TypeOK
<1>7. Ledger(t, visits') /\ Approved(visits', posts)
  <2>1. CASE Executable(saved)
    <3>1. visits' = Append(visits, v)
      BY <1>1, <2>1 DEF ExecuteStep
    <3>2. v \in Visits
      <4>1. LastResult(saved).cmd \in Commands \cup {None} /\ saved.idx \in Nat
        BY <1>1, <2>1, LastResultType DEF Executable, StepResult, Threads
      <4>2. body[c].decision \in Decisions \cup {None} /\ body[c].post \in Nat
        BY DEF TypeOK, Requests, NoRequest
      <4> QED BY <4>1, <4>2 DEF Visits
    <3>3. v.step = saved.idx /\ v.cmd = LastResult(saved).cmd /\ v.decision = "continue"
          /\ v.post = posts
      BY <1>5 DEF Fresh
    <3> HIDE DEF v
    <3>4. Ledger(t, visits')
      BY <1>1, <1>6, <2>1, <3>1, <3>2, <3>3, LedgerExecute
    <3>5. /\ \A k \in DOMAIN visits' : k \in DOMAIN visits \/ k = Len(visits) + 1
          /\ \A k \in DOMAIN visits : visits'[k] = visits[k]
          /\ visits'[Len(visits) + 1] = v
      <4>1. /\ \A k \in DOMAIN Append(visits, v) : k \in DOMAIN visits \/ k = Len(visits) + 1
            /\ \A k \in DOMAIN visits : Append(visits, v)[k] = visits[k]
            /\ Append(visits, v)[Len(visits) + 1] = v
        BY <1>6, <3>2, AppendEntries
      <4> QED BY <3>1, <4>1, Zenon
    <3>6. \A k \in DOMAIN visits : visits[k].post < posts /\ visits[k].post \in Nat
      <4>1. \A k \in DOMAIN visits : visits[k] \in Visits
        BY <1>6
      <4>2. \A x \in Visits : x.post \in Nat
        BY DEF Visits
      <4> QED BY <1>5, <4>1, <4>2 DEF Fresh
    <3>7. \A k \in DOMAIN visits' : visits'[k].decision = "continue" /\ visits'[k].post <= posts
      BY <1>1, <1>6, <3>3, <3>5, <3>6 DEF Approved
    <3>8. \A k, m \in DOMAIN visits' : visits'[k].post = visits'[m].post => k = m
      BY <1>1, <1>6, <3>3, <3>5, <3>6 DEF Approved
    <3> QED BY <3>4, <3>7, <3>8 DEF Approved
  <2>2. CASE ~Executable(saved)
    <3>1. visits' = visits
      BY <1>1, <2>2 DEF ExecuteStep
    <3>2. t.results = saved.results
      BY <1>1, <2>2 DEF ExecuteStepNode, Threads
    <3> HIDE DEF t
    <3>3. Ledger(t, visits)
      BY <1>1, <1>4, <3>2, LedgerQuiet DEF Early
    <3> QED BY <1>1, <3>1, <3>3
  <2> QED BY <2>1, <2>2
<1>8. Ledger(saved, visits')
  <2>1. CASE Executable(saved)
    <3>1. visits' = Append(visits, v) /\ visits' \in Seq(Visits)
      BY <1>1, <2>1 DEF ExecuteStep, TypeOK
    <3>2. \A m \in DOMAIN visits : m \in DOMAIN visits' /\ visits'[m] = visits[m]
      BY <1>6, <3>1
    <3>3. Recorded(saved.results, visits')
      BY <1>1, <3>2 DEF Ledger, Recorded
    <3> QED BY <1>1, <1>5, <3>3 DEF Ledger, EarlyIsEmpty, Early
  <2>2. CASE ~Executable(saved)
    BY <1>1, <2>2 DEF ExecuteStep
  <2> QED BY <2>1, <2>2
<1> HIDE DEF t
<1>9. Stage(c)'
  BY <1>0, <1>3, <1>4, <1>5, <1>7 DEF Stage
<1> QED BY <1>0, <1>7, <1>8, <1>9 DEF Alone, OneAtATime

LEMMA AloneSave ==
    ASSUME TypeOK, Alone, OneAtATime, NEW c \in Clients, SaveExecuted(c)
    PROVE  Alone' /\ saved.last = "pre_execute_review" /\ saved'.last = "execute_step"
           /\ saved'.plan = saved.plan
<1>1. /\ pc[c] = "save" /\ Checkpoint(c, mem[c]) /\ visits' = visits /\ posts' = posts
  BY DEF SaveExecuted, bounds, history
<1>2. /\ saved.last = "pre_execute_review" /\ mem[c].last = "execute_step"
      /\ mem[c].plan = saved.plan /\ Ledger(mem[c], visits) /\ Approved(visits, posts)
  BY <1>1 DEF Alone, Stage
<1>3. Following(mem[c]) \in InterruptBefore
  BY <1>2, Predecessors DEF InterruptBefore
<1>4. Alone'
  BY <1>1, <1>2, <1>3, AloneCheckpoint
<1> QED BY <1>1, <1>2, <1>4 DEF Checkpoint

LEMMA AloneHitl ==
    ASSUME TypeOK, IndexIsBacked, Alone, OneAtATime, NEW c \in Clients, HitlCheckpoint(c)
    PROVE  Alone' /\ saved'.last = "hitl_checkpoint" /\ saved'.plan = saved.plan
<1> DEFINE t == HitlCheckpointNode(saved)
<1>1. /\ mem[c] = saved /\ saved \in Threads /\ Following(saved) = "hitl_checkpoint"
      /\ Ledger(saved, visits) /\ Approved(visits, posts)
      /\ Running(saved, body[c], visits, posts)
      /\ Checkpoint(c, t) /\ visits' = visits /\ posts' = posts
  BY AtNode DEF HitlCheckpoint, bounds, history
<1>2. /\ t.last = "hitl_checkpoint" /\ t.idx = saved.idx /\ t.results = saved.results
      /\ t.plan = saved.plan
  BY <1>1 DEF HitlCheckpointNode, Threads
<1>3. saved' = t
  BY <1>1 DEF Checkpoint
<1> HIDE DEF t
<1>4. Ledger(t, visits)
  BY <1>1, <1>2, LedgerQuiet DEF Early
<1>5. saved.last = "execute_step"
  BY <1>1, OnlyPredecessor
<1>6. Fresh(body[c], visits, posts)
  BY <1>1, <1>5 DEF Running, Early
<1>7. CASE Following(t) = "pre_execute_review"
  <2>1. Following(t) \in InterruptBefore
    BY <1>7 DEF InterruptBefore
  <2> QED BY <1>1, <1>2, <1>3, <1>4, <2>1, AloneCheckpoint
<1>8. CASE Following(t) # "pre_execute_review"
  <2>1. Running(t, body[c], visits, posts)
    BY <1>2, <1>6, <1>8 DEF Running
  <2> QED BY <1>1, <1>2, <1>3, <1>4, <2>1, AloneCheckpoint
<1> QED BY <1>7, <1>8

LEMMA AloneAdvance ==
    ASSUME TypeOK, IndexIsBacked, Alone, OneAtATime, NEW c \in Clients, AdvanceStep(c)
    PROVE  Alone' /\ saved'.last = "advance_step" /\ saved'.plan = saved.plan
<1> DEFINE t == AdvanceStepNode(saved)
<1>1. /\ mem[c] = saved /\ saved \in Threads /\ Following(saved) = "advance_step"
      /\ Ledger(saved, visits) /\ Approved(visits, posts) /\ Backed(saved)
      /\ Checkpoint(c, t) /\ visits' = visits /\ posts' = posts
  BY AtNode DEF AdvanceStep, bounds, history
<1>2. t.last = "advance_step" /\ t.plan = saved.plan
  BY <1>1 DEF AdvanceStepNode, Threads
<1>3. Ledger(t, visits)
  BY <1>1, LedgerAdvance
<1>4. saved' = t
  BY <1>1 DEF Checkpoint
<1> HIDE DEF t
<1>5. Following(t) \in InterruptBefore
  BY <1>2, Predecessors DEF InterruptBefore
<1>6. Alone'
  BY <1>1, <1>3, <1>5, AloneCheckpoint
<1> QED BY <1>2, <1>4, <1>6

(* The two ends of a run. *)
LEMMA AloneEnd ==
    ASSUME TypeOK, IndexIsBacked, Alone, OneAtATime, NEW c \in Clients,
           CompleteAutonomous(c) \/ ManualFallback(c)
    PROVE  Alone' /\ saved'.plan = saved.plan /\ visits' = visits
           /\ saved'.last = IF CompleteAutonomous(c) THEN "complete_autonomous" ELSE "manual_fallback"
<1>1. PICK t : /\ mem[c] = saved /\ saved \in Threads
               /\ Ledger(saved, visits) /\ Approved(visits, posts)
               /\ Checkpoint(c, t) /\ visits' = visits /\ posts' = posts
               /\ t.last = IF CompleteAutonomous(c) THEN "complete_autonomous" ELSE "manual_fallback"
               /\ t.idx = saved.idx /\ t.results = saved.results /\ t.plan = saved.plan
  <2>1. CASE CompleteAutonomous(c)
    <3> DEFINE t == CompleteAutonomousNode(saved)
    <3>1. /\ mem[c] = saved /\ saved \in Threads
          /\ Ledger(saved, visits) /\ Approved(visits, posts)
          /\ Checkpoint(c, t) /\ visits' = visits /\ posts' = posts
      BY <2>1, AtNode DEF CompleteAutonomous, bounds, history
    <3>2. /\ t.last = "complete_autonomous" /\ t.idx = saved.idx /\ t.results = saved.results
          /\ t.plan = saved.plan
      BY <3>1 DEF CompleteAutonomousNode, Threads
    <3> HIDE DEF t
    <3> QED BY <2>1, <3>1, <3>2
  <2>2. CASE ~CompleteAutonomous(c)
    <3> DEFINE t == ManualFallbackNode(saved)
    <3>1. /\ mem[c] = saved /\ saved \in Threads
          /\ Ledger(saved, visits) /\ Approved(visits, posts)
          /\ Checkpoint(c, t) /\ visits' = visits /\ posts' = posts
      BY <2>2, AtNode DEF ManualFallback, bounds, history
    <3>2. /\ t.last = "manual_fallback" /\ t.idx = saved.idx /\ t.results = saved.results
          /\ t.plan = saved.plan
      BY <3>1 DEF ManualFallbackNode, Threads
    <3> HIDE DEF t
    <3> QED BY <2>2, <3>1, <3>2
  <2> QED BY <2>1, <2>2
<1>2. t.last \notin Early /\ Following(t) = "END"
  BY <1>1, Predecessors DEF Early, Over
<1>3. Ledger(t, visits)
  BY <1>1, <1>2, LedgerQuiet
<1>4. Alone'
  BY <1>1, <1>2, <1>3, AloneCheckpoint
<1> QED BY <1>1, <1>4 DEF Checkpoint

(* What an edit leaves of the results. *)
LEMMA EditKeepsResults ==
    ASSUME TypeOK, IndexIsBacked, NEW c \in Clients, pc[c] = "update"
    PROVE  /\ Len(EditedResults(c)) = Len(saved.results)
           /\ \A k \in DOMAIN saved.results :
                  /\ EditedResults(c)[k].step = saved.results[k].step
                  /\ EditedResults(c)[k].status = saved.results[k].status
                  /\ EditedResults(c)[k].cmd \in {saved.results[k].cmd} \cup Edits
                  /\ [EditedResults(c)[k] EXCEPT !.cmd = saved.results[k].cmd] = saved.results[k]
<1>0. saved.results \in Seq(StepResult) /\ \A r \in StepResult : [r EXCEPT !.cmd = r.cmd] = r
  BY DEF TypeOK, Threads, StepResult
<1>1. CASE body[c].edit # None /\ snap[c] # << >>
  <2> DEFINE last == snap[c][Len(snap[c])]
             r == [last EXCEPT !.cmd = body[c].edit]
  <2>1. snap[c] = saved.results
    BY <1>1 DEF IndexIsBacked
  <2>2. last \in StepResult /\ body[c].edit \in Edits /\ body[c].edit \in Commands
    BY <1>0, <1>1, <2>1, RequestAssumption DEF TypeOK, Requests, NoRequest
  <2>3. /\ r \in StepResult /\ r.step = last.step /\ r.status = last.status
        /\ r.cmd = body[c].edit /\ [r EXCEPT !.cmd = last.cmd] = last
    BY <2>2 DEF StepResult
  <2>4. EditedResults(c) = ReplaceLast(saved.results, r)
    BY <1>1, <2>1 DEF EditedResults
  <2>5. /\ DOMAIN ReplaceLast(saved.results, r) = DOMAIN saved.results
        /\ Len(ReplaceLast(saved.results, r)) = Len(saved.results)
        /\ ReplaceLast(saved.results, r)[Len(saved.results)] = r
        /\ \A k \in DOMAIN saved.results :
               k # Len(saved.results) =>
                   ReplaceLast(saved.results, r)[k] = saved.results[k]
    <3> HIDE DEF r
    <3> QED BY <1>0, <1>1, <2>1, <2>3, ReplaceLastEntries
  <2> HIDE DEF r
  <2>6. \A k \in DOMAIN saved.results : saved.results[k] \in StepResult
    BY <1>0
  <2> QED BY <1>0, <2>1, <2>2, <2>3, <2>4, <2>5, <2>6
<1>2. CASE ~(body[c].edit # None /\ snap[c] # << >>)
  <2>1. \A k \in DOMAIN saved.results : saved.results[k] \in StepResult
    BY <1>0
  <2> QED BY <1>0, <1>2, <2>1 DEF EditedResults
<1> QED BY <1>1, <1>2

(* The steps outside the graph. *)
LEMMA AloneRouter ==
    ASSUME TypeOK, TypeOK', IndexIsBacked, Alone, OneAtATime, NEW c \in Clients,
           StartSession(c) \/ PostDecision(c) \/ UpdateState(c) \/ Resume(c) \/ Die(c)
    PROVE  /\ Alone' /\ visits' = visits
           /\ \/ StartSession(c) /\ saved'.last = "__start__"
              \/ saved'.last = saved.last /\ saved'.plan = saved.plan
<1>0. /\ saved \in Threads /\ saved' \in Threads /\ posts \in Nat /\ Stage(c)
      /\ Ledger(saved, visits) /\ Approved(visits, posts) /\ visits \in Seq(Visits)
  BY DEF TypeOK, Alone
<1>1. CASE StartSession(c)
  <2>1. /\ pc'[c] = "run" /\ mem'[c] = saved' /\ visits' = visits /\ posts' = posts
        /\ saved'.last = "__start__" /\ saved'.idx = saved.idx
        /\ saved'.results = saved.results
    BY <1>0, <1>1 DEF StartSession, RunOn, TypeOK, Threads, history
  <2>2. Ledger(saved', visits)
    BY <1>0, <2>1, LedgerQuiet DEF Early
  <2>3. Stage(c)'
    BY <2>1 DEF Stage, Running
  <2> QED BY <1>0, <1>1, <2>1, <2>2, <2>3 DEF Alone, OneAtATime
<1>2. CASE PostDecision(c)
  <2>1. /\ pc'[c] = "update" /\ saved' = saved /\ visits' = visits /\ posts' = posts + 1
        /\ body'[c].post = posts + 1 /\ ~Over(saved)
    BY <1>2 DEF PostDecision, TypeOK, history
  <2>2. \A k \in DOMAIN visits : visits[k].post <= posts /\ visits[k].post \in Nat
    <3>1. \A k \in DOMAIN visits : visits[k] \in Visits
      BY <1>0
    <3>2. \A x \in Visits : x.post \in Nat
      BY DEF Visits
    <3> QED BY <1>0, <3>1, <3>2 DEF Approved
  <2>3. Approved(visits, posts + 1) /\ Fresh(body'[c], visits, posts + 1)
    BY <1>0, <2>1, <2>2 DEF Approved, Fresh
  <2>4. Stage(c)'
    BY <2>1, <2>3 DEF Stage
  <2> QED BY <1>0, <2>1, <2>3, <2>4 DEF Alone, OneAtATime
<1>3. CASE UpdateState(c)
  <2>1. /\ pc[c] = "update" /\ pc'[c] = "resume" /\ UNCHANGED <<body, visits, posts>>
        /\ saved'.decision = body[c].decision /\ saved'.results = EditedResults(c)
        /\ saved'.last = saved.last /\ saved'.idx = saved.idx /\ saved'.plan = saved.plan
    BY <1>0, <1>3 DEF UpdateState, TypeOK, Threads, bounds
  <2>2. /\ Len(EditedResults(c)) = Len(saved.results)
        /\ \A k \in DOMAIN saved.results :
               /\ EditedResults(c)[k].step = saved.results[k].step
               /\ EditedResults(c)[k].status = saved.results[k].status
               /\ EditedResults(c)[k].cmd \in {saved.results[k].cmd} \cup Edits
    BY <1>3, EditKeepsResults DEF UpdateState
  <2>3. Ledger(saved', visits)
    BY <1>0, <2>1, <2>2, LedgerUpdate
  <2>4. Stage(c)'
    BY <1>0, <2>1 DEF Stage
  <2> QED BY <1>0, <2>1, <2>3, <2>4 DEF Alone, OneAtATime
<1>4. CASE Resume(c)
  <2>1. pc[c] = "resume" /\ UNCHANGED <<saved, visits, posts>>
    BY <1>4 DEF Resume, bounds, history
  <2>2. Fresh(body[c], visits, posts) /\ saved.decision = body[c].decision
    BY <1>0, <2>1 DEF Stage
  <2>3. \/ pc'[c] = "idle" /\ body'[c] = NoRequest
        \/ pc'[c] = "run" /\ mem'[c] = saved /\ body' = body
    BY <1>4 DEF Resume, Return, RunOn, TypeOK
  <2>4. Stage(c)'
    BY <2>1, <2>2, <2>3 DEF Stage, Running
  <2> QED BY <1>0, <2>1, <2>4 DEF Alone, OneAtATime
<1>5. CASE Die(c)
  <2>1. pc'[c] = "idle" /\ body'[c] = NoRequest /\ UNCHANGED <<saved, visits, posts>>
    BY <1>5 DEF Die, Return, TypeOK, history
  <2>2. Stage(c)'
    BY <2>1 DEF Stage
  <2> QED BY <1>0, <2>1, <2>2 DEF Alone, OneAtATime
<1> QED BY <1>1, <1>2, <1>3, <1>4, <1>5

LEMMA AloneNext ==
    ASSUME OneAtATime, TypeOK, IndexIsBacked, Alone, [Next]_vars
    PROVE  Alone'
<1>1. CASE UNCHANGED vars
  BY <1>1 DEF vars, local, bounds, history, Alone, Stage
<1>2. TypeOK'
  BY NextType
<1>3. ASSUME NEW c \in Clients, StartSession(c) \/ PostDecision(c) \/ Handler(c) \/ Die(c)
      PROVE  Alone'
  BY <1>2, <1>3, AloneRouter, AloneIntake, AloneQuiet, AloneLoad, AloneReview, AloneExecute,
     AloneSave, AloneHitl, AloneAdvance, AloneEnd DEF Handler, Node
<1> QED BY <1>1, <1>3 DEF Next

LEMMA AloneAlways ==
    ASSUME OneAtATime
    PROVE  Spec => [](TypeOK /\ IndexIsBacked /\ Alone)
<1>1. Spec => []IndexIsBacked
  BY IndexStaysBacked DEF OneAtATime
<1>2. TypeOK /\ IndexIsBacked /\ Alone /\ [Next]_vars => Alone'
  BY AloneNext
<1> QED BY <1>1, <1>2, AloneInit, TypesHold, PTL DEF Spec

-----------------------------------------------------------------------------
(***************************************************************************)
(* The invariants.                                                         *)
(***************************************************************************)

(* With one request at a time, results are in plan order and never ahead   *)
(* of the index, whatever is redone, retried or started again.             *)
THEOREM ResultsStayInOrder ==
    ASSUME OneAtATime
    PROVE  Spec => []ResultsFollowPlan
<1>1. Alone => ResultsFollowPlan
  BY DEF Alone, Ledger, InPlanOrder, ResultsFollowPlan
<1> QED BY <1>1, AloneAlways, PTL

(* With one request at a time, each visit of execute_step answers a        *)
(* "continue" that no other visit answers.                                 *)
THEOREM VisitsAreApproved ==
    ASSUME OneAtATime
    PROVE  Spec => []EachVisitHasItsOwnApproval
<1>1. Alone => EachVisitHasItsOwnApproval
  BY DEF Alone, Approved, EachVisitHasItsOwnApproval
<1> QED BY <1>1, AloneAlways, PTL

(* With one request at a time, a result that counts as executed is of a    *)
(* visit of this run, with its command or one that was typed over it.      *)
THEOREM RecordStaysOfThisRun ==
    ASSUME OneAtATime
    PROVE  Spec => []RecordIsOfThisRun
<1>1. Alone => RecordIsOfThisRun
  BY DEF Alone, Ledger, Recorded, RecordIsOfThisRun
<1> QED BY <1>1, AloneAlways, PTL

-----------------------------------------------------------------------------
(***************************************************************************)
(* The refinement of PlanReplay.                                           *)
(***************************************************************************)
MapPlan == IF Begun THEN saved.plan ELSE None
MapActed == IF Begun THEN {visits[k].step : k \in DOMAIN visits} ELSE {}
MapOutcome == CASE saved.last = "complete_autonomous" -> "succeeded"
                [] saved.last = "manual_fallback" -> "handed_back"
                [] OTHER -> "open"

LEMMA MapInit == Init => Replay!Init
<1> SUFFICES ASSUME Init PROVE Replay!Init
  OBVIOUS
<1>1. Begun /\ saved.plan = None /\ visits = << >> /\ saved.last = "none"
  BY DEF Init, Begun, NewThread
<1> QED BY <1>1 DEF Replay!Init

LEMMA MapStutter ==
    ASSUME MapPlan' = MapPlan, MapActed' = MapActed, MapOutcome' = MapOutcome
    PROVE  UNCHANGED Replay!vars
  BY DEF Replay!vars, MapPlan, MapActed, MapOutcome

LEMMA MapRestart ==
    ASSUME MapPlan' = None, MapActed' = {}, MapOutcome' = "open"
    PROVE  Replay!Next
  BY DEF Replay!Next, Replay!Restart, MapPlan, MapActed, MapOutcome

LEMMA MapLoad ==
    ASSUME MapOutcome = "open", MapActed = {}, MapPlan' \in Fixes \cup {None},
           MapActed' = MapActed, MapOutcome' = MapOutcome
    PROVE  Replay!Next
  BY DEF Replay!Next, Replay!Load, MapPlan, MapActed, MapOutcome

LEMMA MapHandBack ==
    ASSUME MapOutcome = "open", MapPlan' = MapPlan, MapActed' = MapActed,
           MapOutcome' = "handed_back"
    PROVE  Replay!Next
  BY DEF Replay!Next, Replay!HandBack, MapPlan, MapActed, MapOutcome

(* The steps of the abstract plan are the places of the plan of a thread.  *)
LEMMA StepsOfPlan ==
    ASSUME NEW s \in Threads
    PROVE  Replay!StepsOf(s.plan) = 0 .. (Len(Plan(s)) - 1)
<1>1. CASE s.plan \in Fixes
  BY <1>1 DEF Replay!StepsOf, Plan
<1>2. CASE s.plan \notin Fixes
  BY <1>2 DEF Replay!StepsOf, Plan
<1> QED BY <1>1, <1>2

LEMMA MapSucceed ==
    ASSUME MapOutcome = "open", Replay!StepsOf(MapPlan) \subseteq MapActed,
           MapPlan' = MapPlan, MapActed' = MapActed, MapOutcome' = "succeeded"
    PROVE  Replay!Next
<1>1. Replay!Succeed
  BY DEF Replay!Succeed, MapPlan, MapActed, MapOutcome
<1> QED BY <1>1 DEF Replay!Next

LEMMA MapAct ==
    ASSUME MapOutcome = "open", NEW i \in Replay!StepsOf(MapPlan),
           \A j \in Replay!StepsOf(MapPlan) : j < i => j \in MapActed,
           MapPlan' = MapPlan, MapActed' = MapActed \cup {i}, MapOutcome' = MapOutcome
    PROVE  Replay!Next
<1>1. Replay!Act(i)
  BY DEF Replay!Act, MapPlan, MapActed, MapOutcome
<1>2. i \in Replay!StepsOf(MapPlan)
  OBVIOUS
<1> QED BY <1>1, <1>2 DEF Replay!Next, MapPlan

(* What a result says was acted on was visited. *)
LEMMA ActedIsVisited ==
    ASSUME NEW s, NEW vs, NEW i, Recorded(s.results, vs), Acted(s, i)
    PROVE  i \in {vs[k].step : k \in DOMAIN vs}
  BY DEF Recorded, Acted

LEMMA MapNodes ==
    ASSUME OneAtATime, TypeOK, TypeOK', IndexIsBacked, IndexIsBacked', Alone, Alone',
           NEW c \in Clients, Node(c)
    PROVE  [Replay!Next]_(Replay!vars)
<1>0. /\ saved \in Threads /\ saved' \in Threads /\ Backed(saved) /\ Backed(saved')
      /\ Ledger(saved, visits) /\ Ledger(saved', visits') /\ Len(Plan(saved)) \in Nat
      /\ visits \in Seq(Visits)
  BY PlanType DEF TypeOK, IndexIsBacked, Alone
<1>1. CASE Intake(c)
  <2>1. /\ mem[c] = saved /\ Following(saved) = "intake" /\ visits' = << >>
        /\ saved' = IntakeNode(saved)
    BY <1>1, AtNode DEF Intake, Checkpoint
  <2>2. /\ saved.last = "__start__" /\ saved'.last = "intake" /\ saved'.plan = None
    BY <1>0, <2>1, Predecessors DEF IntakeNode, Threads
  <2>3. MapPlan' = MapPlan /\ MapActed' = MapActed /\ MapOutcome' = MapOutcome
    BY <2>1, <2>2 DEF MapPlan, MapActed, MapOutcome, Begun
  <2> QED BY <2>3, MapStutter
<1>2. ASSUME NEW node \in Nodes \ {"__start__", "intake"}, At(c, node)
      PROVE  Begun /\ MapPlan = saved.plan /\ MapOutcome = "open"
             /\ MapActed = {visits[k].step : k \in DOMAIN visits}
  <2>1. Following(saved) = node /\ node # "END"
    BY <1>2, AtNode DEF Nodes
  <2>2. saved.last \notin {"__start__", "complete_autonomous", "manual_fallback"}
    BY <1>2, <2>1, Predecessors DEF Over
  <2> QED BY <2>2 DEF Begun, MapPlan, MapActed, MapOutcome
(* Nodes that write no plan, no visit and no outcome. *)
<1>3. ASSUME saved'.plan = saved.plan, visits' = visits, Begun, MapOutcome = "open",
             saved'.last \notin {"__start__", "complete_autonomous", "manual_fallback"}
      PROVE  [Replay!Next]_(Replay!vars)
  <2>1. MapPlan' = MapPlan /\ MapActed' = MapActed /\ MapOutcome' = MapOutcome
    BY <1>3 DEF MapPlan, MapActed, MapOutcome, Begun
  <2> QED BY <2>1, MapStutter
<1>4. CASE Classify(c)
  <2>1. PICK mode : At(c, "classify") /\ saved' = ClassifyNode(mem[c], mode) /\ visits' = visits
    BY <1>4 DEF Classify, Checkpoint, history
  <2>2. saved'.plan = saved.plan /\ saved'.last = "classify"
    BY <1>0, <2>1, AtNode DEF ClassifyNode, Threads
  <2> QED BY <1>2, <1>3, <2>1, <2>2 DEF Nodes
<1>5. CASE Observe(c)
  <2>1. PICK node \in ObservingNodes :
            At(c, node) /\ saved' = ObservingNode(mem[c], node) /\ visits' = visits
    BY <1>5 DEF Observe, Checkpoint, history
  <2>2. saved'.plan = saved.plan /\ saved'.last = node
    BY <1>0, <2>1, AtNode DEF ObservingNode, Threads
  <2>3. node \in Nodes \ {"__start__", "intake", "complete_autonomous", "manual_fallback"}
    BY <2>1 DEF Nodes, ObservingNodes
  <2> QED BY <1>2, <1>3, <2>1, <2>2, <2>3
<1>6. CASE RrfRank(c)
  <2>1. PICK top : At(c, "rrf_rank") /\ saved' = RrfRankNode(mem[c], top) /\ visits' = visits
    BY <1>6 DEF RrfRank, Checkpoint, history
  <2>2. saved'.plan = saved.plan /\ saved'.last = "rrf_rank"
    BY <1>0, <2>1, AtNode DEF RrfRankNode, Threads
  <2> QED BY <1>2, <1>3, <2>1, <2>2 DEF Nodes
<1>7. CASE LoadFixPlan(c)
  <2>1. At(c, "load_fix_plan")
    BY <1>7 DEF LoadFixPlan
  <2>2. /\ saved.last \in Early /\ saved'.last = "load_fix_plan" /\ visits' = visits
        /\ saved'.plan \in Fixes \cup {None}
    BY <1>7, AloneLoad
  <2>3. Begun /\ MapOutcome = "open" /\ MapActed = {}
    <3>1. visits = << >>
      BY <1>0, <2>2 DEF Ledger, EarlyIsEmpty
    <3> QED BY <1>2, <2>1, <3>1 DEF Nodes
  <2>4. MapPlan' = saved'.plan /\ MapActed' = MapActed /\ MapOutcome' = MapOutcome
    BY <2>2, <2>3 DEF MapPlan, MapActed, MapOutcome, Begun
  <2> QED BY <2>2, <2>3, <2>4, MapLoad
<1>8. CASE PreExecuteReview(c)
  <2>1. /\ At(c, "pre_execute_review") /\ visits' = visits
        /\ saved'.last = "pre_execute_review" /\ saved'.plan = saved.plan
    BY <1>8, AloneReview DEF PreExecuteReview, history
  <2> QED BY <1>2, <1>3, <2>1 DEF Nodes
<1>9. CASE ExecuteStep(c)
  <2>1. At(c, "execute_step") /\ saved' = saved /\ mem[c] = saved
    BY <1>9, AtNode DEF ExecuteStep
  <2>2. /\ Begun /\ MapPlan = saved.plan /\ MapOutcome = "open"
        /\ MapActed = {visits[k].step : k \in DOMAIN visits}
    BY <1>2, <2>1 DEF Nodes
  <2>3. CASE ~Executable(saved)
    <3>1. visits' = visits
      BY <1>9, <2>1, <2>3 DEF ExecuteStep
    <3>2. MapPlan' = MapPlan /\ MapActed' = MapActed /\ MapOutcome' = MapOutcome
      BY <2>1, <3>1 DEF MapPlan, MapActed, MapOutcome, Begun
    <3> QED BY <3>2, MapStutter
  <2>4. CASE Executable(saved)
    <3> DEFINE v == [step |-> saved.idx, cmd |-> LastResult(saved).cmd,
                     decision |-> body[c].decision, post |-> body[c].post]
    <3>1. visits' = Append(visits, v) /\ v.step = saved.idx
      BY <1>9, <2>1, <2>4 DEF ExecuteStep
    <3> HIDE DEF v
    <3>2. {visits'[k].step : k \in DOMAIN visits'} =
              {visits[k].step : k \in DOMAIN visits} \cup {saved.idx}
      <4>1. /\ DOMAIN Append(visits, v) = DOMAIN visits \cup {Len(visits) + 1}
            /\ \A k \in DOMAIN visits : Append(visits, v)[k] = visits[k]
            /\ Append(visits, v)[Len(visits) + 1] = v
        BY <1>0
      <4>2. {Append(visits, v)[k].step : k \in DOMAIN Append(visits, v)} =
                {visits[k].step : k \in DOMAIN visits} \cup {v.step}
        BY <4>1
      <4> QED BY <3>1, <4>2
    <3>3. MapPlan' = MapPlan /\ MapOutcome' = MapOutcome /\ MapActed' = MapActed \cup {saved.idx}
      BY <2>1, <2>2, <3>2 DEF MapPlan, MapActed, MapOutcome, Begun
    <3>4. Replay!StepsOf(MapPlan) = 0 .. (Len(Plan(saved)) - 1)
      BY <1>0, <2>2, StepsOfPlan
    <3>5. saved.idx \in Replay!StepsOf(MapPlan)
      BY <1>0, <2>4, <3>4 DEF Executable, InPlan, Threads
    <3>6. ASSUME NEW j \in Replay!StepsOf(MapPlan), j < saved.idx
          PROVE  j \in MapActed
      <4>1. j \in 0 .. (saved.idx - 1) /\ j < Len(Plan(saved))
        BY <1>0, <3>4, <3>6 DEF Threads
      <4>2. Acted(saved, j)
        BY <1>0, <4>1 DEF Backed
      <4> QED BY <1>0, <2>2, <4>2, ActedIsVisited DEF Ledger
    <3> QED BY <2>2, <3>3, <3>5, <3>6, MapAct
  <2> QED BY <2>3, <2>4
<1>10. CASE SaveExecuted(c)
  <2>1. /\ saved.last = "pre_execute_review" /\ saved'.last = "execute_step"
        /\ saved'.plan = saved.plan /\ visits' = visits
    BY <1>10, AloneSave DEF SaveExecuted, history
  <2>2. Begun /\ MapOutcome = "open"
    BY <2>1 DEF Begun, MapOutcome
  <2> QED BY <1>3, <2>1, <2>2
<1>11. CASE HitlCheckpoint(c)
  <2>1. /\ At(c, "hitl_checkpoint") /\ visits' = visits
        /\ saved'.last = "hitl_checkpoint" /\ saved'.plan = saved.plan
    BY <1>11, AloneHitl DEF HitlCheckpoint, history
  <2> QED BY <1>2, <1>3, <2>1 DEF Nodes
<1>12. CASE AdvanceStep(c)
  <2>1. /\ At(c, "advance_step") /\ visits' = visits
        /\ saved'.last = "advance_step" /\ saved'.plan = saved.plan
    BY <1>12, AloneAdvance DEF AdvanceStep, history
  <2> QED BY <1>2, <1>3, <2>1 DEF Nodes
<1>13. CASE CompleteAutonomous(c)
  <2>1. /\ At(c, "complete_autonomous") /\ visits' = visits
        /\ saved'.last = "complete_autonomous" /\ saved'.plan = saved.plan
    BY <1>13, AloneEnd DEF CompleteAutonomous
  <2>2. /\ Begun /\ MapPlan = saved.plan /\ MapOutcome = "open"
        /\ MapActed = {visits[k].step : k \in DOMAIN visits}
    BY <1>2, <2>1 DEF Nodes
  <2>3. MapPlan' = MapPlan /\ MapActed' = MapActed /\ MapOutcome' = "succeeded"
    BY <2>1, <2>2 DEF MapPlan, MapActed, MapOutcome, Begun
  <2>4. Replay!StepsOf(MapPlan) = 0 .. (Len(Plan(saved')) - 1) /\ Len(Plan(saved')) \in Nat
    BY <1>0, <2>1, <2>2, StepsOfPlan, PlanType
  <2>5. ASSUME NEW j \in 0 .. (Len(Plan(saved')) - 1) PROVE j \in MapActed
    <3>1. saved'.idx \in Nat /\ saved'.idx + 1 >= Len(Plan(saved'))
      BY <1>0, <2>1 DEF Backed, Threads
    <3>2. ASSUME j < saved'.idx PROVE Acted(saved', j)
      <4>1. j \in 0 .. (saved'.idx - 1) /\ j < Len(Plan(saved'))
        BY <2>4, <2>5, <3>1, <3>2
      <4> QED BY <1>0, <4>1 DEF Backed
    <3>3. ASSUME j = saved'.idx PROVE Acted(saved', j)
      <4>1. InPlan(saved')
        BY <2>4, <2>5, <3>1, <3>3 DEF InPlan
      <4> QED BY <1>0, <2>1, <3>3, <4>1 DEF Backed
    <3>4. Acted(saved', j)
      BY <2>4, <2>5, <3>1, <3>2, <3>3
    <3> QED BY <1>0, <2>1, <2>2, <3>4, ActedIsVisited DEF Ledger
  <2> QED BY <2>2, <2>3, <2>4, <2>5, MapSucceed
<1>14. CASE ManualFallback(c)
  <2>1. /\ At(c, "manual_fallback") /\ visits' = visits /\ saved'.plan = saved.plan
        /\ saved'.last = "manual_fallback"
    <3>1. At(c, "manual_fallback") /\ saved' = ManualFallbackNode(mem[c]) /\ visits' = visits
      BY <1>14 DEF ManualFallback, Checkpoint, history
    <3> QED BY <1>0, <3>1, AtNode DEF ManualFallbackNode, Threads
  <2>2. /\ Begun /\ MapPlan = saved.plan /\ MapOutcome = "open"
    BY <1>2, <2>1 DEF Nodes
  <2>3. MapPlan' = MapPlan /\ MapActed' = MapActed /\ MapOutcome' = "handed_back"
    BY <2>1, <2>2 DEF MapPlan, MapActed, MapOutcome, Begun
  <2> QED BY <2>2, <2>3, MapHandBack
<1> QED BY <1>1, <1>4, <1>5, <1>6, <1>7, <1>8, <1>9, <1>10, <1>11, <1>12, <1>13, <1>14 DEF Node

LEMMA MapNext ==
    ASSUME OneAtATime, TypeOK, TypeOK', IndexIsBacked, IndexIsBacked', Alone, Alone',
           [Next]_vars
    PROVE  [Replay!Next]_(Replay!vars)
<1>1. CASE UNCHANGED vars
  <2>1. MapPlan' = MapPlan /\ MapActed' = MapActed /\ MapOutcome' = MapOutcome
    BY <1>1 DEF vars, local, bounds, history, MapPlan, MapActed, MapOutcome, Begun
  <2> QED BY <2>1, MapStutter
<1>2. ASSUME NEW c \in Clients,
             StartSession(c) \/ PostDecision(c) \/ UpdateState(c) \/ Resume(c) \/ Die(c)
      PROVE  [Replay!Next]_(Replay!vars)
  <2>1. CASE saved'.last = "__start__"
    <3>1. MapPlan' = None /\ MapActed' = {} /\ MapOutcome' = "open"
      BY <2>1 DEF MapPlan, MapActed, MapOutcome, Begun
    <3> QED BY <3>1, MapRestart
  <2>2. CASE saved'.last # "__start__"
    <3>1. saved'.last = saved.last /\ saved'.plan = saved.plan /\ visits' = visits
      BY <1>2, <2>2, AloneRouter
    <3>2. MapPlan' = MapPlan /\ MapActed' = MapActed /\ MapOutcome' = MapOutcome
      BY <3>1 DEF MapPlan, MapActed, MapOutcome, Begun
    <3> QED BY <3>2, MapStutter
  <2> QED BY <2>1, <2>2
<1> QED BY <1>1, <1>2, MapNodes DEF Next, Handler

(* With one request at a time, a session implements PlanReplay: the steps  *)
(* of the chosen fix in their order, success only when none is left, and   *)
(* the engineer can take it back before that.                              *)
THEOREM SessionImplementsReplay ==
    ASSUME OneAtATime
    PROVE  Spec => ImplementsReplay
<1>1. Init => Replay!Init
  BY MapInit
<1>2. /\ TypeOK /\ IndexIsBacked /\ Alone /\ (TypeOK /\ IndexIsBacked /\ Alone)' /\ [Next]_vars
      => [Replay!Next]_(Replay!vars)
  BY MapNext
<1> QED BY <1>1, <1>2, AloneAlways, PTL DEF Spec, ImplementsReplay, Replay!Spec

-----------------------------------------------------------------------------
(***************************************************************************)
(* The click and the record.                                               *)
(***************************************************************************)

(* What ExecutedOutputIsKept asks of two lists of results. *)
OutputKept(old, new) ==
    \A k \in DOMAIN old :
        LET r == old[k]
        IN r.status # "staged" /\ ~r.quiet =>
               k \in DOMAIN new /\ [new[k] EXCEPT !.cmd = r.cmd] = r

(* What is about to be executed has not been yet. *)
StagedLast(s) ==
    s.last = "pre_execute_review" /\ InPlan(s) => LastResult(s).status = "staged"

(* Neither is lost while the result of a command is saved. *)
Handed ==
    /\ picked # None => saved.selected = picked
    /\ StagedLast(saved)
    /\ \A c \in Clients :
           pc[c] = "save" =>
               mem[c].selected = saved.selected /\ OutputKept(saved.results, mem[c].results)

(* The two action properties, of one step. *)
OutputStep == saved'.last = "intake" \/ OutputKept(saved.results, saved'.results)

PickStep ==
    saved'.last = "load_fix_plan" /\ saved.last # "load_fix_plan" /\ picked # None =>
        saved'.plan = (IF picked \in Fixes THEN picked ELSE None)

LEMMA SameOutput ==
    ASSUME NEW rs \in Seq(StepResult)
    PROVE  OutputKept(rs, rs)
<1>1. \A r \in StepResult : [r EXCEPT !.cmd = r.cmd] = r
  BY DEF StepResult
<1>2. \A k \in DOMAIN rs : rs[k] \in StepResult
  OBVIOUS
<1> QED BY <1>1, <1>2 DEF OutputKept

LEMMA AppendedOutput ==
    ASSUME NEW rs \in Seq(StepResult), NEW r \in StepResult
    PROVE  OutputKept(rs, Append(rs, r)) /\ Append(rs, r)[Len(Append(rs, r))] = r
<1>1. \A k \in DOMAIN rs : k \in DOMAIN Append(rs, r) /\ Append(rs, r)[k] = rs[k]
  OBVIOUS
<1>2. Append(rs, r)[Len(Append(rs, r))] = r
  OBVIOUS
<1> QED BY <1>1, <1>2, SameOutput DEF OutputKept

(* A result may be replaced that is staged or has no output. *)
LEMMA ReplacedOutput ==
    ASSUME NEW rs \in Seq(StepResult), rs # << >>, NEW r \in StepResult,
           rs[Len(rs)].status = "staged" \/ rs[Len(rs)].quiet
    PROVE  /\ OutputKept(rs, ReplaceLast(rs, r))
           /\ ReplaceLast(rs, r)[Len(ReplaceLast(rs, r))] = r
<1>1. /\ DOMAIN ReplaceLast(rs, r) = DOMAIN rs /\ Len(ReplaceLast(rs, r)) = Len(rs)
      /\ ReplaceLast(rs, r)[Len(rs)] = r
      /\ \A k \in DOMAIN rs : k # Len(rs) => ReplaceLast(rs, r)[k] = rs[k]
  BY ReplaceLastEntries
<1> QED BY <1>1, SameOutput DEF OutputKept

(* The end of a superstep that keeps the click and the record. *)
LEMMA HandedOn ==
    ASSUME TypeOK, OneAtATime, NEW c \in Clients, NEW t, Checkpoint(c, t), StagedLast(t),
           picked' # None => t.selected = picked'
    PROVE  Handed'
<1>1. saved' = t /\ pc'[c] \in {"idle", "run"}
  BY DEF Checkpoint, Return, RunOn, TypeOK
<1> QED BY <1>1 DEF Handed, OneAtATime, StagedLast, InPlan, Plan, LastResult

(* Nodes that touch neither; they may end in any state but the review. *)
LEMMA HandedQuiet ==
    ASSUME TypeOK, IndexIsBacked, Alone, Handed, OneAtATime, NEW c \in Clients,
           Classify(c) \/ Observe(c) \/ RrfRank(c) \/ HitlCheckpoint(c) \/ AdvanceStep(c)
               \/ CompleteAutonomous(c) \/ ManualFallback(c)
    PROVE  Handed' /\ OutputStep /\ PickStep
<1> DEFINE Others == Nodes \ {"pre_execute_review", "load_fix_plan"}
<1>1. /\ saved \in Threads /\ picked' = picked
      /\ \A node : At(c, node) => mem[c] = saved
  BY AtNode DEF Classify, Observe, RrfRank, HitlCheckpoint, AdvanceStep, CompleteAutonomous,
     ManualFallback, history, TypeOK
<1>2. ASSUME NEW t, Checkpoint(c, t), t.last \in Others, t.selected = saved.selected,
             t.results = saved.results
      PROVE  Handed' /\ OutputStep /\ PickStep
  <2>1. saved' = t /\ StagedLast(t)
    BY <1>2 DEF Checkpoint, StagedLast
  <2>2. Handed'
    BY <1>1, <1>2, <2>1, HandedOn DEF Handed
  <2>3. OutputKept(saved.results, saved'.results)
    BY <1>1, <1>2, <2>1, SameOutput DEF Threads
  <2> QED BY <1>2, <2>1, <2>2, <2>3 DEF OutputStep, PickStep
<1>3. CASE Classify(c)
  <2>1. PICK mode \in Modes : Checkpoint(c, ClassifyNode(saved, mode))
    BY <1>1, <1>3 DEF Classify
  <2>2. /\ ClassifyNode(saved, mode).last \in Others
        /\ ClassifyNode(saved, mode).selected = saved.selected
        /\ ClassifyNode(saved, mode).results = saved.results
    BY <1>1 DEF ClassifyNode, Threads, Nodes
  <2> QED BY <1>2, <2>1, <2>2
<1>4. CASE Observe(c)
  <2>1. PICK node \in ObservingNodes : Checkpoint(c, ObservingNode(saved, node))
    BY <1>1, <1>4 DEF Observe
  <2>2. /\ ObservingNode(saved, node).last \in Others
        /\ ObservingNode(saved, node).selected = saved.selected
        /\ ObservingNode(saved, node).results = saved.results
    BY <1>1 DEF ObservingNode, ObservingNodes, Threads, Nodes
  <2> QED BY <1>2, <2>1, <2>2
<1>5. CASE RrfRank(c)
  <2>1. PICK top : Checkpoint(c, RrfRankNode(saved, top))
    BY <1>1, <1>5 DEF RrfRank
  <2>2. /\ RrfRankNode(saved, top).last \in Others
        /\ RrfRankNode(saved, top).selected = saved.selected
        /\ RrfRankNode(saved, top).results = saved.results
    BY <1>1 DEF RrfRankNode, Threads, Nodes
  <2> QED BY <1>2, <2>1, <2>2
<1>6. CASE HitlCheckpoint(c)
  <2>1. Checkpoint(c, HitlCheckpointNode(saved))
    BY <1>1, <1>6 DEF HitlCheckpoint
  <2>2. /\ HitlCheckpointNode(saved).last \in Others
        /\ HitlCheckpointNode(saved).selected = saved.selected
        /\ HitlCheckpointNode(saved).results = saved.results
    BY <1>1 DEF HitlCheckpointNode, Threads, Nodes
  <2> QED BY <1>2, <2>1, <2>2
<1>7. CASE AdvanceStep(c)
  <2>1. Checkpoint(c, AdvanceStepNode(saved))
    BY <1>1, <1>7 DEF AdvanceStep
  <2>2. /\ AdvanceStepNode(saved).last \in Others
        /\ AdvanceStepNode(saved).selected = saved.selected
        /\ AdvanceStepNode(saved).results = saved.results
    BY <1>1 DEF AdvanceStepNode, Threads, Nodes
  <2> QED BY <1>2, <2>1, <2>2
<1>8. CASE CompleteAutonomous(c)
  <2>1. Checkpoint(c, CompleteAutonomousNode(saved))
    BY <1>1, <1>8 DEF CompleteAutonomous
  <2>2. /\ CompleteAutonomousNode(saved).last \in Others
        /\ CompleteAutonomousNode(saved).selected = saved.selected
        /\ CompleteAutonomousNode(saved).results = saved.results
    BY <1>1 DEF CompleteAutonomousNode, Threads, Nodes
  <2> QED BY <1>2, <2>1, <2>2
<1>9. CASE ManualFallback(c)
  <2>1. Checkpoint(c, ManualFallbackNode(saved))
    BY <1>1, <1>9 DEF ManualFallback
  <2>2. /\ ManualFallbackNode(saved).last \in Others
        /\ ManualFallbackNode(saved).selected = saved.selected
        /\ ManualFallbackNode(saved).results = saved.results
    BY <1>1 DEF ManualFallbackNode, Threads, Nodes
  <2> QED BY <1>2, <2>1, <2>2
<1> QED BY <1>3, <1>4, <1>5, <1>6, <1>7, <1>8, <1>9

(* A new run forgets both. *)
LEMMA HandedIntake ==
    ASSUME TypeOK, IndexIsBacked, Alone, Handed, OneAtATime, NEW c \in Clients, Intake(c)
    PROVE  Handed' /\ OutputStep /\ PickStep
<1> DEFINE t == IntakeNode(saved)
<1>1. saved \in Threads /\ Checkpoint(c, t) /\ picked' = None
  BY AtNode DEF Intake
<1>2. t.last = "intake"
  BY <1>1 DEF IntakeNode, Threads
<1>3. saved' = t
  BY <1>1 DEF Checkpoint
<1> HIDE DEF t
<1>4. Handed'
  BY <1>1, <1>2, HandedOn DEF StagedLast
<1> QED BY <1>2, <1>3, <1>4 DEF OutputStep, PickStep

LEMMA HandedLoad ==
    ASSUME TypeOK, IndexIsBacked, Alone, Handed, OneAtATime, NEW c \in Clients, LoadFixPlan(c)
    PROVE  Handed' /\ OutputStep /\ PickStep
<1> DEFINE t == LoadFixPlanNode(saved)
<1>1. saved \in Threads /\ Checkpoint(c, t) /\ picked' = picked
  BY AtNode DEF LoadFixPlan, history
<1>2. t.last = "load_fix_plan" /\ t.results = saved.results
  BY <1>1 DEF LoadFixPlanNode, Threads
<1>3. picked # None =>
          t.selected = picked /\ t.plan = (IF picked \in Fixes THEN picked ELSE None)
  BY <1>1 DEF LoadFixPlanNode, ChosenFix, Handed, Threads
<1>4. saved' = t
  BY <1>1 DEF Checkpoint
<1> HIDE DEF t
<1>5. Handed'
  BY <1>1, <1>2, <1>3, HandedOn DEF StagedLast
<1>6. OutputKept(saved.results, saved'.results)
  BY <1>1, <1>2, <1>4, SameOutput DEF Threads
<1> QED BY <1>3, <1>4, <1>5, <1>6 DEF OutputStep, PickStep

(* The review stages a result after the last one, or in place of one that  *)
(* has no output.                                                          *)
LEMMA HandedReview ==
    ASSUME TypeOK, IndexIsBacked, Alone, Handed, OneAtATime, NEW c \in Clients,
           PreExecuteReview(c)
    PROVE  Handed' /\ OutputStep /\ PickStep
<1>1. /\ At(c, "pre_execute_review") /\ picked' = picked
      /\ mem[c] = saved /\ saved \in Threads /\ saved.results \in Seq(StepResult)
  BY AtNode DEF PreExecuteReview, history, Threads
<1>2. PICK adapted \in Commands : Checkpoint(c, PreExecuteReviewNode(saved, adapted))
  BY <1>1 DEF PreExecuteReview
<1> DEFINE t == PreExecuteReviewNode(saved, adapted)
<1>3. /\ t.last = "pre_execute_review" /\ t.selected = saved.selected
      /\ t.idx = saved.idx /\ t.plan = saved.plan
  BY <1>1 DEF PreExecuteReviewNode, Threads
<1>4. InPlan(t) <=> InPlan(saved)
  BY <1>3 DEF InPlan, Plan
<1>5. OutputKept(saved.results, t.results) /\ StagedLast(t)
  <2>1. CASE ~InPlan(saved)
    <3>1. t.results = saved.results
      BY <1>1, <2>1 DEF PreExecuteReviewNode, Threads
    <3> HIDE DEF t
    <3> QED BY <1>1, <1>4, <2>1, <3>1, SameOutput DEF StagedLast
  <2>2. CASE InPlan(saved) /\ NeedsOperator(CurrentStep(saved))
    <3> DEFINE r == StagedResult(saved, CurrentStep(saved).command, "manual")
    <3>1. CurrentStep(saved).command \in Commands \cup {None}
      BY <1>1, <2>2, CurrentStepType DEF SavedSteps
    <3>2. r \in StepResult /\ r.status = "staged"
      BY <1>1, <3>1, StagedResultType DEF StagedResult
    <3>3. t.results = Append(saved.results, r)
      BY <1>1, <2>2 DEF PreExecuteReviewNode, Threads
    <3> HIDE DEF r, t
    <3> QED BY <1>1, <3>2, <3>3, AppendedOutput DEF StagedLast, LastResult
  <2>3. CASE InPlan(saved) /\ ~NeedsOperator(CurrentStep(saved))
    <3> DEFINE r == StagedResult(saved, adapted,
                                 IF adapted \in SafeCommands THEN "allowed" ELSE "rejected")
    <3>1. r \in StepResult /\ r.status = "staged"
      BY <1>1, StagedResultType DEF StagedResult
    <3>2. t.results = UpsertStaged(saved, r)
      BY <1>1, <2>3 DEF PreExecuteReviewNode, Threads
    <3> HIDE DEF r, t
    <3>3. CASE saved.results # << >> /\ LooksStaged(saved, LastResult(saved))
      <4>1. t.results = ReplaceLast(saved.results, r)
        BY <3>2, <3>3 DEF UpsertStaged
      <4>2. saved.results[Len(saved.results)].quiet
        BY <3>3 DEF LooksStaged, LastResult
      <4> QED BY <1>1, <3>1, <3>3, <4>1, <4>2, ReplacedOutput DEF StagedLast, LastResult
    <3>4. CASE ~(saved.results # << >> /\ LooksStaged(saved, LastResult(saved)))
      <4>1. t.results = Append(saved.results, r)
        BY <3>2, <3>4 DEF UpsertStaged
      <4> QED BY <1>1, <3>1, <4>1, AppendedOutput DEF StagedLast, LastResult
    <3> QED BY <3>3, <3>4
  <2> QED BY <2>1, <2>2, <2>3
<1>6. saved' = t
  BY <1>2 DEF Checkpoint
<1> HIDE DEF t
<1>7. Handed'
  BY <1>1, <1>2, <1>3, <1>5, HandedOn DEF Handed, t
<1> QED BY <1>3, <1>5, <1>6, <1>7 DEF OutputStep, PickStep

(* A command runs on a staged result, so its own takes the place of none   *)
(* that has output.                                                        *)
LEMMA HandedExecute ==
    ASSUME TypeOK, IndexIsBacked, Alone, Handed, OneAtATime, NEW c \in Clients, ExecuteStep(c)
    PROVE  Handed' /\ OutputStep /\ PickStep
<1>1. /\ mem[c] = saved /\ saved \in Threads /\ Following(saved) = "execute_step"
      /\ saved' = saved /\ picked' = picked
  BY AtNode DEF ExecuteStep, bounds
<1>2. PICK outcome \in Outcomes : mem' = [mem EXCEPT ![c] = ExecuteStepNode(saved, outcome)]
  BY <1>1 DEF ExecuteStep
<1> DEFINE t == ExecuteStepNode(saved, outcome)
<1>3. mem'[c] = t /\ t.selected = saved.selected
  BY <1>1, <1>2 DEF TypeOK, ExecuteStepNode, Threads
<1>4. saved.results \in Seq(StepResult)
  BY <1>1 DEF Threads
<1>5. OutputKept(saved.results, t.results)
  <2>1. CASE Executable(saved)
    <3> DEFINE r == ExecutedResult(saved, outcome)
    <3>1. t.results = ReplaceLast(saved.results, r)
      BY <1>1, <2>1 DEF ExecuteStepNode, Threads
    <3>2. r \in StepResult
      BY <1>1, <2>1, ExecutedResultType DEF Executable
    <3>3. saved.results # << >> /\ saved.results[Len(saved.results)].status = "staged"
      BY <1>1, <2>1, Predecessors DEF Executable, Handed, StagedLast, LastResult
    <3> HIDE DEF r, t
    <3> QED BY <1>4, <3>1, <3>2, <3>3, ReplacedOutput
  <2>2. CASE ~Executable(saved)
    <3>1. t.results = saved.results
      BY <1>1, <2>2 DEF ExecuteStepNode, Threads
    <3> HIDE DEF t
    <3> QED BY <1>4, <3>1, SameOutput
  <2> QED BY <2>1, <2>2
<1>6. OutputKept(saved.results, saved'.results)
  BY <1>1, <1>4, SameOutput
<1> HIDE DEF t
<1>7. Handed'
  BY <1>1, <1>3, <1>5 DEF Handed, OneAtATime, StagedLast, InPlan, Plan, LastResult
<1> QED BY <1>1, <1>6, <1>7 DEF OutputStep, PickStep

LEMMA HandedSave ==
    ASSUME TypeOK, Alone, Handed, OneAtATime, NEW c \in Clients, SaveExecuted(c)
    PROVE  Handed' /\ OutputStep /\ PickStep
<1>1. /\ pc[c] = "save" /\ Checkpoint(c, mem[c]) /\ picked' = picked /\ saved' = mem[c]
  BY DEF SaveExecuted, Checkpoint, history
<1>2. mem[c].last = "execute_step"
  BY <1>1 DEF Alone, Stage
<1>3. /\ mem[c].selected = saved.selected /\ OutputKept(saved.results, saved'.results)
  BY <1>1 DEF Handed
<1>4. Handed'
  BY <1>1, <1>2, <1>3, HandedOn DEF Handed, StagedLast
<1> QED BY <1>1, <1>2, <1>3, <1>4 DEF OutputStep, PickStep

(* A click is written with the decision, an edit over a command only. *)
LEMMA HandedRouter ==
    ASSUME TypeOK, IndexIsBacked, Alone, Handed, OneAtATime, NEW c \in Clients,
           StartSession(c) \/ PostDecision(c) \/ UpdateState(c) \/ Resume(c) \/ Die(c)
    PROVE  Handed' /\ OutputStep /\ PickStep
<1>1. saved \in Threads /\ saved.results \in Seq(StepResult)
  BY DEF TypeOK, Threads
<1>2. CASE UpdateState(c)
  <2>1. /\ pc[c] = "update" /\ pc'[c] = "resume"
        /\ picked' = IF body[c].pick # None THEN body[c].pick ELSE picked
        /\ saved'.selected = IF body[c].pick # None THEN body[c].pick ELSE saved.selected
        /\ saved'.results = EditedResults(c)
        /\ saved'.last = saved.last /\ saved'.idx = saved.idx /\ saved'.plan = saved.plan
    BY <1>1, <1>2 DEF UpdateState, TypeOK, Threads
  <2>2. /\ Len(EditedResults(c)) = Len(saved.results)
        /\ \A k \in DOMAIN saved.results :
               /\ EditedResults(c)[k].status = saved.results[k].status
               /\ [EditedResults(c)[k] EXCEPT !.cmd = saved.results[k].cmd] = saved.results[k]
    BY <2>1, EditKeepsResults
  <2>3. saved'.results \in Seq(StepResult) /\ DOMAIN saved'.results = DOMAIN saved.results
    <3>1. TypeOK'
      BY <1>2, NextType DEF Next, Handler
    <3> QED BY <1>1, <2>1, <2>2, <3>1 DEF TypeOK, Threads
  <2>4. OutputKept(saved.results, saved'.results)
    BY <2>1, <2>2, <2>3 DEF OutputKept
  <2>5. StagedLast(saved)'
    <3>1. SUFFICES ASSUME saved.last = "pre_execute_review", InPlan(saved)
                   PROVE  LastResult(saved').status = "staged"
      BY <2>1 DEF StagedLast, InPlan, Plan, LastResult
    <3>2. saved.results # << >> /\ LastResult(saved).status = "staged"
      BY <3>1 DEF IndexIsBacked, Backed, Handed, StagedLast
    <3>3. Len(saved.results) \in DOMAIN saved.results
      BY <1>1, <3>2
    <3> QED BY <2>1, <2>2, <3>2, <3>3 DEF LastResult
  <2>6. Handed'
    BY <2>1, <2>5 DEF Handed, OneAtATime
  <2> QED BY <2>1, <2>4, <2>6 DEF OutputStep, PickStep
<1>3. CASE ~UpdateState(c)
  <2>1. /\ pc'[c] # "save" /\ picked' = picked
        /\ saved'.selected = saved.selected /\ saved'.results = saved.results
        /\ saved' = saved \/ saved'.last = "__start__"
    BY <1>1, <1>3 DEF StartSession, PostDecision, Resume, Die, Return, RunOn, TypeOK, Threads,
       bounds, history
  <2>2. OutputKept(saved.results, saved'.results)
    BY <1>1, <2>1, SameOutput
  <2>3. StagedLast(saved)'
    BY <2>1 DEF Handed, StagedLast, InPlan, Plan, LastResult
  <2>4. Handed'
    BY <2>1, <2>3 DEF Handed, OneAtATime
  <2> QED BY <2>1, <2>2, <2>4 DEF OutputStep, PickStep
<1> QED BY <1>2, <1>3

LEMMA HandedInit == Init => Handed
  BY DEF Init, NewThread, Handed, StagedLast

LEMMA HandedNext ==
    ASSUME OneAtATime, TypeOK, IndexIsBacked, Alone, Handed, Next
    PROVE  Handed' /\ OutputStep /\ PickStep
<1>1. PICK c \in Clients : StartSession(c) \/ PostDecision(c) \/ Handler(c) \/ Die(c)
  BY DEF Next
<1> QED BY <1>1, HandedQuiet, HandedIntake, HandedLoad, HandedReview, HandedExecute, HandedSave,
           HandedRouter DEF Handler, Node

LEMMA HandedAlways ==
    ASSUME OneAtATime
    PROVE  Spec => [](TypeOK /\ IndexIsBacked /\ Alone /\ Handed)
<1>1. Handed /\ UNCHANGED vars => Handed'
  BY DEF vars, local, history, Handed, StagedLast, InPlan, Plan, LastResult
<1>2. TypeOK /\ IndexIsBacked /\ Alone /\ Handed /\ [Next]_vars => Handed'
  BY <1>1, HandedNext
<1> QED BY <1>2, HandedInit, AloneAlways, PTL DEF Spec

(* With one request at a time, a result with output stays on record until  *)
(* the next intake; an edit changes its command and nothing else.          *)
THEOREM OutputStaysOnRecord ==
    ASSUME OneAtATime
    PROVE  Spec => ExecutedOutputIsKept
<1>1. TypeOK /\ IndexIsBacked /\ Alone /\ Handed /\ [Next]_vars => [OutputStep]_vars
  BY HandedNext
<1> QED BY <1>1, HandedAlways, PTL DEF Spec, ExecutedOutputIsKept, OutputStep, OutputKept

(* With one request at a time, the plan that is loaded is the one of the   *)
(* fix that was clicked in this run, and none if that has no row.          *)
THEOREM ClickedFixIsLoaded ==
    ASSUME OneAtATime
    PROVE  Spec => PickIsReplayed
<1>1. TypeOK /\ IndexIsBacked /\ Alone /\ Handed /\ [Next]_vars => [PickStep]_vars
  BY HandedNext
<1> QED BY <1>1, HandedAlways, PTL DEF Spec, PickIsReplayed, PickStep

-----------------------------------------------------------------------------
(***************************************************************************)
(* Repeats.  Each further visit of a step takes a request that died: a run *)
(* that comes back to a step after a redo hands it over (RouteAfterPre-    *)
(* Execute), unless it dies before.                                        *)
(***************************************************************************)

(* No command is about to run without a decision that was made since the   *)
(* step was last visited.                                                  *)
Spare(c) == pc[c] # "save" /\ (pc[c] = "run" => saved.decision = "continue")

Accounted ==
    /\ \A k \in DOMAIN visits : visits[k].step <= saved.idx
    /\ \A i \in Nat : VisitsOf(i) <= 1 + deaths
    /\ saved.last \in {"load_fix_plan", "advance_step"} => VisitsOf(saved.idx) <= deaths
    /\ \A c \in Clients :
           saved.last = "pre_execute_review" /\ Spare(c) => VisitsOf(saved.idx) <= deaths

LEMMA VisitsAreCounted ==
    ASSUME visits \in Seq(Visits)
    PROVE  \A i : VisitsOf(i) \in Nat /\ IsFiniteSet({k \in DOMAIN visits : visits[k].step = i})
<1>1. IsFiniteSet(DOMAIN visits)
  <2>1. DOMAIN visits = 1 .. Len(visits) /\ Len(visits) \in Nat
    OBVIOUS
  <2> QED BY <2>1, FS_Interval
<1> QED BY <1>1, FS_Subset, FS_CardinalityType DEF VisitsOf

LEMMA NoVisits ==
    ASSUME NEW i, \A k \in DOMAIN visits : visits[k].step # i
    PROVE  VisitsOf(i) = 0
<1>1. {k \in DOMAIN visits : visits[k].step = i} = {}
  OBVIOUS
<1> QED BY <1>1, FS_EmptySet DEF VisitsOf

(* A visit counts for its own step. *)
LEMMA OneMoreVisit ==
    ASSUME visits \in Seq(Visits), NEW v \in Visits, visits' = Append(visits, v)
    PROVE  \A i : VisitsOf(i)' = VisitsOf(i) + (IF i = v.step THEN 1 ELSE 0)
<1> SUFFICES ASSUME NEW i
             PROVE  VisitsOf(i)' = VisitsOf(i) + (IF i = v.step THEN 1 ELSE 0)
  OBVIOUS
<1> DEFINE S == {k \in DOMAIN visits : visits[k].step = i}
           T == {k \in DOMAIN visits' : visits'[k].step = i}
<1>1. /\ DOMAIN visits' = DOMAIN visits \cup {Len(visits) + 1} /\ Len(visits) + 1 \notin DOMAIN visits
      /\ \A k \in DOMAIN visits : visits'[k] = visits[k]
      /\ visits'[Len(visits) + 1] = v
  <2>1. /\ Len(visits) \in Nat /\ DOMAIN visits = 1 .. Len(visits)
        /\ DOMAIN Append(visits, v) = 1 .. (Len(visits) + 1)
    OBVIOUS
  <2>2. /\ \A k \in DOMAIN visits : Append(visits, v)[k] = visits[k]
        /\ Append(visits, v)[Len(visits) + 1] = v
    BY AppendEntries
  <2>3. 1 .. (Len(visits) + 1) = (1 .. Len(visits)) \cup {Len(visits) + 1}
    BY <2>1
  <2>4. Len(visits) + 1 \notin 1 .. Len(visits)
    BY <2>1
  <2> QED BY <2>1, <2>2, <2>3, <2>4
<1>2. IsFiniteSet(S) /\ Cardinality(S) \in Nat
  BY VisitsAreCounted DEF VisitsOf
<1>3. CASE i = v.step
  <2>1. T = S \cup {Len(visits) + 1} /\ Len(visits) + 1 \notin S
    BY <1>1, <1>3
  <2> HIDE DEF S, T
  <2>2. Cardinality(T) = Cardinality(S) + 1
    BY <1>2, <2>1, FS_AddElement
  <2> QED BY <1>3, <2>2 DEF VisitsOf, S, T
<1>4. CASE i # v.step
  <2>1. T = S
    BY <1>1, <1>4
  <2>2. VisitsOf(i)' = Cardinality(T) /\ VisitsOf(i) = Cardinality(S)
    BY DEF VisitsOf
  <2> HIDE DEF S, T
  <2> QED BY <1>2, <1>4, <2>1, <2>2
<1> QED BY <1>3, <1>4

LEMMA AccountedInit == Init => Accounted
<1> SUFFICES ASSUME Init PROVE Accounted
  OBVIOUS
<1>1. visits = << >> /\ deaths = 0 /\ saved.last = "none"
  BY DEF Init, NewThread
<1>2. \A i : VisitsOf(i) = 0
  BY <1>1, NoVisits
<1> QED BY <1>1, <1>2 DEF Accounted

(* Steps that add no visit. *)
LEMMA AccountedFrame ==
    ASSUME TypeOK, Accounted, visits' = visits, deaths' \in Nat, deaths <= deaths',
           saved'.idx \in Nat, saved.idx <= saved'.idx,
           saved'.last \in {"load_fix_plan", "advance_step"} => VisitsOf(saved'.idx) <= deaths',
           \A c \in Clients :
               saved'.last = "pre_execute_review" /\ Spare(c)' => VisitsOf(saved'.idx) <= deaths'
    PROVE  Accounted'
<1>1. \A i : VisitsOf(i)' = VisitsOf(i) /\ VisitsOf(i) \in Nat
  BY VisitsAreCounted DEF VisitsOf, TypeOK
<1>2. \A k \in DOMAIN visits : visits[k].step \in Nat
  <2>1. \A k \in DOMAIN visits : visits[k] \in Visits
    BY DEF TypeOK
  <2>2. \A v \in Visits : v.step \in Nat
    BY DEF Visits
  <2> QED BY <2>1, <2>2
<1>3. saved.idx \in Nat /\ deaths \in Nat
  BY DEF TypeOK, Threads
<1>4. \A k \in DOMAIN visits' : visits'[k].step <= saved'.idx
  BY <1>2, <1>3 DEF Accounted
<1>5. \A i \in Nat : VisitsOf(i)' <= 1 + deaths'
  BY <1>1, <1>3 DEF Accounted
<1>6. VisitsOf(saved.idx)' = VisitsOf(saved'.idx)
  BY DEF VisitsOf
<1> QED BY <1>4, <1>5, <1>6 DEF Accounted

LEMMA AccountedNodes ==
    ASSUME TypeOK, TypeOK', IndexIsBacked, Alone, Accounted, OneAtATime, NEW c \in Clients,
           \/ Classify(c) \/ Observe(c) \/ RrfRank(c) \/ LoadFixPlan(c) \/ HitlCheckpoint(c)
           \/ AdvanceStep(c) \/ CompleteAutonomous(c) \/ ManualFallback(c)
    PROVE  Accounted'
<1> DEFINE Others == Nodes \ {"load_fix_plan", "pre_execute_review", "advance_step"}
<1>1. /\ saved \in Threads /\ saved.idx \in Nat /\ deaths \in Nat
      /\ visits' = visits /\ deaths' = deaths
      /\ \A node : At(c, node) => mem[c] = saved
  BY AtNode DEF Classify, Observe, RrfRank, LoadFixPlan, HitlCheckpoint, AdvanceStep,
     CompleteAutonomous, ManualFallback, history, bounds, TypeOK, Threads
<1>2. ASSUME NEW t, Checkpoint(c, t), t.last \in Others, t.idx = saved.idx
      PROVE  Accounted'
  BY <1>1, <1>2, AccountedFrame DEF Checkpoint
<1>3. CASE Classify(c)
  <2>1. PICK mode \in Modes : Checkpoint(c, ClassifyNode(saved, mode))
    BY <1>1, <1>3 DEF Classify
  <2> QED BY <1>1, <1>2, <2>1 DEF ClassifyNode, Threads, Nodes
<1>4. CASE Observe(c)
  <2>1. PICK node \in ObservingNodes : Checkpoint(c, ObservingNode(saved, node))
    BY <1>1, <1>4 DEF Observe
  <2>2. /\ ObservingNode(saved, node).last \in Others
        /\ ObservingNode(saved, node).idx = saved.idx
    BY <1>1 DEF ObservingNode, ObservingNodes, Threads, Nodes
  <2> QED BY <1>2, <2>1, <2>2
<1>5. CASE RrfRank(c)
  <2>1. PICK top : Checkpoint(c, RrfRankNode(saved, top))
    BY <1>1, <1>5 DEF RrfRank
  <2> QED BY <1>1, <1>2, <2>1 DEF RrfRankNode, Threads, Nodes
<1>6. CASE LoadFixPlan(c)
  <2>1. saved.last \in Early /\ saved'.last = "load_fix_plan"
    BY <1>6, AloneLoad
  <2>2. visits = << >> /\ saved.idx = 0
    BY <2>1 DEF Alone, Ledger, EarlyIsEmpty
  <2>3. VisitsOf(saved'.idx) = 0
    BY <2>2, NoVisits
  <2>4. saved'.idx \in Nat
    BY DEF TypeOK, Threads
  <2> QED BY <1>1, <2>1, <2>2, <2>3, <2>4, AccountedFrame
<1>7. CASE HitlCheckpoint(c)
  <2>1. Checkpoint(c, HitlCheckpointNode(saved))
    BY <1>1, <1>7 DEF HitlCheckpoint
  <2>2. /\ HitlCheckpointNode(saved).last \in Others
        /\ HitlCheckpointNode(saved).idx = saved.idx
    BY <1>1 DEF HitlCheckpointNode, Threads, Nodes
  <2> QED BY <1>2, <2>1, <2>2
<1>8. CASE AdvanceStep(c)
  <2>1. saved' = AdvanceStepNode(saved)
    BY <1>1, <1>8 DEF AdvanceStep, Checkpoint
  <2>2. saved'.last = "advance_step" /\ saved'.idx = saved.idx + 1
    BY <1>1, <2>1 DEF AdvanceStepNode, Threads
  <2>3. \A k \in DOMAIN visits : visits[k].step # saved'.idx
    BY <1>1, <2>2 DEF Accounted
  <2>4. VisitsOf(saved'.idx) = 0
    BY <2>3, NoVisits
  <2> QED BY <1>1, <2>2, <2>4, AccountedFrame
<1>9. CASE CompleteAutonomous(c)
  <2>1. Checkpoint(c, CompleteAutonomousNode(saved))
    BY <1>1, <1>9 DEF CompleteAutonomous
  <2>2. /\ CompleteAutonomousNode(saved).last \in Others
        /\ CompleteAutonomousNode(saved).idx = saved.idx
    BY <1>1 DEF CompleteAutonomousNode, Threads, Nodes
  <2> QED BY <1>2, <2>1, <2>2
<1>10. CASE ManualFallback(c)
  <2>1. Checkpoint(c, ManualFallbackNode(saved))
    BY <1>1, <1>10 DEF ManualFallback
  <2>2. /\ ManualFallbackNode(saved).last \in Others
        /\ ManualFallbackNode(saved).idx = saved.idx
    BY <1>1 DEF ManualFallbackNode, Threads, Nodes
  <2> QED BY <1>2, <2>1, <2>2
<1> QED BY <1>3, <1>4, <1>5, <1>6, <1>7, <1>8, <1>9, <1>10

LEMMA AccountedIntake ==
    ASSUME TypeOK, TypeOK', IndexIsBacked, Alone, Accounted, NEW c \in Clients, Intake(c)
    PROVE  Accounted'
<1>1. saved \in Threads /\ saved' = IntakeNode(saved) /\ visits' = << >> /\ deaths' \in Nat
  BY AtNode DEF Intake, Checkpoint, TypeOK
<1>2. saved'.last = "intake"
  BY <1>1 DEF IntakeNode, Threads
<1>3. \A i : VisitsOf(i)' = 0
  BY <1>1, FS_EmptySet DEF VisitsOf
<1> QED BY <1>1, <1>2, <1>3 DEF Accounted

(* Before a step is reviewed it is not visited since the last death, or    *)
(* the run came back with a redo and will not go on to execute_step.       *)
LEMMA AccountedReview ==
    ASSUME TypeOK, TypeOK', IndexIsBacked, Alone, Accounted, OneAtATime, NEW c \in Clients,
           PreExecuteReview(c)
    PROVE  Accounted'
<1>1. /\ saved \in Threads /\ saved.idx \in Nat /\ deaths \in Nat /\ visits' = visits
      /\ deaths' = deaths /\ mem[c] = saved /\ Following(saved) = "pre_execute_review"
  BY AtNode DEF PreExecuteReview, bounds, history, TypeOK, Threads
<1>2. PICK adapted \in Commands : Checkpoint(c, PreExecuteReviewNode(saved, adapted))
  BY <1>1 DEF PreExecuteReview
<1> DEFINE t == PreExecuteReviewNode(saved, adapted)
<1>3. t.last = "pre_execute_review" /\ t.idx = saved.idx /\ t.decision = saved.decision
  BY <1>1 DEF PreExecuteReviewNode, Threads
<1>4. saved' = t
  BY <1>2 DEF Checkpoint
<1> HIDE DEF t
<1>5. CASE saved.last \in {"load_fix_plan", "advance_step"}
  <2>1. VisitsOf(saved'.idx) <= deaths'
    BY <1>1, <1>3, <1>4, <1>5 DEF Accounted
  <2> QED BY <1>1, <1>3, <1>4, <2>1, AccountedFrame
<1>6. CASE saved.last = "hitl_checkpoint"
  <2>1. saved.decision = "redo"
    BY <1>1, <1>6 DEF Following, RouteAfterHitl
  <2>2. Following(t) = "manual_fallback"
    BY <1>3, <2>1 DEF Following, RouteAfterPreExecute
  <2>3. pc'[c] = "run"
    BY <1>2, <2>2 DEF t, Checkpoint, RunOn, InterruptBefore, TypeOK
  <2>4. \A d \in Clients : ~Spare(d)'
    BY <1>3, <1>4, <2>1, <2>3 DEF Spare, OneAtATime
  <2> QED BY <1>1, <1>3, <1>4, <2>4, AccountedFrame
<1>7. saved.last \in {"load_fix_plan", "advance_step", "hitl_checkpoint"}
  BY <1>1 DEF Following, StaticEdge, RouteAfterClassify, RouteAfterConsent, RouteAfterPreExecute
<1> QED BY <1>5, <1>6, <1>7

LEMMA AccountedExecute ==
    ASSUME TypeOK, TypeOK', IndexIsBacked, Alone, Accounted, OneAtATime, NEW c \in Clients,
           ExecuteStep(c)
    PROVE  Accounted'
<1>1. /\ pc[c] = "run" /\ pc'[c] = "save" /\ mem[c] = saved /\ saved' = saved
      /\ saved.idx \in Nat /\ deaths \in Nat /\ deaths' = deaths
      /\ Following(saved) = "execute_step" /\ visits \in Seq(Visits)
  BY AtNode DEF ExecuteStep, At, bounds, TypeOK, Threads
<1>2. saved.last = "pre_execute_review" /\ saved.decision = "continue"
  BY <1>1, Predecessors
<1>3. VisitsOf(saved.idx) <= deaths
  BY <1>1, <1>2 DEF Accounted, Spare
<1>4. \A d \in Clients : ~Spare(d)'
  BY <1>1 DEF Spare, OneAtATime
<1>5. CASE Executable(saved)
  <2> DEFINE v == [step |-> saved.idx, cmd |-> LastResult(saved).cmd,
                   decision |-> body[c].decision, post |-> body[c].post]
  <2>1. visits' = Append(visits, v) /\ visits' \in Seq(Visits)
    BY <1>1, <1>5 DEF ExecuteStep, TypeOK
  <2>2. v \in Visits /\ v.step = saved.idx
    <3>1. Len(visits) + 1 \in DOMAIN Append(visits, v) /\ Append(visits, v)[Len(visits) + 1] = v
      BY <1>1
    <3> HIDE DEF v
    <3>2. v \in Visits
      BY <2>1, <3>1
    <3> QED BY <3>2 DEF v
  <2> HIDE DEF v
  <2>3. \A i : VisitsOf(i)' = VisitsOf(i) + (IF i = saved.idx THEN 1 ELSE 0)
    BY <1>1, <2>1, <2>2, OneMoreVisit
  <2>4. \A k \in DOMAIN visits' : visits'[k].step <= saved'.idx
    <3>1. /\ \A k \in DOMAIN visits' : k \in DOMAIN visits \/ k = Len(visits) + 1
          /\ \A k \in DOMAIN visits : visits'[k] = visits[k]
          /\ visits'[Len(visits) + 1] = v
      <4>1. /\ \A k \in DOMAIN Append(visits, v) : k \in DOMAIN visits \/ k = Len(visits) + 1
            /\ \A k \in DOMAIN visits : Append(visits, v)[k] = visits[k]
            /\ Append(visits, v)[Len(visits) + 1] = v
        BY <1>1, <2>2, AppendEntries
      <4> QED BY <2>1, <4>1, Zenon
    <3> QED BY <1>1, <2>2, <3>1 DEF Accounted
  <2>5. \A i : VisitsOf(i) \in Nat
    BY <1>1, VisitsAreCounted
  <2>6. \A i \in Nat : VisitsOf(i)' <= 1 + deaths'
    <3> SUFFICES ASSUME NEW i \in Nat PROVE VisitsOf(i)' <= 1 + deaths'
      OBVIOUS
    <3>1. VisitsOf(i) <= 1 + deaths /\ VisitsOf(i) \in Nat
      BY <2>5 DEF Accounted
    <3>2. VisitsOf(i)' = VisitsOf(i) + (IF i = saved.idx THEN 1 ELSE 0)
      BY <2>3
    <3>3. i = saved.idx => VisitsOf(i) <= deaths
      BY <1>3
    <3> HIDE DEF VisitsOf
    <3> QED BY <1>1, <3>1, <3>2, <3>3
  <2> QED BY <1>1, <1>2, <1>4, <2>4, <2>6 DEF Accounted
<1>6. CASE ~Executable(saved)
  <2>1. visits' = visits
    BY <1>1, <1>6 DEF ExecuteStep
  <2> QED BY <1>1, <1>2, <1>4, <2>1, AccountedFrame
<1> QED BY <1>5, <1>6

LEMMA AccountedSave ==
    ASSUME TypeOK, TypeOK', Alone, Accounted, NEW c \in Clients, SaveExecuted(c)
    PROVE  Accounted'
<1>1. /\ pc[c] = "save" /\ saved' = mem[c] /\ visits' = visits /\ deaths' = deaths
      /\ deaths \in Nat /\ saved.idx \in Nat
  BY DEF SaveExecuted, Checkpoint, bounds, history, TypeOK, Threads
<1>2. saved'.last = "execute_step" /\ saved'.idx = saved.idx
  BY <1>1 DEF Alone, Stage
<1> QED BY <1>1, <1>2, AccountedFrame

(* A death pays for one more visit. *)
LEMMA AccountedRouter ==
    ASSUME TypeOK, TypeOK', Accounted, OneAtATime, NEW c \in Clients,
           StartSession(c) \/ PostDecision(c) \/ UpdateState(c) \/ Resume(c) \/ Die(c)
    PROVE  Accounted'
<1>1. /\ visits' = visits /\ saved \in Threads /\ saved.idx \in Nat /\ saved'.idx = saved.idx
      /\ deaths \in Nat /\ deaths' \in Nat
      /\ saved'.last = saved.last \/ saved'.last = "__start__"
  BY DEF StartSession, PostDecision, UpdateState, Resume, Die, history, bounds, TypeOK, Threads
<1>2. CASE Die(c)
  <2>1. deaths' = deaths + 1 /\ saved' = saved
    BY <1>2 DEF Die
  <2>2. VisitsOf(saved.idx) <= deaths'
    BY <1>1, <2>1 DEF Accounted
  <2> QED BY <1>1, <2>1, <2>2, AccountedFrame
<1>3. CASE ~Die(c)
  <2>1. deaths' = deaths /\ (Spare(c) \/ saved'.last = "__start__")
    BY <1>1, <1>3 DEF StartSession, PostDecision, UpdateState, Resume, Spare, bounds, Threads
  <2>2. saved'.last \in {"load_fix_plan", "advance_step"} => VisitsOf(saved'.idx) <= deaths'
    BY <1>1, <2>1 DEF Accounted
  <2>3. saved'.last = "pre_execute_review" => VisitsOf(saved'.idx) <= deaths'
    BY <1>1, <2>1 DEF Accounted
  <2> QED BY <1>1, <2>1, <2>2, <2>3, AccountedFrame
<1> QED BY <1>2, <1>3

LEMMA AccountedNext ==
    ASSUME OneAtATime, TypeOK, IndexIsBacked, Alone, Accounted, [Next]_vars
    PROVE  Accounted'
<1>1. TypeOK'
  BY NextType
<1>2. CASE UNCHANGED vars
  BY <1>2 DEF vars, local, bounds, history, Accounted, VisitsOf, Spare
<1>3. ASSUME NEW c \in Clients, StartSession(c) \/ PostDecision(c) \/ Handler(c) \/ Die(c)
      PROVE  Accounted'
  BY <1>1, <1>3, AccountedNodes, AccountedIntake, AccountedReview, AccountedExecute,
     AccountedSave, AccountedRouter DEF Handler, Node
<1> QED BY <1>2, <1>3 DEF Next

(* With one request at a time, a step is visited once and once more for    *)
(* each request that died, which is less than redos would allow.           *)
THEOREM RepeatsStayAccounted ==
    ASSUME OneAtATime
    PROVE  Spec => []RepeatsAreAccounted
<1>1. TypeOK /\ Accounted => RepeatsAreAccounted
  <2> SUFFICES ASSUME TypeOK, Accounted, NEW k \in DOMAIN visits
               PROVE  VisitsOf(visits[k].step) <=
                          1 + deaths
                            + (IF visits[k].step = saved.idx THEN saved.redo ELSE MaxRedo)
    BY DEF RepeatsAreAccounted
  <2>1. visits[k].step \in Nat
    <3>1. visits[k] \in Visits
      BY DEF TypeOK
    <3> QED BY <3>1 DEF Visits
  <2>2. saved.redo \in Nat /\ MaxRedo \in Nat /\ deaths \in Nat
    BY SettingAssumption DEF TypeOK, Threads
  <2>3. VisitsOf(visits[k].step) \in Nat
    BY VisitsAreCounted DEF TypeOK
  <2>4. VisitsOf(visits[k].step) <= 1 + deaths
    BY <2>1 DEF Accounted
  <2> QED BY <2>2, <2>3, <2>4
<1>2. TypeOK /\ IndexIsBacked /\ Alone /\ Accounted /\ [Next]_vars => Accounted'
  BY AccountedNext
<1> QED BY <1>1, <1>2, AccountedInit, AloneAlways, PTL DEF Spec

=============================================================================
