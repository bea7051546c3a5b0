------------------------------ MODULE FixGraph ------------------------------
(***************************************************************************)
(* The state machine of bugfix_ai/core/graph.py as pure definitions: what   *)
(* each node writes into the thread state and which node follows which.    *)
(* A node is an operator from the state it receives to the state it        *)
(* leaves; FixSession runs the nodes one checkpoint at a time.             *)
(*                                                                         *)
(* The compiled graph stores no program counter of its own: the node to    *)
(* run next is what the outgoing edge of the last node yields on the       *)
(* current values.  LangGraph evaluates that edge after the node and again *)
(* on every aupdate_state, so Following(s) is a function of the state.     *)
(***************************************************************************)
EXTENDS Naturals, Sequences

CONSTANTS
    Fixes,          \* fix ids that have a row in the fix store
    UnknownFixes,   \* fix ids a client can name that have no row
    Steps,          \* Steps[f]: the saved steps of fix f
    Commands,       \* shell commands (saved, adapted or typed)
    SafeCommands,   \* the commands evaluate_safety allows
    Shortlist,      \* fixes the retrieval nodes may rank first
    DryRun,         \* settings.terminal_dry_run_default
    MaxRedo,        \* settings.max_redo_per_step
    None            \* an absent value

ASSUME FixAssumption ==
    /\ Fixes \cap UnknownFixes = {}
    /\ None \notin Fixes \cup UnknownFixes
    /\ Shortlist \subseteq Fixes

ASSUME CommandAssumption ==
    /\ None \notin Commands
    /\ SafeCommands \subseteq Commands

ASSUME StepAssumption ==
    Steps \in [Fixes -> Seq([tool: {"terminal", "other"}, command: Commands \cup {None}])]

ASSUME SettingAssumption == DryRun \in BOOLEAN /\ MaxRedo \in Nat

(***************************************************************************)
(* The thread state: the fields of BugFixState that steer a run, and the   *)
(* node that wrote it last.  A step result is "staged" while it has        *)
(* exit_code 0 without success; "quiet" says stdout and stderr are empty.  *)
(***************************************************************************)
Nodes == {"__start__", "intake", "classify", "emit_new_issue",
          "semantic_retrieve", "rule_filter", "rrf_rank", "present_similar",
          "consent_gate", "load_fix_plan", "pre_execute_review", "execute_step",
          "hitl_checkpoint", "advance_step", "complete_autonomous", "manual_fallback"}

Modes == {"capture", "assist", "autonomous"}

FixIds == Fixes \cup UnknownFixes

StepResult ==
    [step: Nat, cmd: Commands \cup {None},
     verdict: {"allowed", "rejected", "manual", "dry_run"},
     status: {"staged", "ok", "failed"}, quiet: BOOLEAN]

NewThread ==
    [last |-> "none", mode |-> None, decision |-> None, selected |-> None,
     similar |-> None, plan |-> None, idx |-> 0, results |-> << >>, redo |-> 0,
     success |-> None]

(* fix_plan: a copy of the row's steps, which are never rewritten. *)
Plan(s) == IF s.plan \in Fixes THEN Steps[s.plan] ELSE << >>

InPlan(s) == s.idx < Len(Plan(s))

CurrentStep(s) == Plan(s)[s.idx + 1]

LastResult(s) == s.results[Len(s.results)]

ReplaceLast(results, r) == [results EXCEPT ![Len(results)] = r]

(***************************************************************************)
(* Edges.                                                                  *)
(***************************************************************************)
StaticEdge(node) ==
    CASE node = "__start__" -> "intake"
      [] node = "intake" -> "classify"
      [] node = "semantic_retrieve" -> "rule_filter"
      [] node = "rule_filter" -> "rrf_rank"
      [] node = "rrf_rank" -> "present_similar"
      [] node = "present_similar" -> "consent_gate"
      [] node = "load_fix_plan" -> "pre_execute_review"
      [] node = "execute_step" -> "hitl_checkpoint"
      [] node = "advance_step" -> "pre_execute_review"
      [] OTHER -> "END"

RouteAfterClassify(s) ==
    CASE s.mode = "capture" -> "emit_new_issue"
      [] s.mode = "assist" -> "semantic_retrieve"
      [] OTHER -> "load_fix_plan"

RouteAfterConsent(s) ==
    IF s.decision = "autonomous" THEN "load_fix_plan" ELSE "manual_fallback"

\* Variation: whatever is not "manual" goes on to execute.
RouteAfterPreExecuteByDefault(s) ==
    IF s.decision = "manual" THEN "manual_fallback" ELSE "execute_step"

RouteAfterPreExecute(s) ==
    IF s.decision = "continue" THEN "execute_step" ELSE "manual_fallback"

\* Variation: the last step is taken for done one step early.
RouteAfterHitlOffByOne(s) ==
    CASE s.decision = "continue" /\ s.idx + 2 < Len(Plan(s)) -> "advance_step"
      [] s.decision = "continue" /\ s.idx + 2 >= Len(Plan(s)) -> "complete_autonomous"
      [] s.decision = "redo" -> "pre_execute_review"
      [] OTHER -> "manual_fallback"

RouteAfterHitl(s) ==
    CASE s.decision = "continue" /\ s.idx + 1 < Len(Plan(s)) -> "advance_step"
      [] s.decision = "continue" /\ s.idx + 1 >= Len(Plan(s)) -> "complete_autonomous"
      [] s.decision = "redo" -> "pre_execute_review"
      [] OTHER -> "manual_fallback"

Following(s) ==
    CASE s.last = "classify" -> RouteAfterClassify(s)
      [] s.last = "consent_gate" -> RouteAfterConsent(s)
      [] s.last = "pre_execute_review" -> RouteAfterPreExecute(s)
      [] s.last = "hitl_checkpoint" -> RouteAfterHitl(s)
      [] OTHER -> StaticEdge(s.last)

InterruptBefore == {"consent_gate", "pre_execute_review", "hitl_checkpoint"}

Over(s) == Following(s) = "END"

(***************************************************************************)
(* Nodes.                                                                  *)
(***************************************************************************)
\* Variation: the results of an earlier run stay.
IntakeKeepsResults(s) ==
    [s EXCEPT !.last = "intake", !.idx = 0, !.redo = 0, !.similar = None, !.plan = None]

IntakeNode(s) ==
    [s EXCEPT !.last = "intake", !.idx = 0, !.redo = 0, !.results = << >>,
              !.similar = None, !.plan = None]

ClassifyNode(s, mode) == [s EXCEPT !.last = "classify", !.mode = mode]

(* Nodes whose writes steer nothing: the retrieval passes, the presentation *)
(* of candidates, the consent gate and the capture signal.                  *)
ObservingNodes == {"semantic_retrieve", "rule_filter", "present_similar",
                   "consent_gate", "emit_new_issue"}

ObservingNode(s, node) == [s EXCEPT !.last = node]

(* similar_bugs; only its first entry is ever read back, by load_fix_plan. *)
RrfRankNode(s, top) == [s EXCEPT !.last = "rrf_rank", !.similar = top]

\* Variation: the ranking comes before the click.
ChosenFixRankedFirst(s) == IF s.similar # None THEN s.similar ELSE s.selected

ChosenFix(s) == IF s.selected # None THEN s.selected ELSE s.similar

LoadFixPlanNode(s) ==
    IF ChosenFix(s) \in Fixes
    THEN [s EXCEPT !.last = "load_fix_plan", !.plan = ChosenFix(s), !.idx = 0,
                   !.selected = ChosenFix(s)]
    ELSE [s EXCEPT !.last = "load_fix_plan", !.plan = None]

\* Variation: steps numbered from one.
StagedOneBased(s, cmd, verdict) ==
    [step |-> s.idx + 1, cmd |-> cmd, verdict |-> verdict, status |-> "staged", quiet |-> TRUE]

StagedResult(s, cmd, verdict) ==
    [step |-> s.idx, cmd |-> cmd, verdict |-> verdict, status |-> "staged", quiet |-> TRUE]

\* Variation: output is not looked at.
LooksStagedByVerdict(s, r) ==
    /\ r.step = s.idx
    /\ r.verdict \in {"allowed", "rejected", "manual"}
    /\ r.status # "failed"

(* _upsert_staged: what it takes for an unexecuted entry of this step. *)
LooksStaged(s, r) ==
    /\ r.step = s.idx
    /\ r.verdict \in {"allowed", "rejected", "manual"}
    /\ r.status # "failed"
    /\ r.quiet

UpsertStaged(s, staged) ==
    IF s.results # << >> /\ LooksStaged(s, LastResult(s))
    THEN ReplaceLast(s.results, staged)
    ELSE Append(s.results, staged)

NeedsOperator(step) == step.tool # "terminal" \/ step.command = None

(* adapted is the model's answer, or the saved command when adapting fails *)
(* with an LLMError.                                                       *)
PreExecuteReviewNode(s, adapted) ==
    [s EXCEPT !.last = "pre_execute_review",
              !.results =
                  CASE ~InPlan(s) -> @
                    [] InPlan(s) /\ NeedsOperator(CurrentStep(s)) ->
                         Append(@, StagedResult(s, CurrentStep(s).command, "manual"))
                    [] OTHER ->
                         UpsertStaged(s, StagedResult(s, adapted,
                             IF adapted \in SafeCommands THEN "allowed" ELSE "rejected"))]

(* execute_step finds something to do. *)
Executable(s) == InPlan(s) /\ s.results # << >> /\ LastResult(s).step = s.idx

ConfirmedByHand(s) == CurrentStep(s).tool # "terminal" \/ LastResult(s).cmd = None

(* execute_command spawns a process. *)
Spawns(s) ==
    /\ Executable(s)
    /\ ~ConfirmedByHand(s)
    /\ LastResult(s).cmd \in SafeCommands
    /\ ~DryRun

(* What a spawned process can end with: exit 0 or not (timeouts and a      *)
(* missing binary included), with or without output.                       *)
Outcomes == [status: {"ok", "failed"}, quiet: BOOLEAN]

ExecutedResult(s, outcome) ==
    LET staged == LastResult(s)
    IN CASE ConfirmedByHand(s) ->
              [staged EXCEPT !.verdict = "manual", !.status = "ok", !.quiet = FALSE]
         [] ~ConfirmedByHand(s) /\ staged.cmd \notin SafeCommands ->
              [staged EXCEPT !.verdict = "rejected", !.status = "failed", !.quiet = TRUE]
         [] ~ConfirmedByHand(s) /\ staged.cmd \in SafeCommands /\ DryRun ->
              [staged EXCEPT !.verdict = "dry_run", !.status = "ok", !.quiet = FALSE]
         [] OTHER ->
              [staged EXCEPT !.verdict = "allowed", !.status = outcome.status,
                             !.quiet = outcome.quiet]

ExecuteStepNode(s, outcome) ==
    [s EXCEPT !.last = "execute_step",
              !.results = IF Executable(s) THEN ReplaceLast(@, ExecutedResult(s, outcome)) ELSE @]

\* Variation: redos are not counted.
HitlUncountedRedo(s) ==
    [s EXCEPT !.last = "hitl_checkpoint",
              !.decision = IF @ = "continue" \/ (@ = "redo" /\ s.redo <= MaxRedo)
                           THEN @ ELSE "manual"]

HitlCheckpointNode(s) ==
    LET redo == IF s.decision = "redo" THEN s.redo + 1 ELSE s.redo
    IN [s EXCEPT !.last = "hitl_checkpoint",
                 !.redo = redo,
                 !.decision = IF @ = "continue" \/ (@ = "redo" /\ redo <= MaxRedo)
                              THEN @ ELSE "manual"]

\* Variations: the index stays; a step is skipped; the counter is unset.
AdvanceStays(s) == [s EXCEPT !.last = "advance_step", !.redo = 0, !.decision = None]

AdvanceSkips(s) ==
    [s EXCEPT !.last = "advance_step", !.idx = @ + 2, !.redo = 0, !.decision = None]

AdvanceUnsetsRedo(s) ==
    [s EXCEPT !.last = "advance_step", !.idx = @ + 1, !.redo = None, !.decision = None]

AdvanceStepNode(s) ==
    [s EXCEPT !.last = "advance_step", !.idx = @ + 1, !.redo = 0, !.decision = None]

CompleteAutonomousNode(s) == [s EXCEPT !.last = "complete_autonomous", !.success = TRUE]

ManualFallbackNode(s) == [s EXCEPT !.last = "manual_fallback", !.success = FALSE]

=============================================================================
