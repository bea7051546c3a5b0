----------------------------- MODULE FixSession -----------------------------
(***************************************************************************)
(* One bug-fix thread driven by the session router (api/routers/session.py)*)
(* through the compiled graph.  The checkpointer holds the thread; every   *)
(* request works on a copy it loaded and writes it back after each node,   *)
(* so two requests on the same thread overwrite each other.  A request is  *)
(* idle, or between two awaits of its handler:                             *)
(*                                                                         *)
(*   start_session : ainvoke(initial)                                      *)
(*   post_decision : aget_state ; aupdate_state ; ainvoke(None)            *)
(*                                                                         *)
(* Die is a request that ends between two awaits: a node raised, the       *)
(* database went away or the worker was killed.  What it had saved stays.  *)
(***************************************************************************)
EXTENDS FixGraph, FiniteSets

CONSTANTS
    Clients,     \* requests that can be in flight at once
    Decisions,   \* strings posted as "decision"
    Picks,       \* values posted as "selected_fix_id", None when absent
    Edits,       \* values posted as "edited_command", None when absent
    MaxStarts,   \* bound: sessions started on the thread
    MaxPosts,    \* bound: decisions posted
    MaxDeaths    \* bound: requests that die

ASSUME RequestAssumption ==
    /\ None \notin Decisions
    /\ Picks \subseteq FixIds \cup {None}
    /\ Edits \subseteq Commands \cup {None}

ASSUME BoundAssumption == MaxStarts \in Nat /\ MaxPosts \in Nat /\ MaxDeaths \in Nat

VARIABLES
    saved,    \* the latest checkpoint of the thread
    pc,       \* where each request is
    body,     \* the decision each request carries
    snap,     \* the execution_results each request read with aget_state
    mem,      \* the copy of the thread each request's ainvoke works on
    starts, posts, deaths,   \* what the bounds count
    visits,   \* history: what execute_step acted on since the last intake
    picked    \* history: the fix a client has picked since then

local == <<pc, body, snap, mem>>
bounds == <<starts, posts, deaths>>
history == <<visits, picked>>
vars == <<saved, local, bounds, history>>

NoRequest == [decision |-> None, pick |-> None, edit |-> None, post |-> 0]

Init ==
    /\ saved = NewThread
    /\ pc = [c \in Clients |-> "idle"]
    /\ body = [c \in Clients |-> NoRequest]
    /\ snap = [c \in Clients |-> << >>]
    /\ mem = [c \in Clients |-> NewThread]
    /\ starts = 0 /\ posts = 0 /\ deaths = 0
    /\ visits = << >>
    /\ picked = None

(***************************************************************************)
(* The request leaves; its locals go with it.                              *)
(***************************************************************************)
Return(c) ==
    /\ pc' = [pc EXCEPT ![c] = "idle"]
    /\ body' = [body EXCEPT ![c] = NoRequest]
    /\ snap' = [snap EXCEPT ![c] = << >>]
    /\ mem' = [mem EXCEPT ![c] = NewThread]

RunOn(c, s) ==
    /\ pc' = [pc EXCEPT ![c] = "run"]
    /\ mem' = [mem EXCEPT ![c] = s]
    /\ UNCHANGED <<body, snap>>

(* The end of a superstep: save, then pause, stop or go on. *)
Checkpoint(c, s) ==
    /\ saved' = s
    /\ IF Following(s) \in InterruptBefore \cup {"END"} THEN Return(c) ELSE RunOn(c, s)

-----------------------------------------------------------------------------
(* POST /sessions.  New input on a thread drops what it was paused on and  *)
(* starts over at intake with the fields it already had.                   *)
StartSession(c) ==
    /\ pc[c] = "idle"
    /\ starts < MaxStarts
    /\ starts' = starts + 1
    /\ saved' = [saved EXCEPT !.last = "__start__"]
    /\ RunOn(c, saved')
    /\ UNCHANGED <<posts, deaths, history>>

(* POST /sessions/{id}/decision, up to the first await; a thread with      *)
(* nothing to resume answers 409.                                          *)
PostDecision(c) ==
    /\ pc[c] = "idle"
    /\ posts < MaxPosts
    /\ saved.last # "none" /\ ~Over(saved)
    /\ \E d \in Decisions, f \in Picks, e \in Edits :
           body' = [body EXCEPT ![c] = [decision |-> d, pick |-> f, edit |-> e,
                                        post |-> posts + 1]]
    /\ posts' = posts + 1
    /\ snap' = [snap EXCEPT ![c] = saved.results]
    /\ pc' = [pc EXCEPT ![c] = "update"]
    /\ UNCHANGED <<saved, mem, starts, deaths, history>>

(* The results an edited command is written into: those of the snapshot.   *)
EditedResults(c) ==
    IF body[c].edit # None /\ snap[c] # << >>
    THEN ReplaceLast(snap[c], [snap[c][Len(snap[c])] EXCEPT !.cmd = body[c].edit])
    ELSE saved.results

UpdateState(c) ==
    /\ pc[c] = "update"
    /\ saved' = [saved EXCEPT
                    !.decision = body[c].decision,
                    !.selected = IF body[c].pick # None THEN body[c].pick ELSE @,
                    !.results = EditedResults(c)]
    /\ picked' = IF body[c].pick # None THEN body[c].pick ELSE picked
    /\ pc' = [pc EXCEPT ![c] = "resume"]
    /\ UNCHANGED <<body, snap, mem, bounds, visits>>

(* ainvoke(None): past the interrupt, into the node that follows. *)
Resume(c) ==
    /\ pc[c] = "resume"
    /\ IF Over(saved) THEN Return(c) ELSE RunOn(c, saved)
    /\ UNCHANGED <<saved, bounds, history>>

-----------------------------------------------------------------------------
(* The nodes.                                                              *)
At(c, node) == pc[c] = "run" /\ Following(mem[c]) = node

Intake(c) ==
    /\ At(c, "intake")
    /\ Checkpoint(c, IntakeNode(mem[c]))
    /\ visits' = << >>
    /\ picked' = None
    /\ UNCHANGED bounds

Classify(c) ==
    /\ At(c, "classify")
    /\ \E mode \in Modes : Checkpoint(c, ClassifyNode(mem[c], mode))
    /\ UNCHANGED <<bounds, history>>

Observe(c) ==
    /\ \E node \in ObservingNodes :
           At(c, node) /\ Checkpoint(c, ObservingNode(mem[c], node))
    /\ UNCHANGED <<bounds, history>>

RrfRank(c) ==
    /\ At(c, "rrf_rank")
    /\ \E top \in Shortlist \cup {None} : Checkpoint(c, RrfRankNode(mem[c], top))
    /\ UNCHANGED <<bounds, history>>

LoadFixPlan(c) ==
    /\ At(c, "load_fix_plan")
    /\ Checkpoint(c, LoadFixPlanNode(mem[c]))
    /\ UNCHANGED <<bounds, history>>

PreExecuteReview(c) ==
    /\ At(c, "pre_execute_review")
    /\ \E adapted \in Commands : Checkpoint(c, PreExecuteReviewNode(mem[c], adapted))
    /\ UNCHANGED <<bounds, history>>

(* The side effect, whose result is saved one step later. *)
ExecuteStep(c) ==
    /\ At(c, "execute_step")
    /\ \E outcome \in Outcomes :
           mem' = [mem EXCEPT ![c] = ExecuteStepNode(mem[c], outcome)]
    /\ pc' = [pc EXCEPT ![c] = "save"]
    /\ visits' = IF Executable(mem[c])
                 THEN Append(visits, [step |-> mem[c].idx, cmd |-> LastResult(mem[c]).cmd,
                                      decision |-> body[c].decision,
                                      post |-> body[c].post])
                 ELSE visits
    /\ UNCHANGED <<saved, body, snap, bounds, picked>>

SaveExecuted(c) ==
    /\ pc[c] = "save"
    /\ Checkpoint(c, mem[c])
    /\ UNCHANGED <<bounds, history>>

HitlCheckpoint(c) ==
    /\ At(c, "hitl_checkpoint")
    /\ Checkpoint(c, HitlCheckpointNode(mem[c]))
    /\ UNCHANGED <<bounds, history>>

AdvanceStep(c) ==
    /\ At(c, "advance_step")
    /\ Checkpoint(c, AdvanceStepNode(mem[c]))
    /\ UNCHANGED <<bounds, history>>

CompleteAutonomous(c) ==
    /\ At(c, "complete_autonomous")
    /\ Checkpoint(c, CompleteAutonomousNode(mem[c]))
    /\ UNCHANGED <<bounds, history>>

ManualFallback(c) ==
    /\ At(c, "manual_fallback")
    /\ Checkpoint(c, ManualFallbackNode(mem[c]))
    /\ UNCHANGED <<bounds, history>>

Die(c) ==
    /\ pc[c] # "idle"
    /\ deaths < MaxDeaths
    /\ deaths' = deaths + 1
    /\ Return(c)
    /\ UNCHANGED <<saved, starts, posts, history>>

Node(c) ==
    \/ Intake(c) \/ Classify(c) \/ Observe(c) \/ RrfRank(c)
    \/ LoadFixPlan(c) \/ PreExecuteReview(c) \/ ExecuteStep(c) \/ SaveExecuted(c)
    \/ HitlCheckpoint(c) \/ AdvanceStep(c) \/ CompleteAutonomous(c) \/ ManualFallback(c)

Handler(c) == UpdateState(c) \/ Resume(c) \/ Node(c)

Next == \E c \in Clients : StartSession(c) \/ PostDecision(c) \/ Handler(c) \/ Die(c)

Spec == Init /\ [][Next]_vars

(* The event loop runs every handler to its end.  That an engineer answers *)
(* a paused session is an assumption about people, not about the code.     *)
HandlersRun == \A c \in Clients : WF_vars(Handler(c))

EngineerAnswers == WF_vars(\E c \in Clients : PostDecision(c))

FairSpec == Spec /\ HandlersRun /\ EngineerAnswers

-----------------------------------------------------------------------------
(***************************************************************************)
(* Types.                                                                  *)
(***************************************************************************)
Threads ==
    [last: Nodes \cup {"none"}, mode: Modes \cup {None},
     decision: Decisions \cup {"manual", None}, selected: FixIds \cup {None},
     similar: Fixes \cup {None}, plan: Fixes \cup {None}, idx: Nat,
     results: Seq(StepResult), redo: Nat, success: BOOLEAN \cup {None}]

Requests == [decision: Decisions, pick: Picks, edit: Edits, post: Nat] \cup {NoRequest}

Visits == [step: Nat, cmd: Commands \cup {None}, decision: Decisions \cup {None}, post: Nat]

(* The variables keep their types: the thread state the fields of          *)
(* BugFixState, the requests the shapes of the router's payloads.          *)
TypeOK ==
    /\ saved \in Threads
    /\ pc \in [Clients -> {"idle", "update", "resume", "run", "save"}]
    /\ body \in [Clients -> Requests]
    /\ snap \in [Clients -> Seq(StepResult)]
    /\ mem \in [Clients -> Threads]
    /\ starts \in Nat /\ posts \in Nat /\ deaths \in Nat
    /\ visits \in Seq(Visits)
    /\ picked \in FixIds \cup {None}

-----------------------------------------------------------------------------
(***************************************************************************)
(* Safety.                                                                 *)
(***************************************************************************)
Acted(s, i) == \E k \in DOMAIN s.results : s.results[k].step = i /\ s.results[k].status # "staged"

(* autonomous_success is set by complete_autonomous only when every step   *)
(* of the plan has a result that execute_step wrote: no interleaving of    *)
(* decisions, restarts and dead requests skips a step.                     *)
CompletedMeansEveryStepActed ==
    saved.last = "complete_autonomous" =>
        \A i \in 0 .. (Len(Plan(saved)) - 1) : Acted(saved, i)

(* current_step_idx is backed by execution_results: every step before the  *)
(* index was acted on, the step under it too once execute_step ran, and    *)
(* what is staged when the run pauses for approval is the step under it.   *)
Backed(s) ==
    /\ \A i \in 0 .. (s.idx - 1) : i < Len(Plan(s)) => Acted(s, i)
    /\ InPlan(s) /\ s.last \in {"execute_step", "hitl_checkpoint"} => Acted(s, s.idx)
    /\ InPlan(s) /\ s.last = "pre_execute_review" =>
           s.results # << >> /\ LastResult(s).step = s.idx
    /\ s.last = "complete_autonomous" =>
           /\ s.idx + 1 >= Len(Plan(s))
           /\ InPlan(s) => Acted(s, s.idx)

(* The index is backed in the checkpoint and in the copy of every request, *)
(* and an edit about to be written is of the results as they are now.      *)
IndexIsBacked ==
    /\ Backed(saved)
    /\ \A c \in Clients :
           /\ Backed(mem[c])
           /\ pc[c] = "update" /\ body[c].edit # None => snap[c] = saved.results

(* execution_results lists the steps in plan order and never runs ahead of *)
(* current_step_idx, whatever retries and restarts did to the list.        *)
ResultsFollowPlan ==
    \A k \in DOMAIN saved.results :
        /\ saved.results[k].step <= saved.idx
        /\ k + 1 \in DOMAIN saved.results =>
               saved.results[k + 1].step \in {saved.results[k].step, saved.results[k].step + 1}

(* No command or manual confirmation without a decision of its own: each   *)
(* visit of execute_step answers a "continue", and no two answer the same  *)
(* one, so a retry after a dead request asks the engineer again.           *)
EachVisitHasItsOwnApproval ==
    \A k, m \in DOMAIN visits :
        /\ visits[k].decision = "continue"
        /\ visits[k].post = visits[m].post => k = m

VisitsOf(i) == Cardinality({k \in DOMAIN visits : visits[k].step = i})

(* A step is repeated only because the engineer asked for a redo of it or  *)
(* because a request died between acting and saving.                       *)
RepeatsAreAccounted ==
    \A k \in DOMAIN visits :
        VisitsOf(visits[k].step) <=
            1 + deaths + (IF visits[k].step = saved.idx THEN saved.redo ELSE MaxRedo)

(* _upsert_staged guesses which entry was not executed yet; a result that  *)
(* has output is never taken for one, and stays until the next intake.     *)
ExecutedOutputIsKept ==
    [][\/ saved'.last = "intake"
       \/ \A k \in DOMAIN saved.results :
              LET r == saved.results[k]
              IN r.status # "staged" /\ ~r.quiet =>
                     k \in DOMAIN saved'.results /\ [saved'.results[k] EXCEPT !.cmd = r.cmd] = r]_vars

(* The fix that is replayed is the one the engineer clicked in this run,   *)
(* whatever is ranked first; a fix without a row is not replaced.          *)
PickIsReplayed ==
    [][saved'.last = "load_fix_plan" /\ saved.last # "load_fix_plan" /\ picked # None =>
           saved'.plan = (IF picked \in Fixes THEN picked ELSE None)]_vars

(* A result that counts as executed is of a step execute_step acted on     *)
(* since the last intake, start_session on the same thread included, and   *)
(* names the command it acted with, or one an engineer typed over it.      *)
RecordIsOfThisRun ==
    \A k \in DOMAIN saved.results :
        saved.results[k].status # "staged" =>
            \E m \in DOMAIN visits :
                /\ visits[m].step = saved.results[k].step
                /\ saved.results[k].cmd \in {visits[m].cmd} \cup Edits

(* A session that was started and whose engineer keeps answering reaches   *)
(* END: neither redo loops nor dead requests leave it paused for ever.     *)
SessionEnds == (saved.last # "none") ~> Over(saved)

(* The session implements the promise of autonomous mode.                  *)
Begun == saved.last # "__start__"

Replay == INSTANCE PlanReplay WITH
    Length <- [f \in Fixes |-> Len(Steps[f])],
    plan <- IF Begun THEN saved.plan ELSE None,
    acted <- IF Begun THEN {visits[k].step : k \in DOMAIN visits} ELSE {},
    outcome <- CASE saved.last = "complete_autonomous" -> "succeeded"
                 [] saved.last = "manual_fallback" -> "handed_back"
                 [] OTHER -> "open"

ImplementsReplay == Replay!Spec

-----------------------------------------------------------------------------
(***************************************************************************)
(* What the repository says and the code does not do.                      *)
(***************************************************************************)
Spawning(c) == pc[c] = "run" /\ pc'[c] = "save" /\ Spawns(mem[c])

(* README.md and pre_execute_review.py: the engineer sees the adapted      *)
(* command, or types one, before it runs.                                  *)
ReviewedBeforeItRuns ==
    [][\A c \in Clients : Spawning(c) =>
           \/ body[c].edit = LastResult(mem[c]).cmd
           \/ /\ snap[c] # << >>
              /\ snap[c][Len(snap[c])].step = mem[c].idx
              /\ snap[c][Len(snap[c])].cmd = LastResult(mem[c]).cmd]_vars

(* graph.py: "redo" goes back to pre_execute_review, so a step that was    *)
(* redone n times was acted on n more times before the run moves on.       *)
RedoRepeatsTheStep ==
    [][\A c \in Clients :
           /\ At(c, "advance_step") \/ At(c, "complete_autonomous")
           /\ InPlan(mem[c])
           /\ deaths' = deaths
           => VisitsOf(mem[c].idx) >= 1 + mem[c].redo]_vars

=============================================================================
