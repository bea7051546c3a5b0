---------------------------- MODULE SafeExecutor ----------------------------
(***************************************************************************)
(* The one place where a command of a plan is run                          *)
(* (integrations/terminal/safe_executor.py): the static check, the dry     *)
(* run, and a subprocess under a timeout.                                  *)
(*                                                                         *)
(* Each call has a child process of its own.  asyncio learns of its death  *)
(* (Notice) and, once nobody holds its pipes any more, drops it (Close);   *)
(* both come as callbacks, before or after the timer of the call.  A       *)
(* descendant of the child may keep the pipes open after the child died.   *)
(***************************************************************************)
EXTENDS Naturals, Sequences

CONSTANTS
    Calls,       \* calls of execute_command
    Commands,    \* the command lines that are asked for
    Allowlist    \* Allowlist[binary]: the BinaryRule of the YAML file

(* What the check looks at in a command line.  denied: the lowered text    *)
(* contains a deny token; shell: it contains a shell metacharacter;        *)
(* parses: shlex can split it; words: its tokens, the first stripped of    *)
(* its directory; inside: the texts that occur in its joined arguments.    *)
ASSUME CommandAssumption ==
    Commands \subseteq [denied: BOOLEAN, shell: BOOLEAN, parses: BOOLEAN,
                       words: Seq(STRING), inside: SUBSET STRING]

VARIABLES
    pc,        \* where each call is
    asked,     \* its command line, and whether it is a dry run
    child,     \* its process
    answer     \* its ExecResult

vars == <<pc, asked, child, answer>>

NotAsked == [command |-> "none", dry |-> FALSE]

None == [verdict |-> "none", code |-> "none", success |-> FALSE]

NoChild == [state |-> "none", code |-> "none", held |-> FALSE, seen |-> FALSE, closed |-> FALSE]

Result(verdict, code, success) == [verdict |-> verdict, code |-> code, success |-> success]

Init ==
    /\ pc = [x \in Calls |-> "idle"]
    /\ asked = [x \in Calls |-> NotAsked]
    /\ child = [x \in Calls |-> NoChild]
    /\ answer = [x \in Calls |-> None]

-----------------------------------------------------------------------------
(***************************************************************************)
(* The static check.  A claim of reversibility that the rule does not      *)
(* share is only logged.                                                   *)
(***************************************************************************)
SubcommandAllowed(rule, words) ==
    rule.subcommands # {} => Len(words) >= 2 /\ words[2] \in rule.subcommands

EvaluateSafety(command) ==
    /\ ~command.denied
    /\ ~command.shell
    /\ command.parses
    /\ command.words # << >>
    /\ Head(command.words) \in DOMAIN Allowlist
    /\ LET rule == Allowlist[Head(command.words)]
       IN /\ SubcommandAllowed(rule, command.words)
          /\ rule.denyArgs \cap command.inside = {}

-----------------------------------------------------------------------------
(***************************************************************************)
(* The call.                                                               *)
(***************************************************************************)
Answer(x, result) ==
    /\ pc' = [pc EXCEPT ![x] = "done"]
    /\ answer' = [answer EXCEPT ![x] = result]

Goto(x, label) ==
    /\ pc' = [pc EXCEPT ![x] = label]
    /\ UNCHANGED answer

(* execute_command: a rejected command and a dry run are answered at once. *)
ExecuteCommand(x) ==
    /\ pc[x] = "idle"
    /\ \E command \in Commands, dry \in BOOLEAN :
           /\ asked' = [asked EXCEPT ![x] = [command |-> command, dry |-> dry]]
           /\ \/ /\ ~EvaluateSafety(command)
                 /\ Answer(x, Result("rejected", "none", FALSE))
              \/ /\ EvaluateSafety(command) /\ dry
                 /\ Answer(x, Result("dry_run", "ok", TRUE))
              \/ /\ EvaluateSafety(command) /\ ~dry
                 /\ Goto(x, "spawn")
    /\ UNCHANGED child

(* create_subprocess_exec: a process, no such file, or another OSError,    *)
(* which nobody catches.                                                   *)
Spawn(x) ==
    /\ pc[x] = "spawn"
    /\ \/ /\ child' = [child EXCEPT ![x].state = "running"]
          /\ Goto(x, "communicate")
       \/ /\ Answer(x, Result("allowed", "not_found", FALSE))
          /\ UNCHANGED child
       \/ /\ Goto(x, "raised")
          /\ UNCHANGED child
    /\ UNCHANGED asked

(* The pipes are at their end and the exit code is known. *)
Drained(x) == child[x].seen /\ ~child[x].held

(* communicate returns in time. *)
Collect(x) ==
    /\ pc[x] = "communicate"
    /\ Drained(x)
    /\ Answer(x, Result("allowed", child[x].code, child[x].code = "ok"))
    /\ UNCHANGED <<asked, child>>

(* wait_for gives up; the timer may fire beside any other callback. *)
Timeout(x) ==
    /\ pc[x] = "communicate"
    /\ Goto(x, "kill")
    /\ UNCHANGED <<asked, child>>

\* Variation: a timeout is answered without a kill.
KillForgotten(x) ==
    /\ pc[x] = "kill"
    /\ Answer(x, Result("allowed", "timeout", FALSE))
    /\ UNCHANGED <<asked, child>>

\* Variation: a timeout waits for the process to end by itself.
KillByPatience(x) ==
    /\ pc[x] = "kill"
    /\ Goto(x, "wait")
    /\ UNCHANGED <<asked, child>>

(* proc.kill raises ProcessLookupError once the process was dropped; no    *)
(* handler catches it.  proc.wait returns at once if the death was         *)
(* noticed before.                                                         *)
Kill(x) ==
    /\ pc[x] = "kill"
    /\ \/ /\ child[x].closed
          /\ Goto(x, "raised")
          /\ UNCHANGED child
       \/ /\ ~child[x].closed /\ child[x].seen
          /\ Answer(x, Result("allowed", "timeout", FALSE))
          /\ UNCHANGED child
       \/ /\ ~child[x].seen
          /\ child' = [child EXCEPT ![x] =
                IF @.state = "running" THEN [@ EXCEPT !.state = "exited", !.code = "killed"] ELSE @]
          /\ Goto(x, "wait")
    /\ UNCHANGED asked

(* proc.wait returns when the process is dropped. *)
Wait(x) ==
    /\ pc[x] = "wait"
    /\ child[x].closed
    /\ Answer(x, Result("allowed", "timeout", FALSE))
    /\ UNCHANGED <<asked, child>>

(* The task of the request is cancelled at an await; the process stays. *)
Cancel(x) ==
    /\ pc[x] \in {"spawn", "communicate", "kill", "wait"}
    /\ Goto(x, "gone")
    /\ UNCHANGED <<asked, child>>

-----------------------------------------------------------------------------
(***************************************************************************)
(* The process, its descendants, and the callbacks of the event loop.      *)
(***************************************************************************)
Become(x, process) ==
    /\ child' = [child EXCEPT ![x] = process]
    /\ UNCHANGED <<pc, asked, answer>>

Fork(x) ==
    /\ child[x].state = "running" /\ ~child[x].held
    /\ Become(x, [child[x] EXCEPT !.held = TRUE])

LetGo(x) ==
    /\ child[x].held
    /\ Become(x, [child[x] EXCEPT !.held = FALSE])

Exit(x) ==
    /\ child[x].state = "running"
    /\ \E code \in {"ok", "bad"} :
           Become(x, [child[x] EXCEPT !.state = "exited", !.code = code])

Notice(x) ==
    /\ child[x].state = "exited" /\ ~child[x].seen
    /\ Become(x, [child[x] EXCEPT !.seen = TRUE])

Close(x) ==
    /\ Drained(x) /\ ~child[x].closed
    /\ Become(x, [child[x] EXCEPT !.closed = TRUE])

-----------------------------------------------------------------------------
Step(x) == Spawn(x) \/ Collect(x) \/ Timeout(x) \/ Kill(x) \/ Wait(x)

Callback(x) == Notice(x) \/ Close(x)

Process(x) == Fork(x) \/ LetGo(x) \/ Exit(x)

Next == \E x \in Calls : ExecuteCommand(x) \/ Step(x) \/ Callback(x) \/ Process(x) \/ Cancel(x)

Spec == Init /\ [][Next]_vars

(* The event loop runs what can run, and a timer that is due fires; a      *)
(* process need not end by itself.                                         *)
LoopRuns == \A x \in Calls : WF_vars(Step(x)) /\ WF_vars(Callback(x))

(* Who inherited the pipes lets go of them in the end. *)
PipesAreLetGo == \A x \in Calls : WF_vars(LetGo(x) /\ child[x].state = "exited")

LoopSpec == Spec /\ LoopRuns

FairSpec == LoopSpec /\ PipesAreLetGo

-----------------------------------------------------------------------------
Over == {"done", "raised", "gone"}

Processes ==
    [state: {"none", "running", "exited"}, code: {"none", "ok", "bad", "killed"},
     held: BOOLEAN, seen: BOOLEAN, closed: BOOLEAN]

Results ==
    [verdict: {"none", "rejected", "dry_run", "allowed"},
     code: {"none", "ok", "bad", "killed", "not_found", "timeout"}, success: BOOLEAN]

(* Calls, processes and results have the shape the code gives them. *)
TypeOK ==
    /\ pc \in [Calls -> {"idle", "spawn", "communicate", "kill", "wait"} \cup Over]
    /\ asked \in [Calls -> [command: Commands, dry: BOOLEAN] \cup {NotAsked}]
    /\ child \in [Calls -> Processes]
    /\ answer \in [Calls -> Results]

(* A success is the exit 0 of the command's own process, or a dry run that *)
(* started none; no process was started for a command that fails the check *)
(* or for a dry run; and whoever got an answer, or an exception, has left  *)
(* no process of its own running, however the timeout fell.                *)
AnswerTellsTheChild ==
    \A x \in Calls :
        /\ answer[x].success =>
               \/ answer[x].verdict = "dry_run" /\ child[x].state = "none"
               \/ child[x].state = "exited" /\ child[x].code = "ok"
        /\ child[x].state # "none" => EvaluateSafety(asked[x].command) /\ ~asked[x].dry
        /\ pc[x] \in {"done", "raised"} => child[x].state # "running"

(* Every call ends although its process may run for ever, provided that    *)
(* nobody keeps its pipes for ever.                                        *)
CallsEnd == \A x \in Calls : pc[x] # "idle" ~> pc[x] \in Over

(* "Hard timeout via asyncio.wait_for + proc.kill() on expiry": once the   *)
(* time is up the call ends, whoever holds the pipes.                      *)
HardTimeout == \A x \in Calls : pc[x] = "kill" ~> pc[x] \in Over

=============================================================================
