----------------------------- MODULE ToolsProofs ------------------------------
(***************************************************************************)
(* Theorems about Tools, for any number of calls, any command lines and    *)
(* any allowlist, and for any fixes, any outcome of the two searches and   *)
(* any limits: what an answer of the executor says is so, and fixes are    *)
(* shown in the order their ranks and ages call for.                       *)
(***************************************************************************)
EXTENDS Tools, SelectionProofs, FiniteSetTheorems, SequenceTheorems, TLAPS

-----------------------------------------------------------------------------
(***************************************************************************)
(* The executor.                                                           *)
(***************************************************************************)

(* A process before it is started, running, and after its exit. *)
ProcessIsSound(x) ==
    /\ child[x].state = "none" => child[x] = NoChild
    /\ child[x].state = "running" => ~child[x].seen /\ child[x].code = "none"
    /\ child[x].closed => child[x].seen
    /\ child[x].seen => child[x].state = "exited"

(* Where a call has no process yet, and where it has one. *)
CallMatchesProcess(x) ==
    /\ pc[x] \in {"idle", "spawn"} => child[x].state = "none"
    /\ pc[x] \in {"communicate", "kill", "wait"} => child[x].state # "none"
    /\ pc[x] \in {"wait", "done", "raised"} => child[x].state # "running"

(* A process is started only for a command that passed the check, and not  *)
(* for a dry run.                                                          *)
StartedIsChecked(x) ==
    pc[x] = "spawn" \/ child[x].state # "none" =>
        EvaluateSafety(asked[x].command) /\ ~asked[x].dry

(* Only an answer is a success, and it says why. *)
SuccessIsEarned(x) ==
    /\ pc[x] # "done" => ~answer[x].success
    /\ answer[x].success =>
           \/ answer[x].verdict = "dry_run" /\ child[x].state = "none"
           \/ child[x].state = "exited" /\ child[x].code = "ok"

CallIsSound(x) ==
    /\ ProcessIsSound(x)
    /\ CallMatchesProcess(x)
    /\ StartedIsChecked(x)
    /\ SuccessIsEarned(x)

ExecutorInv == TypeOK /\ \A x \in Calls : CallIsSound(x)

-----------------------------------------------------------------------------
LEMMA TypeInit == Init => TypeOK
  BY DEF Init, TypeOK, Processes, Results, NoChild, None, NotAsked, Over

(* The results the code builds are results. *)
LEMMA AnswerType ==
    ASSUME TypeOK, NEW x \in Calls, NEW r \in Results, Answer(x, r)
    PROVE  /\ pc' \in [Calls -> {"idle", "spawn", "communicate", "kill", "wait"} \cup Over]
           /\ answer' \in [Calls -> Results]
  BY DEF TypeOK, Answer, Over

LEMMA GotoType ==
    ASSUME TypeOK, NEW x \in Calls,
           NEW label \in {"idle", "spawn", "communicate", "kill", "wait"} \cup Over,
           Goto(x, label)
    PROVE  /\ pc' \in [Calls -> {"idle", "spawn", "communicate", "kill", "wait"} \cup Over]
           /\ answer' \in [Calls -> Results]
  BY DEF TypeOK, Goto

LEMMA ResultTypes ==
    /\ Result("rejected", "none", FALSE) \in Results
    /\ Result("dry_run", "ok", TRUE) \in Results
    /\ Result("allowed", "not_found", FALSE) \in Results
    /\ Result("allowed", "timeout", FALSE) \in Results
    /\ \A code \in {"none", "ok", "bad", "killed"} :
           Result("allowed", code, code = "ok") \in Results
  BY DEF Result, Results

(* What becomes of a process that is started, or killed. *)
LEMMA ProcessTypes ==
    ASSUME NEW p \in Processes
    PROVE  /\ [p EXCEPT !.state = "running"] \in Processes
           /\ [p EXCEPT !.state = "exited", !.code = "killed"] \in Processes
           /\ \A code \in {"ok", "bad"} : [p EXCEPT !.state = "exited", !.code = code] \in Processes
           /\ \A b \in BOOLEAN : /\ [p EXCEPT !.held = b] \in Processes
                                 /\ [p EXCEPT !.seen = b] \in Processes
                                 /\ [p EXCEPT !.closed = b] \in Processes
  BY DEF Processes

LEMMA TypeStep == TypeOK /\ [Next]_vars => TypeOK'
<1> SUFFICES ASSUME TypeOK, [Next]_vars PROVE TypeOK'
  OBVIOUS
<1>1. CASE UNCHANGED vars
  BY <1>1 DEF TypeOK, vars
<1>2. CASE Next
  <2> PICK x \in Calls : ExecuteCommand(x) \/ Step(x) \/ Callback(x) \/ Process(x) \/ Cancel(x)
    BY <1>2 DEF Next
  <2>1. CASE ExecuteCommand(x)
    <3> PICK command \in Commands, dry \in BOOLEAN :
            /\ asked' = [asked EXCEPT ![x] = [command |-> command, dry |-> dry]]
            /\ \/ Answer(x, Result("rejected", "none", FALSE))
               \/ Answer(x, Result("dry_run", "ok", TRUE))
               \/ Goto(x, "spawn")
      BY <2>1 DEF ExecuteCommand
    <3>1. asked' \in [Calls -> [command: Commands, dry: BOOLEAN] \cup {NotAsked}]
      BY DEF TypeOK
    <3>2. child' = child
      BY <2>1 DEF ExecuteCommand
    <3> QED BY <3>1, <3>2, AnswerType, GotoType, ResultTypes DEF TypeOK
  <2>2. CASE Spawn(x)
    <3>1. \/ Answer(x, Result("allowed", "not_found", FALSE))
          \/ Goto(x, "communicate")
          \/ Goto(x, "raised")
      BY <2>2 DEF Spawn
    <3>2. child' \in [Calls -> Processes] /\ asked' = asked
      <4>1. child[x] \in Processes
        BY DEF TypeOK
      <4>2. \/ child' = child
            \/ child' = [child EXCEPT ![x] = [child[x] EXCEPT !.state = "running"]]
        BY <2>2 DEF Spawn
      <4> QED BY <2>2, <4>1, <4>2, ProcessTypes DEF Spawn, TypeOK
    <3> QED BY <3>1, <3>2, AnswerType, GotoType, ResultTypes DEF TypeOK, Over
  <2>3. CASE Collect(x)
    <3>1. child[x].code \in {"none", "ok", "bad", "killed"}
      BY DEF TypeOK, Processes
    <3> QED BY <2>3, <3>1, AnswerType, ResultTypes DEF Collect, TypeOK
  <2>4. CASE Timeout(x)
    BY <2>4, GotoType DEF Timeout, TypeOK
  <2>5. CASE Kill(x)
    <3>1. \/ Answer(x, Result("allowed", "timeout", FALSE))
          \/ Goto(x, "wait")
          \/ Goto(x, "raised")
      BY <2>5 DEF Kill
    <3>2. child' \in [Calls -> Processes] /\ asked' = asked
      <4>1. child[x] \in Processes
        BY DEF TypeOK
      <4>2. \/ child' = child
            \/ child' = [child EXCEPT ![x] = child[x]]
            \/ child' = [child EXCEPT ![x] = [child[x] EXCEPT !.state = "exited", !.code = "killed"]]
        BY <2>5 DEF Kill, TypeOK
      <4> QED BY <2>5, <4>1, <4>2, ProcessTypes DEF Kill, TypeOK
    <3> QED BY <3>1, <3>2, AnswerType, GotoType, ResultTypes DEF TypeOK, Over
  <2>6. CASE Wait(x)
    BY <2>6, AnswerType, ResultTypes DEF Wait, TypeOK
  <2>7. CASE Cancel(x)
    BY <2>7, GotoType DEF Cancel, TypeOK, Over
  <2>8. CASE Callback(x) \/ Process(x)
    <3>1. PICK p \in Processes : child' = [child EXCEPT ![x] = p]
      <4>1. child[x] \in Processes
        BY DEF TypeOK
      <4> QED BY <2>8, <4>1, ProcessTypes
              DEF Callback, Process, Notice, Close, Fork, LetGo, Exit, Become
    <3>2. UNCHANGED <<pc, asked, answer>>
      BY <2>8 DEF Callback, Process, Notice, Close, Fork, LetGo, Exit, Become
    <3> QED BY <3>1, <3>2 DEF TypeOK
  <2> QED BY <2>1, <2>2, <2>3, <2>4, <2>5, <2>6, <2>7, <2>8 DEF Step
<1> QED BY <1>1, <1>2

(* A step of one call leaves the others alone. *)
LEMMA OthersStay ==
    ASSUME TypeOK, NEW x \in Calls, NEW y \in Calls, y # x, CallIsSound(y),
           ExecuteCommand(x) \/ Step(x) \/ Callback(x) \/ Process(x) \/ Cancel(x)
    PROVE  CallIsSound(y)'
<1>1. pc'[y] = pc[y] /\ asked'[y] = asked[y] /\ child'[y] = child[y] /\ answer'[y] = answer[y]
  BY DEF TypeOK, ExecuteCommand, Step, Spawn, Collect, Timeout, Kill, Wait, Cancel,
         Callback, Process, Notice, Close, Fork, LetGo, Exit, Become, Answer, Goto
<1> QED BY <1>1 DEF CallIsSound, ProcessIsSound, CallMatchesProcess, StartedIsChecked,
                    SuccessIsEarned

LEMMA InvInit == Init => ExecutorInv
  BY TypeInit DEF Init, ExecutorInv, CallIsSound, ProcessIsSound, CallMatchesProcess,
                  StartedIsChecked, SuccessIsEarned, NoChild, None

LEMMA InvStep == ExecutorInv /\ [Next]_vars => ExecutorInv'
<1> SUFFICES ASSUME ExecutorInv, [Next]_vars PROVE ExecutorInv'
  OBVIOUS
<1> USE DEF ExecutorInv
<1>0. TypeOK'
  BY TypeStep
<1>1. CASE UNCHANGED vars
  BY <1>0, <1>1 DEF vars, CallIsSound, ProcessIsSound, CallMatchesProcess, StartedIsChecked,
                    SuccessIsEarned
<1>2. CASE Next
  <2> PICK x \in Calls : ExecuteCommand(x) \/ Step(x) \/ Callback(x) \/ Process(x) \/ Cancel(x)
    BY <1>2 DEF Next
  <2>0. \A y \in Calls : y # x => CallIsSound(y)'
    BY OthersStay
  <2> SUFFICES CallIsSound(x)'
    BY <1>0, <2>0
  <2> USE DEF CallIsSound, ProcessIsSound, CallMatchesProcess, StartedIsChecked, SuccessIsEarned
  <2>1. CASE ExecuteCommand(x)
    <3> PICK command \in Commands, dry \in BOOLEAN :
            /\ asked' = [asked EXCEPT ![x] = [command |-> command, dry |-> dry]]
            /\ \/ Answer(x, Result("rejected", "none", FALSE))
               \/ dry /\ Answer(x, Result("dry_run", "ok", TRUE))
               \/ EvaluateSafety(command) /\ ~dry /\ Goto(x, "spawn")
      BY <2>1 DEF ExecuteCommand
    <3>1. pc[x] = "idle" /\ child' = child /\ child[x].state = "none"
      BY <2>1 DEF ExecuteCommand
    <3>2. asked'[x] = [command |-> command, dry |-> dry]
      BY DEF TypeOK
    <3> QED BY <3>1, <3>2 DEF TypeOK, Answer, Goto, Result
  <2>2. CASE Spawn(x)
    <3>0. pc[x] = "spawn" /\ child[x] = NoChild /\ asked' = asked
      BY <2>2 DEF Spawn
    <3>1. CASE child' = [child EXCEPT ![x].state = "running"] /\ Goto(x, "communicate")
      <4>1. child'[x] = [NoChild EXCEPT !.state = "running"]
        BY <3>0, <3>1 DEF TypeOK
      <4> QED BY <3>0, <3>1, <4>1 DEF TypeOK, Goto, NoChild
    <3>2. CASE Answer(x, Result("allowed", "not_found", FALSE)) /\ child' = child
      <4>1. pc'[x] = "done" /\ ~answer'[x].success
        BY <3>2 DEF TypeOK, Answer, Result
      <4> QED BY <3>0, <3>2, <4>1 DEF NoChild
    <3>3. CASE Goto(x, "raised") /\ child' = child
      <4>1. pc'[x] = "raised" /\ answer' = answer
        BY <3>3 DEF TypeOK, Goto
      <4> QED BY <3>0, <3>3, <4>1 DEF NoChild
    <3> QED BY <2>2, <3>1, <3>2, <3>3 DEF Spawn
  <2>3. CASE Collect(x)
    BY <2>3 DEF Collect, Drained, TypeOK, Answer, Result, Processes
  <2>4. CASE Timeout(x)
    BY <2>4 DEF Timeout, TypeOK, Goto
  <2>5. CASE Kill(x)
    <3>0. pc[x] = "kill" /\ child[x].state # "none" /\ asked' = asked
      BY <2>5 DEF Kill
    <3>1. CASE child' = child
      <4>1. child[x].state \in {"running", "exited"}
        BY <3>0 DEF TypeOK, Processes
      <4>2. CASE Goto(x, "raised") /\ child[x].closed
        BY <3>0, <3>1, <4>2 DEF TypeOK, Goto
      <4>3. CASE Answer(x, Result("allowed", "timeout", FALSE)) /\ child[x].seen
        BY <3>0, <3>1, <4>3 DEF TypeOK, Answer, Result
      <4>4. CASE Goto(x, "wait") /\ child[x].state # "running"
        BY <3>0, <3>1, <4>4 DEF TypeOK, Goto
      <4>5. CASE /\ child[x].state = "running"
                 /\ child' = [child EXCEPT ![x] =
                        [child[x] EXCEPT !.state = "exited", !.code = "killed"]]
        <5>1. child'[x].state = "exited"
          BY <4>5 DEF TypeOK, Processes
        <5> QED BY <3>1, <4>5, <5>1
      <4> QED BY <2>5, <4>1, <4>2, <4>3, <4>4, <4>5 DEF Kill
    <3>2. CASE child' # child
      <4>1. ~child[x].seen /\ Goto(x, "wait")
        BY <2>5, <3>2 DEF Kill
      <4>2. child[x] \in Processes /\ child[x].state = "running"
        BY <2>5, <3>2 DEF Kill, TypeOK
      <4>3. child'[x] = [child[x] EXCEPT !.state = "exited", !.code = "killed"]
        BY <2>5, <3>2, <4>2 DEF Kill, TypeOK
      <4> QED BY <3>0, <4>1, <4>2, <4>3 DEF TypeOK, Goto, Processes
    <3> QED BY <3>1, <3>2
  <2>6. CASE Wait(x)
    BY <2>6 DEF Wait, TypeOK, Answer, Result
  <2>7. CASE Cancel(x)
    BY <2>7 DEF Cancel, TypeOK, Goto
  <2>8. CASE Callback(x)
    BY <2>8 DEF Callback, Notice, Close, Drained, Become, TypeOK, Processes, NoChild
  <2>9. CASE Process(x)
    <3>1. child[x] \in Processes /\ child[x].state # "none" /\ UNCHANGED <<pc, asked, answer>>
      BY <2>9 DEF Process, Fork, LetGo, Exit, Become, TypeOK, NoChild
    <3>2. CASE Fork(x) \/ LetGo(x)
      <4> PICK b \in BOOLEAN : child'[x] = [child[x] EXCEPT !.held = b]
        BY <3>2 DEF Fork, LetGo, Become, TypeOK
      <4> QED BY <3>1 DEF Processes
    <3>3. CASE Exit(x)
      <4> PICK code \in {"ok", "bad"} :
              child'[x] = [child[x] EXCEPT !.state = "exited", !.code = code]
        BY <3>3 DEF Exit, Become, TypeOK
      <4>1. child[x].state = "running"
        BY <3>3 DEF Exit
      <4> QED BY <3>1, <4>1 DEF Processes
    <3> QED BY <2>9, <3>2, <3>3 DEF Process
  <2> QED BY <2>1, <2>2, <2>3, <2>4, <2>5, <2>6, <2>7, <2>8, <2>9 DEF Step
<1> QED BY <1>1, <1>2

LEMMA ExecutorSteps == [ToolsNext]_tools => [Next]_vars
BY DEF ToolsNext, tools

(* A success is the exit 0 of the command's own process or a dry run, no   *)
(* process runs for a command that was not allowed, and none is left       *)
(* running by a call that has answered.                                    *)
THEOREM AnswersTellTheChild == ToolsSpec => []AnswerTellsTheChild
<1>1. ExecutorInv => AnswerTellsTheChild
  BY DEF ExecutorInv, CallIsSound, CallMatchesProcess, StartedIsChecked, SuccessIsEarned,
         AnswerTellsTheChild
<1>2. ToolsSpec => ToolsInit /\ [][ToolsNext]_tools
  BY DEF ToolsSpec, HungSpec
<1>3. ToolsInit => Init
  BY DEF ToolsInit
<1> QED BY <1>1, <1>2, <1>3, ExecutorSteps, InvInit, InvStep, PTL

-----------------------------------------------------------------------------
(***************************************************************************)
(* The half-lives.                                                         *)
(***************************************************************************)
IsDoubling(f, n) == f = [k \in 0 .. n |-> IF k = 0 THEN 1 ELSE 2 * f[k - 1]]

LEMMA DoublingStep ==
    ASSUME NEW n \in Nat, NEW f, IsDoubling(f, n)
    PROVE  f[0] = 1 /\ \A k \in Nat : k + 1 <= n => f[k + 1] = 2 * f[k]
<1> DEFINE G(i) == IF i = 0 THEN 1 ELSE 2 * f[i - 1]
<1>1. \A i \in 0 .. n : f[i] = G(i)
  <2>1. f = [i \in 0 .. n |-> G(i)]
    BY DEF IsDoubling
  <2> HIDE DEF G
  <2> QED BY <2>1
<1>2. f[0] = 1
  BY <1>1
<1>3. ASSUME NEW k \in Nat, k + 1 <= n PROVE f[k + 1] = 2 * f[k]
  <2>1. k + 1 \in 0 .. n /\ k + 1 # 0 /\ (k + 1) - 1 = k
    BY <1>3
  <2> QED BY <1>1, <2>1
<1> QED BY <1>2, <1>3

LEMMA DoublingExists == \A n \in Nat : \E f : IsDoubling(f, n)
<1> DEFINE Done == {n \in Nat : \E f : IsDoubling(f, n)}
<1>1. 0 \in Done
  <2>1. IsDoubling([k \in 0 .. 0 |-> 1], 0)
    BY DEF IsDoubling
  <2> QED BY <2>1
<1>2. ASSUME NEW n \in Nat, n \in Done PROVE n + 1 \in Done
  <2>1. PICK f : IsDoubling(f, n)
    BY <1>2
  <2> DEFINE G(k) == IF k = 0 THEN 1 ELSE 2 * f[k - 1]
             g == [k \in 0 .. (n + 1) |-> G(k)]
  <2>2. \A k \in 0 .. n : g[k] = f[k]
    <3>1. f[0] = 1 /\ \A k \in Nat : k + 1 <= n => f[k + 1] = 2 * f[k]
      BY <2>1, DoublingStep
    <3>2. ASSUME NEW k \in 1 .. n PROVE f[k] = 2 * f[k - 1]
      <4>1. PICK j \in Nat : k = j + 1
        <5>1. k - 1 \in Nat /\ k = (k - 1) + 1
          OBVIOUS
        <5> QED BY <5>1
      <4>2. j + 1 <= n /\ k - 1 = j
        BY <4>1
      <4> QED BY <3>1, <4>1, <4>2
    <3> QED BY <3>1, <3>2
  <2>3. \A k \in 0 .. (n + 1) : k # 0 => k - 1 \in 0 .. n
    OBVIOUS
  <2>4. \A k \in 0 .. (n + 1) : G(k) = IF k = 0 THEN 1 ELSE 2 * g[k - 1]
    <3> HIDE DEF g
    <3> QED BY <2>2, <2>3
  <2>5. IsDoubling(g, n + 1)
    <3>1. g = [k \in 0 .. (n + 1) |-> G(k)]
      OBVIOUS
    <3> HIDE DEF g, G
    <3> QED BY <2>4, <3>1, Zenon DEF IsDoubling
  <2> QED BY <2>5
<1> HIDE DEF Done
<1>3. \A n \in Nat : n \in Done
  BY <1>1, <1>2, Induction
<1> QED BY <1>3 DEF Done

LEMMA DoubledIs ==
    ASSUME NEW n \in Nat
    PROVE  \E f : IsDoubling(f, n) /\ Doubled(n) = f[n]
<1> DEFINE f == CHOOSE f : IsDoubling(f, n)
<1>1. IsDoubling(f, n)
  BY DoublingExists
<1>2. Doubled(n) = f[n]
  BY DEF Doubled, IsDoubling
<1> QED BY <1>1, <1>2

LEMMA DoublingIsUnique ==
    ASSUME NEW n \in Nat, NEW m \in Nat, NEW f, NEW g, IsDoubling(f, n), IsDoubling(g, m), n <= m
    PROVE  f[n] = g[n]
<1> DEFINE Same == {k \in Nat : k <= n => f[k] = g[k]}
<1>1. f[0] = 1 /\ g[0] = 1
  BY DoublingStep
<1>2. 0 \in Same
  BY <1>1
<1>3. ASSUME NEW k \in Nat, k \in Same PROVE k + 1 \in Same
  <2>1. ASSUME k + 1 <= n PROVE f[k + 1] = g[k + 1]
    <3>1. k + 1 <= m /\ k <= n
      BY <2>1
    <3>2. f[k + 1] = 2 * f[k]
      BY <2>1, DoublingStep
    <3>3. g[k + 1] = 2 * g[k]
      BY <3>1, DoublingStep
    <3> QED BY <1>3, <3>1, <3>2, <3>3
  <2> QED BY <2>1
<1> HIDE DEF Same
<1>4. \A k \in Nat : k \in Same
  BY <1>2, <1>3, Induction
<1> QED BY <1>4 DEF Same

LEMMA DoubledNext ==
    ASSUME NEW n \in Nat
    PROVE  Doubled(n + 1) = 2 * Doubled(n)
<1>1. PICK f : IsDoubling(f, n) /\ Doubled(n) = f[n]
  BY DoubledIs
<1>2. n + 1 \in Nat /\ n <= n + 1
  OBVIOUS
<1>3. PICK g : IsDoubling(g, n + 1) /\ Doubled(n + 1) = g[n + 1]
  BY <1>2, DoubledIs
<1>4. g[n + 1] = 2 * g[n]
  BY <1>2, <1>3, DoublingStep
<1>5. f[n] = g[n]
  BY <1>1, <1>2, <1>3, DoublingIsUnique
<1> QED BY <1>1, <1>3, <1>4, <1>5

LEMMA DoubledType ==
    \A n \in Nat : Doubled(n) \in Nat /\ Doubled(n) > 0
<1> DEFINE Good == {n \in Nat : Doubled(n) \in Nat /\ Doubled(n) > 0}
<1>1. 0 \in Good
  <2>1. PICK f : IsDoubling(f, 0) /\ Doubled(0) = f[0]
    BY DoubledIs
  <2>2. f[0] = 1
    BY <2>1, DoublingStep
  <2> QED BY <2>1, <2>2
<1>2. ASSUME NEW n \in Nat, n \in Good PROVE n + 1 \in Good
  <2>1. Doubled(n + 1) = 2 * Doubled(n)
    BY DoubledNext
  <2> QED BY <1>2, <2>1
<1> HIDE DEF Good
<1>3. \A n \in Nat : n \in Good
  BY <1>1, <1>2, Induction
<1> QED BY <1>3 DEF Good

LEMMA DoubledGrows ==
    ASSUME NEW a \in Nat
    PROVE  \A b \in Nat : a <= b => Doubled(a) <= Doubled(b)
<1> DEFINE Good == {n \in Nat : Doubled(a) <= Doubled(a + n)}
<1>1. 0 \in Good
  <2>1. a + 0 = a /\ Doubled(a) \in Nat
    BY DoubledType
  <2> QED BY <2>1
<1>2. ASSUME NEW n \in Nat, n \in Good PROVE n + 1 \in Good
  <2>1. a + n \in Nat /\ a + (n + 1) = (a + n) + 1
    OBVIOUS
  <2>2. Doubled((a + n) + 1) = 2 * Doubled(a + n) /\ Doubled(a + n) \in Nat /\ Doubled(a) \in Nat
    BY <2>1, DoubledNext, DoubledType
  <2>3. Doubled(a) <= Doubled(a + (n + 1))
    BY <1>2, <2>1, <2>2
  <2> QED BY <2>3
<1> HIDE DEF Good
<1>3. \A n \in Nat : n \in Good
  BY <1>1, <1>2, Induction
<1>4. ASSUME NEW b \in Nat, a <= b PROVE Doubled(a) <= Doubled(b)
  <2>1. PICK n \in Nat : b = a + n
    <3>1. b - a \in Nat /\ b = a + (b - a)
      BY <1>4
    <3> QED BY <3>1
  <2> QED BY <1>3, <2>1 DEF Good
<1> QED BY <1>4

-----------------------------------------------------------------------------
(***************************************************************************)
(* Fractions.                                                              *)
(***************************************************************************)
LEMMA TimesKeepsLess ==
    ASSUME NEW x \in Nat, NEW y \in Nat, NEW z \in Nat
    PROVE  /\ x * z \in Nat
           /\ x <= y => x * z <= y * z
           /\ x < y /\ z > 0 => x * z < y * z
           /\ x * z <= y * z /\ z > 0 => x <= y
           /\ x * z < y * z => x < y
           /\ x > 0 /\ z > 0 => x * z > 0
OBVIOUS

IsFraction(p) == p[1] \in Nat /\ p[2] \in Nat /\ p[2] > 0

AtMost(p, q) == p[1] * q[2] <= q[1] * p[2]

LEMMA LessIs ==
    ASSUME NEW p, NEW q, IsFraction(p), IsFraction(q)
    PROVE  (Less(p, q) <=> ~AtMost(q, p)) /\ (AtMost(p, q) \/ AtMost(q, p))
<1>1. p[1] * q[2] \in Nat /\ q[1] * p[2] \in Nat
  BY TimesKeepsLess DEF IsFraction
<1> QED BY <1>1 DEF Less, AtMost

LEMMA AtMostIsTransitive ==
    ASSUME NEW p, NEW q, NEW r, IsFraction(p), IsFraction(q), IsFraction(r),
           AtMost(p, q), AtMost(q, r)
    PROVE  AtMost(p, r)
<1>1. SUFFICES ASSUME NEW a \in Nat, NEW b \in Nat, NEW c \in Nat, NEW d \in Nat, NEW e \in Nat,
                      NEW f \in Nat, d > 0, a * d <= c * b, c * f <= e * d
               PROVE  a * f <= e * b
  BY <1>1 DEF IsFraction, AtMost
<1>2. /\ a * d \in Nat /\ c * b \in Nat /\ c * f \in Nat /\ e * d \in Nat
      /\ a * f \in Nat /\ e * b \in Nat
  BY TimesKeepsLess
<1>3. (a * d) * f <= (c * b) * f
  BY <1>1, <1>2, TimesKeepsLess
<1>4. (c * f) * b <= (e * d) * b
  BY <1>1, <1>2, TimesKeepsLess
<1>5. (a * f) * d <= (e * b) * d
  BY <1>3, <1>4
<1> QED BY <1>1, <1>2, <1>5, TimesKeepsLess

(* An older fix weighs less: x/y against n/m, E being at least w times D.  *)
LEMMA Weighs ==
    ASSUME NEW x \in Nat, NEW y \in Nat, NEW n \in Nat, NEW m \in Nat, NEW w \in Nat,
           NEW D \in Nat, NEW E \in Nat, x * m < w * (y * n), D > 0, w * D <= E
    PROVE  x * (m * D) < n * (y * E)
<1>1. y * n \in Nat /\ w * (y * n) \in Nat /\ x * m \in Nat /\ w * D \in Nat
  BY TimesKeepsLess
<1>2. (x * m) * D < (w * (y * n)) * D
  BY <1>1, TimesKeepsLess
<1>3. (w * D) * (y * n) <= E * (y * n)
  BY <1>1, TimesKeepsLess
<1> QED BY <1>2, <1>3

-----------------------------------------------------------------------------
(***************************************************************************)
(* Scores.                                                                 *)
(***************************************************************************)

(* What a leg can be: fixes in the order of the search, each once, and no  *)
(* more than its limit.                                                    *)
IsLeg(list) == list \in Seq(Fixes) /\ IsInjective(list) /\ Len(list) <= Limit

LEMMA SmoothingType == Smoothing \in Nat /\ Smoothing > 0 /\ Limit \in Nat /\ Limit <= Smoothing
<1>1. TopN \in Nat \ {0} /\ Multiplier \in Nat \ {0} /\ Smoothing \in Nat /\ Limit <= Smoothing
  BY RankingAssumption
<1>2. TopN * Multiplier \in Nat /\ TopN * Multiplier > 0
  BY <1>1
<1> QED BY <1>1, <1>2 DEF Limit

(* The ranks a leg gives are below the smoothing constant.                 *)
LEMMA ContributionIs ==
    ASSUME NEW list, IsLeg(list), NEW f
    PROVE  LET c == Contribution(list, f)
           IN /\ f \in In(list) => /\ c[1] = 1 /\ c[2] \in Nat /\ Smoothing <= c[2]
                                   /\ c[2] < 2 * Smoothing
              /\ f \notin In(list) => c[1] = 0 /\ c[2] = 1
<1>1. CASE f \in In(list)
  <2> DEFINE i == CHOOSE i \in DOMAIN list : list[i] = f
  <2>1. i \in DOMAIN list
    BY <1>1 DEF In
  <2>2. Rank(list, f) = i - 1
    BY DEF Rank
  <2> HIDE DEF i
  <2>3. /\ Rank(list, f) \in Nat /\ Rank(list, f) < Smoothing
    BY <2>1, <2>2, SmoothingType DEF IsLeg
  <2>4. Contribution(list, f) = <<1, Smoothing + Rank(list, f)>>
    BY <1>1 DEF Contribution, RrfScore
  <2> QED BY <1>1, <2>3, <2>4, SmoothingType
<1>2. CASE f \notin In(list)
  BY <1>2 DEF Contribution
<1> QED BY <1>1, <1>2

IsSearched(searched) == IsLeg(searched.semantic) /\ IsLeg(searched.rules)

(* The two ranks together, before the decay. *)
Together(searched, f) ==
    Plus(Contribution(searched.semantic, f), Contribution(searched.rules, f))

LEMMA TogetherIs ==
    ASSUME NEW searched, IsSearched(searched), NEW f
    PROVE  LET t == Together(searched, f)
               n == t[1]
               m == t[2]
               k == Smoothing
               inSemantic == f \in In(searched.semantic)
               inRules == f \in In(searched.rules)
           IN /\ n \in Nat /\ m \in Nat /\ m > 0
              /\ n * k <= 2 * m
              /\ inSemantic \/ inRules => m < n * (2 * k)
              /\ inSemantic /\ inRules => m < n * k
              /\ ~(inSemantic /\ inRules) => n * k <= m
<1> DEFINE p == Contribution(searched.semantic, f)
           q == Contribution(searched.rules, f)
           a == p[1]
           b == p[2]
           c == q[1]
           d == q[2]
           k == Smoothing
           inSemantic == f \in In(searched.semantic)
           inRules == f \in In(searched.rules)
<1>1. /\ inSemantic => a = 1 /\ b \in Nat /\ k <= b /\ b < 2 * k
      /\ ~inSemantic => a = 0 /\ b = 1
  BY ContributionIs DEF IsSearched
<1>2. /\ inRules => c = 1 /\ d \in Nat /\ k <= d /\ d < 2 * k
      /\ ~inRules => c = 0 /\ d = 1
  BY ContributionIs DEF IsSearched
<1>3. Together(searched, f)[1] = a * d + c * b /\ Together(searched, f)[2] = b * d
  BY DEF Together, Plus
<1>4. k \in Nat /\ k > 0
  BY SmoothingType
<1> HIDE DEF a, b, c, d, k, inSemantic, inRules
<1>5. CASE inSemantic /\ inRules
  <2>1. a * d + c * b = d + b /\ b \in Nat /\ d \in Nat /\ b > 0 /\ d > 0
    BY <1>1, <1>2, <1>4, <1>5
  <2>2. b * d \in Nat /\ b * d > 0
    BY <2>1, TimesKeepsLess
  <2>3. d * k <= d * b /\ b * k <= b * d /\ d * k \in Nat /\ b * k \in Nat
    BY <1>1, <1>2, <1>4, <1>5, <2>1
  <2>4. (d + b) * k = d * k + b * k /\ d * b = b * d
    BY <1>4, <2>1
  <2>5. (d + b) * k <= 2 * (b * d)
    BY <2>2, <2>3, <2>4
  <2>6. b * d < (d + b) * k
    <3>1. d < 2 * k /\ b < 2 * k
      BY <1>1, <1>2, <1>5
    <3>2. b * d < b * (2 * k) /\ d * b < d * (2 * k)
      BY <1>4, <2>1, <3>1
    <3>3. b * (2 * k) = 2 * (b * k) /\ d * (2 * k) = 2 * (d * k)
      BY <1>4, <2>1
    <3> QED BY <2>2, <2>3, <2>4, <3>2, <3>3
  <2>7. (d + b) * k \in Nat /\ (d + b) * (2 * k) = 2 * ((d + b) * k)
    BY <1>4, <2>1
  <2> QED BY <1>3, <1>5, <2>1, <2>2, <2>5, <2>6, <2>7 DEF inSemantic, inRules, k
<1>6. CASE inSemantic /\ ~inRules
  <2>1. a * d + c * b = 1 /\ b * d = b /\ b \in Nat /\ b > 0 /\ k <= b /\ b < 2 * k
    BY <1>1, <1>2, <1>4, <1>6
  <2> QED BY <1>3, <1>4, <1>6, <2>1 DEF inSemantic, inRules, k
<1>7. CASE ~inSemantic /\ inRules
  <2>1. a * d + c * b = 1 /\ b * d = d /\ d \in Nat /\ d > 0 /\ k <= d /\ d < 2 * k
    BY <1>1, <1>2, <1>4, <1>7
  <2> QED BY <1>3, <1>4, <1>7, <2>1 DEF inSemantic, inRules, k
<1>8. CASE ~inSemantic /\ ~inRules
  <2>1. a * d + c * b = 0 /\ b * d = 1
    BY <1>1, <1>2, <1>8
  <2> QED BY <1>3, <1>4, <1>8, <2>1 DEF inSemantic, inRules, k
<1> QED BY <1>5, <1>6, <1>7, <1>8

LEMMA FusedIs ==
    ASSUME NEW searched, IsSearched(searched), NEW f, known[f].age \in Nat
    PROVE  LET s == FusedScore(searched, f)
               t == Together(searched, f)
           IN /\ IsFraction(s)
              /\ s[1] = t[1] /\ s[2] = t[2] * Doubled(known[f].age)
<1> DEFINE s == FusedScore(searched, f)
           t == Together(searched, f)
           D == Doubled(known[f].age)
<1>1. s = Times(t, <<1, D>>)
  BY DEF FusedScore, StalenessMultiplier, Together
<1>2. s = <<t[1] * 1, t[2] * D>>
  BY <1>1 DEF Times
<1>3. t[1] \in Nat /\ t[2] \in Nat /\ t[2] > 0
  BY TogetherIs
<1>4. D \in Nat /\ D > 0
  BY DoubledType
<1> HIDE DEF s, t, D
<1>5. t[2] * D \in Nat /\ t[2] * D > 0
  BY <1>3, <1>4, TimesKeepsLess
<1>6. s[1] = t[1] /\ s[2] = t[2] * D
  BY <1>2, <1>3
<1> QED BY <1>3, <1>5, <1>6 DEF IsFraction, s, t, D

(* Both searches agree on f, one of them at most found g, and g is no      *)
(* younger.                                                                *)
LEMMA AgreementScoresMore ==
    ASSUME NEW searched, IsSearched(searched), NEW f, NEW g,
           known[f].age \in Nat, known[g].age \in Nat, known[f].age <= known[g].age,
           f \in In(searched.semantic), f \in In(searched.rules),
           ~(g \in In(searched.semantic) /\ g \in In(searched.rules))
    PROVE  Less(FusedScore(searched, g), FusedScore(searched, f))
<1> DEFINE n == Together(searched, f)[1]
           m == Together(searched, f)[2]
           x == Together(searched, g)[1]
           y == Together(searched, g)[2]
           D == Doubled(known[f].age)
           E == Doubled(known[g].age)
           k == Smoothing
<1>1. n \in Nat /\ m \in Nat /\ m > 0 /\ m < n * k
  BY TogetherIs
<1>2. x \in Nat /\ y \in Nat /\ y > 0 /\ x * k <= y
  BY TogetherIs
<1>3. D \in Nat /\ E \in Nat /\ D > 0 /\ D <= E
  BY DoubledType, DoubledGrows
<1>4. k \in Nat /\ k > 0
  BY SmoothingType
<1>5. /\ FusedScore(searched, f)[1] = n /\ FusedScore(searched, f)[2] = m * D
      /\ FusedScore(searched, g)[1] = x /\ FusedScore(searched, g)[2] = y * E
  BY FusedIs
<1> HIDE DEF n, m, x, y, D, E, k
<1>6. x * m < y * n
  <2>1. x * k \in Nat /\ n * k \in Nat /\ x * m \in Nat /\ y * n \in Nat
    BY <1>1, <1>2, <1>4, TimesKeepsLess
  <2>2. (x * k) * m <= y * m
    BY <1>1, <1>2, <2>1, TimesKeepsLess
  <2>3. m * y < (n * k) * y
    BY <1>1, <1>2, <2>1, TimesKeepsLess
  <2>4. (x * m) * k < (y * n) * k
    BY <1>1, <1>2, <1>4, <2>2, <2>3
  <2> QED BY <1>4, <2>1, <2>4, TimesKeepsLess
<1>7. x * m < 1 * (y * n) /\ 1 * D <= E
  BY <1>1, <1>2, <1>3, <1>6
<1>8. x * (m * D) < n * (y * E)
  BY <1>1, <1>2, <1>3, <1>7, Weighs
<1> QED BY <1>5, <1>8 DEF Less

(* One search at least found f, and g is two half-lives older. *)
LEMMA StaleScoresLess ==
    ASSUME NEW searched, IsSearched(searched), NEW f, NEW g,
           known[f].age \in Nat, known[g].age \in Nat, known[g].age >= known[f].age + 2,
           f \in In(searched.semantic) \cup In(searched.rules)
    PROVE  Less(FusedScore(searched, g), FusedScore(searched, f))
<1> DEFINE n == Together(searched, f)[1]
           m == Together(searched, f)[2]
           x == Together(searched, g)[1]
           y == Together(searched, g)[2]
           age == known[f].age
           D == Doubled(age)
           E == Doubled(known[g].age)
           k == Smoothing
<1>1. n \in Nat /\ m \in Nat /\ m > 0 /\ m < n * (2 * k)
  BY TogetherIs
<1>2. x \in Nat /\ y \in Nat /\ y > 0 /\ x * k <= 2 * y
  BY TogetherIs
<1>3. D \in Nat /\ E \in Nat /\ D > 0 /\ 4 * D <= E
  <2>1. D \in Nat /\ E \in Nat /\ D > 0 /\ age + 1 \in Nat /\ age + 2 \in Nat
    BY DoubledType
  <2>2. Doubled(age + 1) = 2 * D
    BY DoubledNext
  <2>3. Doubled((age + 1) + 1) = 2 * Doubled(age + 1)
    BY <2>1, DoubledNext
  <2>4. (age + 1) + 1 = age + 2
    BY <2>1
  <2>5. Doubled(age + 2) <= E
    BY <2>1, DoubledGrows
  <2> HIDE DEF D, E, age
  <2> QED BY <2>1, <2>2, <2>3, <2>4, <2>5
<1>4. k \in Nat /\ k > 0
  BY SmoothingType
<1>5. /\ FusedScore(searched, f)[1] = n /\ FusedScore(searched, f)[2] = m * D
      /\ FusedScore(searched, g)[1] = x /\ FusedScore(searched, g)[2] = y * E
  BY FusedIs
<1> HIDE DEF n, m, x, y, D, E, k
<1>6. x * m < 4 * (y * n)
  <2>1. /\ x * k \in Nat /\ 2 * k \in Nat /\ n * (2 * k) \in Nat /\ x * m \in Nat /\ y * n \in Nat
        /\ 2 * y \in Nat
    BY <1>1, <1>2, <1>4, TimesKeepsLess
  <2>2. (x * k) * m <= (2 * y) * m
    BY <1>1, <1>2, <2>1, TimesKeepsLess
  <2>3. m * (2 * y) < (n * (2 * k)) * (2 * y)
    BY <1>1, <1>2, <2>1, TimesKeepsLess
  <2>4. (x * m) * k < (4 * (y * n)) * k
    BY <1>1, <1>2, <1>4, <2>2, <2>3
  <2>5. 4 * (y * n) \in Nat
    BY <2>1
  <2> QED BY <1>4, <2>1, <2>4, <2>5, TimesKeepsLess
<1>7. x * (m * D) < n * (y * E)
  BY <1>1, <1>2, <1>3, <1>6, Weighs
<1> QED BY <1>5, <1>7 DEF Less

-----------------------------------------------------------------------------
(***************************************************************************)
(* The order by score.                                                     *)
(***************************************************************************)

(* j comes before i: it scores more, or as much and was met before.        *)
Ahead(list, searched, j, i) ==
    \/ Less(FusedScore(searched, list[i]), FusedScore(searched, list[j]))
    \/ j < i /\ ~Less(FusedScore(searched, list[j]), FusedScore(searched, list[i]))

Those(list, searched, i) == {j \in DOMAIN list : Ahead(list, searched, j, i)}

PlaceOf(list, searched, i) == 1 + Cardinality(Those(list, searched, i))

At(list, searched, p) == CHOOSE i \in DOMAIN list : PlaceOf(list, searched, i) = p

LEMMA SortedIs ==
    ASSUME NEW list, NEW searched
    PROVE  Sorted(list, searched) = [p \in DOMAIN list |-> list[At(list, searched, p)]]
BY DEF Sorted, At, PlaceOf, Those, Ahead

(* A list of fixes whose scores can be compared, each there once. *)
IsScored(list, searched) ==
    /\ list \in Seq(Fixes) /\ IsInjective(list)
    /\ \A i \in DOMAIN list : IsFraction(FusedScore(searched, list[i]))

LEMMA AheadIsOrder ==
    ASSUME NEW list, NEW searched, IsScored(list, searched)
    PROVE  \A i, j, h \in DOMAIN list :
               /\ ~Ahead(list, searched, i, i)
               /\ i # j => Ahead(list, searched, i, j) \/ Ahead(list, searched, j, i)
               /\ Ahead(list, searched, i, j) /\ Ahead(list, searched, j, h)
                      => Ahead(list, searched, i, h)
<1> SUFFICES ASSUME NEW i \in DOMAIN list, NEW j \in DOMAIN list, NEW h \in DOMAIN list
             PROVE  /\ ~Ahead(list, searched, i, i)
                    /\ i # j => Ahead(list, searched, i, j) \/ Ahead(list, searched, j, i)
                    /\ Ahead(list, searched, i, j) /\ Ahead(list, searched, j, h)
                           => Ahead(list, searched, i, h)
  OBVIOUS
<1> DEFINE S(k) == FusedScore(searched, list[k])
<1>1. \A k \in DOMAIN list : IsFraction(S(k)) /\ k \in Nat
  BY DEF IsScored
<1>2. ASSUME NEW k \in DOMAIN list, NEW l \in DOMAIN list
      PROVE  /\ Ahead(list, searched, k, l) <=> ~AtMost(S(k), S(l)) \/ (k < l /\ AtMost(S(l), S(k)))
             /\ AtMost(S(k), S(l)) \/ AtMost(S(l), S(k))
  <2>1. Ahead(list, searched, k, l) <=> Less(S(l), S(k)) \/ (k < l /\ ~Less(S(k), S(l)))
    BY DEF Ahead
  <2>2. IsFraction(S(k)) /\ IsFraction(S(l))
    BY <1>1
  <2> HIDE DEF S
  <2> QED BY <2>1, <2>2, LessIs
<1> HIDE DEF S
<1>3. ASSUME NEW k \in DOMAIN list, NEW l \in DOMAIN list, NEW m \in DOMAIN list,
             AtMost(S(k), S(l)), AtMost(S(l), S(m))
      PROVE  AtMost(S(k), S(m))
  BY <1>1, <1>3, AtMostIsTransitive
<1>4. ~Ahead(list, searched, i, i)
  BY <1>1, <1>2
<1>5. i # j => Ahead(list, searched, i, j) \/ Ahead(list, searched, j, i)
  BY <1>1, <1>2
<1>6. ASSUME Ahead(list, searched, i, j), Ahead(list, searched, j, h)
      PROVE  Ahead(list, searched, i, h)
  <2>1. AtMost(S(j), S(i)) /\ AtMost(S(h), S(j))
    BY <1>2, <1>6
  <2>2. AtMost(S(h), S(i))
    BY <1>3, <2>1
  <2>3. ASSUME AtMost(S(i), S(h)) PROVE i < h
    <3>1. AtMost(S(i), S(j)) /\ AtMost(S(j), S(h))
      BY <1>3, <2>1, <2>3
    <3>2. i < j /\ j < h
      BY <1>2, <1>6, <3>1
    <3> QED BY <1>1, <3>2
  <2> QED BY <1>2, <2>2, <2>3
<1> QED BY <1>4, <1>5, <1>6

LEMMA PlaceType ==
    ASSUME NEW list, NEW searched, IsScored(list, searched), NEW i \in DOMAIN list
    PROVE  /\ IsFiniteSet(Those(list, searched, i))
           /\ Cardinality(Those(list, searched, i)) \in Nat
           /\ PlaceOf(list, searched, i) \in DOMAIN list
<1> DEFINE n == Len(list)
           those == Those(list, searched, i)
<1>1. DOMAIN list = 1 .. n /\ n \in Nat /\ i \in 1 .. n /\ n >= 1
  BY DEF IsScored
<1> HIDE DEF n
<1>2. IsFiniteSet(1 .. n) /\ Cardinality(1 .. n) = n
  <2>1. 1 \in Int /\ n \in Int /\ ~(1 > n) /\ n - 1 + 1 = n
    BY <1>1
  <2> QED BY <2>1, FS_Interval
<1>3. IsFiniteSet((1 .. n) \ {i}) /\ Cardinality((1 .. n) \ {i}) = n - 1
  BY <1>1, <1>2, FS_RemoveElement
<1>4. those \in SUBSET ((1 .. n) \ {i})
  BY <1>1, AheadIsOrder DEF Those
<1> HIDE DEF those
<1>5. IsFiniteSet(those) /\ Cardinality(those) <= n - 1
  <2> DEFINE others == (1 .. n) \ {i}
  <2>1. IsFiniteSet(others) /\ Cardinality(others) = n - 1 /\ those \in SUBSET others
    BY <1>3, <1>4
  <2> HIDE DEF others
  <2>2. IsFiniteSet(those) /\ Cardinality(those) <= Cardinality(others)
    BY <2>1, FS_Subset
  <2> QED BY <2>1, <2>2
<1>6. Cardinality(those) \in Nat
  BY <1>5, FS_CardinalityType
<1>7. 1 + Cardinality(those) \in 1 .. n
  BY <1>1, <1>5, <1>6
<1> QED BY <1>1, <1>5, <1>6, <1>7 DEF PlaceOf, those, n

LEMMA PlaceOrder ==
    ASSUME NEW list, NEW searched, IsScored(list, searched), NEW i \in DOMAIN list,
           NEW j \in DOMAIN list, Ahead(list, searched, i, j)
    PROVE  PlaceOf(list, searched, i) < PlaceOf(list, searched, j)
<1> DEFINE a == Those(list, searched, i)
           b == Those(list, searched, j)
<1>1. i \notin a /\ a \cup {i} \in SUBSET b
  BY AheadIsOrder DEF Those
<1>2. /\ IsFiniteSet(a) /\ Cardinality(a) \in Nat
      /\ IsFiniteSet(b) /\ Cardinality(b) \in Nat
  BY PlaceType
<1>3. PlaceOf(list, searched, i) = 1 + Cardinality(a) /\ PlaceOf(list, searched, j) = 1 + Cardinality(b)
  BY DEF PlaceOf
<1> HIDE DEF a, b
<1>4. Cardinality(a \cup {i}) = Cardinality(a) + 1
  BY <1>1, <1>2, FS_AddElement
<1>5. Cardinality(a \cup {i}) <= Cardinality(b)
  BY <1>1, <1>2, FS_Subset
<1> QED BY <1>2, <1>3, <1>4, <1>5

(* Every place is taken, by one. *)
LEMMA PlacesAreTaken ==
    ASSUME NEW list, NEW searched, IsScored(list, searched)
    PROVE  /\ \A i, j \in DOMAIN list :
                  PlaceOf(list, searched, i) = PlaceOf(list, searched, j) => i = j
           /\ \A p \in DOMAIN list :
                  At(list, searched, p) \in DOMAIN list /\ PlaceOf(list, searched, At(list, searched, p)) = p
           /\ \A i \in DOMAIN list : At(list, searched, PlaceOf(list, searched, i)) = i
<1> DEFINE n == Len(list)
           P(i) == PlaceOf(list, searched, i)
           place == [i \in 1 .. n |-> P(i)]
<1>1. DOMAIN list = 1 .. n /\ n \in Nat
  BY DEF IsScored
<1>2. \A i \in 1 .. n : P(i) \in 1 .. n
  BY <1>1, PlaceType
<1>3. ASSUME NEW i \in 1 .. n, NEW j \in 1 .. n, P(i) = P(j) PROVE i = j
  <2>1. SUFFICES ASSUME i # j PROVE FALSE
    OBVIOUS
  <2>2. P(i) < P(j) \/ P(j) < P(i)
    <3>1. Ahead(list, searched, i, j) \/ Ahead(list, searched, j, i)
      BY <1>1, <2>1, AheadIsOrder
    <3> QED BY <1>1, <3>1, PlaceOrder
  <2>3. P(i) \in Nat /\ P(j) \in Nat
    BY <1>2
  <2> HIDE DEF P
  <2> QED BY <1>3, <2>2, <2>3
<1> HIDE DEF P
<1>4. place \in [1 .. n -> 1 .. n] /\ IsInjective(place)
  BY <1>2, <1>3 DEF IsInjective
<1>5. place \in Injection(1 .. n, 1 .. n)
  BY <1>4 DEF Injection
<1>6. IsFiniteSet(1 .. n)
  BY <1>1, FS_Interval
<1>7. place \in Surjection(1 .. n, 1 .. n)
  <2> HIDE DEF place, n
  <2> QED BY <1>5, <1>6, FS_Injection
<1>8. \A p \in 1 .. n : \E i \in 1 .. n : P(i) = p
  BY <1>7 DEF Surjection
<1>9. ASSUME NEW p \in 1 .. n
      PROVE  At(list, searched, p) \in 1 .. n /\ P(At(list, searched, p)) = p
  BY <1>1, <1>8 DEF At, P
<1>10. ASSUME NEW i \in 1 .. n PROVE At(list, searched, P(i)) = i
  BY <1>2, <1>3, <1>9
<1> QED BY <1>1, <1>3, <1>9, <1>10 DEF P

LEMMA SortedFacts ==
    ASSUME NEW list, NEW searched, IsScored(list, searched)
    PROVE  LET sorted == Sorted(list, searched)
           IN /\ sorted \in Seq(Fixes) /\ Len(sorted) = Len(list) /\ IsInjective(sorted)
              /\ \A i \in DOMAIN list :
                     /\ PlaceOf(list, searched, i) \in DOMAIN sorted
                     /\ sorted[PlaceOf(list, searched, i)] = list[i]
              /\ In(sorted) = In(list)
<1> DEFINE sorted == Sorted(list, searched)
           n == Len(list)
<1>1. sorted = [p \in DOMAIN list |-> list[At(list, searched, p)]]
  BY SortedIs
<1>2. list \in Seq(Fixes) /\ IsInjective(list) /\ DOMAIN list = 1 .. n /\ n \in Nat
  BY DEF IsScored
<1>3. DOMAIN sorted = 1 .. n /\ \A p \in 1 .. n : sorted[p] = list[At(list, searched, p)]
  BY <1>1, <1>2
<1> HIDE DEF sorted, n
<1>4. \A p \in 1 .. n : At(list, searched, p) \in 1 .. n /\ PlaceOf(list, searched, At(list, searched, p)) = p
  BY <1>2, PlacesAreTaken
<1>5. sorted \in [1 .. n -> Fixes]
  <2>1. \A p \in 1 .. n : sorted[p] \in Fixes
    BY <1>2, <1>3, <1>4
  <2>2. sorted = [p \in 1 .. n |-> sorted[p]]
    BY <1>1, <1>2, <1>3
  <2> QED BY <2>1, <2>2
<1>6. sorted \in Seq(Fixes) /\ Len(sorted) = n
  BY <1>2, <1>5
<1>7. IsInjective(sorted)
  <2>1. ASSUME NEW p \in 1 .. n, NEW q \in 1 .. n, sorted[p] = sorted[q] PROVE p = q
    <3>1. At(list, searched, p) = At(list, searched, q)
      BY <1>2, <1>3, <1>4, <2>1 DEF IsInjective
    <3> QED BY <1>4, <3>1
  <2> QED BY <1>3, <2>1 DEF IsInjective
<1>8. ASSUME NEW i \in DOMAIN list
      PROVE  /\ PlaceOf(list, searched, i) \in DOMAIN sorted
             /\ sorted[PlaceOf(list, searched, i)] = list[i]
  BY <1>2, <1>3, PlaceType, PlacesAreTaken
<1>9. In(sorted) = In(list)
  <2>1. In(sorted) \subseteq In(list)
    BY <1>2, <1>3, <1>4 DEF In
  <2>2. In(list) \subseteq In(sorted)
    BY <1>8 DEF In
  <2> QED BY <2>1, <2>2
<1> QED BY <1>6, <1>7, <1>8, <1>9 DEF sorted, n

-----------------------------------------------------------------------------
(***************************************************************************)
(* Lists without repetitions.                                              *)
(***************************************************************************)
LEMMA AppendOnce ==
    ASSUME NEW T, NEW s \in Seq(T), NEW e \in T, NEW t, t = Append(s, e)
    PROVE  /\ IsInjective(t) => IsInjective(s) /\ e \notin In(s)
           /\ IsInjective(s) /\ e \notin In(s) => IsInjective(t)
<1> DEFINE n == Len(s)
<1>1. /\ n \in Nat /\ DOMAIN s = 1 .. n /\ DOMAIN t = 1 .. (n + 1) /\ t[n + 1] = e
      /\ \A k \in 1 .. n : t[k] = s[k]
  OBVIOUS
<1> HIDE DEF n
<1>2. ASSUME IsInjective(t) PROVE IsInjective(s) /\ e \notin In(s)
  <2>1. \A a, b \in 1 .. (n + 1) : t[a] = t[b] => a = b
    BY <1>1, <1>2 DEF IsInjective
  <2>2. \A a \in 1 .. n : a \in 1 .. (n + 1) /\ a # n + 1 /\ n + 1 \in 1 .. (n + 1)
    BY <1>1
  <2> QED BY <1>1, <2>1, <2>2 DEF IsInjective, In
<1>3. ASSUME IsInjective(s), e \notin In(s) PROVE IsInjective(t)
  <2>1. \A a, b \in 1 .. n : s[a] = s[b] => a = b
    BY <1>1, <1>3 DEF IsInjective
  <2>2. \A a \in 1 .. n : s[a] # e
    BY <1>1, <1>3 DEF In
  <2>3. \A a \in 1 .. (n + 1) : a = n + 1 \/ a \in 1 .. n
    BY <1>1
  <2> QED BY <1>1, <2>1, <2>2, <2>3 DEF IsInjective
<1> QED BY <1>2, <1>3

LEMMA SelectedInjective ==
    ASSUME NEW T, NEW S
    PROVE  \A s \in Seq(T) : IsInjective(s) => IsInjective(Selected(s, S))
<1> DEFINE Good(s) == IsInjective(s) => IsInjective(Selected(s, S))
           P == {s \in Seq(T) : Good(s)}
<1>1. << >> \in P
  <2>1. Selected(<< >>, S) = << >>
    BY SelectedEmpty
  <2>2. Good(<< >>)
    BY <2>1
  <2>3. << >> \in Seq(T)
    OBVIOUS
  <2> HIDE DEF Good
  <2> QED BY <2>2, <2>3
<1>2. ASSUME NEW s \in Seq(T), NEW e \in T, s \in P PROVE Append(s, e) \in P
  <2> DEFINE t == Selected(s, S)
  <2>1. Selected(Append(s, e), S) = IF e \in S THEN Append(t, e) ELSE t
    BY SelectedAppend
  <2>2. t \in Seq(T \cap S) /\ In(t) = In(s) \cap S
    BY SelectedItems
  <2>3. IsInjective(s) => IsInjective(t)
    BY <1>2
  <2> HIDE DEF t
  <2>4. t \in Seq(T)
    BY <2>2
  <2>5. ASSUME IsInjective(Append(s, e)) PROVE IsInjective(Selected(Append(s, e), S))
    <3> DEFINE u == Append(s, e)
               v == Append(t, e)
    <3>1. u = Append(s, e) /\ v = Append(t, e) /\ IsInjective(u)
      BY <2>5
    <3>2. Selected(Append(s, e), S) = v \/ Selected(Append(s, e), S) = t
      BY <2>1
    <3> HIDE DEF u, v
    <3>3. IsInjective(s) /\ e \notin In(s)
      BY <3>1, AppendOnce
    <3>4. IsInjective(t) /\ e \notin In(t)
      BY <2>2, <2>3, <3>3
    <3>5. IsInjective(v)
      BY <2>4, <3>1, <3>4, AppendOnce
    <3> QED BY <3>2, <3>4, <3>5
  <2>6. Append(s, e) \in Seq(T)
    OBVIOUS
  <2>7. Good(Append(s, e))
    BY <2>5
  <2> HIDE DEF Good
  <2> QED BY <2>6, <2>7
<1> HIDE DEF P
<1>3. \A s \in Seq(T) : s \in P
  BY <1>1, <1>2, AppendInduction
<1> QED BY <1>3 DEF P

LEMMA ConcatInjective ==
    ASSUME NEW T, NEW s \in Seq(T), NEW t \in Seq(T), IsInjective(s), IsInjective(t),
           In(s) \cap In(t) = {}
    PROVE  IsInjective(s \o t)
<1> DEFINE u == s \o t
           n == Len(s)
           m == Len(t)
<1>1. /\ n \in Nat /\ m \in Nat /\ DOMAIN s = 1 .. n /\ DOMAIN t = 1 .. m /\ DOMAIN u = 1 .. (n + m)
      /\ \A k \in 1 .. n : u[k] = s[k]
      /\ \A k \in 1 .. (n + m) : k > n => u[k] = t[k - n]
  OBVIOUS
<1> HIDE DEF u, n, m
<1>2. ASSUME NEW a \in 1 .. (n + m), NEW b \in 1 .. (n + m), u[a] = u[b] PROVE a = b
  <2>1. CASE a <= n /\ b <= n
    BY <1>1, <1>2, <2>1 DEF IsInjective
  <2>2. CASE a > n /\ b > n
    <3>1. a - n \in 1 .. m /\ b - n \in 1 .. m /\ t[a - n] = t[b - n]
      BY <1>1, <1>2, <2>2
    <3>2. a - n = b - n
      BY <1>1, <3>1 DEF IsInjective
    <3> QED BY <1>1, <3>2
  <2>3. ASSUME NEW c \in 1 .. (n + m), NEW d \in 1 .. (n + m), c <= n, d > n, u[c] = u[d]
        PROVE  FALSE
    <3>1. c \in 1 .. n /\ d - n \in 1 .. m /\ s[c] = t[d - n]
      BY <1>1, <2>3
    <3> QED BY <1>1, <3>1 DEF In
  <2> QED BY <1>1, <1>2, <2>1, <2>2, <2>3
<1> QED BY <1>1, <1>2 DEF IsInjective, u

(* What is kept of a list stays in its order. *)
LEMMA SelectedOrder ==
    ASSUME NEW T, NEW S, NEW s \in Seq(T), IsInjective(s), NEW i \in DOMAIN s, NEW j \in DOMAIN s,
           i < j, s[i] \in S, s[j] \in S
    PROVE  /\ s[i] \in In(Selected(s, S))
           /\ Rank(Selected(s, S), s[i]) < Rank(Selected(s, S), s[j])
<1> DEFINE n == Len(s)
           a == SubSeq(s, 1, i)
           b == SubSeq(s, i + 1, n)
           A == Selected(a, S)
           B == Selected(b, S)
           t == Selected(s, S)
<1>1. n \in Nat /\ DOMAIN s = 1 .. n /\ i \in 1 .. n /\ j \in 1 .. n
  OBVIOUS
<1>2. a \in Seq(T) /\ b \in Seq(T) /\ s = a \o b
  <2>1. 1 \in 1 .. Len(s) + 1 /\ i \in (1 - 1) .. Len(s) /\ n \in i .. Len(s)
    BY <1>1
  <2>2. SubSeq(s, 1, i) \o SubSeq(s, i + 1, n) = SubSeq(s, 1, n)
    BY <2>1, ConcatAdjacentSubSeq
  <2>3. SubSeq(s, 1, n) = s
    BY SubSeqFull
  <2>4. a \in Seq(T) /\ b \in Seq(T)
    BY <1>1
  <2>5. s = a \o b
    BY <2>2, <2>3
  <2> QED BY <2>4, <2>5
<1>3. t = A \o B
  <2> HIDE DEF a, b
  <2>1. Selected(a \o b, S) = Selected(a, S) \o Selected(b, S)
    BY <1>2, SelectedConcat
  <2> QED BY <1>2, <2>1
<1>4. /\ DOMAIN a = 1 .. i /\ \A k \in 1 .. i : a[k] = s[k]
      /\ DOMAIN b = 1 .. (n - i) /\ \A k \in 1 .. (n - i) : b[k] = s[k + i]
  BY <1>1
<1>5. s[i] \in In(a) /\ s[j] \in In(b)
  <2>1. i \in 1 .. i /\ j - i \in 1 .. (n - i) /\ (j - i) + i = j
    BY <1>1
  <2> HIDE DEF a, b
  <2> QED BY <1>4, <2>1 DEF In
<1>6. s[i] \notin In(b) /\ s[j] \notin In(a)
  <2>1. \A k \in 1 .. (n - i) : k + i \in 1 .. n /\ k + i # i
    BY <1>1
  <2>2. \A k \in 1 .. i : k \in 1 .. n /\ k # j
    BY <1>1
  <2> HIDE DEF a, b
  <2> QED BY <1>1, <1>4, <2>1, <2>2 DEF In, IsInjective
<1> HIDE DEF a, b, n
<1>7. /\ A \in Seq(T \cap S) /\ In(A) = In(a) \cap S
      /\ B \in Seq(T \cap S) /\ In(B) = In(b) \cap S
  BY <1>2, SelectedItems
<1> HIDE DEF A, B, t
<1>8. /\ Len(A) \in Nat /\ Len(B) \in Nat /\ DOMAIN t = 1 .. (Len(A) + Len(B))
      /\ \A k \in DOMAIN t : k <= Len(A) => t[k] \in In(A)
      /\ \A k \in DOMAIN t : k > Len(A) => t[k] \in In(B)
  <2>1. /\ Len(A) \in Nat /\ Len(B) \in Nat /\ DOMAIN t = 1 .. (Len(A) + Len(B))
        /\ \A k \in 1 .. Len(A) : t[k] = A[k]
        /\ \A k \in 1 .. (Len(A) + Len(B)) : k > Len(A) => t[k] = B[k - Len(A)]
    BY <1>3, <1>7
  <2>2. \A k \in DOMAIN t : k <= Len(A) => k \in DOMAIN A
    BY <1>7, <2>1
  <2>3. \A k \in DOMAIN t : k > Len(A) => k - Len(A) \in DOMAIN B
    BY <1>7, <2>1
  <2> QED BY <2>1, <2>2, <2>3 DEF In
<1>9. In(t) = In(A) \cup In(B)
  BY <1>3, <1>7, InConcat
<1>10. s[i] \in In(t) /\ s[j] \in In(t)
  BY <1>5, <1>7, <1>9
<1> DEFINE x == CHOOSE k \in DOMAIN t : t[k] = s[i]
           y == CHOOSE k \in DOMAIN t : t[k] = s[j]
<1>11. x \in DOMAIN t /\ t[x] = s[i] /\ y \in DOMAIN t /\ t[y] = s[j]
  BY <1>10 DEF In
<1>12. Rank(t, s[i]) = x - 1 /\ Rank(t, s[j]) = y - 1
  BY DEF Rank
<1> HIDE DEF x, y
<1>13. x <= Len(A) /\ y > Len(A)
  BY <1>6, <1>7, <1>8, <1>11
<1> QED BY <1>8, <1>10, <1>11, <1>12, <1>13 DEF t

LEMMA TopIs ==
    ASSUME NEW T, NEW s \in Seq(T), NEW n \in Nat
    PROVE  /\ Top(s, n) \in Seq(T) /\ Len(Top(s, n)) <= n /\ Len(Top(s, n)) <= Len(s)
           /\ \A k \in DOMAIN Top(s, n) : k \in DOMAIN s /\ Top(s, n)[k] = s[k]
<1>1. CASE Len(s) <= n
  BY <1>1 DEF Top
<1>2. CASE ~(Len(s) <= n)
  <2>1. Top(s, n) = SubSeq(s, 1, n) /\ Len(s) \in Nat /\ n < Len(s)
    BY <1>2 DEF Top
  <2>2. /\ SubSeq(s, 1, n) \in Seq(T) /\ Len(SubSeq(s, 1, n)) = n
        /\ \A k \in 1 .. n : SubSeq(s, 1, n)[k] = s[k]
    BY <2>1
  <2> HIDE DEF Top
  <2> QED BY <2>1, <2>2
<1> QED BY <1>1, <1>2

LEMMA TopInjective ==
    ASSUME NEW T, NEW s \in Seq(T), NEW n \in Nat, IsInjective(s)
    PROVE  IsInjective(Top(s, n))
BY TopIs DEF IsInjective

-----------------------------------------------------------------------------
(***************************************************************************)
(* What is shown.                                                          *)
(***************************************************************************)
LEMMA MetIs ==
    ASSUME NEW searched, IsSearched(searched)
    PROVE  /\ Met(searched) \in Seq(Fixes) /\ IsInjective(Met(searched))
           /\ In(Met(searched)) = In(searched.semantic) \cup In(searched.rules)
<1> DEFINE s == searched.semantic
           r == searched.rules
           new == Selected(r, Fixes \ In(s))
<1>1. s \in Seq(Fixes) /\ IsInjective(s) /\ r \in Seq(Fixes) /\ IsInjective(r)
  BY DEF IsSearched, IsLeg
<1>2. Met(searched) = s \o new
  BY DEF Met
<1> HIDE DEF s, r
<1>3. new \in Seq(Fixes \cap (Fixes \ In(s))) /\ In(new) = In(r) \cap (Fixes \ In(s))
  BY <1>1, SelectedItems
<1>4. IsInjective(new)
  BY <1>1, SelectedInjective
<1> HIDE DEF new
<1>5. new \in Seq(Fixes)
  BY <1>3
<1>6. In(s) \cap In(new) = {} /\ In(r) \subseteq Fixes
  BY <1>1, <1>3, InType
<1>7. IsInjective(s \o new) /\ In(s \o new) = In(s) \cup In(new) /\ s \o new \in Seq(Fixes)
  BY <1>1, <1>4, <1>5, <1>6, ConcatInjective, InConcat
<1>8. In(s) \cup In(new) = In(s) \cup In(r)
  BY <1>3, <1>6
<1> QED BY <1>2, <1>7, <1>8 DEF s, r

IsKnown == known \in [Fixes -> Profiles]

LEMMA AgeType == IsKnown => \A f \in Fixes : known[f].age \in Nat
BY ProfileAssumption DEF IsKnown

(* What scores more is shown before what scores less, unless its row is    *)
(* gone.                                                                   *)
LEMMA BetterComesFirst ==
    ASSUME IsKnown, NEW searched, IsSearched(searched),
           NEW f \in In(searched.semantic) \cup In(searched.rules), known[f].kept, NEW g \in Fixes,
           Less(FusedScore(searched, g), FusedScore(searched, f)),
           shown = Hydrated(FuseResults(searched))
    PROVE  ShownBefore(f, g)
<1> DEFINE list == Met(searched)
           sorted == Sorted(list, searched)
           top == Top(sorted, TopN)
           kept == {h \in Fixes : known[h].kept}
<1>1. list \in Seq(Fixes) /\ IsInjective(list) /\ f \in In(list)
  BY MetIs
<1>2. \A i \in DOMAIN list : IsFraction(FusedScore(searched, list[i]))
  <2> HIDE DEF list
  <2>1. \A i \in DOMAIN list : known[list[i]].age \in Nat
    BY <1>1, AgeType
  <2> QED BY <2>1, FusedIs
<1>3. IsScored(list, searched)
  BY <1>1, <1>2 DEF IsScored
<1>4. shown = Selected(top, kept)
  BY DEF Hydrated, FuseResults
<1> HIDE DEF list
<1>5. /\ sorted \in Seq(Fixes) /\ IsInjective(sorted) /\ In(sorted) = In(list)
      /\ \A i \in DOMAIN list : /\ PlaceOf(list, searched, i) \in DOMAIN sorted
                                /\ sorted[PlaceOf(list, searched, i)] = list[i]
  BY <1>3, SortedFacts
<1> HIDE DEF sorted
<1>6. TopN \in Nat
  BY RankingAssumption
<1>7. /\ top \in Seq(Fixes) /\ IsInjective(top)
      /\ \A k \in DOMAIN top : k \in DOMAIN sorted /\ top[k] = sorted[k]
  BY <1>5, <1>6, TopIs, TopInjective
<1> HIDE DEF top
<1>8. In(shown) = In(top) \cap kept
  BY <1>4, <1>7, SelectedItems
<1>9. SUFFICES ASSUME g \in In(shown) PROVE f \in In(shown) /\ Rank(shown, f) < Rank(shown, g)
  BY DEF ShownBefore
<1>10. PICK q \in DOMAIN top : top[q] = g
  BY <1>8, <1>9 DEF In
<1>11. PICK j \in DOMAIN list : list[j] = g
  <2>1. g \in In(sorted)
    BY <1>7, <1>10 DEF In
  <2> QED BY <1>5, <2>1 DEF In
<1>12. PICK i \in DOMAIN list : list[i] = f
  BY <1>1 DEF In
<1> DEFINE p == PlaceOf(list, searched, i)
<1>13. p < PlaceOf(list, searched, j)
  <2>1. Ahead(list, searched, i, j)
    BY <1>11, <1>12 DEF Ahead
  <2> QED BY <1>3, <2>1, PlaceOrder
<1>14. PlaceOf(list, searched, j) = q
  <2>1. PlaceOf(list, searched, j) \in DOMAIN sorted /\ sorted[PlaceOf(list, searched, j)] = g
    BY <1>5, <1>11
  <2>2. q \in DOMAIN sorted /\ sorted[q] = g
    BY <1>7, <1>10
  <2> QED BY <1>5, <2>1, <2>2 DEF IsInjective
<1>15. p \in DOMAIN sorted /\ sorted[p] = f
  BY <1>5, <1>12
<1> HIDE DEF p
<1>16. p \in DOMAIN top /\ p < q /\ top[p] = f
  <2>1. p \in Nat /\ p >= 1
    BY <1>5, <1>15
  <2>2. p < q
    BY <1>13, <1>14 DEF p
  <2>3. p \in DOMAIN top
    BY <1>7, <1>10, <2>1, <2>2
  <2> QED BY <1>7, <1>15, <2>2, <2>3
<1>17. f \in kept /\ g \in kept
  <2>1. f \in Fixes
    BY <1>1, InType
  <2> QED BY <1>8, <1>9, <2>1
<1> HIDE DEF kept
<1>18. top[p] \in kept /\ top[q] \in kept
  BY <1>10, <1>16, <1>17
<1>19. /\ top[p] \in In(Selected(top, kept))
       /\ Rank(Selected(top, kept), top[p]) < Rank(Selected(top, kept), top[q])
  BY <1>7, <1>16, <1>18, SelectedOrder
<1> QED BY <1>4, <1>10, <1>16, <1>19

-----------------------------------------------------------------------------
(***************************************************************************)
(* The steps.                                                              *)
(***************************************************************************)
RetrievalInv ==
    /\ known # << >> => IsKnown
    /\ legs # Unsearched => known # << >> /\ IsSearched(legs)
    /\ shown # << >> => legs # Unsearched /\ shown = Hydrated(FuseResults(legs))

(* A search gives a leg. *)
LEMMA TopOfOrder ==
    ASSUME NEW S \in SUBSET Fixes, NEW score, NEW list \in Orders(S, score)
    PROVE  IsLeg(Top(list, Limit))
<1> DEFINE c == Cardinality(S)
<1>1. IsFiniteSet(S) /\ c \in Nat
  BY FixesAssumption, FS_Subset, FS_CardinalityType
<1>2. list \in [1 .. c -> S] /\ IsInjective(list)
  BY DEF Orders, Bijection, Injection
<1> HIDE DEF c
<1>3. list \in Seq(S)
  BY <1>1, <1>2
<1>4. list \in Seq(Fixes)
  BY <1>3
<1>5. Limit \in Nat
  BY SmoothingType
<1> QED BY <1>2, <1>4, <1>5, TopIs, TopInjective DEF IsLeg

LEMMA SearchFinds ==
    ASSUME NEW semantic \in SemanticLegs, NEW rules \in RulesLegs
    PROVE  IsSearched([semantic |-> semantic, rules |-> rules])
<1>1. IsLeg(semantic)
  <2> DEFINE found == {f \in Fixes : known[f].indexed /\ known[f].sameService
                                                      /\ known[f].sameEnvironment}
  <2>1. PICK list \in Orders(found, [f \in found |-> 0]) : semantic = Top(list, Limit)
    BY DEF SemanticLegs
  <2>2. found \in SUBSET Fixes
    OBVIOUS
  <2> HIDE DEF found
  <2> QED BY <2>1, <2>2, TopOfOrder
<1>2. IsLeg(rules)
  <2> DEFINE found == {f \in Fixes : /\ known[f].sameType \/ known[f].sameService
                                     /\ known[f].age <= RulesReach
                                     /\ known[f].pattern}
  <2>1. PICK list \in Orders(found, [f \in found |-> RulesScore(f)]) : rules = Top(list, Limit)
    BY DEF RulesLegs
  <2>2. found \in SUBSET Fixes
    OBVIOUS
  <2> HIDE DEF found
  <2> QED BY <2>1, <2>2, TopOfOrder
<1> QED BY <1>1, <1>2 DEF IsSearched

LEMMA RetrievalStart == ToolsInit => RetrievalInv
BY DEF ToolsInit, RetrievalInit, RetrievalInv

LEMMA RetrievalStep == RetrievalInv /\ [ToolsNext]_tools => RetrievalInv'
<1> SUFFICES ASSUME RetrievalInv, [ToolsNext]_tools PROVE RetrievalInv'
  OBVIOUS
<1>1. ASSUME UNCHANGED retrieval PROVE RetrievalInv'
  <2>1. known' = known /\ legs' = legs /\ shown' = shown
    BY <1>1 DEF retrieval
  <2> QED BY <2>1 DEF RetrievalInv, IsKnown, Hydrated, FuseResults, Sorted, FusedScore
<1>2. CASE Ask
  BY <1>2 DEF Ask, RetrievalInv, IsKnown
<1>3. CASE Search
  <2>1. PICK semantic \in SemanticLegs, rules \in RulesLegs :
            legs' = [semantic |-> semantic, rules |-> rules]
    BY <1>3 DEF Search
  <2>2. known # << >> /\ known' = known /\ shown' = shown /\ legs = Unsearched
    BY <1>3 DEF Search
  <2>3. IsSearched(legs')
    BY <2>1, SearchFinds
  <2>4. shown' = << >>
    BY <2>2 DEF RetrievalInv
  <2> QED BY <2>2, <2>3, <2>4 DEF RetrievalInv, IsKnown
<1>4. CASE RankFixes
  <2>1. /\ legs # Unsearched /\ shown' = Hydrated(FuseResults(legs))
        /\ known' = known /\ legs' = legs
    BY <1>4 DEF RankFixes
  <2>2. shown' = Hydrated(FuseResults(legs))'
    BY <2>1 DEF Hydrated, FuseResults, Sorted, FusedScore
  <2> QED BY <2>1, <2>2 DEF RetrievalInv, IsKnown
<1> QED BY <1>1, <1>2, <1>3, <1>4 DEF ToolsNext, RetrievalNext, tools

LEMMA RetrievalKeeps ==
    ASSUME RetrievalInv, NEW f \in Fixes, NEW g \in Fixes,
           f \in In(legs.semantic) \cup In(legs.rules), known[f].kept,
           IsKnown /\ IsSearched(legs) => Less(FusedScore(legs, g), FusedScore(legs, f))
    PROVE  ShownBefore(f, g)
<1>1. CASE shown = << >>
  <2>1. In(shown) = {}
    BY <1>1, InEmpty
  <2> QED BY <2>1 DEF ShownBefore
<1>2. CASE shown # << >>
  <2>1. IsKnown /\ IsSearched(legs) /\ shown = Hydrated(FuseResults(legs))
    BY <1>2 DEF RetrievalInv
  <2> QED BY <2>1, BetterComesFirst
<1> QED BY <1>1, <1>2

(* For any fixes, searches, ranks and limits within the smoothing: a fix   *)
(* both searches found is shown before any that is no younger and that     *)
(* only one found.                                                         *)
THEOREM AgreementStaysFirst == ToolsSpec => []AgreementComesFirst
<1>1. RetrievalInv => AgreementComesFirst
  <2> SUFFICES ASSUME RetrievalInv, NEW f \in Fixes, NEW g \in Fixes, InBoth(f), InOne(g),
                      known[f].age <= known[g].age, known[f].kept
               PROVE  ShownBefore(f, g)
    BY DEF AgreementComesFirst
  <2>1. f \in In(legs.semantic) /\ f \in In(legs.rules)
    BY DEF InBoth
  <2>2. ~(g \in In(legs.semantic) /\ g \in In(legs.rules))
    BY DEF InOne, InBoth
  <2>3. ASSUME IsKnown, IsSearched(legs) PROVE Less(FusedScore(legs, g), FusedScore(legs, f))
    <3>1. known[f].age \in Nat /\ known[g].age \in Nat
      BY <2>3, AgeType
    <3> QED BY <2>1, <2>2, <2>3, <3>1, AgreementScoresMore
  <2> QED BY <2>1, <2>3, RetrievalKeeps
<1>2. ToolsSpec => ToolsInit /\ [][ToolsNext]_tools
  BY DEF ToolsSpec, HungSpec
<1> QED BY <1>1, <1>2, RetrievalStart, RetrievalStep, PTL

(* And whatever the ranks, a fix is shown before every one that is two     *)
(* half-lives older.                                                       *)
THEOREM StaleStaysLast == ToolsSpec => []StaleComesLast
<1>1. RetrievalInv => StaleComesLast
  <2> SUFFICES ASSUME RetrievalInv, NEW f \in Fixes, NEW g \in Fixes,
                      f \in In(legs.semantic) \cup In(legs.rules),
                      known[g].age >= known[f].age + 2, known[f].kept
               PROVE  ShownBefore(f, g)
    BY DEF StaleComesLast
  <2>1. ASSUME IsKnown, IsSearched(legs) PROVE Less(FusedScore(legs, g), FusedScore(legs, f))
    <3>1. known[f].age \in Nat /\ known[g].age \in Nat
      BY <2>1, AgeType
    <3> QED BY <2>1, <3>1, StaleScoresLess
  <2> QED BY <2>1, RetrievalKeeps
<1>2. ToolsSpec => ToolsInit /\ [][ToolsNext]_tools
  BY DEF ToolsSpec, HungSpec
<1> QED BY <1>1, <1>2, RetrievalStart, RetrievalStep, PTL

===============================================================================
