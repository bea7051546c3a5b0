--------------------------- MODULE Categorization ---------------------------
(***************************************************************************)
(* Phase 1: the open issues become a workbook.  A run lists them page by   *)
(* page (graphql_client.py or issues_client.py), makes a row of each       *)
(* (pipeline.py: from a /driver URL, else by the model, which is called    *)
(* with retries and under a semaphore, llm_client.py) and writes the book  *)
(* (service.py).  The scheduler starts a run every day, the API and the    *)
(* command line start others.                                              *)
(*                                                                         *)
(* GitHub is external: the open issues are a sequence in the order of the  *)
(* listing, and page n is what stands at its place when it is asked for.   *)
(* GraphQL lists by creation; REST by last update, so an update moves an   *)
(* issue to the front.  The model is external: its answer is valid or not. *)
(***************************************************************************)
EXTENDS Naturals, Sequences, FiniteSets, Functions, Selections

CONSTANTS
    Issues,       \* issues of the repository
    HasUrl,       \* those with a /driver URL
    Skipped,      \* listed items without a record: parse_issue rejects them, or pull requests
    Listings,     \* bound: listings that GitHub can begin with, and files of issues
    Runs,         \* runs that can be under way at once
    PageSize,     \* graphql_page_size, issues_per_page
    MaxPages,     \* graphql_max_pages, issues_max_pages
    Limits,       \* max_issues of the requests
    NoLimit,      \* no max_issues
    Concurrency,  \* max_concurrency
    MaxRetries,   \* gpt_oss_max_retries
    ParseRetries, \* parse_retries
    MaxChanges,   \* bound: issues that are opened, closed or updated
    MaxFaults     \* bound: calls that raise or answer nonsense, and killed runs

ASSUME IssueAssumption ==
    /\ HasUrl \cup Skipped \subseteq Issues
    /\ \A s \in Listings : s \in Seq(Issues) /\ IsInjective(s)

ASSUME SizeAssumption ==
    /\ {PageSize, MaxPages, Concurrency, MaxRetries} \subseteq Nat \ {0}
    /\ NoLimit \notin Nat /\ Limits \subseteq (Nat \ {0}) \cup {NoLimit}
    /\ {ParseRetries, MaxChanges, MaxFaults} \subseteq Nat

VARIABLES
    graphql,   \* the setting categorization_use_graphql
    open,      \* GitHub: the open issues, in the order of the listing
    raised,    \* GitHub: the issues opened so far
    run,       \* the runs
    changes, faults

vars == <<graphql, open, raised, run, changes, faults>>

Idle == [pc |-> "idle", daily |-> FALSE, force |-> FALSE, limit |-> NoLimit, page |-> 0, records |-> << >>, slots |-> << >>,
         permits |-> Concurrency, start |-> << >>, seen |-> {}, capped |-> FALSE]

Waiting == [pc |-> "wait", parse |-> 0, tries |-> 0, calls |-> 0, method |-> "none"]

Init ==
    /\ graphql \in BOOLEAN
    /\ open \in Listings
    /\ raised = In(open)
    /\ run = [r \in Runs |-> Idle]
    /\ changes = 0 /\ faults = 0

-----------------------------------------------------------------------------
(***************************************************************************)
(* GitHub.  What happens while a run lists is remembered in its seen.      *)
(***************************************************************************)
Without(i) == Selected(open, Issues \ {i})

Change(kind) ==
    /\ changes < MaxChanges
    /\ changes' = changes + 1
    /\ run' = [r \in Runs |->
                  IF run[r].pc = "list" THEN [run[r] EXCEPT !.seen = @ \cup {kind}] ELSE run[r]]
    /\ UNCHANGED <<graphql, faults>>

OpenIssue(i) ==
    /\ i \notin raised
    /\ open' = <<i>> \o open
    /\ raised' = raised \cup {i}
    /\ Change("opened")

CloseIssue(i) ==
    /\ i \in In(open)
    /\ open' = Without(i)
    /\ UNCHANGED raised
    /\ Change("closed")

UpdateIssue(i) ==
    /\ ~graphql /\ i \in In(open)
    /\ open' = <<i>> \o Without(i)
    /\ UNCHANGED raised
    /\ Change("updated")

-----------------------------------------------------------------------------
(***************************************************************************)
(* _collect_open_issues.                                                   *)
(***************************************************************************)
Step(r, to) == run' = [run EXCEPT ![r] = to] /\ UNCHANGED <<graphql, open, raised, changes>>

Fault == faults < MaxFaults /\ faults' = faults + 1

Started == [Idle EXCEPT !.pc = "list", !.start = open]

(* POST issues/categorize/run, or the command line. *)
StartRun(r, force, limit) ==
    /\ run[r].pc = "idle"
    /\ Step(r, [Started EXCEPT !.force = force, !.limit = limit])
    /\ UNCHANGED faults

(* The scheduler wakes up; it awaits its run before it sleeps again. *)
Fire(r) ==
    /\ run[r].pc = "idle"
    /\ \A q \in Runs : ~run[q].daily
    /\ Step(r, [Started EXCEPT !.daily = TRUE])
    /\ UNCHANGED faults

\* Variation: the pages start one too far.
PageOffByOne(n) ==
    LET upto == (n + 1) * PageSize + 1
    IN SubSeq(open, n * PageSize + 2, IF upto < Len(open) THEN upto ELSE Len(open))

Page(n) ==
    LET upto == (n + 1) * PageSize
    IN SubSeq(open, n * PageSize + 1, IF upto < Len(open) THEN upto ELSE Len(open))

Parsed(items) == Selected(items, Issues \ Skipped)

Full(records, limit) == limit # NoLimit /\ Len(records) >= limit

(* The records, up to max_issues. *)
Trim(records, limit) == IF Full(records, limit) THEN SubSeq(records, 1, limit) ELSE records

(* The batch: each record waits for the semaphore. *)
Batch(p) == [p EXCEPT !.pc = "rows", !.slots = [k \in DOMAIN p.records |-> Waiting]]

(* A page, and the next one unless it was the last, max_issues records are *)
(* there, or the cap on pages is reached.                                  *)
ListPage(r) ==
    LET p == run[r]
        records == Trim(p.records \o Parsed(Page(p.page)), p.limit)
        more == (p.page + 1) * PageSize < Len(open) /\ ~Full(records, p.limit)
        next == [p EXCEPT !.page = @ + 1, !.records = records]
    IN /\ p.pc = "list"
       /\ \/ more /\ next.page < MaxPages /\ Step(r, next)
          \/ more /\ next.page = MaxPages /\ Step(r, Batch([next EXCEPT !.capped = TRUE]))
          \/ ~more /\ Step(r, Batch(next))
       /\ UNCHANGED faults

(* categorize_issues --from-json: max_issues cuts the items of the file    *)
(* before they are parsed, and no record is no batch.                      *)
RunFromJson(r, file, force, limit) ==
    LET records == Parsed(Trim(file, limit))
        p == [Idle EXCEPT !.force = force, !.limit = limit, !.records = records, !.seen = {"file"}]
    IN /\ run[r].pc = "idle"
       /\ records # << >>
       /\ Step(r, Batch(p))
       /\ UNCHANGED faults

-----------------------------------------------------------------------------
(***************************************************************************)
(* categorize_many: a task for each record, under a semaphore.             *)
(***************************************************************************)
Task(r, k) == run[r].pc = "rows" /\ k \in DOMAIN run[r].slots

(* The semaphore lets the tasks in first come, first served. *)
Enters(r, k) ==
    /\ Task(r, k)
    /\ run[r].permits > 0
    /\ run[r].slots[k].pc = "wait"
    /\ \A j \in 1 .. (k - 1) : run[r].slots[j].pc # "wait"

(* The URL decides, unless the run forces the model. *)
ByUrl(r, k) == ~run[r].force /\ run[r].records[k] \in HasUrl

(* There is no await on this way: the permit comes and goes in one step. *)
RowByUrl(r, k) ==
    /\ Enters(r, k) /\ ByUrl(r, k)
    /\ Step(r, [run[r] EXCEPT !.slots[k].pc = "done", !.slots[k].method = "url"])
    /\ UNCHANGED faults

EnterCall(r, k) ==
    /\ Enters(r, k) /\ ~ByUrl(r, k)
    /\ Step(r, [run[r] EXCEPT !.permits = @ - 1, !.slots[k].pc = "call"])
    /\ UNCHANGED faults

-----------------------------------------------------------------------------
(***************************************************************************)
(* chat_structured: up to ParseRetries + 1 answers, each asked for with up *)
(* to MaxRetries requests.  A request that raises for the last time raises *)
(* through, since tenacity is told to reraise; the task of the record      *)
(* catches what its call raises.                                           *)
(***************************************************************************)
Calling(r, k) == Task(r, k) /\ run[r].slots[k].pc = "call"

(* The slot after another request. *)
Called(r, k) == [run[r].slots[k] EXCEPT !.calls = @ + 1]

Goes(r, k, slot) == Step(r, [run[r] EXCEPT !.slots[k] = slot])

\* Variation: the permit is not given back.
EndsWithoutPermit(r, k, method) == Goes(r, k, [Called(r, k) EXCEPT !.pc = "done", !.method = method])

(* The task of the record ends with a row and gives its permit back. *)
Ends(r, k, method) ==
    Step(r, [run[r] EXCEPT !.permits = @ + 1,
                           !.slots[k] = [Called(r, k) EXCEPT !.pc = "done", !.method = method]])

ModelAnswers(r, k) ==
    /\ Calling(r, k)
    /\ Ends(r, k, "nlp")
    /\ UNCHANGED faults

\* Variation: one answer more than the parse retries allow.
AnswerIsInvalidOften(r, k) ==
    /\ Calling(r, k)
    /\ Fault
    /\ LET slot == Called(r, k)
       IN IF slot.parse <= ParseRetries
          THEN Goes(r, k, [slot EXCEPT !.parse = @ + 1, !.tries = 0])
          ELSE Ends(r, k, "fallback")

(* Not the JSON that was asked for: the model is asked again, with fresh   *)
(* requests, or the row is uncategorized.                                  *)
AnswerIsInvalid(r, k) ==
    /\ Calling(r, k)
    /\ Fault
    /\ LET slot == Called(r, k)
       IN IF slot.parse < ParseRetries
          THEN Goes(r, k, [slot EXCEPT !.parse = @ + 1, !.tries = 0])
          ELSE Ends(r, k, "fallback")

\* Variation: a request that raises is sent once too often.
RequestRaisesLate(r, k) ==
    /\ Calling(r, k)
    /\ Fault
    /\ LET slot == Called(r, k)
       IN IF slot.tries < MaxRetries THEN Goes(r, k, [slot EXCEPT !.tries = @ + 1])
                                     ELSE Ends(r, k, "fallback")

(* An error of the API, the network or a timeout. *)
RequestRaises(r, k) ==
    /\ Calling(r, k)
    /\ Fault
    /\ LET slot == Called(r, k)
       IN IF slot.tries + 1 < MaxRetries THEN Goes(r, k, [slot EXCEPT !.tries = @ + 1])
                                         ELSE Ends(r, k, "fallback")

(* An error that is not retried, as of a completion without choices. *)
RequestBreaks(r, k) ==
    /\ Calling(r, k)
    /\ Fault
    /\ Ends(r, k, "fallback")

Rowed(r) == run[r].pc = "rows" /\ \A k \in DOMAIN run[r].slots : run[r].slots[k].pc = "done"

\* Variation: the loop of the scheduler ends with the run that failed.
FailsForGood(r) ==
    /\ run[r].pc = "list" \/ Rowed(r)
    /\ Fault
    /\ Step(r, [Idle EXCEPT !.daily = run[r].daily])

(* Five attempts at a page were not enough, or the workbook cannot be      *)
(* written: the run is over, the workbook stays as it was.                 *)
Fails(r) ==
    /\ run[r].pc = "list" \/ Rowed(r)
    /\ Fault
    /\ Step(r, Idle)

(* gather returns, and write_workbook runs without an await. *)
WriteWorkbook(r) ==
    /\ Rowed(r)
    /\ Step(r, Idle)
    /\ UNCHANGED faults

(* A request is cancelled, a process is stopped; the scheduler comes back  *)
(* with the process.                                                       *)
Kill(r) ==
    /\ run[r].pc # "idle"
    /\ Fault
    /\ Step(r, Idle)

-----------------------------------------------------------------------------
Handler(r) ==
    \/ ListPage(r) \/ Fails(r) \/ WriteWorkbook(r)
    \/ \E k \in DOMAIN run[r].slots :
           \/ RowByUrl(r, k) \/ EnterCall(r, k)
           \/ ModelAnswers(r, k) \/ AnswerIsInvalid(r, k)
           \/ RequestRaises(r, k) \/ RequestBreaks(r, k)

Next ==
    \/ \E i \in Issues : OpenIssue(i) \/ CloseIssue(i) \/ UpdateIssue(i)
    \/ \E r \in Runs, force \in BOOLEAN, limit \in Limits :
           StartRun(r, force, limit) \/ \E file \in Listings : RunFromJson(r, file, force, limit)
    \/ \E r \in Runs : Fire(r) \/ Handler(r) \/ Kill(r)

Spec == Init /\ [][Next]_vars

(* Handlers run on, and the sleep of the scheduler ends: strong fairness,  *)
(* since in the model, not in the code, requests may leave it no place.    *)
FairSpec == Spec /\ SF_vars(\E r \in Runs : Fire(r)) /\ \A r \in Runs : WF_vars(Handler(r))

-----------------------------------------------------------------------------
(***************************************************************************)
(* Types.                                                                  *)
(***************************************************************************)
Slots == [pc: {"wait", "call", "done"}, parse: 0 .. ParseRetries, tries: 0 .. (MaxRetries - 1),
          calls: Nat, method: {"none", "url", "nlp", "fallback"}]

RunRecords ==
    [pc: {"idle", "list", "rows"}, daily: BOOLEAN, force: BOOLEAN, limit: Limits \cup {NoLimit},
     page: 0 .. MaxPages, records: Seq(Issues),
     slots: Seq(Slots), permits: 0 .. Concurrency, start: Seq(Issues),
     seen: SUBSET {"opened", "closed", "updated", "file"}, capped: BOOLEAN]

(* GitHub and the runs keep their shape; a run has permits and attempts    *)
(* within their limits, and no more records than it may have.              *)
TypeOK ==
    /\ graphql \in BOOLEAN
    /\ open \in Seq(Issues) /\ raised \subseteq Issues
    /\ run \in [Runs -> RunRecords]
    /\ \A r \in Runs : run[r].limit # NoLimit => Len(run[r].records) <= run[r].limit
    /\ changes \in 0 .. MaxChanges /\ faults \in 0 .. MaxFaults

-----------------------------------------------------------------------------
(***************************************************************************)
(* What a run promises.                                                    *)
(***************************************************************************)
Listed(r) == run[r].pc = "rows"

(* When nothing happens while a run lists, its records are the issues that *)
(* were open, each once and in their order, as far as the caps on pages    *)
(* and issues allow: the pages meet without a gap or an overlap.           *)
ListingIsExact ==
    \A r \in Runs :
        Listed(r) /\ run[r].seen = {} =>
            LET reach == MaxPages * PageSize
                start == run[r].start
                upto == IF reach < Len(start) THEN reach ELSE Len(start)
            IN run[r].records = Trim(Parsed(SubSeq(start, 1, upto)), run[r].limit)

(* Issues that are opened while a run lists shift the pages, but they hide *)
(* none: what was open before is among the records, unless a cap was hit.  *)
OpeningHidesNothing ==
    \A r \in Runs :
        LET p == run[r]
        IN Listed(r) /\ p.seen \subseteq {"opened"} /\ ~p.capped /\ ~Full(p.records, p.limit) =>
               In(p.start) \ Skipped \subseteq In(p.records)

(* One record costs at most MaxRetries requests for each answer, however   *)
(* errors and nonsense follow each other, and none when a URL decides.     *)
CallsAreBounded ==
    \A r \in Runs : \A k \in DOMAIN run[r].slots :
        LET slot == run[r].slots[k]
        IN /\ slot.calls <= (ParseRetries + 1) * MaxRetries
           /\ ~run[r].force /\ run[r].records[k] \in HasUrl => slot.calls = 0

(* No permit is lost or gained on any way a task ends: those that are free *)
(* and those of the calls under way are the ones the run began with.       *)
PermitsAddUp ==
    \A r \in Runs :
        LET calling == {k \in DOMAIN run[r].slots : run[r].slots[k].pc = "call"}
        IN run[r].permits + Cardinality(calling) = Concurrency

(* A run that was started ends, with a row for every record or given up:   *)
(* no task waits for a permit for ever.                                    *)
RunEnds == \A r \in Runs : (run[r].pc # "idle") ~> (run[r].pc = "idle")

(* The scheduler goes on after a run that failed.                          *)
SchedulerGoesOn == []<>(\E r \in Runs : run[r].daily /\ run[r].pc = "list")

=============================================================================
