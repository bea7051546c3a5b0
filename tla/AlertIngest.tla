---------------------------- MODULE AlertIngest -----------------------------
(***************************************************************************)
(* Code Scanning alerts become threads (integrations/github/poller.py,     *)
(* api/routers/ingest.py).  A poller lists the open alerts page by page    *)
(* when the ETag of the index has changed; webhooks and manual triggers    *)
(* start tasks for single alerts.  Each ingests an alert in the same way:  *)
(* ask ingestion_seen, run the graph on the thread of the alert, mark it.  *)
(*                                                                         *)
(* GitHub is external: alerts are numbered in the order they are raised,   *)
(* listed newest first, and their number stands for the ETag.              *)
(***************************************************************************)
EXTENDS Naturals, FiniteSets

CONSTANTS
    Pollers,      \* run_poller loops, and polls triggered by hand
    Tasks,        \* background tasks of webhooks and manual triggers
    PageSize,     \* per_page
    NoTag,        \* no ETag
    MaxAlerts,    \* bound: alerts raised
    MaxRequests,  \* bound: webhooks and manual triggers
    MaxFailures,  \* bound: calls that raise
    MaxDeaths     \* bound: actors that are killed

ASSUME ActorAssumption ==
    /\ Pollers \cap Tasks = {}
    /\ IsFiniteSet(Pollers) /\ IsFiniteSet(Tasks)

ASSUME PageAssumption == PageSize \in Nat \ {0} /\ NoTag \notin Nat

ASSUME BoundAssumption ==
    MaxAlerts \in Nat /\ MaxRequests \in Nat /\ MaxFailures \in Nat /\ MaxDeaths \in Nat

VARIABLES
    raised,      \* GitHub: alerts 1 .. raised are open
    seen,        \* the ingestion_seen table
    runs,        \* runs[a]: graph runs begun on the thread of alert a
    lost,        \* lost[a]: those of them whose end was not marked
    poll,        \* the locals of each poller
    at, alert,   \* where each actor is in ingest_one_alert, and with what
    requests, failures, deaths

counts == <<requests, failures, deaths>>
vars == <<raised, seen, runs, lost, poll, at, alert, counts>>

Actors == Pollers \cup Tasks

Alerts == 1 .. MaxAlerts

Asleep(etag) == [pc |-> "sleep", etag |-> etag, fresh |-> NoTag, page |-> 0, todo |-> {},
                 more |-> FALSE]

Init ==
    /\ raised = 0
    /\ seen = {}
    /\ runs = [a \in Alerts |-> 0]
    /\ lost = [a \in Alerts |-> 0]
    /\ poll = [p \in Pollers |-> Asleep(NoTag)]
    /\ at = [x \in Actors |-> "idle"]
    /\ alert = [x \in Actors |-> 0]
    /\ requests = 0 /\ failures = 0 /\ deaths = 0

Raise ==
    /\ raised < MaxAlerts
    /\ raised' = raised + 1
    /\ UNCHANGED <<seen, runs, lost, poll, at, alert, counts>>

(* A call to GitHub, the database or the graph raises. *)
Failure == failures < MaxFailures /\ failures' = failures + 1 /\ UNCHANGED <<requests, deaths>>

-----------------------------------------------------------------------------
(***************************************************************************)
(* ingest_one_alert.                                                       *)
(***************************************************************************)
Goto(x, label) == at' = [at EXCEPT ![x] = label] /\ UNCHANGED alert

Leave(x) == at' = [at EXCEPT ![x] = "idle"] /\ alert' = [alert EXCEPT ![x] = 0]

HasSeen(x) ==
    /\ at[x] = "check"
    /\ IF alert[x] \in seen THEN Leave(x) ELSE Goto(x, "start")
    /\ UNCHANGED <<raised, seen, runs, lost, poll, counts>>

(* Outside the try: a poll is given up, to start over with its old ETag.   *)
HasSeenFails(x) ==
    /\ at[x] = "check"
    /\ Failure
    /\ Leave(x)
    /\ poll' = IF x \in Pollers THEN [poll EXCEPT ![x] = Asleep(@.etag)] ELSE poll
    /\ UNCHANGED <<raised, seen, runs, lost>>

(* ainvoke, which starts at intake, up to the consent gate. *)
StartRun(x) ==
    /\ at[x] = "start"
    /\ runs' = [runs EXCEPT ![alert[x]] = @ + 1]
    /\ Goto(x, "run")
    /\ UNCHANGED <<raised, seen, lost, poll, counts>>

FinishRun(x) ==
    /\ at[x] = "run"
    /\ Goto(x, "mark")
    /\ UNCHANGED <<raised, seen, runs, lost, poll, counts>>

\* Variation: the end of the task is taken for the mark.
MarkForgotten(x) ==
    /\ at[x] = "mark"
    /\ Leave(x)
    /\ UNCHANGED <<raised, seen, runs, lost, poll, counts>>

MarkSeen(x) ==
    /\ at[x] = "mark"
    /\ seen' = seen \cup {alert[x]}
    /\ Leave(x)
    /\ UNCHANGED <<raised, runs, lost, poll, counts>>

\* Variation: marked however the run ends.
IngestFailsMarked(x) ==
    /\ at[x] \in {"run", "mark"}
    /\ Failure
    /\ lost' = [lost EXCEPT ![alert[x]] = @ + 1]
    /\ seen' = seen \cup {alert[x]}
    /\ Leave(x)
    /\ UNCHANGED <<raised, runs, poll>>

(* The run or the mark raises, which is logged. *)
IngestFails(x) ==
    /\ at[x] \in {"run", "mark"}
    /\ Failure
    /\ lost' = [lost EXCEPT ![alert[x]] = @ + 1]
    /\ Leave(x)
    /\ UNCHANGED <<raised, seen, runs, poll>>

-----------------------------------------------------------------------------
(***************************************************************************)
(* poll_once and run_poller.                                               *)
(***************************************************************************)
EndPoll(p) == poll' = [poll EXCEPT ![p] = Asleep(@.fresh)]

(* get_index_etag, whose answer may carry no ETag.  When it raises, the    *)
(* poller sleeps again as it was.                                          *)
HeadIndex(p) ==
    /\ poll[p].pc = "sleep"
    /\ \E fresh \in {raised, NoTag} :
           /\ fresh = NoTag \/ fresh # poll[p].etag
           /\ poll' = [poll EXCEPT ![p].pc = "list", ![p].fresh = fresh]
    /\ UNCHANGED <<raised, seen, runs, lost, at, alert, counts>>

\* Variation: the list reaches one too far.
PageFromZero(n) ==
    {a \in 0 .. raised : n * PageSize <= raised - a /\ raised - a < (n + 1) * PageSize}

(* A page of the list, newest first. *)
Page(n) == {a \in 1 .. raised : n * PageSize <= raised - a /\ raised - a < (n + 1) * PageSize}

(* 304 for the first page ends the poll. *)
NotModified(p) ==
    /\ poll[p].pc = "list" /\ poll[p].page = 0
    /\ poll[p].etag = raised
    /\ EndPoll(p)
    /\ UNCHANGED <<raised, seen, runs, lost, at, alert, counts>>

ListPage(p) ==
    /\ poll[p].pc = "list"
    /\ poll[p].page # 0 \/ poll[p].etag # raised
    /\ LET n == poll[p].page
       IN poll' = [poll EXCEPT ![p].pc = "ingest", ![p].todo = Page(n),
                               ![p].page = n + 1,
                               ![p].more = (n + 1) * PageSize < raised]
    /\ UNCHANGED <<raised, seen, runs, lost, at, alert, counts>>

ListFails(p) ==
    /\ poll[p].pc = "list"
    /\ Failure
    /\ poll' = [poll EXCEPT ![p] = Asleep(@.etag)]
    /\ UNCHANGED <<raised, seen, runs, lost, at, alert>>

TakeAlert(p) ==
    /\ poll[p].pc = "ingest" /\ at[p] = "idle"
    /\ \E a \in poll[p].todo :
           /\ \A b \in poll[p].todo : b <= a
           /\ poll' = [poll EXCEPT ![p].todo = @ \ {a}]
           /\ alert' = [alert EXCEPT ![p] = a]
    /\ at' = [at EXCEPT ![p] = "check"]
    /\ UNCHANGED <<raised, seen, runs, lost, counts>>

\* Variation: the ETag is the one the index has at the end.
EtagAtTheEnd(p) ==
    /\ poll[p].pc = "ingest" /\ at[p] = "idle" /\ poll[p].todo = {}
    /\ IF poll[p].more
       THEN poll' = [poll EXCEPT ![p].pc = "list"]
       ELSE poll' = [poll EXCEPT ![p] = Asleep(raised)]
    /\ UNCHANGED <<raised, seen, runs, lost, at, alert, counts>>

\* Variation: the first page is taken for the list.
FirstPageOnly(p) ==
    /\ poll[p].pc = "ingest" /\ at[p] = "idle" /\ poll[p].todo = {}
    /\ EndPoll(p)
    /\ UNCHANGED <<raised, seen, runs, lost, at, alert, counts>>

(* The next page, or the end of the poll. *)
PageDone(p) ==
    /\ poll[p].pc = "ingest" /\ at[p] = "idle" /\ poll[p].todo = {}
    /\ IF poll[p].more THEN poll' = [poll EXCEPT ![p].pc = "list"] ELSE EndPoll(p)
    /\ UNCHANGED <<raised, seen, runs, lost, at, alert, counts>>

-----------------------------------------------------------------------------
(***************************************************************************)
(* Webhooks, manual triggers, and processes that are killed.               *)
(***************************************************************************)
(* The task has fetched its alert; when that fails, it is gone. *)
Request(t) ==
    /\ at[t] = "idle"
    /\ requests < MaxRequests
    /\ requests' = requests + 1
    /\ at' = [at EXCEPT ![t] = "check"]
    /\ \E a \in 1 .. raised : alert' = [alert EXCEPT ![t] = a]
    /\ UNCHANGED <<raised, seen, runs, lost, poll, failures, deaths>>

(* A poller that is started again has no ETag. *)
Kill(x) ==
    /\ deaths < MaxDeaths
    /\ deaths' = deaths + 1
    /\ lost' = IF at[x] \in {"run", "mark"} THEN [lost EXCEPT ![alert[x]] = @ + 1] ELSE lost
    /\ Leave(x)
    /\ poll' = IF x \in Pollers THEN [poll EXCEPT ![x] = Asleep(NoTag)] ELSE poll
    /\ UNCHANGED <<raised, seen, runs, requests, failures>>

-----------------------------------------------------------------------------
Ingest(x) ==
    HasSeen(x) \/ HasSeenFails(x) \/ StartRun(x) \/ FinishRun(x) \/ MarkSeen(x) \/ IngestFails(x)

Poll(p) ==
    HeadIndex(p) \/ NotModified(p) \/ ListPage(p) \/ ListFails(p) \/ TakeAlert(p) \/ PageDone(p)

Next ==
    \/ Raise
    \/ \E p \in Pollers : Poll(p)
    \/ \E t \in Tasks : Request(t)
    \/ \E x \in Actors : Ingest(x) \/ Kill(x)

Spec == Init /\ [][Next]_vars

(* Every poller goes on polling and every actor finishes what it began. *)
FairSpec ==
    /\ Spec
    /\ \A p \in Pollers : WF_vars(Poll(p))
    /\ \A x \in Actors : WF_vars(Ingest(x))

-----------------------------------------------------------------------------
(***************************************************************************)
(* Types.                                                                  *)
(***************************************************************************)
Tags == 0 .. MaxAlerts \cup {NoTag}

Polls == [pc: {"sleep", "list", "ingest"}, etag: Tags, fresh: Tags, page: Nat,
          todo: SUBSET Alerts, more: BOOLEAN]

(* GitHub, the table, the threads and the actors keep their types; an      *)
(* actor that is not idle has an alert.                                    *)
TypeOK ==
    /\ raised \in 0 .. MaxAlerts
    /\ seen \subseteq Alerts
    /\ runs \in [Alerts -> Nat] /\ lost \in [Alerts -> Nat]
    /\ poll \in [Pollers -> Polls]
    /\ at \in [Actors -> {"idle", "check", "start", "run", "mark"}]
    /\ alert \in [Actors -> Alerts \cup {0}]
    /\ \A x \in Actors : at[x] # "idle" => alert[x] \in Alerts
    /\ requests \in Nat /\ failures \in Nat /\ deaths \in Nat

-----------------------------------------------------------------------------
(***************************************************************************)
(* What ingestion promises.                                                *)
(***************************************************************************)

(* The ETag a poller keeps is never ahead of its work: every alert that    *)
(* was in the index of that ETag is marked, or its run was lost, although  *)
(* alerts raised meanwhile shift the pages and tasks ingest beside it.     *)
NoAlertIsMissed ==
    \A p \in Pollers :
        poll[p].etag # NoTag =>
            \A a \in 1 .. poll[p].etag : a \in seen \/ lost[a] > 0

(* An alert is marked only after the graph has run on its thread and left  *)
(* it for the engineer: what is skipped from then on has a thread.         *)
SeenHasRun == \A a \in seen : runs[a] > lost[a]

(* Runs on one thread are at most what was lost and one for each actor     *)
(* that asked before the first mark: a replayed webhook starts none.       *)
RunsAreBounded == \A a \in Alerts : runs[a] <= lost[a] + Cardinality(Actors)

(* Every alert that is raised is ingested, or its run was lost: polling    *)
(* again catches what a webhook or a failed poll has missed.               *)
EveryAlertIsTaken == \A a \in Alerts : (a <= raised) ~> (a \in seen \/ lost[a] > 0)

(* poller.py: no two graph runs are started for the same alert.            *)
OneRunPerAlert == \A a \in Alerts : runs[a] <= 1 + lost[a]

=============================================================================
