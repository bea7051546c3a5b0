----------------------------- MODULE CaptureLane ----------------------------
(***************************************************************************)
(* Lane A: an engineer fixes a new issue while hooks on the machine post   *)
(* what is done, until the issue is marked resolved.  The trace lives      *)
(* twice: in the recorder of the process (nodes/capture/recorder.py) and   *)
(* mirrored in the checkpoint of the thread.  The handlers of the session  *)
(* router and finalize_capture run between their awaits:                   *)
(*                                                                         *)
(*   capture_event   : aget_state ; record_event ; aupdate_state           *)
(*   capture_resolve : aget_state ; merge and mark ; extract and store ;   *)
(*                     aupdate_state ; clear                               *)
(*                                                                         *)
(* A request can end between two of them (Die); a restart of the process   *)
(* ends every request and empties the recorder (Crash).                    *)
(***************************************************************************)
EXTENDS Naturals, Sequences, FiniteSets, TraceBaseline, Selections

CONSTANTS
    Events,      \* what the hooks post
    Marker,      \* the event mark_resolved appends
    Stamp,       \* Stamp[e]: the timestamp event e carries
    Clients,     \* requests that can be in flight at once
    MaxEvents,   \* _MAX_EVENTS_PER_THREAD
    MaxRuns,     \* bound: capture runs of the thread
    MaxResolves, \* bound: resolves posted
    MaxOverlaps, \* bound: requests that begin while another is in flight
    MaxDeaths,   \* bound: requests that die
    MaxCrashes   \* bound: restarts of the process

ASSUME EventAssumption ==
    /\ Marker \notin Events
    /\ DOMAIN Kind = Events \cup {Marker}
    /\ Kind[Marker] = "resolution"
    /\ ByHand \notin DOMAIN Kind

ASSUME ClientAssumption == IsFiniteSet(Clients)

ASSUME StampAssumption == DOMAIN Stamp = Events \cup {Marker}

ASSUME CapacityAssumption == MaxEvents \in Nat \ {0}

ASSUME BoundAssumption ==
    /\ MaxRuns \in Nat /\ MaxResolves \in Nat /\ MaxOverlaps \in Nat
    /\ MaxDeaths \in Nat /\ MaxCrashes \in Nat

VARIABLES
    saved,      \* the checkpoint: capture_active, capture_resolved, capture_events, fix_id
    buffer,     \* the recorder's deque of the thread
    flagged,    \* the recorder's resolved flag of the thread
    rows,       \* the fixes table
    pc, job,    \* where each request is, and its locals
    sent,       \* events the hooks have posted
    runs, resolves, overlaps, deaths, crashes,   \* what the bounds count
    acked,      \* history: events acknowledged in this run
    recorded    \* history: what the recorder was given, in its order

requests == <<pc, job>>
bounds == <<resolves, overlaps, deaths, crashes>>
vars == <<saved, buffer, flagged, rows, requests, sent, runs, bounds, acked, recorded>>

Entries == Events \cup {Marker}

NoJob == [event |-> Marker, snap |-> << >>, merged |-> << >>, fix |-> 0, run |-> 0,
          owed |-> {}]

Init ==
    /\ saved = [active |-> FALSE, resolved |-> FALSE, events |-> << >>, fix |-> 0]
    /\ buffer = << >>
    /\ flagged = FALSE
    /\ rows = << >>
    /\ pc = [c \in Clients |-> "idle"]
    /\ job = [c \in Clients |-> NoJob]
    /\ sent = {}
    /\ runs = 0 /\ resolves = 0 /\ overlaps = 0 /\ deaths = 0 /\ crashes = 0
    /\ acked = {}
    /\ recorded = << >>

-----------------------------------------------------------------------------
(***************************************************************************)
(* Traces.                                                                 *)
(***************************************************************************)
\* Variation: a deque without its limit.
PushUnbounded(queue, e) == Append(queue, e)

(* deque(maxlen): the oldest entry makes room. *)
Push(queue, e) == IF Len(queue) = MaxEvents THEN Append(Tail(queue), e) ELSE Append(queue, e)

\* Variation: the recorder's events only.
MergeTakesLive(known, live) == live

\* Variation: what the checkpoint knows goes to the end.
MergeLiveFirst(known, live) ==
    LET seen == {Stamp[e] : e \in In(live)}
    IN live \o Selected(known, {e \in In(known) : Stamp[e] \notin seen})

(* Live entries whose timestamp is not known yet go to the end. *)
Merge(known, live) ==
    LET seen == {Stamp[e] : e \in In(known)}
    IN known \o Selected(live, {e \in In(live) : Stamp[e] \notin seen})

(* What the plan of a trace speaks of. *)
Covered(trace) == Named(Baseline(trace))

(* What a plan is made of; a note need not be in it. *)
Deeds == {e \in Events : Kind[e] \in {"action", "file_touched"}}

(* By these a hook says itself that the issue is resolved. *)
Endings == {e \in Events : Kind[e] = "resolution"}

(* What a trace has behind one of them counts as cleanup and is no step. *)
Cleanup(trace) ==
    {trace[j] : j \in {k \in DOMAIN trace :
                          \E i \in DOMAIN trace : i < k /\ trace[i] \in Endings}}

(* Events that carry the timestamp of another one in the trace. *)
Twins(trace) == {e \in Events : \E d \in In(trace) : d # e /\ Stamp[d] = Stamp[e]}

-----------------------------------------------------------------------------
(***************************************************************************)
(* The lane.                                                               *)
(***************************************************************************)
Finish(c) ==
    /\ pc' = [pc EXCEPT ![c] = "idle"]
    /\ job' = [job EXCEPT ![c] = NoJob]

Goto(c, label, locals) ==
    /\ pc' = [pc EXCEPT ![c] = label]
    /\ job' = [job EXCEPT ![c] = locals]

(* A request begins: alone, or beside others. *)
Begin(c, label, locals) ==
    /\ Goto(c, label, locals)
    /\ IF \A d \in Clients : pc[d] = "idle"
       THEN UNCHANGED overlaps
       ELSE overlaps < MaxOverlaps /\ overlaps' = overlaps + 1

(* emit_new_issue, at the end of a run of the graph on this thread.  The   *)
(* recorder is left as it is.                                              *)
EmitNewIssue ==
    /\ runs < MaxRuns
    /\ runs' = runs + 1
    /\ saved' = [saved EXCEPT !.active = TRUE, !.resolved = FALSE, !.events = << >>]
    /\ acked' = {}
    /\ UNCHANGED <<buffer, flagged, rows, requests, sent, bounds, recorded>>

(* POST capture/event: outside a capture run the event is dropped. *)
ReadForEvent(c) ==
    /\ pc[c] = "idle"
    /\ \E e \in Events \ sent :
           /\ sent' = sent \cup {e}
           /\ IF saved.active
              THEN Begin(c, "record", [NoJob EXCEPT !.event = e, !.snap = saved.events,
                                                    !.run = runs])
              ELSE UNCHANGED <<requests, overlaps>>
    /\ UNCHANGED <<saved, buffer, flagged, rows, runs, resolves, deaths, crashes, acked, recorded>>

RecordEvent(c) ==
    /\ pc[c] = "record"
    /\ buffer' = Push(buffer, job[c].event)
    /\ recorded' = Append(recorded, [event |-> job[c].event, run |-> job[c].run])
    /\ Goto(c, "mirror", job[c])
    /\ UNCHANGED <<saved, flagged, rows, sent, runs, bounds, acked>>

\* Variation: the recorder's trace is mirrored.
MirrorOfRecorder(c) ==
    /\ pc[c] = "mirror"
    /\ saved' = [saved EXCEPT !.events = buffer]
    /\ acked' = IF job[c].run = runs THEN acked \cup {job[c].event} ELSE acked
    /\ Finish(c)
    /\ UNCHANGED <<buffer, flagged, rows, sent, runs, bounds, recorded>>

(* The list that was read, with the event at its end, and the answer 202. *)
MirrorEvent(c) ==
    /\ pc[c] = "mirror"
    /\ saved' = [saved EXCEPT !.events = Append(job[c].snap, job[c].event)]
    /\ acked' = IF job[c].run = runs THEN acked \cup {job[c].event} ELSE acked
    /\ Finish(c)
    /\ UNCHANGED <<buffer, flagged, rows, sent, runs, bounds, recorded>>

(* POST capture/resolve: a thread that is not captured is left alone. *)
ReadForResolve(c) ==
    /\ pc[c] = "idle"
    /\ resolves < MaxResolves
    /\ resolves' = resolves + 1
    /\ IF saved.active
       THEN Begin(c, "merge", [NoJob EXCEPT !.snap = saved.events, !.fix = saved.fix,
                                            !.run = runs, !.owed = acked])
       ELSE UNCHANGED <<requests, overlaps>>
    /\ UNCHANGED <<saved, buffer, flagged, rows, sent, runs, deaths, crashes, acked, recorded>>

(* The live trace is merged into the one that was read; the marker is set  *)
(* unless an earlier resolve has left its own.                             *)
MergeAndMark(c) ==
    LET live == Merge(job[c].snap, buffer)
        marked == Push(buffer, Marker)
    IN /\ pc[c] = "merge"
       /\ buffer' = IF flagged THEN buffer ELSE marked
       /\ flagged' = TRUE
       /\ Goto(c, "store", [job[c] EXCEPT !.merged =
                               IF flagged THEN live ELSE Merge(live, marked)])
       /\ UNCHANGED <<saved, rows, sent, runs, bounds, acked, recorded>>

\* Variation: a resolve stores the trace it read.
RowOfSnapshot(c) == [run |-> job[c].run, trace |-> job[c].snap, owed |-> job[c].owed]

(* The row a resolve commits; owed is history: what it owes to the hooks. *)
Row(c) == [run |-> job[c].run, trace |-> job[c].merged, owed |-> job[c].owed]

(* extract_steps and store_fix.  Without steps nothing is stored and the   *)
(* fix_id stays the one that was read; the model may return steps for a    *)
(* trace that has none.                                                    *)
StoreFix(c) ==
    /\ pc[c] = "store"
    /\ \/ /\ rows' = Append(rows, Row(c))
          /\ Goto(c, "update", [job[c] EXCEPT !.fix = Len(rows')])
       \/ /\ Baseline(job[c].merged) = << >>
          /\ UNCHANGED rows
          /\ Goto(c, "update", job[c])
    /\ UNCHANGED <<saved, buffer, flagged, sent, runs, bounds, acked, recorded>>

\* Variation: the thread stays active.
UpdateStaysActive(c) ==
    /\ pc[c] = "update"
    /\ saved' = [saved EXCEPT !.resolved = TRUE, !.events = job[c].merged, !.fix = job[c].fix]
    /\ Goto(c, "clear", job[c])
    /\ UNCHANGED <<buffer, flagged, rows, sent, runs, bounds, acked, recorded>>

UpdateFinalized(c) ==
    /\ pc[c] = "update"
    /\ saved' = [active |-> FALSE, resolved |-> TRUE, events |-> job[c].merged,
                 fix |-> job[c].fix]
    /\ Goto(c, "clear", job[c])
    /\ UNCHANGED <<buffer, flagged, rows, sent, runs, bounds, acked, recorded>>

\* Variation: only the flag is reset.
ClearFlagOnly(c) ==
    /\ pc[c] = "clear"
    /\ flagged' = FALSE
    /\ Finish(c)
    /\ UNCHANGED <<saved, buffer, rows, sent, runs, bounds, acked, recorded>>

ClearRecorder(c) ==
    /\ pc[c] = "clear"
    /\ buffer' = << >>
    /\ flagged' = FALSE
    /\ Finish(c)
    /\ UNCHANGED <<saved, rows, sent, runs, bounds, acked, recorded>>

Die(c) ==
    /\ pc[c] # "idle"
    /\ deaths < MaxDeaths
    /\ deaths' = deaths + 1
    /\ Finish(c)
    /\ UNCHANGED <<saved, buffer, flagged, rows, sent, runs, resolves, overlaps, crashes, acked, recorded>>

Crash ==
    /\ crashes < MaxCrashes
    /\ crashes' = crashes + 1
    /\ buffer' = << >>
    /\ flagged' = FALSE
    /\ pc' = [c \in Clients |-> "idle"]
    /\ job' = [c \in Clients |-> NoJob]
    /\ UNCHANGED <<saved, rows, sent, runs, resolves, overlaps, deaths, acked, recorded>>

Handler(c) ==
    \/ RecordEvent(c) \/ MirrorEvent(c)
    \/ MergeAndMark(c) \/ StoreFix(c) \/ UpdateFinalized(c) \/ ClearRecorder(c)

Next ==
    \/ EmitNewIssue
    \/ Crash
    \/ \E c \in Clients : ReadForEvent(c) \/ ReadForResolve(c) \/ Handler(c) \/ Die(c)

Spec == Init /\ [][Next]_vars

-----------------------------------------------------------------------------
(***************************************************************************)
(* Types.                                                                  *)
(***************************************************************************)
Jobs == [event: Entries, snap: Seq(Entries), merged: Seq(Entries), fix: Nat, run: Nat,
         owed: SUBSET Events]

(* The checkpoint, the recorder, the table and the requests keep the shape *)
(* the code gives them; the recorder's deque never exceeds its limit and   *)
(* a fix_id names a row.                                                   *)
TypeOK ==
    /\ saved \in [active: BOOLEAN, resolved: BOOLEAN, events: Seq(Entries), fix: Nat]
    /\ buffer \in Seq(Entries) /\ Len(buffer) <= MaxEvents
    /\ flagged \in BOOLEAN
    /\ rows \in Seq([run: Nat, trace: Seq(Entries), owed: SUBSET Events])
    /\ pc \in [Clients -> {"idle", "record", "mirror", "merge", "store", "update", "clear"}]
    /\ job \in [Clients -> Jobs]
    /\ sent \subseteq Events
    /\ runs \in Nat /\ resolves \in Nat /\ overlaps \in Nat /\ deaths \in Nat /\ crashes \in Nat
    /\ acked \subseteq Events
    /\ recorded \in Seq([event: Events, run: Nat])

-----------------------------------------------------------------------------
(***************************************************************************)
(* What the lane promises.                                                 *)
(***************************************************************************)

(* While a run is captured, every event answered 202 is in the checkpoint. *)
NoAckIsLost == saved.active => acked \subseteq In(saved.events)

(* A restart loses nothing the hooks were told is kept, as long as they    *)
(* did not post at the same time.                                          *)
AckedIsMirrored == overlaps = 0 => NoAckIsLost

(* Every action and every file the hooks were told is kept before the      *)
(* resolve is named by the plan of the stored fix, or stands in its trace  *)
(* behind a resolution that a hook posted, where the plan ends.  A fix is  *)
(* complete in this way over restarts, dead requests, earlier resolves     *)
(* that failed half way and a full recorder, with any timestamps.          *)
StoredFixIsComplete ==
    overlaps = 0 =>
        \A k \in DOMAIN rows :
            rows[k].owed \cap Deeds \subseteq Covered(rows[k].trace) \cup Cleanup(rows[k].trace)

(* As long as one resolve was posted and the recorder holds all, its fix   *)
(* is complete although events in flight overwrite each other in the       *)
(* checkpoint; what it may miss shares its timestamp with what it has.     *)
LoneResolveIsComplete ==
    resolves <= 1 /\ crashes = 0 /\ Cardinality(sent) <= MaxEvents =>
        \A k \in DOMAIN rows :
            rows[k].owed \cap Deeds \subseteq
                Covered(rows[k].trace) \cup Cleanup(rows[k].trace) \cup Twins(rows[k].trace)

RowsOf(n) == {k \in DOMAIN rows : rows[k].run = n}

(* A run becomes one fix: each further row takes another resolve in flight *)
(* at the same time, or a resolve cut off between the commit of the row    *)
(* and the checkpoint, and repeated.                                       *)
RowsAreBounded ==
    \A n \in 1 .. runs : Cardinality(RowsOf(n)) <= 1 + overlaps + deaths + crashes

(* After finalize the thread says what was stored: aget_state returns the  *)
(* trace the row was made of, unless an event in flight replaces it.       *)
FinalizedTraceIsKept ==
    overlaps = 0 /\ ~saved.active /\ saved.fix # 0 /\ rows[saved.fix].run = runs =>
        saved.events = rows[saved.fix].trace

(* What was done in one run is a step of the fix of one run: the recorder  *)
(* and the checkpoint that a resolve leaves behind give nothing to the     *)
(* next, unless the resolve was cut off.                                   *)
NoEventInTwoRuns ==
    overlaps + deaths + crashes = 0 =>
        \A k, m \in DOMAIN rows :
            rows[k].run # rows[m].run =>
                Covered(rows[k].trace) \cap Covered(rows[m].trace) \subseteq {ByHand}

Order(e) == {k \in DOMAIN recorded : recorded[k].event = e}

InOrder(trace) ==
    \A i, j \in DOMAIN trace :
        i < j /\ trace[i] # Marker /\ trace[j] # Marker =>
            \A m \in Order(trace[i]), n \in Order(trace[j]) : m < n

(* The steps of a fix are replayed in the order of its trace, so the trace *)
(* of a row has the order in which the recorder took the events.           *)
TraceInOrder == \A k \in DOMAIN rows : InOrder(rows[k].trace)

(* The order survives restarts; only requests at the same time, a request  *)
(* that died between record and mirror, or a run that was never finalized  *)
(* disturbs it.                                                            *)
OrderIsKept == overlaps = 0 /\ deaths = 0 /\ runs <= 1 => TraceInOrder

=============================================================================
