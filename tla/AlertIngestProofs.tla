------------------------- MODULE AlertIngestProofs -------------------------
(***************************************************************************)
(* Proofs about AlertIngest for every page size, every number of pollers   *)
(* and tasks, and every bound: the types, and that no poller's ETag is     *)
(* ahead of its work.                                                      *)
(***************************************************************************)
EXTENDS AlertIngest, FiniteSetTheorems, TLAPS

(* An alert is done with when it is marked or its run was lost. *)
Done(a) == a \in seen \/ lost[a] > 0

(* A poller has an alert in hand on its page or in ingest_one_alert. *)
InHand(p, a) == a \in poll[p].todo \/ (at[p] # "idle" /\ alert[p] = a)

Handled(p, a) == Done(a) \/ InHand(p, a)

(* The ETag a poller goes to sleep with. *)
TagIsBacked(p) ==
    poll[p].etag # NoTag =>
        poll[p].etag <= raised /\ \A a \in 1 .. poll[p].etag : Done(a)

(* The ETag it read before it began to list: what was in that index and    *)
(* is on the pages listed so far is handled.                               *)
ListedIsHandled(p) ==
    poll[p].fresh # NoTag =>
        /\ poll[p].fresh <= raised
        /\ \A a \in 1 .. poll[p].fresh :
               raised - a < poll[p].page * PageSize => Handled(p, a)

(* After the last page that is the whole index. *)
LastPageIsTheEnd(p) ==
    poll[p].pc = "ingest" /\ ~poll[p].more /\ poll[p].fresh # NoTag =>
        \A a \in 1 .. poll[p].fresh : Handled(p, a)

(* A poller has something in hand only while it ingests, and a sleeping    *)
(* poller has listed nothing.                                              *)
HandsAreFree(p) ==
    /\ poll[p].pc # "ingest" => poll[p].todo = {} /\ at[p] = "idle"
    /\ poll[p].pc = "sleep" => poll[p].page = 0 /\ poll[p].fresh = NoTag

PollerOK(p) ==
    TagIsBacked(p) /\ ListedIsHandled(p) /\ LastPageIsTheEnd(p) /\ HandsAreFree(p)

IInv == TypeOK /\ \A p \in Pollers : PollerOK(p)

(* The actors whose run on the thread of an alert has begun and is not     *)
(* marked, and those that have asked and will begin one.                   *)
InFlight(a) == {x \in Actors : at[x] \in {"run", "mark"} /\ alert[x] = a}

Starting(a) == {x \in Actors : at[x] = "start" /\ alert[x] = a}

(* Until its mark a run is lost or in flight; from the mark on a run more  *)
(* than that has begun, and only who asked before can begin another.       *)
RunsAdd(a) ==
    IF a \in seen
    THEN /\ runs[a] > lost[a] + Cardinality(InFlight(a))
         /\ runs[a] + Cardinality(Starting(a)) <= lost[a] + Cardinality(Actors)
    ELSE runs[a] = lost[a] + Cardinality(InFlight(a))

Ledger == TypeOK /\ \A a \in Alerts : RunsAdd(a)

-----------------------------------------------------------------------------
(***************************************************************************)
(* Types.                                                                  *)
(***************************************************************************)

(* A sleeping poller is a poller. *)
LEMMA AsleepType ==
    ASSUME NEW etag \in Tags
    PROVE  /\ Asleep(etag) \in Polls
           /\ Asleep(etag).pc = "sleep" /\ Asleep(etag).etag = etag
           /\ Asleep(etag).fresh = NoTag /\ Asleep(etag).page = 0
           /\ Asleep(etag).todo = {} /\ Asleep(etag).more = FALSE
BY DEF Asleep, Polls, Tags

(* A page holds alerts that are open, those in its window. *)
LEMMA PageType ==
    ASSUME TypeOK, NEW n \in Nat
    PROVE  Page(n) \in SUBSET Alerts
BY BoundAssumption DEF Page, TypeOK, Alerts

(* The types are kept by a step of ingest_one_alert. *)
LEMMA IngestTypes ==
    ASSUME TypeOK, NEW x \in Actors, Ingest(x)
    PROVE  TypeOK'
<1> USE BoundAssumption DEF TypeOK, Goto, Leave, Failure, counts
<1>0. \A p \in Pollers : poll[p] \in Polls /\ poll[p].etag \in Tags
  BY DEF Polls
<1>1. CASE HasSeen(x)
  BY <1>1 DEF HasSeen
<1>2. CASE HasSeenFails(x)
  <2>1. poll' \in [Pollers -> Polls]
    BY <1>2, <1>0, AsleepType DEF HasSeenFails
  <2> QED
    BY <1>2, <2>1 DEF HasSeenFails
<1>3. CASE StartRun(x)
  BY <1>3 DEF StartRun
<1>4. CASE FinishRun(x)
  BY <1>4 DEF FinishRun
<1>5. CASE MarkSeen(x)
  BY <1>5 DEF MarkSeen
<1>6. CASE IngestFails(x)
  BY <1>6 DEF IngestFails
<1> QED
  BY <1>1, <1>2, <1>3, <1>4, <1>5, <1>6 DEF Ingest

(* The types are kept by a step of a poller. *)
LEMMA PollTypes ==
    ASSUME TypeOK, NEW p \in Pollers, Poll(p)
    PROVE  TypeOK'
<1> USE BoundAssumption, PageAssumption DEF TypeOK, Goto, Leave, Failure, counts
<1>0. /\ poll[p] \in Polls /\ poll[p].etag \in Tags /\ poll[p].fresh \in Tags
      /\ poll[p].page \in Nat /\ poll[p].todo \in SUBSET Alerts
      /\ raised \in Tags /\ NoTag \in Tags /\ p \in Actors
  BY DEF Polls, Tags, Actors
<1>1. CASE HeadIndex(p)
  <2>1. PICK fresh \in {raised, NoTag} :
            poll' = [poll EXCEPT ![p].pc = "list", ![p].fresh = fresh]
    BY <1>1 DEF HeadIndex
  <2>2. [[poll[p] EXCEPT !.pc = "list"] EXCEPT !.fresh = fresh] \in Polls
    BY <1>0 DEF Polls
  <2>3. poll' \in [Pollers -> Polls]
    BY <2>1, <2>2
  <2> QED
    BY <1>1, <2>3 DEF HeadIndex
<1>2. CASE NotModified(p)
  BY <1>2, <1>0, AsleepType DEF NotModified, EndPoll
<1>3. CASE ListPage(p)
  <2>1. Page(poll[p].page) \in SUBSET Alerts
    BY <1>0, PageType
  <2>2. poll[p].page + 1 \in Nat
    BY <1>0
  <2>3. ((poll[p].page + 1) * PageSize < raised) \in BOOLEAN
    OBVIOUS
  <2>4. poll' \in [Pollers -> Polls]
    BY <1>3, <1>0, <2>1, <2>2, <2>3 DEF ListPage, Polls
  <2> QED
    BY <1>3, <2>4 DEF ListPage
<1>4. CASE ListFails(p)
  <2>1. poll' \in [Pollers -> Polls]
    BY <1>4, <1>0, AsleepType DEF ListFails
  <2> QED
    BY <1>4, <2>1 DEF ListFails
<1>5. CASE TakeAlert(p)
  <2>1. poll' \in [Pollers -> Polls]
    BY <1>5, <1>0 DEF TakeAlert, Polls
  <2> QED
    BY <1>5, <1>0, <2>1 DEF TakeAlert
<1>6. CASE PageDone(p)
  <2>1. [poll[p] EXCEPT !.pc = "list"] \in Polls
    BY <1>0 DEF Polls
  <2>2. poll' \in [Pollers -> Polls]
    <3>1. CASE poll[p].more
      BY <1>6, <2>1, <3>1 DEF PageDone
    <3>2. CASE ~poll[p].more
      <4>1. EndPoll(p)
        BY <1>6, <3>2 DEF PageDone
      <4>2. Asleep(poll[p].fresh) \in Polls
        BY <1>0, AsleepType
      <4> QED
        BY <4>1, <4>2 DEF EndPoll
    <3> QED
      BY <3>1, <3>2
  <2> QED
    BY <1>6, <2>2 DEF PageDone
<1> QED
  BY <1>1, <1>2, <1>3, <1>4, <1>5, <1>6 DEF Poll

(* TypeOK holds at the start and is kept by every step. *)
LEMMA TypesInductive ==
    /\ Init => TypeOK
    /\ TypeOK /\ [Next]_vars => TypeOK'
<1>1. Init => TypeOK
  <2>1. Asleep(NoTag) \in Polls
    BY AsleepType DEF Tags
  <2> QED
    BY <2>1, BoundAssumption DEF Init, TypeOK
<1>2. ASSUME TypeOK, [Next]_vars
      PROVE  TypeOK'
  <2> USE <1>2, BoundAssumption
  <2>1. CASE Raise
    BY <2>1 DEF Raise, TypeOK, counts
  <2>2. ASSUME NEW t \in Tasks, Request(t)
        PROVE  TypeOK'
    BY <2>2 DEF Request, TypeOK, Actors, Alerts
  <2>3. ASSUME NEW x \in Actors, Kill(x)
        PROVE  TypeOK'
    <3>1. poll' \in [Pollers -> Polls]
      BY <2>3, AsleepType DEF Kill, TypeOK, Tags
    <3> QED
      BY <2>3, <3>1 DEF Kill, TypeOK, Leave
  <2>4. CASE UNCHANGED vars
    BY <2>4 DEF vars, counts, TypeOK
  <2> QED
    BY <2>1, <2>2, <2>3, <2>4, IngestTypes, PollTypes DEF Next
<1> QED
  BY <1>1, <1>2

(* The types of the ingestion hold for every value of the constants. *)
THEOREM TypesHold == Spec => []TypeOK
BY TypesInductive, PTL DEF Spec

-----------------------------------------------------------------------------
(***************************************************************************)
(* No alert is missed.                                                     *)
(***************************************************************************)

(* What a type-correct poller has in its locals. *)
LEMMA PollerFields ==
    ASSUME TypeOK, NEW p \in Pollers
    PROVE  /\ p \in Actors
           /\ poll[p].pc \in {"sleep", "list", "ingest"}
           /\ poll[p].etag \in Tags /\ poll[p].fresh \in Tags
           /\ poll[p].page \in Nat /\ poll[p].todo \in SUBSET Alerts
           /\ poll[p].more \in BOOLEAN
BY DEF TypeOK, Polls, Actors

(* No step undoes what is done, and no step closes an alert. *)
LEMMA DoneIsForGood ==
    ASSUME TypeOK, [Next]_vars
    PROVE  /\ raised <= raised'
           /\ \A a \in Alerts : Done(a) => Done(a)'
<1> USE DEF Done, TypeOK
<1>1. CASE Raise
  BY <1>1, BoundAssumption DEF Raise
<1>2. ASSUME NEW x \in Actors, Ingest(x)
      PROVE  /\ raised' = raised
             /\ \A a \in Alerts : Done(a) => Done(a)'
  BY <1>2 DEF Ingest, HasSeen, HasSeenFails, StartRun, FinishRun, MarkSeen, IngestFails
<1>3. ASSUME NEW p \in Pollers, Poll(p)
      PROVE  UNCHANGED <<raised, seen, lost>>
  BY <1>3 DEF Poll, HeadIndex, NotModified, ListPage, ListFails, TakeAlert, PageDone
<1>4. ASSUME NEW t \in Tasks, Request(t)
      PROVE  UNCHANGED <<raised, seen, lost>>
  BY <1>4 DEF Request
<1>5. ASSUME NEW x \in Actors, Kill(x)
      PROVE  /\ raised' = raised
             /\ \A a \in Alerts : Done(a) => Done(a)'
  BY <1>5 DEF Kill
<1>6. CASE UNCHANGED vars
  BY <1>6 DEF vars
<1> QED
  BY <1>1, <1>2, <1>3, <1>4, <1>5, <1>6, BoundAssumption DEF Next

(* A step that leaves a poller alone leaves it in order. *)
LEMMA Undisturbed ==
    ASSUME TypeOK, [Next]_vars, TypeOK', NEW p \in Pollers, PollerOK(p),
           poll'[p] = poll[p],
           poll[p].pc # "ingest" => at'[p] = at[p],
           \A a \in Alerts : Handled(p, a) => Handled(p, a)'
    PROVE  PollerOK(p)'
<1> USE PageAssumption, BoundAssumption
<1>1. /\ raised \in Nat /\ raised' \in Nat /\ raised <= raised' /\ raised <= MaxAlerts
      /\ \A a \in Alerts : Done(a) => Done(a)'
  BY DoneIsForGood DEF TypeOK
<1>2. /\ poll[p].etag \in Tags /\ poll[p].fresh \in Tags /\ poll[p].page \in Nat
  BY PollerFields
<1>3. poll[p].page * PageSize \in Nat
  BY <1>2
<1>4. TagIsBacked(p)'
  BY <1>1, <1>2 DEF PollerOK, TagIsBacked, Tags, Alerts
<1>5. ListedIsHandled(p)'
  <2>1. SUFFICES ASSUME poll[p].fresh # NoTag
                 PROVE  /\ poll[p].fresh <= raised'
                        /\ \A a \in 1 .. poll[p].fresh :
                               raised' - a < poll[p].page * PageSize => Handled(p, a)'
    BY DEF ListedIsHandled
  <2>2. poll[p].fresh \in Nat /\ poll[p].fresh <= raised
    BY <2>1, <1>2 DEF PollerOK, ListedIsHandled, Tags
  <2>3. ASSUME NEW a \in 1 .. poll[p].fresh, raised' - a < poll[p].page * PageSize
        PROVE  Handled(p, a)'
    <3>1. a \in Alerts
      BY <2>2, <1>1 DEF Alerts
    <3>2. raised - a < poll[p].page * PageSize
      BY <2>3, <1>1, <1>3, <2>2
    <3> QED
      BY <2>1, <3>1, <3>2 DEF PollerOK, ListedIsHandled
  <2> QED
    BY <2>2, <2>3, <1>1
<1>6. LastPageIsTheEnd(p)'
  <2>1. poll[p].fresh # NoTag => 1 .. poll[p].fresh \subseteq Alerts
    BY <1>1, <1>2 DEF PollerOK, ListedIsHandled, Tags, Alerts
  <2> QED
    BY <2>1 DEF PollerOK, LastPageIsTheEnd
<1>7. HandsAreFree(p)'
  BY DEF PollerOK, HandsAreFree
<1> QED
  BY <1>4, <1>5, <1>6, <1>7 DEF PollerOK

(* A poller that goes to sleep is in order when its ETag is backed. *)
LEMMA FallsAsleep ==
    ASSUME TypeOK, [Next]_vars, TypeOK', NEW p \in Pollers, NEW etag \in Tags,
           poll'[p] = Asleep(etag), at'[p] = "idle",
           etag # NoTag => etag <= raised /\ \A a \in 1 .. etag : Done(a)'
    PROVE  PollerOK(p)'
<1>1. raised \in Nat /\ raised' \in Nat /\ raised <= raised'
  BY DoneIsForGood, BoundAssumption DEF TypeOK
<1>2. /\ poll'[p].pc = "sleep" /\ poll'[p].etag = etag /\ poll'[p].fresh = NoTag
      /\ poll'[p].page = 0 /\ poll'[p].todo = {}
  BY AsleepType
<1>3. etag # NoTag => etag \in Nat
  BY BoundAssumption DEF Tags
<1> QED
  BY <1>1, <1>2, <1>3
     DEF PollerOK, TagIsBacked, ListedIsHandled, LastPageIsTheEnd, HandsAreFree

(* What an actor does in ingest_one_alert leaves the pollers in order: an  *)
(* alert leaves the actor's hands done, or with its ETag.                  *)
LEMMA IngestKeepsOrder ==
    ASSUME IInv, TypeOK', NEW x \in Actors, Ingest(x), [Next]_vars,
           NEW p \in Pollers
    PROVE  PollerOK(p)'
<1> USE DEF IInv
<1>0. PollerOK(p) /\ TypeOK /\ p \in Actors
  BY PollerFields
<1>1. CASE HasSeenFails(x) /\ x = p
  <2>1. poll'[p] = Asleep(poll[p].etag) /\ at'[p] = "idle"
    BY <1>0, <1>1 DEF HasSeenFails, Leave, TypeOK
  <2>2. /\ poll[p].etag \in Tags
        /\ poll[p].etag # NoTag =>
               poll[p].etag <= raised /\ \A a \in 1 .. poll[p].etag : Done(a)
    BY <1>0, PollerFields DEF PollerOK, TagIsBacked
  <2>3. UNCHANGED <<seen, lost>>
    BY <1>1 DEF HasSeenFails
  <2>4. poll[p].etag # NoTag =>
            poll[p].etag <= raised /\ \A a \in 1 .. poll[p].etag : Done(a)'
    BY <2>2, <2>3 DEF Done
  <2> QED
    BY <1>0, <2>1, <2>2, <2>4, FallsAsleep
<1>2. CASE ~(HasSeenFails(x) /\ x = p)
  <2>1. poll'[p] = poll[p]
    <3>1. CASE HasSeenFails(x)
      BY <1>0, <1>2, <3>1 DEF HasSeenFails, TypeOK
    <3>2. CASE ~HasSeenFails(x)
      BY <3>2 DEF Ingest, HasSeen, StartRun, FinishRun, MarkSeen, IngestFails
    <3> QED
      BY <3>1, <3>2
  <2>2. at[x] # "idle"
    BY DEF Ingest, HasSeen, HasSeenFails, StartRun, FinishRun, MarkSeen, IngestFails
  <2>3. \A y \in Actors \ {x} : at'[y] = at[y] /\ alert'[y] = alert[y]
    BY DEF Ingest, HasSeen, HasSeenFails, StartRun, FinishRun, MarkSeen, IngestFails,
           Goto, Leave, TypeOK
  <2>4. poll[p].pc # "ingest" => at'[p] = at[p]
    BY <1>0, <2>2, <2>3 DEF PollerOK, HandsAreFree
  <2>5. ASSUME NEW a \in Alerts, Handled(p, a)
        PROVE  Handled(p, a)'
    <3>1. CASE Done(a)
      BY <1>0, <3>1, DoneIsForGood DEF Handled
    <3>2. CASE a \in poll[p].todo
      BY <2>1, <3>2 DEF Handled, InHand
    <3>3. CASE at[p] # "idle" /\ alert[p] = a /\ x # p
      BY <1>0, <2>3, <3>3 DEF Handled, InHand
    <3>4. CASE at[p] # "idle" /\ alert[p] = a /\ x = p
      <4>1. CASE HasSeen(x)
        BY <1>0, <3>4, <4>1 DEF HasSeen, Goto, Leave, Handled, InHand, Done, TypeOK
      <4>2. CASE StartRun(x) \/ FinishRun(x)
        BY <1>0, <3>4, <4>2 DEF StartRun, FinishRun, Goto, Handled, InHand, TypeOK
      <4>3. CASE MarkSeen(x)
        BY <3>4, <4>3 DEF MarkSeen, Handled, Done
      <4>4. CASE IngestFails(x)
        BY <1>0, <3>4, <4>4 DEF IngestFails, Handled, Done, TypeOK
      <4> QED
        BY <1>2, <3>4, <4>1, <4>2, <4>3, <4>4 DEF Ingest
    <3> QED
      BY <2>5, <3>1, <3>2, <3>3, <3>4 DEF Handled, InHand
  <2> QED
    BY <1>0, <2>1, <2>4, <2>5, Undisturbed
<1> QED
  BY <1>1, <1>2

(* What a poller does leaves the others in order. *)
LEMMA PollDisturbsNoOther ==
    ASSUME IInv, TypeOK', NEW q \in Pollers, Poll(q), [Next]_vars,
           NEW p \in Pollers, p # q
    PROVE  PollerOK(p)'
<1> USE DEF IInv
<1>1. p \in Actors /\ q \in Actors /\ PollerOK(p) /\ TypeOK
  BY PollerFields
<1>2. /\ poll'[p] = poll[p] /\ at'[p] = at[p] /\ alert'[p] = alert[p]
      /\ UNCHANGED <<seen, lost>>
  BY <1>1 DEF Poll, HeadIndex, NotModified, ListPage, ListFails, TakeAlert, PageDone, EndPoll,
              TypeOK
<1>3. \A a \in Alerts : Handled(p, a) => Handled(p, a)'
  BY <1>2 DEF Handled, InHand, Done
<1> QED
  BY <1>1, <1>2, <1>3, Undisturbed

(* A poller's own steps.  The ETag is read before the list, so what is in  *)
(* its index is further down when a page is listed, never past the end;    *)
(* the pages meet without a gap although alerts are raised between them.   *)
LEMMA PollKeepsOrder ==
    ASSUME IInv, TypeOK', NEW p \in Pollers, Poll(p), [Next]_vars
    PROVE  PollerOK(p)'
<1> USE PageAssumption, BoundAssumption DEF IInv
<1>0. /\ PollerOK(p) /\ TypeOK /\ p \in Actors /\ poll[p] \in Polls
      /\ poll[p].etag \in Tags /\ poll[p].fresh \in Tags /\ poll[p].page \in Nat
      /\ poll[p].todo \in SUBSET Alerts
      /\ raised \in Nat /\ raised <= MaxAlerts /\ p \in DOMAIN poll
  BY PollerFields DEF TypeOK
<1>1. UNCHANGED <<raised, seen, lost>> /\ \A a : Done(a)' <=> Done(a)
  BY DEF Poll, HeadIndex, NotModified, ListPage, ListFails, TakeAlert, PageDone, Done
<1>2. /\ TagIsBacked(p) /\ ListedIsHandled(p) /\ LastPageIsTheEnd(p) /\ HandsAreFree(p)
      /\ poll[p].fresh # NoTag => poll[p].fresh \in Nat /\ poll[p].fresh <= raised
      /\ poll[p].etag # NoTag => poll[p].etag \in Nat /\ poll[p].etag <= raised
  BY <1>0 DEF PollerOK, ListedIsHandled, TagIsBacked, Tags
<1>3. CASE HeadIndex(p)
  <2>1. PICK fresh \in {raised, NoTag} :
            poll' = [poll EXCEPT ![p].pc = "list", ![p].fresh = fresh]
    BY <1>3 DEF HeadIndex
  <2>2. /\ poll'[p].pc = "list" /\ poll'[p].fresh = fresh /\ poll'[p].page = poll[p].page
        /\ poll'[p].etag = poll[p].etag /\ poll'[p].todo = poll[p].todo
    BY <1>0, <2>1 DEF Polls
  <2>3. poll[p].page = 0 /\ poll[p].todo = {} /\ at'[p] = "idle"
    BY <1>2, <1>3 DEF HeadIndex, HandsAreFree
  <2>4. ListedIsHandled(p)'
    BY <1>0, <1>1, <2>2, <2>3 DEF ListedIsHandled
  <2>5. TagIsBacked(p)' /\ LastPageIsTheEnd(p)' /\ HandsAreFree(p)'
    BY <1>1, <1>2, <2>2, <2>3 DEF TagIsBacked, LastPageIsTheEnd, HandsAreFree
  <2> QED
    BY <2>4, <2>5 DEF PollerOK
<1>4. CASE NotModified(p)
  <2>1. poll'[p] = Asleep(poll[p].fresh) /\ at'[p] = "idle"
    BY <1>0, <1>2, <1>4 DEF NotModified, EndPoll, HandsAreFree, TypeOK
  <2>2. poll[p].etag = raised /\ poll[p].etag # NoTag
    BY <1>0, <1>4 DEF NotModified
  <2>3. poll[p].fresh # NoTag =>
            poll[p].fresh <= raised /\ \A a \in 1 .. poll[p].fresh : Done(a)'
    BY <1>0, <1>1, <1>2, <2>2 DEF TagIsBacked
  <2> QED
    BY <1>0, <2>1, <2>3, FallsAsleep
<1>5. CASE ListPage(p)
  <2> DEFINE n == poll[p].page
             top == (n + 1) * PageSize
  <2>1. top \in Nat /\ n * PageSize \in Nat /\ n + 1 \in Nat
    BY <1>0
  <2>2. /\ poll'[p].pc = "ingest" /\ poll'[p].todo = Page(n) /\ poll'[p].page = n + 1
        /\ poll'[p].more = (top < raised)
        /\ poll'[p].etag = poll[p].etag /\ poll'[p].fresh = poll[p].fresh
    BY <1>0, <1>5 DEF ListPage, Polls
  <2>3. /\ poll[p].todo = {} /\ at[p] = "idle"
    BY <1>2, <1>5 DEF ListPage, HandsAreFree
  <2>4. ASSUME NEW a \in 1 .. poll[p].fresh, poll[p].fresh # NoTag, raised - a < top
        PROVE  Handled(p, a)'
    <3>1. a \in 1 .. raised
      BY <1>0, <1>2, <2>4
    <3>2. CASE raised - a < n * PageSize
      BY <1>1, <1>2, <2>3, <2>4, <3>2 DEF ListedIsHandled, Handled, InHand
    <3>3. CASE ~(raised - a < n * PageSize)
      <4>1. a \in Page(n)
        BY <1>0, <2>1, <2>4, <3>1, <3>3 DEF Page
      <4> QED
        BY <2>2, <4>1 DEF Handled, InHand
    <3> QED
      BY <3>2, <3>3
  <2> HIDE DEF top
  <2>5. ListedIsHandled(p)'
    BY <1>1, <1>2, <2>2, <2>4 DEF ListedIsHandled, top
  <2>6. LastPageIsTheEnd(p)'
    <3>1. SUFFICES ASSUME ~(top < raised), poll[p].fresh # NoTag,
                          NEW a \in 1 .. poll[p].fresh
                   PROVE  Handled(p, a)'
      BY <2>2 DEF LastPageIsTheEnd
    <3>2. raised - a < top
      BY <1>0, <1>2, <2>1, <3>1
    <3> QED
      BY <2>4, <3>1, <3>2
  <2>7. TagIsBacked(p)' /\ HandsAreFree(p)'
    BY <1>1, <1>2, <2>2 DEF TagIsBacked, HandsAreFree
  <2> QED
    BY <2>5, <2>6, <2>7 DEF PollerOK
<1>6. CASE ListFails(p)
  <2>1. poll'[p] = Asleep(poll[p].etag) /\ at'[p] = "idle"
    BY <1>0, <1>2, <1>6 DEF ListFails, HandsAreFree
  <2>2. poll[p].etag # NoTag =>
            poll[p].etag <= raised /\ \A a \in 1 .. poll[p].etag : Done(a)'
    BY <1>1, <1>2 DEF TagIsBacked
  <2> QED
    BY <1>0, <2>1, <2>2, FallsAsleep
<1>7. CASE TakeAlert(p)
  <2>1. PICK a \in poll[p].todo :
            /\ poll' = [poll EXCEPT ![p].todo = @ \ {a}]
            /\ alert' = [alert EXCEPT ![p] = a]
            /\ at' = [at EXCEPT ![p] = "check"]
    BY <1>7 DEF TakeAlert
  <2>2. /\ poll'[p].todo = poll[p].todo \ {a} /\ alert'[p] = a /\ at'[p] = "check"
        /\ poll'[p].pc = "ingest" /\ poll'[p].etag = poll[p].etag
        /\ poll'[p].fresh = poll[p].fresh /\ poll'[p].page = poll[p].page
        /\ poll'[p].more = poll[p].more /\ poll[p].pc = "ingest" /\ at[p] = "idle"
    BY <1>0, <1>7, <2>1 DEF TakeAlert, Polls, TypeOK
  <2>3. \A b : Handled(p, b) => Handled(p, b)'
    BY <1>1, <2>2 DEF Handled, InHand
  <2>4. TagIsBacked(p)' /\ ListedIsHandled(p)'
    BY <1>1, <1>2, <2>2, <2>3 DEF TagIsBacked, ListedIsHandled
  <2>5. LastPageIsTheEnd(p)' /\ HandsAreFree(p)'
    BY <1>2, <2>2, <2>3 DEF LastPageIsTheEnd, HandsAreFree
  <2> QED
    BY <2>4, <2>5 DEF PollerOK
<1>8. CASE PageDone(p) /\ poll[p].more
  <2>1. /\ poll'[p].pc = "list" /\ poll'[p].etag = poll[p].etag
        /\ poll'[p].fresh = poll[p].fresh /\ poll'[p].page = poll[p].page
        /\ poll'[p].todo = {} /\ poll[p].todo = {} /\ at'[p] = "idle" /\ at[p] = "idle"
    BY <1>0, <1>8 DEF PageDone, Polls
  <2>2. \A b : Handled(p, b) => Handled(p, b)'
    BY <1>1, <2>1 DEF Handled, InHand
  <2> QED
    BY <1>1, <1>2, <2>1, <2>2
       DEF PollerOK, TagIsBacked, ListedIsHandled, LastPageIsTheEnd, HandsAreFree
<1>9. CASE PageDone(p) /\ ~poll[p].more
  <2>1. /\ poll'[p] = Asleep(poll[p].fresh) /\ at'[p] = "idle"
        /\ poll[p].pc = "ingest" /\ at[p] = "idle" /\ poll[p].todo = {}
    BY <1>0, <1>9 DEF PageDone, EndPoll
  <2>2. poll[p].fresh # NoTag => \A a \in 1 .. poll[p].fresh : Handled(p, a)
    BY <1>2, <1>9, <2>1 DEF LastPageIsTheEnd
  <2>3. poll[p].fresh # NoTag =>
            poll[p].fresh <= raised /\ \A a \in 1 .. poll[p].fresh : Done(a)'
    BY <1>1, <1>2, <2>1, <2>2 DEF Handled, InHand
  <2> QED
    BY <1>0, <2>1, <2>3, FallsAsleep
<1> QED
  BY <1>3, <1>4, <1>5, <1>6, <1>7, <1>8, <1>9 DEF Poll

(* A killed poller wakes up without an ETag; it holds nothing for others.  *)
LEMMA KillKeepsOrder ==
    ASSUME IInv, TypeOK', NEW x \in Actors, Kill(x), [Next]_vars, NEW p \in Pollers
    PROVE  PollerOK(p)'
<1> USE DEF IInv
<1>0. PollerOK(p) /\ TypeOK /\ p \in Actors
  BY PollerFields
<1>1. CASE x = p
  <2>1. poll'[p] = Asleep(NoTag) /\ at'[p] = "idle" /\ NoTag \in Tags
    BY <1>0, <1>1 DEF Kill, Leave, TypeOK, Tags
  <2> QED
    BY <1>0, <2>1, FallsAsleep
<1>2. CASE x # p
  <2>1. poll'[p] = poll[p] /\ at'[p] = at[p] /\ alert'[p] = alert[p]
    BY <1>0, <1>2 DEF Kill, Leave, TypeOK
  <2>2. \A a \in Alerts : Handled(p, a) => Handled(p, a)'
    BY <1>0, <2>1, DoneIsForGood DEF Handled, InHand
  <2> QED
    BY <1>0, <2>1, <2>2, Undisturbed
<1> QED
  BY <1>1, <1>2

(* New alerts and new tasks leave the pollers alone. *)
LEMMA OthersKeepOrder ==
    ASSUME IInv, TypeOK', [Next]_vars, NEW p \in Pollers,
           Raise \/ (\E t \in Tasks : Request(t)) \/ UNCHANGED vars
    PROVE  PollerOK(p)'
<1> USE DEF IInv
<1>0. PollerOK(p) /\ TypeOK /\ p \in Actors /\ p \notin Tasks
  BY PollerFields, ActorAssumption
<1>1. poll'[p] = poll[p] /\ at'[p] = at[p] /\ alert'[p] = alert[p]
  BY <1>0 DEF Raise, Request, vars, TypeOK
<1>2. \A a \in Alerts : Handled(p, a) => Handled(p, a)'
  BY <1>0, <1>1, DoneIsForGood DEF Handled, InHand
<1> QED
  BY <1>0, <1>1, <1>2, Undisturbed

(* IInv is inductive. *)
LEMMA PollersInOrder ==
    /\ Init => IInv
    /\ IInv /\ [Next]_vars => IInv'
<1>1. ASSUME Init
      PROVE  IInv
  <2>1. TypeOK
    BY <1>1, TypesInductive
  <2>2. ASSUME NEW p \in Pollers
        PROVE  PollerOK(p)
    <3>1. poll[p] = Asleep(NoTag) /\ at[p] = "idle" /\ NoTag \in Tags
      BY <1>1 DEF Init, Actors, Tags
    <3> QED
      BY <3>1, AsleepType
         DEF PollerOK, TagIsBacked, ListedIsHandled, LastPageIsTheEnd, HandsAreFree
  <2> QED
    BY <2>1, <2>2 DEF IInv
<1>2. ASSUME IInv, [Next]_vars
      PROVE  IInv'
  <2>1. TypeOK'
    BY <1>2, TypesInductive DEF IInv
  <2>2. ASSUME NEW p \in Pollers
        PROVE  PollerOK(p)'
    <3>1. ASSUME NEW x \in Actors, Ingest(x)
          PROVE  PollerOK(p)'
      BY <1>2, <2>1, <3>1, IngestKeepsOrder
    <3>2. ASSUME NEW x \in Actors, Kill(x)
          PROVE  PollerOK(p)'
      BY <1>2, <2>1, <3>2, KillKeepsOrder
    <3>3. ASSUME NEW q \in Pollers, Poll(q)
          PROVE  PollerOK(p)'
      BY <1>2, <2>1, <3>3, PollKeepsOrder, PollDisturbsNoOther
    <3> QED
      BY <1>2, <2>1, <3>1, <3>2, <3>3, OthersKeepOrder DEF Next
  <2> QED
    BY <2>1, <2>2 DEF IInv
<1> QED
  BY <1>1, <1>2

(* For every page size, any number of pollers and tasks, and any           *)
(* failures and deaths: no poller keeps an ETag of an index whose alerts   *)
(* it has not brought to a mark or to a lost run.                          *)
THEOREM NoAlertIsEverMissed == Spec => []NoAlertIsMissed
<1>1. IInv => NoAlertIsMissed
  BY DEF IInv, PollerOK, TagIsBacked, Done, NoAlertIsMissed
<1> QED
  BY <1>1, PollersInOrder, PTL DEF Spec

-----------------------------------------------------------------------------
(***************************************************************************)
(* The runs of an alert add up.                                            *)
(***************************************************************************)

(* Two sets that differ in one element differ by one in number. *)
LEMMA OneMoved ==
    ASSUME NEW S, NEW T, NEW x, IsFiniteSet(S), IsFiniteSet(T), S \ {x} = T \ {x}
    PROVE  /\ Cardinality(S) \in Nat /\ Cardinality(T) \in Nat
           /\ x \in S /\ x \notin T => Cardinality(T) = Cardinality(S) - 1
           /\ x \notin S /\ x \in T => Cardinality(T) = Cardinality(S) + 1
           /\ (x \in S <=> x \in T) => Cardinality(T) = Cardinality(S)
<1>1. Cardinality(S) \in Nat /\ Cardinality(T) \in Nat
  BY FS_CardinalityType
<1>2. ASSUME x \in S, x \notin T
      PROVE  Cardinality(T) = Cardinality(S) - 1
  <2>1. T = S \ {x}
    BY <1>2
  <2> QED
    BY <1>2, <2>1, FS_RemoveElement
<1>3. ASSUME x \notin S, x \in T
      PROVE  Cardinality(T) = Cardinality(S) + 1
  <2>1. T = S \cup {x}
    BY <1>3
  <2> QED
    BY <1>3, <2>1, FS_AddElement
<1>4. ASSUME x \in S <=> x \in T
      PROVE  S = T
  BY <1>4
<1> QED
  BY <1>1, <1>2, <1>3, <1>4

(* The actors of an alert are some of the actors, and none is twice. *)
LEMMA ActorsOfAnAlert ==
    ASSUME NEW a
    PROVE  /\ IsFiniteSet(Actors) /\ IsFiniteSet(InFlight(a)) /\ IsFiniteSet(Starting(a))
           /\ Cardinality(Actors) \in Nat /\ Cardinality(InFlight(a)) \in Nat
           /\ Cardinality(Starting(a)) \in Nat
           /\ Cardinality(InFlight(a)) + Cardinality(Starting(a)) <= Cardinality(Actors)
<1>1. IsFiniteSet(Actors)
  BY ActorAssumption, FS_Union DEF Actors
<1>2. InFlight(a) \in SUBSET Actors /\ Starting(a) \in SUBSET Actors
  BY DEF InFlight, Starting
<1>3. IsFiniteSet(InFlight(a)) /\ IsFiniteSet(Starting(a))
  BY <1>1, <1>2, FS_Subset
<1>4. /\ Cardinality(Actors) \in Nat /\ Cardinality(InFlight(a)) \in Nat
      /\ Cardinality(Starting(a)) \in Nat
  BY <1>1, <1>3, FS_CardinalityType
<1>5. Cardinality(InFlight(a) \cup Starting(a)) =
          Cardinality(InFlight(a)) + Cardinality(Starting(a))
  <2>1. InFlight(a) \cap Starting(a) = {}
    BY DEF InFlight, Starting
  <2>2. Cardinality(InFlight(a) \cap Starting(a)) = 0
    BY <2>1, FS_EmptySet
  <2>3. Cardinality(InFlight(a) \cup Starting(a)) =
            Cardinality(InFlight(a)) + Cardinality(Starting(a)) - 0
    BY <1>3, <2>2, FS_Union
  <2> QED
    BY <1>4, <2>3
<1>6. Cardinality(InFlight(a) \cup Starting(a)) <= Cardinality(Actors)
  <2>1. InFlight(a) \cup Starting(a) \in SUBSET Actors
    BY <1>2
  <2> QED
    BY <1>1, <2>1, FS_Subset
<1> QED
  BY <1>1, <1>3, <1>4, <1>5, <1>6

(* What one actor's move does to the number of actors of an alert. *)
LEMMA ActorMoves ==
    ASSUME NEW x \in Actors, NEW a,
           \A y \in Actors \ {x} : at'[y] = at[y] /\ alert'[y] = alert[y]
    PROVE  LET in == x \in InFlight(a)
               out == x \in InFlight(a)'
               up == x \in Starting(a)
               down == x \in Starting(a)'
           IN  /\ in /\ ~out => Cardinality(InFlight(a)') = Cardinality(InFlight(a)) - 1
               /\ ~in /\ out => Cardinality(InFlight(a)') = Cardinality(InFlight(a)) + 1
               /\ (in <=> out) => Cardinality(InFlight(a)') = Cardinality(InFlight(a))
               /\ up /\ ~down => Cardinality(Starting(a)') = Cardinality(Starting(a)) - 1
               /\ ~up /\ down => Cardinality(Starting(a)') = Cardinality(Starting(a)) + 1
               /\ (up <=> down) => Cardinality(Starting(a)') = Cardinality(Starting(a))
<1>1. InFlight(a) \ {x} = InFlight(a)' \ {x}
  BY DEF InFlight
<1>2. Starting(a) \ {x} = Starting(a)' \ {x}
  BY DEF Starting
<1>3. IsFiniteSet(InFlight(a)) /\ IsFiniteSet(Starting(a))
  BY ActorsOfAnAlert
<1>4. InFlight(a)' \in SUBSET Actors /\ Starting(a)' \in SUBSET Actors
  BY DEF InFlight, Starting
<1>5. IsFiniteSet(InFlight(a)') /\ IsFiniteSet(Starting(a)')
  BY <1>4, ActorsOfAnAlert, FS_Subset
<1> QED
  BY <1>1, <1>2, <1>3, <1>5, OneMoved

(* Steps that move no actor within ingest_one_alert keep the ledger. *)
LEMMA LedgerKept ==
    ASSUME Ledger, TypeOK', UNCHANGED <<seen, runs, lost>>, NEW x \in Actors,
           \A y \in Actors \ {x} : at'[y] = at[y] /\ alert'[y] = alert[y],
           \/ at'[x] = at[x] /\ alert'[x] = alert[x]
           \/ at[x] \in {"idle", "check"} /\ at'[x] \in {"idle", "check"}
    PROVE  Ledger'
<1>1. ASSUME NEW a \in Alerts
      PROVE  RunsAdd(a)'
  <2>1. (x \in InFlight(a) <=> x \in InFlight(a)') /\ (x \in Starting(a) <=> x \in Starting(a)')
    BY DEF InFlight, Starting
  <2>2. /\ Cardinality(InFlight(a)') = Cardinality(InFlight(a))
        /\ Cardinality(Starting(a)') = Cardinality(Starting(a))
    BY <2>1, ActorMoves
  <2> QED
    BY <2>2 DEF Ledger, RunsAdd
<1> QED
  BY <1>1 DEF Ledger

(* A step of ingest_one_alert keeps the ledger. *)
LEMMA LedgerOfIngest ==
    ASSUME Ledger, TypeOK', NEW x \in Actors, Ingest(x), NEW a \in Alerts
    PROVE  RunsAdd(a)'
<1> DEFINE F == Cardinality(InFlight(a))
           S == Cardinality(Starting(a))
           N == Cardinality(Actors)
<1>0. /\ TypeOK /\ RunsAdd(a) /\ at[x] # "idle" /\ alert[x] \in Alerts
      /\ x \in DOMAIN at /\ x \in DOMAIN alert
      /\ runs[a] \in Nat /\ lost[a] \in Nat
  BY DEF Ledger, TypeOK, Ingest, HasSeen, HasSeenFails, StartRun, FinishRun, MarkSeen,
         IngestFails
<1>1. /\ F \in Nat /\ S \in Nat /\ N \in Nat /\ F + S <= N
  BY ActorsOfAnAlert
<1>2. \A y \in Actors \ {x} : at'[y] = at[y] /\ alert'[y] = alert[y]
  BY <1>0 DEF TypeOK, Ingest, HasSeen, HasSeenFails, StartRun, FinishRun, MarkSeen,
              IngestFails, Goto, Leave
<1>3. /\ x \in InFlight(a) <=> at[x] \in {"run", "mark"} /\ alert[x] = a
      /\ x \in InFlight(a)' <=> at'[x] \in {"run", "mark"} /\ alert'[x] = a
      /\ x \in Starting(a) <=> at[x] = "start" /\ alert[x] = a
      /\ x \in Starting(a)' <=> at'[x] = "start" /\ alert'[x] = a
  BY DEF InFlight, Starting
<1>4. /\ x \in InFlight(a) /\ ~(x \in InFlight(a)') => F' = F - 1
      /\ ~(x \in InFlight(a)) /\ x \in InFlight(a)' => F' = F + 1
      /\ (x \in InFlight(a) <=> x \in InFlight(a)') => F' = F
      /\ x \in Starting(a) /\ ~(x \in Starting(a)') => S' = S - 1
      /\ ~(x \in Starting(a)) /\ x \in Starting(a)' => S' = S + 1
      /\ (x \in Starting(a) <=> x \in Starting(a)') => S' = S
  BY <1>2, ActorMoves
<1>5. /\ a \in seen => runs[a] > lost[a] + F /\ runs[a] + S <= lost[a] + N
      /\ a \notin seen => runs[a] = lost[a] + F
  BY <1>0 DEF RunsAdd
<1> SUFFICES /\ a \in seen' => runs'[a] > lost'[a] + F' /\ runs'[a] + S' <= lost'[a] + N
             /\ a \notin seen' => runs'[a] = lost'[a] + F'
  BY DEF RunsAdd
<1> HIDE DEF F, S, N
<1>6. CASE HasSeen(x)
  <2>1. UNCHANGED <<seen, runs, lost>> /\ at[x] = "check"
    BY <1>6 DEF HasSeen
  <2>2. \/ at'[x] = "idle"
        \/ at'[x] = "start" /\ alert[x] \notin seen /\ alert'[x] = alert[x]
    BY <1>0, <1>6 DEF HasSeen, Leave, Goto
  <2>3. F' = F
    BY <1>3, <1>4, <2>1, <2>2
  <2>4. a \in seen => S' = S
    BY <1>3, <1>4, <2>1, <2>2
  <2> QED
    BY <1>5, <2>1, <2>3, <2>4
<1>7. CASE HasSeenFails(x)
  <2>1. UNCHANGED <<seen, runs, lost>> /\ at[x] = "check" /\ at'[x] = "idle"
    BY <1>0, <1>7 DEF HasSeenFails, Leave
  <2>2. F' = F /\ S' = S
    BY <1>3, <1>4, <2>1
  <2> QED
    BY <1>5, <2>1, <2>2
<1>8. CASE StartRun(x)
  <2>1. /\ UNCHANGED <<seen, lost>> /\ at[x] = "start" /\ at'[x] = "run"
        /\ alert'[x] = alert[x]
        /\ runs'[a] = IF alert[x] = a THEN runs[a] + 1 ELSE runs[a]
    BY <1>0, <1>8 DEF StartRun, Goto, TypeOK
  <2>2. IF alert[x] = a THEN F' = F + 1 /\ S' = S - 1 ELSE F' = F /\ S' = S
    BY <1>3, <1>4, <2>1
  <2> QED
    BY <1>0, <1>1, <1>5, <2>1, <2>2
<1>9. CASE FinishRun(x)
  <2>1. /\ UNCHANGED <<seen, runs, lost>> /\ at[x] = "run" /\ at'[x] = "mark"
        /\ alert'[x] = alert[x]
    BY <1>0, <1>9 DEF FinishRun, Goto
  <2>2. F' = F /\ S' = S
    BY <1>3, <1>4, <2>1
  <2> QED
    BY <1>5, <2>1, <2>2
<1>10. CASE MarkSeen(x)
  <2>1. /\ UNCHANGED <<runs, lost>> /\ at[x] = "mark" /\ at'[x] = "idle"
        /\ seen' = seen \cup {alert[x]}
    BY <1>0, <1>10 DEF MarkSeen, Leave
  <2>2. IF alert[x] = a THEN F' = F - 1 /\ S' = S ELSE F' = F /\ S' = S
    BY <1>3, <1>4, <2>1
  <2> QED
    BY <1>0, <1>1, <1>5, <2>1, <2>2
<1>11. CASE IngestFails(x)
  <2>1. /\ UNCHANGED <<seen, runs>> /\ at[x] \in {"run", "mark"} /\ at'[x] = "idle"
        /\ lost'[a] = IF alert[x] = a THEN lost[a] + 1 ELSE lost[a]
    BY <1>0, <1>11 DEF IngestFails, Leave, TypeOK
  <2>2. IF alert[x] = a THEN F' = F - 1 /\ S' = S ELSE F' = F /\ S' = S
    BY <1>3, <1>4, <2>1
  <2> QED
    BY <1>0, <1>1, <1>5, <2>1, <2>2
<1> QED
  BY <1>6, <1>7, <1>8, <1>9, <1>10, <1>11 DEF Ingest

(* A step of a poller outside ingest_one_alert keeps the ledger. *)
LEMMA LedgerOfPoll ==
    ASSUME Ledger, TypeOK', NEW p \in Pollers, Poll(p)
    PROVE  Ledger'
<1>1. p \in Actors /\ UNCHANGED <<seen, runs, lost>>
  BY DEF Actors, Poll, HeadIndex, NotModified, ListPage, ListFails, TakeAlert, PageDone
<1>2. CASE TakeAlert(p)
  <2>1. at[p] = "idle" /\ at'[p] = "check"
    BY <1>1, <1>2 DEF TakeAlert, Ledger, TypeOK
  <2>2. \A y \in Actors \ {p} : at'[y] = at[y] /\ alert'[y] = alert[y]
    BY <1>2 DEF TakeAlert, Ledger, TypeOK
  <2> QED
    BY <1>1, <2>1, <2>2, LedgerKept
<1>3. CASE ~TakeAlert(p)
  <2>1. UNCHANGED <<at, alert>>
    BY <1>3 DEF Poll, HeadIndex, NotModified, ListPage, ListFails, PageDone
  <2> QED
    BY <1>1, <2>1, LedgerKept
<1> QED
  BY <1>2, <1>3

(* A task that asks for an alert keeps the ledger. *)
LEMMA LedgerOfRequest ==
    ASSUME Ledger, TypeOK', NEW t \in Tasks, Request(t)
    PROVE  Ledger'
<1>1. t \in Actors /\ UNCHANGED <<seen, runs, lost>>
  BY DEF Actors, Request
<1>2. at[t] = "idle" /\ at'[t] = "check"
  BY <1>1 DEF Request, Ledger, TypeOK
<1>3. \A y \in Actors \ {t} : at'[y] = at[y] /\ alert'[y] = alert[y]
  BY DEF Request, Ledger, TypeOK
<1> QED
  BY <1>1, <1>2, <1>3, LedgerKept

(* A killed actor takes its run from those in flight to the lost ones. *)
LEMMA LedgerOfKill ==
    ASSUME Ledger, TypeOK', NEW x \in Actors, Kill(x), NEW a \in Alerts
    PROVE  RunsAdd(a)'
<1> DEFINE F == Cardinality(InFlight(a))
           S == Cardinality(Starting(a))
           N == Cardinality(Actors)
<1>0. /\ TypeOK /\ RunsAdd(a) /\ x \in DOMAIN at /\ runs[a] \in Nat /\ lost[a] \in Nat
      /\ F \in Nat /\ S \in Nat /\ N \in Nat
  BY ActorsOfAnAlert DEF Ledger, TypeOK
<1>1. /\ UNCHANGED <<seen, runs>> /\ at'[x] = "idle"
      /\ \A y \in Actors \ {x} : at'[y] = at[y] /\ alert'[y] = alert[y]
  BY <1>0 DEF Kill, Leave, TypeOK
<1>2. /\ x \in InFlight(a) => F' = F - 1 /\ S' = S
      /\ x \in Starting(a) => F' = F /\ S' = S - 1
      /\ x \notin InFlight(a) /\ x \notin Starting(a) => F' = F /\ S' = S
  <2>1. /\ x \notin InFlight(a)' /\ x \notin Starting(a)'
        /\ ~(x \in InFlight(a) /\ x \in Starting(a))
    BY <1>1 DEF InFlight, Starting
  <2> QED
    BY <1>1, <2>1, ActorMoves
<1>3. lost'[a] = IF x \in InFlight(a) THEN lost[a] + 1 ELSE lost[a]
  <2>1. CASE at[x] \in {"run", "mark"}
    <3>1. lost' = [lost EXCEPT ![alert[x]] = @ + 1]
      BY <2>1 DEF Kill
    <3> QED
      BY <1>0, <2>1, <3>1 DEF InFlight, TypeOK
  <2>2. CASE at[x] \notin {"run", "mark"}
    BY <2>2 DEF Kill, InFlight
  <2> QED
    BY <2>1, <2>2
<1>4. /\ a \in seen => runs[a] > lost[a] + F /\ runs[a] + S <= lost[a] + N
      /\ a \notin seen => runs[a] = lost[a] + F
  BY <1>0 DEF RunsAdd
<1> SUFFICES /\ a \in seen' => runs'[a] > lost'[a] + F' /\ runs'[a] + S' <= lost'[a] + N
             /\ a \notin seen' => runs'[a] = lost'[a] + F'
  BY DEF RunsAdd
<1> HIDE DEF F, S, N
<1>5. CASE x \in InFlight(a)
  BY <1>0, <1>1, <1>2, <1>3, <1>4, <1>5
<1>6. CASE x \notin InFlight(a)
  BY <1>0, <1>1, <1>2, <1>3, <1>4, <1>6
<1> QED
  BY <1>5, <1>6

(* The ledger is inductive. *)
LEMMA LedgerInductive ==
    /\ Init => Ledger
    /\ Ledger /\ [Next]_vars => Ledger'
<1>1. ASSUME Init
      PROVE  Ledger
  <2>1. ASSUME NEW a \in Alerts
        PROVE  RunsAdd(a)
    <3>1. InFlight(a) = {}
      BY <1>1 DEF Init, InFlight
    <3>2. Cardinality(InFlight(a)) = 0
      BY <3>1, FS_EmptySet
    <3> QED
      BY <1>1, <3>2 DEF Init, RunsAdd
  <2> QED
    BY <1>1, <2>1, TypesInductive DEF Ledger
<1>2. ASSUME Ledger, [Next]_vars
      PROVE  Ledger'
  <2>0. TypeOK'
    BY <1>2, TypesInductive DEF Ledger
  <2>1. ASSUME NEW x \in Actors, Ingest(x) \/ Kill(x)
        PROVE  Ledger'
    BY <1>2, <2>0, <2>1, LedgerOfIngest, LedgerOfKill DEF Ledger
  <2>2. CASE Raise \/ UNCHANGED vars
    <3>1. UNCHANGED <<seen, runs, lost, at, alert>>
      BY <2>2 DEF Raise, vars
    <3>2. ASSUME NEW a \in Alerts
          PROVE  RunsAdd(a)'
      BY <1>2, <3>1, <3>2 DEF Ledger, RunsAdd, InFlight, Starting
    <3> QED
      BY <2>0, <3>2 DEF Ledger
  <2> QED
    BY <1>2, <2>0, <2>1, <2>2, LedgerOfPoll, LedgerOfRequest DEF Next
<1> QED
  BY <1>1, <1>2

(* For any number of actors and any failures: what is marked has run, and  *)
(* runs on one thread are at most the lost ones and one for each actor.    *)
THEOREM RunsOfAnAlertAddUp == Spec => [](SeenHasRun /\ RunsAreBounded)
<1>1. Ledger => SeenHasRun /\ RunsAreBounded
  <2>1. SUFFICES ASSUME Ledger, NEW a \in Alerts
                 PROVE  /\ a \in seen => runs[a] > lost[a]
                        /\ runs[a] <= lost[a] + Cardinality(Actors)
    BY DEF SeenHasRun, RunsAreBounded, Ledger, TypeOK
  <2>2. /\ RunsAdd(a) /\ runs[a] \in Nat /\ lost[a] \in Nat
    BY <2>1 DEF Ledger, TypeOK
  <2> QED
    BY <2>2, ActorsOfAnAlert DEF RunsAdd
<1> QED
  BY <1>1, LedgerInductive, PTL DEF Spec

(* What is marked has run, whatever fails or is killed. *)
THEOREM SeenAlertsHaveRun == Spec => []SeenHasRun
  BY RunsOfAnAlertAddUp, PTL

=============================================================================
