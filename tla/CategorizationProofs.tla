------------------------ MODULE CategorizationProofs -------------------------
(***************************************************************************)
(* Theorems about Categorization, for any number of issues, runs, changes  *)
(* and faults, and for every setting of the listing, the semaphore and the *)
(* retries: no permit is lost, no record costs more requests than the      *)
(* retries allow, and a run has what it should have listed.                *)
(***************************************************************************)
EXTENDS Categorization, SelectionProofs, FiniteSetTheorems, SequenceTheorems, TLAPS

IsRun(p) ==
    DOMAIN p = {"pc", "daily", "force", "limit", "page", "records", "slots", "permits",
                "start", "seen", "capped"}

IsSlot(s) ==
    /\ DOMAIN s = {"pc", "parse", "tries", "calls", "method"}
    /\ s.parse \in Nat /\ s.tries \in Nat /\ s.calls \in Nat

(* The slots of a run whose request is under way. *)
CallingOf(p) == {k \in DOMAIN p.slots : p.slots[k].pc = "call"}

(* A slot has spent what its counters say, and no request on a URL. *)
Spends(p, k) ==
    LET s == p.slots[k]
    IN /\ s.parse <= ParseRetries /\ s.tries < MaxRetries
       /\ s.pc # "done" => s.calls <= s.parse * MaxRetries + s.tries
       /\ s.calls <= (ParseRetries + 1) * MaxRetries
       /\ s.pc = "call" => p.force \/ p.records[k] \notin HasUrl
       /\ ~p.force /\ p.records[k] \in HasUrl => s.calls = 0

(* Until its batch a run holds every permit. *)
GoodRun(p) ==
    /\ IsRun(p)
    /\ p.slots = [k \in DOMAIN p.slots |-> p.slots[k]]
    /\ p.permits \in Int
    /\ p.pc # "rows" => p.permits = Concurrency /\ p.slots = << >>
    /\ \A k \in DOMAIN p.slots : IsSlot(p.slots[k]) /\ Spends(p, k)
    /\ IsFiniteSet(CallingOf(p))
    /\ p.permits + Cardinality(CallingOf(p)) = Concurrency

GoodRuns == run = [r \in Runs |-> run[r]] /\ \A r \in Runs : GoodRun(run[r])

-----------------------------------------------------------------------------
(***************************************************************************)
(* Runs.                                                                   *)
(***************************************************************************)

LEMMA RetriesCost ==
    ASSUME NEW a \in Nat, NEW b \in Nat, a <= b
    PROVE  /\ a * MaxRetries \in Nat /\ b * MaxRetries \in Nat
           /\ a * MaxRetries <= b * MaxRetries
           /\ (a + 1) * MaxRetries = a * MaxRetries + MaxRetries
<1>1. MaxRetries \in Nat
  BY SizeAssumption
<1> QED BY <1>1

(* A run without a batch. *)
LEMMA NoBatchIsGood ==
    ASSUME NEW p, IsRun(p), p.slots = << >>, p.permits = Concurrency
    PROVE  GoodRun(p)
<1>1. p.slots = [k \in DOMAIN p.slots |-> p.slots[k]] /\ DOMAIN p.slots = {}
  OBVIOUS
<1>2. CallingOf(p) = {}
  BY <1>1 DEF CallingOf
<1>3. IsFiniteSet(CallingOf(p)) /\ Cardinality(CallingOf(p)) = 0
  BY <1>2, FS_EmptySet
<1>4. Concurrency \in Nat
  BY SizeAssumption
<1> QED BY <1>1, <1>3, <1>4 DEF GoodRun

LEMMA IdleIsGood == GoodRun(Idle)
<1>1. IsRun(Idle) /\ Idle.slots = << >> /\ Idle.permits = Concurrency
  BY DEF Idle, IsRun
<1> QED BY <1>1, NoBatchIsGood

(* The batch begins: every record waits. *)
LEMMA BatchIsGood ==
    ASSUME NEW p, IsRun(p), p.permits = Concurrency
    PROVE  GoodRun(Batch(p))
<1> DEFINE q == Batch(p)
<1>1. /\ IsRun(q) /\ q.permits = Concurrency /\ q.pc = "rows"
      /\ q.slots = [k \in DOMAIN p.records |-> Waiting] /\ q.records = p.records /\ q.force = p.force
  <2>1. q = [p EXCEPT !.pc = "rows", !.slots = [k \in DOMAIN p.records |-> Waiting]]
    BY DEF Batch
  <2> HIDE DEF q
  <2> QED BY <2>1 DEF IsRun
<1>2. DOMAIN q.slots = DOMAIN p.records /\ \A k \in DOMAIN q.slots : q.slots[k] = Waiting
  BY <1>1
<1>3. /\ IsSlot(Waiting) /\ Waiting.pc = "wait" /\ Waiting.calls = 0 /\ Waiting.parse = 0
      /\ Waiting.tries = 0
  BY DEF Waiting, IsSlot
<1>4. /\ MaxRetries \in Nat \ {0} /\ ParseRetries \in Nat /\ Concurrency \in Nat
      /\ (ParseRetries + 1) * MaxRetries \in Nat /\ 0 * MaxRetries + 0 = 0
  <2>1. /\ MaxRetries \in Nat \ {0} /\ ParseRetries \in Nat /\ Concurrency \in Nat
        /\ ParseRetries + 1 \in Nat /\ ParseRetries + 1 <= ParseRetries + 1
    BY SizeAssumption
  <2>2. (ParseRetries + 1) * MaxRetries \in Nat
    BY <2>1, RetriesCost
  <2> QED BY <2>1, <2>2
<1> HIDE DEF q
<1>5. \A k \in DOMAIN q.slots : Spends(q, k)
  BY <1>2, <1>3, <1>4 DEF Spends
<1>6. CallingOf(q) = {}
  BY <1>2, <1>3 DEF CallingOf
<1>7. IsFiniteSet(CallingOf(q)) /\ Cardinality(CallingOf(q)) = 0
  BY <1>6, FS_EmptySet
<1>8. q.slots = [k \in DOMAIN q.slots |-> q.slots[k]]
  BY <1>1
<1>9. GoodRun(q)
  BY <1>1, <1>2, <1>3, <1>4, <1>5, <1>7, <1>8 DEF GoodRun
<1> QED BY <1>9 DEF q

LEMMA GoodStep ==
    ASSUME GoodRuns, NEW r \in Runs, NEW p, GoodRun(p), Step(r, p)
    PROVE  GoodRuns'
  BY DEF GoodRuns, Step

(* One slot of a batch changes, and the permits with it. *)
LEMMA GoodSlot ==
    ASSUME NEW p, NEW q, NEW k \in DOMAIN p.slots, NEW s, GoodRun(p), p.pc = "rows",
           IsRun(q), q.pc = "rows", q.force = p.force, q.records = p.records,
           q.slots = [p.slots EXCEPT ![k] = s], IsSlot(s), Spends(q, k),
           \/ p.slots[k].pc = "call" /\ s.pc = "call" /\ q.permits = p.permits
           \/ p.slots[k].pc # "call" /\ s.pc # "call" /\ q.permits = p.permits
           \/ p.slots[k].pc = "call" /\ s.pc # "call" /\ q.permits = p.permits + 1
           \/ p.slots[k].pc # "call" /\ s.pc = "call" /\ q.permits = p.permits - 1
    PROVE  GoodRun(q)
<1>1. /\ DOMAIN q.slots = DOMAIN p.slots
      /\ q.slots = [j \in DOMAIN q.slots |-> q.slots[j]]
      /\ q.slots[k] = s
      /\ \A j \in DOMAIN p.slots : j # k => q.slots[j] = p.slots[j]
  BY DEF GoodRun
<1>2. \A j \in DOMAIN q.slots : IsSlot(q.slots[j])
  BY <1>1 DEF GoodRun
<1>3. ASSUME NEW j \in DOMAIN q.slots PROVE Spends(q, j)
  <2>1. CASE j # k
    <3>1. Spends(p, j)
      BY <1>1 DEF GoodRun
    <3> QED BY <1>1, <2>1, <3>1 DEF Spends
  <2> QED BY <2>1
<1>4. /\ IsFiniteSet(CallingOf(p)) /\ Cardinality(CallingOf(p)) \in Nat
      /\ p.permits + Cardinality(CallingOf(p)) = Concurrency /\ p.permits \in Int
  BY FS_CardinalityType DEF GoodRun
<1>5. CASE (p.slots[k].pc = "call" <=> s.pc = "call") /\ q.permits = p.permits
  <2>1. CallingOf(q) = CallingOf(p)
    BY <1>1, <1>5 DEF CallingOf
  <2> QED BY <1>1, <1>2, <1>3, <1>4, <1>5, <2>1 DEF GoodRun
<1>6. CASE p.slots[k].pc = "call" /\ s.pc # "call" /\ q.permits = p.permits + 1
  <2>1. CallingOf(q) = CallingOf(p) \ {k} /\ k \in CallingOf(p)
    BY <1>1, <1>6 DEF CallingOf
  <2>2. IsFiniteSet(CallingOf(q)) /\ Cardinality(CallingOf(q)) = Cardinality(CallingOf(p)) - 1
    BY <1>4, <2>1, FS_RemoveElement
  <2>3. q.permits \in Int /\ q.permits + Cardinality(CallingOf(q)) = Concurrency
    BY <1>4, <1>6, <2>2
  <2> QED BY <1>1, <1>2, <1>3, <2>2, <2>3 DEF GoodRun
<1>7. CASE p.slots[k].pc # "call" /\ s.pc = "call" /\ q.permits = p.permits - 1
  <2>1. CallingOf(q) = CallingOf(p) \cup {k} /\ k \notin CallingOf(p)
    BY <1>1, <1>7 DEF CallingOf
  <2>2. IsFiniteSet(CallingOf(q)) /\ Cardinality(CallingOf(q)) = Cardinality(CallingOf(p)) + 1
    BY <1>4, <2>1, FS_AddElement
  <2>3. q.permits \in Int /\ q.permits + Cardinality(CallingOf(q)) = Concurrency
    BY <1>4, <1>7, <2>2
  <2> QED BY <1>1, <1>2, <1>3, <2>2, <2>3 DEF GoodRun
<1> QED BY <1>5, <1>6, <1>7

-----------------------------------------------------------------------------
(***************************************************************************)
(* The steps of a run.                                                     *)
(***************************************************************************)

LEMMA GoodInit == Init => GoodRuns
<1> SUFFICES ASSUME Init PROVE GoodRuns
  OBVIOUS
<1>1. run = [r \in Runs |-> Idle]
  BY DEF Init
<1> QED BY <1>1, IdleIsGood DEF GoodRuns

(* What happens on GitHub changes only what a run has seen. *)
LEMMA GoodChange ==
    ASSUME GoodRuns, NEW kind, Change(kind)
    PROVE  GoodRuns'
<1>1. ASSUME NEW r \in Runs PROVE GoodRun(run'[r])
  <2>1. GoodRun(run[r])
    BY DEF GoodRuns
  <2>2. \/ run'[r] = run[r]
        \/ run'[r] = [run[r] EXCEPT !.seen = run[r].seen \cup {kind}]
    BY DEF Change
  <2>3. ASSUME NEW p, NEW q, NEW seen, GoodRun(p), q = [p EXCEPT !.seen = seen]
        PROVE  GoodRun(q)
    <3>1. /\ IsRun(q) /\ q.pc = p.pc /\ q.slots = p.slots /\ q.permits = p.permits
          /\ q.records = p.records /\ q.force = p.force
      BY <2>3 DEF GoodRun, IsRun
    <3>2. CallingOf(q) = CallingOf(p) /\ \A k : Spends(p, k) => Spends(q, k)
      BY <3>1 DEF CallingOf, Spends
    <3> QED BY <2>3, <3>1, <3>2 DEF GoodRun
  <2> QED BY <2>1, <2>2, <2>3
<1>2. run' = [r \in Runs |-> run'[r]]
  BY DEF Change
<1> QED BY <1>1, <1>2 DEF GoodRuns

LEMMA GoodStart ==
    ASSUME GoodRuns, NEW r \in Runs,
           \/ \E force \in BOOLEAN, limit \in Limits : StartRun(r, force, limit)
           \/ Fire(r) \/ Fails(r) \/ WriteWorkbook(r) \/ Kill(r)
    PROVE  GoodRuns'
<1>1. IsRun(Started) /\ Started.slots = << >> /\ Started.permits = Concurrency
  BY DEF Started, Idle, IsRun
<1>2. ASSUME NEW force, NEW limit, StartRun(r, force, limit)
      PROVE  GoodRuns'
  <2> DEFINE p == [Started EXCEPT !.force = force, !.limit = limit]
  <2>1. IsRun(p) /\ p.slots = << >> /\ p.permits = Concurrency
    BY <1>1 DEF IsRun
  <2>2. GoodRun(p)
    BY <2>1, NoBatchIsGood
  <2>3. Step(r, p)
    BY <1>2 DEF StartRun
  <2> QED BY <2>2, <2>3, GoodStep
<1>3. CASE Fire(r)
  <2> DEFINE p == [Started EXCEPT !.daily = TRUE]
  <2>1. IsRun(p) /\ p.slots = << >> /\ p.permits = Concurrency
    BY <1>1 DEF IsRun
  <2>2. GoodRun(p)
    BY <2>1, NoBatchIsGood
  <2>3. Step(r, p)
    BY <1>3 DEF Fire
  <2> QED BY <2>2, <2>3, GoodStep
<1>4. CASE Fails(r) \/ WriteWorkbook(r) \/ Kill(r)
  <2>1. Step(r, Idle)
    BY <1>4 DEF Fails, WriteWorkbook, Kill
  <2> QED BY <2>1, IdleIsGood, GoodStep
<1> QED BY <1>2, <1>3, <1>4

LEMMA GoodJson ==
    ASSUME GoodRuns, NEW r \in Runs, NEW file, NEW force, NEW limit,
           RunFromJson(r, file, force, limit)
    PROVE  GoodRuns'
<1> DEFINE p == [Idle EXCEPT !.force = force, !.limit = limit,
                             !.records = Parsed(Trim(file, limit)), !.seen = {"file"}]
<1>1. IsRun(p) /\ p.permits = Concurrency
  BY DEF Idle, IsRun
<1>2. Step(r, Batch(p))
  BY DEF RunFromJson
<1> QED BY <1>1, <1>2, BatchIsGood, GoodStep

(* Another page, or the batch. *)
LEMMA GoodPage ==
    ASSUME GoodRuns, NEW r \in Runs, ListPage(r)
    PROVE  GoodRuns'
<1> DEFINE p == run[r]
           records == Trim(p.records \o Parsed(Page(p.page)), p.limit)
           next == [p EXCEPT !.page = p.page + 1, !.records = records]
           last == [next EXCEPT !.capped = TRUE]
<1>1. GoodRun(p) /\ p.pc = "list"
  BY DEF ListPage, GoodRuns
<1>2. IsRun(p) /\ p.permits = Concurrency
  BY <1>1 DEF GoodRun
<1>3. Step(r, next) \/ Step(r, Batch(last)) \/ Step(r, Batch(next))
  BY DEF ListPage
<1>4. /\ IsRun(next) /\ next.slots = << >> /\ next.permits = Concurrency
      /\ IsRun(last) /\ last.permits = Concurrency
  BY <1>1, <1>2 DEF IsRun, GoodRun
<1> HIDE DEF p, next, last
<1>5. GoodRun(Batch(next)) /\ GoodRun(Batch(last)) /\ GoodRun(next)
  BY <1>4, BatchIsGood, NoBatchIsGood
<1> QED BY <1>3, <1>5, GoodStep

(* The next request of a slot, whatever becomes of it, is one of those     *)
(* its counters allow.                                                     *)
LEMMA CalledSpends ==
    ASSUME GoodRuns, NEW r \in Runs, NEW k, Calling(r, k)
    PROVE  LET s == Called(r, k)
           IN /\ run[r].slots[k].pc = "call" /\ k \in DOMAIN run[r].slots /\ run[r].pc = "rows"
              /\ run[r].force \/ run[r].records[k] \notin HasUrl
              /\ IsSlot(s) /\ s.pc = "call" /\ s.parse <= ParseRetries /\ s.tries < MaxRetries
              /\ s.calls <= s.parse * MaxRetries + s.tries + 1
              /\ s.calls <= (s.parse + 1) * MaxRetries
              /\ s.calls <= (ParseRetries + 1) * MaxRetries
<1> DEFINE t == run[r].slots[k]
           s == Called(r, k)
<1>1. /\ GoodRun(run[r]) /\ run[r].pc = "rows" /\ k \in DOMAIN run[r].slots /\ t.pc = "call"
  BY DEF Calling, Task, GoodRuns
<1>2. IsSlot(t) /\ Spends(run[r], k)
  BY <1>1 DEF GoodRun
<1>3. /\ t.parse \in Nat /\ t.tries \in Nat /\ t.calls \in Nat /\ t.parse <= ParseRetries
      /\ t.tries < MaxRetries /\ t.calls <= t.parse * MaxRetries + t.tries
      /\ run[r].force \/ run[r].records[k] \notin HasUrl
  BY <1>1, <1>2 DEF IsSlot, Spends
<1>4. s = [t EXCEPT !.calls = t.calls + 1]
  BY DEF Called
<1>5. /\ IsSlot(s) /\ s.pc = "call" /\ s.parse = t.parse /\ s.tries = t.tries
      /\ s.calls = t.calls + 1
  BY <1>1, <1>2, <1>3, <1>4 DEF IsSlot
<1>6. MaxRetries \in Nat /\ ParseRetries \in Nat
  BY SizeAssumption
<1>7. /\ t.parse + 1 \in Nat /\ ParseRetries + 1 \in Nat /\ t.parse + 1 <= ParseRetries + 1
      /\ t.parse <= t.parse
  BY <1>3, <1>6
<1>8. /\ t.parse * MaxRetries \in Nat
      /\ (t.parse + 1) * MaxRetries = t.parse * MaxRetries + MaxRetries
  BY <1>3, <1>7, RetriesCost
<1>9. /\ (t.parse + 1) * MaxRetries <= (ParseRetries + 1) * MaxRetries
      /\ (t.parse + 1) * MaxRetries \in Nat /\ (ParseRetries + 1) * MaxRetries \in Nat
  BY <1>7, RetriesCost
<1> HIDE DEF s, t
<1>10. /\ s.calls <= s.parse * MaxRetries + s.tries + 1
       /\ s.calls <= (s.parse + 1) * MaxRetries
  BY <1>3, <1>5, <1>6, <1>8
<1>11. s.calls <= (ParseRetries + 1) * MaxRetries
  BY <1>3, <1>5, <1>9, <1>10
<1>12. s.parse <= ParseRetries /\ s.tries < MaxRetries
  BY <1>3, <1>5
<1> QED BY <1>1, <1>3, <1>5, <1>10, <1>11, <1>12 DEF s, t

(* The task of a record ends. *)
LEMMA GoodEnd ==
    ASSUME GoodRuns, NEW r \in Runs, NEW k, Calling(r, k), NEW method, Ends(r, k, method)
    PROVE  GoodRuns'
<1> DEFINE p == run[r]
           s == [Called(r, k) EXCEPT !.pc = "done", !.method = method]
           q == [p EXCEPT !.permits = p.permits + 1, !.slots = [p.slots EXCEPT ![k] = s]]
<1>1. GoodRun(p) /\ p.pc = "rows" /\ k \in DOMAIN p.slots /\ p.slots[k].pc = "call"
  BY CalledSpends DEF GoodRuns
<1>2. /\ IsSlot(s) /\ s.pc = "done" /\ s.parse <= ParseRetries /\ s.tries < MaxRetries
      /\ s.calls <= (ParseRetries + 1) * MaxRetries
      /\ p.force \/ p.records[k] \notin HasUrl
  BY CalledSpends DEF IsSlot
<1>3. Step(r, q)
  BY DEF Ends
<1>4. /\ IsRun(q) /\ q.pc = "rows" /\ q.force = p.force /\ q.records = p.records
      /\ q.slots = [p.slots EXCEPT ![k] = s] /\ q.permits = p.permits + 1
  BY <1>1 DEF GoodRun, IsRun
<1> HIDE DEF p, q, s
<1>5. q.slots[k] = s
  BY <1>1, <1>4
<1>6. Spends(q, k)
  BY <1>2, <1>4, <1>5 DEF Spends
<1>7. GoodRun(q)
  BY <1>1, <1>2, <1>4, <1>6, GoodSlot
<1> QED BY <1>3, <1>7, GoodStep

(* The request is followed by another one. *)
LEMMA GoodRetry ==
    ASSUME GoodRuns, NEW r \in Runs, NEW k, Calling(r, k), NEW s, Goes(r, k, s), IsSlot(s),
           s.pc = "call", s.parse <= ParseRetries, s.tries < MaxRetries,
           s.calls <= s.parse * MaxRetries + s.tries, s.calls <= (ParseRetries + 1) * MaxRetries
    PROVE  GoodRuns'
<1> DEFINE p == run[r]
           q == [p EXCEPT !.slots = [p.slots EXCEPT ![k] = s]]
<1>1. /\ GoodRun(p) /\ p.pc = "rows" /\ k \in DOMAIN p.slots /\ p.slots[k].pc = "call"
      /\ p.force \/ p.records[k] \notin HasUrl
  BY CalledSpends DEF GoodRuns
<1>3. Step(r, q)
  BY DEF Goes
<1>4. /\ IsRun(q) /\ q.pc = "rows" /\ q.force = p.force /\ q.records = p.records
      /\ q.slots = [p.slots EXCEPT ![k] = s] /\ q.permits = p.permits
  BY <1>1 DEF GoodRun, IsRun
<1> HIDE DEF p, q
<1>5. q.slots[k] = s
  BY <1>1, <1>4
<1>6. Spends(q, k)
  BY <1>1, <1>4, <1>5 DEF Spends
<1>7. GoodRun(q)
  BY <1>1, <1>4, <1>6, GoodSlot
<1> QED BY <1>3, <1>7, GoodStep

(* A record is let in: it has its row from the URL, or its first request.  *)
LEMMA GoodEnter ==
    ASSUME GoodRuns, NEW r \in Runs, NEW k, RowByUrl(r, k) \/ EnterCall(r, k)
    PROVE  GoodRuns'
<1> DEFINE p == run[r]
           t == p.slots[k]
<1>1. GoodRun(p) /\ p.pc = "rows" /\ k \in DOMAIN p.slots /\ t.pc = "wait"
  BY DEF GoodRuns, RowByUrl, EnterCall, Enters, Task
<1>2. IsSlot(t) /\ Spends(p, k)
  BY <1>1 DEF GoodRun
<1>3. CASE RowByUrl(r, k)
  <2> DEFINE s == [t EXCEPT !.pc = "done", !.method = "url"]
             q == [p EXCEPT !.slots = [p.slots EXCEPT ![k] = s]]
  <2>1. Step(r, q)
    <3>1. q = [p EXCEPT !.slots[k].pc = "done", !.slots[k].method = "url"]
      BY <1>1, <1>2 DEF GoodRun, IsRun, IsSlot
    <3> QED BY <1>3, <3>1 DEF RowByUrl
  <2>2. /\ IsSlot(s) /\ s.pc = "done" /\ s.parse = t.parse /\ s.tries = t.tries
        /\ s.calls = t.calls
    BY <1>2 DEF IsSlot
  <2>3. /\ IsRun(q) /\ q.pc = "rows" /\ q.force = p.force /\ q.records = p.records
        /\ q.slots = [p.slots EXCEPT ![k] = s] /\ q.permits = p.permits
    BY <1>1 DEF GoodRun, IsRun
  <2> HIDE DEF q, s
  <2>4. q.slots[k] = s
    BY <1>1, <2>3
  <2>5. Spends(q, k)
    BY <1>2, <2>2, <2>3, <2>4 DEF Spends
  <2>6. GoodRun(q)
    BY <1>1, <2>2, <2>3, <2>5, GoodSlot
  <2> QED BY <2>1, <2>6, GoodStep
<1>4. CASE EnterCall(r, k)
  <2> DEFINE s == [t EXCEPT !.pc = "call"]
             q == [p EXCEPT !.permits = p.permits - 1, !.slots = [p.slots EXCEPT ![k] = s]]
  <2>1. Step(r, q)
    <3>1. q = [p EXCEPT !.permits = p.permits - 1, !.slots[k].pc = "call"]
      BY <1>1, <1>2 DEF GoodRun, IsRun, IsSlot
    <3> QED BY <1>4, <3>1 DEF EnterCall
  <2>2. /\ IsSlot(s) /\ s.pc = "call" /\ s.parse = t.parse /\ s.tries = t.tries
        /\ s.calls = t.calls
    BY <1>2 DEF IsSlot
  <2>3. /\ IsRun(q) /\ q.pc = "rows" /\ q.force = p.force /\ q.records = p.records
        /\ q.slots = [p.slots EXCEPT ![k] = s] /\ q.permits = p.permits - 1
    BY <1>1 DEF GoodRun, IsRun
  <2> HIDE DEF q, s
  <2>4. q.slots[k] = s
    BY <1>1, <2>3
  <2>5. p.force \/ p.records[k] \notin HasUrl
    BY <1>4, Zenon DEF EnterCall, ByUrl, p
  <2>6. Spends(q, k)
    BY <1>1, <1>2, <2>2, <2>3, <2>4, <2>5 DEF Spends
  <2>7. GoodRun(q)
    BY <1>1, <2>2, <2>3, <2>6, GoodSlot
  <2> QED BY <2>1, <2>7, GoodStep
<1> QED BY <1>3, <1>4

LEMMA GoodAnswer ==
    ASSUME GoodRuns, NEW r \in Runs, NEW k,
           \/ ModelAnswers(r, k) \/ AnswerIsInvalid(r, k)
           \/ RequestRaises(r, k) \/ RequestBreaks(r, k)
    PROVE  GoodRuns'
<1> DEFINE s == Called(r, k)
<1>1. Calling(r, k)
  BY DEF ModelAnswers, AnswerIsInvalid, RequestRaises, RequestBreaks
<1>2. /\ IsSlot(s) /\ s.pc = "call" /\ s.parse <= ParseRetries /\ s.tries < MaxRetries
      /\ s.calls <= s.parse * MaxRetries + s.tries + 1
      /\ s.calls <= (s.parse + 1) * MaxRetries
      /\ s.calls <= (ParseRetries + 1) * MaxRetries
  BY <1>1, CalledSpends
<1>3. /\ s.parse \in Nat /\ s.tries \in Nat /\ s.calls \in Nat
      /\ MaxRetries \in Nat \ {0} /\ ParseRetries \in Nat
  BY <1>2, SizeAssumption DEF IsSlot
<1>4. \/ \E method : Ends(r, k, method)
      \/ s.parse < ParseRetries /\ Goes(r, k, [s EXCEPT !.parse = s.parse + 1, !.tries = 0])
      \/ s.tries + 1 < MaxRetries /\ Goes(r, k, [s EXCEPT !.tries = s.tries + 1])
  BY Zenon DEF ModelAnswers, AnswerIsInvalid, RequestRaises, RequestBreaks
<1> HIDE DEF s
<1>5. CASE s.parse < ParseRetries /\ Goes(r, k, [s EXCEPT !.parse = s.parse + 1, !.tries = 0])
  <2> DEFINE t == [s EXCEPT !.parse = s.parse + 1, !.tries = 0]
  <2>1. /\ IsSlot(t) /\ t.pc = "call" /\ t.parse = s.parse + 1 /\ t.tries = 0
        /\ t.calls = s.calls
    BY <1>2, <1>3 DEF IsSlot
  <2> HIDE DEF t
  <2>2. t.parse <= ParseRetries /\ t.tries < MaxRetries
    BY <1>3, <1>5, <2>1
  <2>3. t.parse * MaxRetries \in Nat
    BY <1>3, <2>1, RetriesCost
  <2>4. t.calls <= t.parse * MaxRetries + t.tries
    BY <1>2, <1>3, <2>1, <2>3
  <2> QED BY <1>1, <1>2, <1>5, <2>1, <2>2, <2>4, GoodRetry DEF t
<1>6. CASE s.tries + 1 < MaxRetries /\ Goes(r, k, [s EXCEPT !.tries = s.tries + 1])
  <2> DEFINE t == [s EXCEPT !.tries = s.tries + 1]
  <2>1. /\ IsSlot(t) /\ t.pc = "call" /\ t.parse = s.parse /\ t.tries = s.tries + 1
        /\ t.calls = s.calls
    BY <1>2, <1>3 DEF IsSlot
  <2> HIDE DEF t
  <2>2. s.parse * MaxRetries \in Nat
    BY <1>3, RetriesCost
  <2>3. t.calls <= t.parse * MaxRetries + t.tries /\ t.tries < MaxRetries
    BY <1>2, <1>3, <1>6, <2>1, <2>2
  <2> QED BY <1>1, <1>2, <1>6, <2>1, <2>3, GoodRetry DEF t
<1> QED BY <1>1, <1>4, <1>5, <1>6, GoodEnd

LEMMA GoodNext == GoodRuns /\ [Next]_vars => GoodRuns'
<1> SUFFICES ASSUME GoodRuns, [Next]_vars PROVE GoodRuns'
  OBVIOUS
<1>1. CASE UNCHANGED vars
  BY <1>1 DEF GoodRuns, vars
<1>2. ASSUME NEW i \in Issues, OpenIssue(i) \/ CloseIssue(i) \/ UpdateIssue(i)
      PROVE  GoodRuns'
  BY <1>2, GoodChange DEF OpenIssue, CloseIssue, UpdateIssue
<1>3. ASSUME NEW r \in Runs, Handler(r) PROVE GoodRuns'
  BY <1>3, GoodPage, GoodStart, GoodEnter, GoodAnswer DEF Handler
<1> QED BY <1>1, <1>2, <1>3, GoodStart, GoodJson DEF Next

(* For any number of records, permits, requests and faults: on no way a    *)
(* task ends is a permit lost or gained.                                   *)
THEOREM PermitsAreKept == Spec => []PermitsAddUp
<1>1. GoodRuns => PermitsAddUp
  BY DEF GoodRuns, GoodRun, PermitsAddUp, CallingOf
<1> QED BY <1>1, GoodInit, GoodNext, PTL DEF Spec

(* Whatever the retries are set to and however errors and nonsense follow  *)
(* each other, a record costs no more requests than they allow.            *)
THEOREM CallsStayBounded == Spec => []CallsAreBounded
<1>1. GoodRuns => CallsAreBounded
  BY DEF GoodRuns, GoodRun, CallsAreBounded, Spends
<1> QED BY <1>1, GoodInit, GoodNext, PTL DEF Spec

-----------------------------------------------------------------------------
(***************************************************************************)
(* Types.                                                                  *)
(***************************************************************************)
Typed(p) ==
    /\ p \in RunRecords
    /\ p.limit # NoLimit => Len(p.records) <= p.limit
    /\ p.pc = "list" => p.page < MaxPages /\ ~Full(p.records, p.limit) /\ ~p.capped

TypeInv == GoodRuns /\ TypeOK /\ \A r \in Runs : Typed(run[r])

LEMMA LimitType ==
    ASSUME NEW limit \in Limits \cup {NoLimit}
    PROVE  limit # NoLimit => limit \in Nat /\ limit > 0
BY SizeAssumption

LEMMA ParsedType ==
    ASSUME NEW items \in Seq(Issues)
    PROVE  Parsed(items) \in Seq(Issues) /\ Len(Parsed(items)) <= Len(items)
<1>1. /\ Selected(items, Issues \ Skipped) \in Seq(Issues \cap (Issues \ Skipped))
      /\ Len(Selected(items, Issues \ Skipped)) <= Len(items)
  BY SelectedItems
<1>2. Issues \cap (Issues \ Skipped) \subseteq Issues
  OBVIOUS
<1> QED BY <1>1, <1>2 DEF Parsed

(* What Trim leaves is no longer than the limit. *)
LEMMA TrimType ==
    ASSUME NEW T, NEW s \in Seq(T), NEW limit \in Limits \cup {NoLimit}
    PROVE  /\ Trim(s, limit) \in Seq(T)
           /\ limit # NoLimit => Len(Trim(s, limit)) <= limit
           /\ Full(Trim(s, limit), limit) <=> Full(s, limit)
<1>1. CASE Full(s, limit)
  <2>1. limit # NoLimit /\ limit \in Nat /\ limit <= Len(s)
    BY <1>1, LimitType DEF Full
  <2>2. SubSeq(s, 1, limit) \in Seq(T) /\ Len(SubSeq(s, 1, limit)) = limit
    BY <2>1
  <2>3. Trim(s, limit) = SubSeq(s, 1, limit)
    BY <1>1 DEF Trim
  <2> QED BY <1>1, <2>1, <2>2, <2>3 DEF Full
<1>2. CASE ~Full(s, limit)
  <2>1. Trim(s, limit) = s
    BY <1>2 DEF Trim
  <2>2. limit # NoLimit => Len(s) <= limit
    BY <1>2, LimitType DEF Full
  <2> QED BY <2>1, <2>2
<1> QED BY <1>1, <1>2

LEMMA PageType ==
    ASSUME NEW n \in Nat, open \in Seq(Issues)
    PROVE  Page(n) \in Seq(Issues)
<1>1. PageSize \in Nat /\ n * PageSize \in Nat /\ (n + 1) * PageSize \in Nat
  <2>1. PageSize \in Nat
    BY SizeAssumption
  <2> QED BY <2>1
<1>2. Len(open) \in Nat
  OBVIOUS
<1> QED BY <1>1, <1>2 DEF Page

LEMMA IdleIsTyped == Typed(Idle)
<1>1. << >> \in Seq(Issues) /\ << >> \in Seq(Slots)
  OBVIOUS
<1>2. Concurrency \in 0 .. Concurrency /\ 0 \in 0 .. MaxPages
  BY SizeAssumption
<1>3. Idle \in RunRecords /\ Idle.pc = "idle" /\ Idle.limit = NoLimit
  BY <1>1, <1>2 DEF Idle, RunRecords
<1> QED BY <1>3 DEF Typed

LEMMA BatchIsTyped ==
    ASSUME NEW p \in RunRecords, p.limit # NoLimit => Len(p.records) <= p.limit
    PROVE  Typed(Batch(p)) /\ Batch(p).pc = "rows"
<1> DEFINE slots == [k \in DOMAIN p.records |-> Waiting]
<1>1. p.records \in Seq(Issues)
  BY DEF RunRecords
<1>2. Waiting \in Slots
  <2>1. 0 \in 0 .. ParseRetries /\ 0 \in 0 .. (MaxRetries - 1)
    BY SizeAssumption
  <2> QED BY <2>1 DEF Waiting, Slots
<1>3. slots \in Seq(Slots)
  <2>1. DOMAIN p.records = 1 .. Len(p.records) /\ Len(p.records) \in Nat
    BY <1>1
  <2> QED BY <1>2, <2>1
<1>4. Batch(p) = [p EXCEPT !.pc = "rows", !.slots = slots]
  BY DEF Batch
<1> HIDE DEF slots
<1>5. /\ Batch(p) \in RunRecords /\ Batch(p).pc = "rows"
      /\ Batch(p).limit = p.limit /\ Batch(p).records = p.records
  BY <1>3, <1>4 DEF RunRecords
<1> QED BY <1>5 DEF Typed

(* A run goes on to a typed record. *)
LEMMA TypedStep ==
    ASSUME TypeInv, GoodRuns', NEW r \in Runs, NEW p, Typed(p), Step(r, p),
           UNCHANGED faults \/ Fault
    PROVE  TypeInv'
<1>1. run' = [run EXCEPT ![r] = p] /\ UNCHANGED <<graphql, open, raised, changes>>
  BY DEF Step
<1>2. faults' \in 0 .. MaxFaults
  <2>1. faults \in 0 .. MaxFaults /\ MaxFaults \in Nat
    BY SizeAssumption DEF TypeInv, TypeOK
  <2> QED BY <2>1 DEF Fault
<1>3. run \in [Runs -> RunRecords] /\ p \in RunRecords
  BY DEF TypeInv, TypeOK, Typed
<1>4. run' \in [Runs -> RunRecords] /\ \A q \in Runs : run'[q] = IF q = r THEN p ELSE run[q]
  BY <1>1, <1>3
<1>5. \A q \in Runs : Typed(run'[q])
  BY <1>4 DEF TypeInv
<1>6. \A q \in Runs : run'[q].limit # NoLimit => Len(run'[q].records) <= run'[q].limit
  BY <1>5 DEF Typed
<1>7. TypeOK'
  BY <1>1, <1>2, <1>4, <1>6 DEF TypeInv, TypeOK
<1> QED BY <1>5, <1>7 DEF TypeInv

(* A row of the batch is worked on. *)
Worked(p, q) ==
    /\ p.pc = "rows" /\ q.pc = "rows" /\ q \in RunRecords
    /\ q.records = p.records /\ q.limit = p.limit /\ q.page = p.page
    /\ q.start = p.start /\ q.seen = p.seen /\ q.capped = p.capped

(* A run has begun to list. *)
Begun(p, listing) ==
    /\ p \in RunRecords /\ p.pc = "list" /\ p.records = << >> /\ p.page = 0
    /\ ~p.capped /\ p.start = listing /\ p.seen = {}

LEMMA SlotType ==
    ASSUME TypeInv, NEW r \in Runs, NEW k \in DOMAIN run[r].slots
    PROVE  run[r] \in RunRecords /\ run[r].slots \in Seq(Slots) /\ run[r].slots[k] \in Slots
<1>1. run[r] \in RunRecords
  BY DEF TypeInv, TypeOK
<1>2. run[r].slots \in Seq(Slots)
  BY <1>1 DEF RunRecords
<1> QED BY <1>1, <1>2

LEMMA PermitsType ==
    ASSUME NEW p, GoodRun(p), p.permits >= 0
    PROVE  p.permits \in 0 .. Concurrency
<1>1. p.permits \in Int /\ Cardinality(CallingOf(p)) \in Nat
  BY FS_CardinalityType DEF GoodRun
<1>2. p.permits + Cardinality(CallingOf(p)) = Concurrency /\ Concurrency \in Nat
  BY SizeAssumption DEF GoodRun
<1> QED BY <1>1, <1>2

(* A slot and the permits change. *)
LEMMA WorkedSlot ==
    ASSUME TypeInv, GoodRuns', NEW r \in Runs, NEW k \in DOMAIN run[r].slots,
           run[r].pc = "rows", NEW s \in Slots, NEW permits, permits >= 0,
           Step(r, [run[r] EXCEPT !.permits = permits, !.slots = [run[r].slots EXCEPT ![k] = s]])
    PROVE  \E q : Step(r, q) /\ Worked(run[r], q)
<1> DEFINE slots == [run[r].slots EXCEPT ![k] = s]
           q == [run[r] EXCEPT !.permits = permits, !.slots = slots]
<1>1. run[r] \in RunRecords /\ run[r].slots \in Seq(Slots)
  BY SlotType
<1>2. slots \in Seq(Slots)
  BY <1>1
<1>3. Step(r, q)
  OBVIOUS
<1> HIDE DEF slots
<1>4. q.permits = permits
  BY <1>1 DEF RunRecords
<1>5. GoodRun(q)
  <2>1. run \in [Runs -> RunRecords]
    BY DEF TypeInv, TypeOK
  <2>2. run'[r] = q
    BY <1>3, <2>1 DEF Step
  <2> QED BY <2>2 DEF GoodRuns
<1>6. permits \in 0 .. Concurrency
  BY <1>4, <1>5, PermitsType
<1>7. Worked(run[r], q)
  BY <1>1, <1>2, <1>6 DEF Worked, RunRecords
<1> QED BY <1>3, <1>7

LEMMA CalledType ==
    ASSUME NEW r, NEW k, run[r].slots[k] \in Slots
    PROVE  Called(r, k) \in Slots
BY DEF Called, Slots

LEMMA EndsIs ==
    ASSUME TypeInv, GoodRuns', NEW r \in Runs, NEW k, Calling(r, k),
           NEW method \in {"nlp", "fallback"}, Ends(r, k, method)
    PROVE  \E q : Step(r, q) /\ Worked(run[r], q)
<1> DEFINE s == [Called(r, k) EXCEPT !.pc = "done", !.method = method]
<1>1. k \in DOMAIN run[r].slots /\ run[r].pc = "rows"
  BY DEF Calling, Task
<1>2. run[r] \in RunRecords /\ run[r].slots[k] \in Slots
  BY <1>1, SlotType
<1>3. s \in Slots
  <2>1. Called(r, k) \in Slots
    BY <1>2, CalledType
  <2> QED BY <2>1 DEF Slots
<1>4. run[r].permits + 1 >= 0
  BY <1>2, SizeAssumption DEF RunRecords
<1>5. Step(r, [run[r] EXCEPT !.permits = run[r].permits + 1,
                            !.slots = [run[r].slots EXCEPT ![k] = s]])
  BY DEF Ends
<1> HIDE DEF s
<1> QED BY <1>1, <1>3, <1>4, <1>5, WorkedSlot

LEMMA GoesIs ==
    ASSUME TypeInv, GoodRuns', NEW r \in Runs, NEW k, Calling(r, k), NEW s \in Slots,
           Goes(r, k, s)
    PROVE  \E q : Step(r, q) /\ Worked(run[r], q)
<1>1. k \in DOMAIN run[r].slots /\ run[r].pc = "rows"
  BY DEF Calling, Task
<1>2. run[r] \in RunRecords
  BY <1>1, SlotType
<1>3. run[r].permits >= 0
  BY <1>2, SizeAssumption DEF RunRecords
<1>4. [run[r] EXCEPT !.slots[k] = s] =
          [run[r] EXCEPT !.permits = run[r].permits, !.slots = [run[r].slots EXCEPT ![k] = s]]
  BY <1>2 DEF RunRecords
<1>5. Step(r, [run[r] EXCEPT !.permits = run[r].permits,
                            !.slots = [run[r].slots EXCEPT ![k] = s]])
  BY <1>4 DEF Goes
<1> QED BY <1>1, <1>3, <1>5, WorkedSlot

LEMMA AnswerIs ==
    ASSUME TypeInv, GoodRuns', NEW r \in Runs, NEW k,
           \/ ModelAnswers(r, k) \/ AnswerIsInvalid(r, k)
           \/ RequestRaises(r, k) \/ RequestBreaks(r, k)
    PROVE  /\ UNCHANGED faults \/ Fault
           /\ \E q : Step(r, q) /\ Worked(run[r], q)
<1> DEFINE s == Called(r, k)
<1>1. Calling(r, k) /\ (UNCHANGED faults \/ Fault)
  BY DEF ModelAnswers, AnswerIsInvalid, RequestRaises, RequestBreaks
<1>2. run[r].slots[k] \in Slots
  BY <1>1, SlotType DEF Calling, Task
<1>3. s \in Slots
  BY <1>2, CalledType
<1>4. \/ Ends(r, k, "nlp") \/ Ends(r, k, "fallback")
      \/ s.parse < ParseRetries /\ Goes(r, k, [s EXCEPT !.parse = s.parse + 1, !.tries = 0])
      \/ s.tries + 1 < MaxRetries /\ Goes(r, k, [s EXCEPT !.tries = s.tries + 1])
  BY Zenon DEF ModelAnswers, AnswerIsInvalid, RequestRaises, RequestBreaks
<1> HIDE DEF s
<1>5. ASSUME s.parse < ParseRetries PROVE [s EXCEPT !.parse = s.parse + 1, !.tries = 0] \in Slots
  <2>1. s.parse + 1 \in 0 .. ParseRetries /\ 0 \in 0 .. (MaxRetries - 1)
    BY <1>3, <1>5, SizeAssumption DEF Slots
  <2> QED BY <1>3, <2>1 DEF Slots
<1>6. ASSUME s.tries + 1 < MaxRetries PROVE [s EXCEPT !.tries = s.tries + 1] \in Slots
  <2>1. s.tries + 1 \in 0 .. (MaxRetries - 1)
    BY <1>3, <1>6, SizeAssumption DEF Slots
  <2> QED BY <1>3, <2>1 DEF Slots
<1> QED BY <1>1, <1>4, <1>5, <1>6, EndsIs, GoesIs

LEMMA EnterIs ==
    ASSUME TypeInv, GoodRuns', NEW r \in Runs, NEW k, RowByUrl(r, k) \/ EnterCall(r, k)
    PROVE  /\ UNCHANGED faults
           /\ \E q : Step(r, q) /\ Worked(run[r], q)
<1> DEFINE p == run[r]
           t == p.slots[k]
<1>1. p.pc = "rows" /\ k \in DOMAIN p.slots /\ p.permits > 0 /\ UNCHANGED faults
  BY DEF RowByUrl, EnterCall, Enters, Task
<1>2. p \in RunRecords /\ p.slots \in Seq(Slots) /\ t \in Slots
  BY <1>1, SlotType
<1>3. CASE RowByUrl(r, k)
  <2> DEFINE s == [t EXCEPT !.pc = "done", !.method = "url"]
             q == [p EXCEPT !.permits = p.permits, !.slots = [p.slots EXCEPT ![k] = s]]
  <2>1. q = [p EXCEPT !.slots[k].pc = "done", !.slots[k].method = "url"]
    BY <1>1, <1>2 DEF RunRecords, Slots
  <2>2. Step(r, q)
    BY <1>3, <2>1 DEF RowByUrl
  <2>3. s \in Slots
    BY <1>2 DEF Slots
  <2>4. p.permits >= 0
    BY <1>2, SizeAssumption DEF RunRecords
  <2> QED BY <1>1, <2>2, <2>3, <2>4, WorkedSlot
<1>4. CASE EnterCall(r, k)
  <2> DEFINE s == [t EXCEPT !.pc = "call"]
             q == [p EXCEPT !.permits = p.permits - 1, !.slots = [p.slots EXCEPT ![k] = s]]
  <2>1. q = [p EXCEPT !.permits = p.permits - 1, !.slots[k].pc = "call"]
    BY <1>1, <1>2 DEF RunRecords, Slots
  <2>2. Step(r, q)
    BY <1>4, <2>1 DEF EnterCall
  <2>3. s \in Slots
    BY <1>2 DEF Slots
  <2>4. p.permits - 1 >= 0
    BY <1>1, <1>2, SizeAssumption DEF RunRecords
  <2> QED BY <1>1, <2>2, <2>3, <2>4, WorkedSlot
<1> QED BY <1>3, <1>4

LEMMA WorkedIsTyped ==
    ASSUME NEW p, Typed(p), NEW q, Worked(p, q)
    PROVE  Typed(q)
BY DEF Typed, Worked

(* A run starts, by a request or by the scheduler, or it is over. *)
LEMMA StartIs ==
    ASSUME TypeInv, NEW r \in Runs,
           \/ \E force \in BOOLEAN, limit \in Limits : StartRun(r, force, limit)
           \/ Fire(r)
    PROVE  /\ UNCHANGED faults
           /\ \E q : Step(r, q) /\ Begun(q, open)
<1>1. << >> \in Seq(Issues) /\ << >> \in Seq(Slots) /\ open \in Seq(Issues)
  BY DEF TypeInv, TypeOK
<1>2. Concurrency \in 0 .. Concurrency /\ 0 \in 0 .. MaxPages
  BY SizeAssumption
<1>3. Started \in RunRecords
  BY <1>1, <1>2 DEF Started, Idle, RunRecords
<1>4. /\ Started.pc = "list" /\ Started.records = << >> /\ Started.page = 0
      /\ Started.capped = FALSE /\ Started.start = open /\ Started.seen = {}
  BY DEF Started, Idle
<1>5. Begun(Started, open)
  BY <1>3, <1>4 DEF Begun
<1>6. ASSUME NEW p, Begun(p, open), NEW force \in BOOLEAN, NEW limit \in Limits
      PROVE  Begun([p EXCEPT !.force = force, !.limit = limit], open)
  BY <1>6 DEF Begun, RunRecords
<1>7. ASSUME NEW p, Begun(p, open)
      PROVE  Begun([p EXCEPT !.daily = TRUE], open)
  BY <1>7 DEF Begun, RunRecords
<1>8. CASE Fire(r)
  BY <1>5, <1>7, <1>8 DEF Fire
<1>9. ASSUME NEW force \in BOOLEAN, NEW limit \in Limits, StartRun(r, force, limit)
      PROVE  UNCHANGED faults /\ \E q : Step(r, q) /\ Begun(q, open)
  BY <1>5, <1>6, <1>9 DEF StartRun
<1> QED BY <1>8, <1>9

LEMMA BegunIsTyped ==
    ASSUME NEW p, NEW listing, Begun(p, listing)
    PROVE  Typed(p)
<1>1. p.limit \in Limits \cup {NoLimit} /\ p.records = << >> /\ p.page = 0
  BY DEF Begun, RunRecords
<1>2. ~Full(p.records, p.limit) /\ (p.limit # NoLimit => Len(p.records) <= p.limit)
  BY <1>1, LimitType DEF Full
<1> QED BY <1>1, <1>2, SizeAssumption DEF Begun, Typed

LEMMA OverIs ==
    ASSUME NEW r \in Runs, Fails(r) \/ WriteWorkbook(r) \/ Kill(r)
    PROVE  Step(r, Idle) /\ (UNCHANGED faults \/ Fault)
BY DEF Fails, WriteWorkbook, Kill

-----------------------------------------------------------------------------
LEMMA PageIsTyped ==
    ASSUME TypeInv, GoodRuns', NEW r \in Runs, ListPage(r)
    PROVE  TypeInv'
<1> DEFINE p == run[r]
           all == p.records \o Parsed(Page(p.page))
           records == Trim(all, p.limit)
           next == [p EXCEPT !.page = p.page + 1, !.records = records]
           last == [next EXCEPT !.capped = TRUE]
           more == (p.page + 1) * PageSize < Len(open) /\ ~Full(records, p.limit)
<1>1. /\ p.pc = "list" /\ UNCHANGED faults
      /\ \/ more /\ next.page < MaxPages /\ Step(r, next)
         \/ Step(r, Batch(last)) \/ Step(r, Batch(next))
  BY DEF ListPage
<1>2. p \in RunRecords /\ Typed(p) /\ open \in Seq(Issues)
  BY DEF TypeInv, TypeOK
<1>3. p.page \in Nat /\ p.page < MaxPages /\ MaxPages \in Nat /\ p.limit \in Limits \cup {NoLimit}
  BY <1>1, <1>2, SizeAssumption DEF Typed, RunRecords
<1>4. p.records \in Seq(Issues) /\ Parsed(Page(p.page)) \in Seq(Issues) /\ ~p.capped
  BY <1>1, <1>2, <1>3, PageType, ParsedType DEF Typed, RunRecords
<1>5. all \in Seq(Issues)
  BY <1>4
<1> HIDE DEF all
<1>6. records \in Seq(Issues) /\ (p.limit # NoLimit => Len(records) <= p.limit)
  BY <1>3, <1>5, TrimType
<1> HIDE DEF records
<1>7. /\ next \in RunRecords /\ next.pc = "list" /\ next.records = records
      /\ next.limit = p.limit /\ next.page = p.page + 1 /\ ~next.capped
  <2>1. p.page + 1 \in 0 .. MaxPages
    BY <1>3
  <2> QED BY <1>1, <1>2, <1>4, <1>6, <2>1 DEF RunRecords
<1> HIDE DEF next
<1>8. last \in RunRecords /\ last.records = records /\ last.limit = p.limit
  BY <1>7 DEF RunRecords
<1> HIDE DEF last, p
<1>9. Typed(Batch(next)) /\ Typed(Batch(last))
  BY <1>6, <1>7, <1>8, BatchIsTyped
<1>10. ASSUME more, next.page < MaxPages PROVE Typed(next)
  BY <1>6, <1>7, <1>10 DEF Typed
<1> QED BY <1>1, <1>9, <1>10, TypedStep

LEMMA JsonIs ==
    ASSUME TypeInv, NEW r \in Runs, NEW file \in Listings, NEW force \in BOOLEAN,
           NEW limit \in Limits, RunFromJson(r, file, force, limit)
    PROVE  /\ UNCHANGED faults
           /\ \E q : Step(r, q) /\ Typed(q) /\ q.pc = "rows" /\ q.seen = {"file"}
<1> DEFINE records == Parsed(Trim(file, limit))
           p == [Idle EXCEPT !.force = force, !.limit = limit, !.records = records,
                             !.seen = {"file"}]
<1>1. Step(r, Batch(p)) /\ UNCHANGED faults
  BY DEF RunFromJson
<1>2. file \in Seq(Issues) /\ limit \in Limits \cup {NoLimit}
  BY IssueAssumption
<1>3. Trim(file, limit) \in Seq(Issues) /\ (limit # NoLimit => Len(Trim(file, limit)) <= limit)
  BY <1>2, TrimType
<1>4. records \in Seq(Issues) /\ Len(records) <= Len(Trim(file, limit))
  BY <1>3, ParsedType
<1>5. limit # NoLimit => Len(records) <= limit
  <2>1. Len(records) \in Nat /\ Len(Trim(file, limit)) \in Nat
    BY <1>3, <1>4
  <2> QED BY <1>2, <1>3, <1>4, <2>1, LimitType
<1> HIDE DEF records
<1>6. p \in RunRecords /\ p.limit = limit /\ p.records = records /\ p.seen = {"file"}
  <2>1. Idle \in RunRecords
    BY IdleIsTyped DEF Typed
  <2> QED BY <1>2, <1>4, <2>1 DEF RunRecords
<1> HIDE DEF p
<1>7. Typed(Batch(p)) /\ Batch(p).pc = "rows"
  BY <1>5, <1>6, BatchIsTyped
<1>8. Batch(p).seen = {"file"}
  BY <1>6 DEF Batch, RunRecords
<1> QED BY <1>1, <1>7, <1>8

LEMMA TypeInit == Init => TypeInv
<1> SUFFICES ASSUME Init PROVE TypeInv
  OBVIOUS
<1>1. run = [r \in Runs |-> Idle] /\ Idle \in RunRecords /\ Typed(Idle)
  BY IdleIsTyped DEF Init, Typed
<1>2. run \in [Runs -> RunRecords] /\ \A r \in Runs : Typed(run[r])
  BY <1>1
<1>3. open \in Seq(Issues) /\ raised \subseteq Issues
  BY IssueAssumption, InType DEF Init
<1>4. 0 \in 0 .. MaxChanges /\ 0 \in 0 .. MaxFaults
  BY SizeAssumption
<1>5. TypeOK
  BY <1>2, <1>3, <1>4 DEF Init, TypeOK, Typed
<1> QED BY <1>2, <1>5, GoodInit DEF TypeInv

(* What happens on GitHub. *)
LEMMA WithoutType ==
    ASSUME open \in Seq(Issues), NEW i \in Issues
    PROVE  Without(i) \in Seq(Issues) /\ <<i>> \o open \in Seq(Issues)
           /\ <<i>> \o Without(i) \in Seq(Issues)
<1>1. Selected(open, Issues \ {i}) \in Seq(Issues \cap (Issues \ {i}))
  BY SelectedItems
<1>2. Without(i) \in Seq(Issues)
  BY <1>1 DEF Without
<1>3. <<i>> \in Seq(Issues)
  OBVIOUS
<1> QED BY <1>2, <1>3

LEMMA ChangeIs ==
    ASSUME NEW i \in Issues, OpenIssue(i) \/ CloseIssue(i) \/ UpdateIssue(i)
    PROVE  \E kind \in {"opened", "closed", "updated"} :
               /\ Change(kind)
               /\ kind = "opened" => open' = <<i>> \o open
BY DEF OpenIssue, CloseIssue, UpdateIssue

LEMMA ChangeIsTyped ==
    ASSUME TypeInv, GoodRuns', NEW i \in Issues, OpenIssue(i) \/ CloseIssue(i) \/ UpdateIssue(i)
    PROVE  TypeInv'
<1>1. PICK kind \in {"opened", "closed", "updated"} : Change(kind)
  BY ChangeIs
<1>2. open' \in Seq(Issues) /\ raised' \subseteq Issues
  BY WithoutType DEF OpenIssue, CloseIssue, UpdateIssue, TypeInv, TypeOK
<1>3. changes' \in 0 .. MaxChanges
  BY <1>1, SizeAssumption DEF Change, TypeInv, TypeOK
<1>4. UNCHANGED <<graphql, faults>>
  BY <1>1 DEF Change
<1>5. ASSUME NEW r \in Runs
      PROVE  run'[r] \in RunRecords /\ Typed(run'[r])
  <2>1. run'[r] = run[r] \/ run'[r] = [run[r] EXCEPT !.seen = run[r].seen \cup {kind}]
    BY <1>1 DEF Change
  <2>2. run[r] \in RunRecords /\ Typed(run[r])
    BY DEF TypeInv, TypeOK
  <2>3. run[r].seen \cup {kind} \in SUBSET {"opened", "closed", "updated", "file"}
    BY <2>2 DEF RunRecords
  <2>4. ASSUME NEW p, Typed(p), NEW seen \in SUBSET {"opened", "closed", "updated", "file"}
        PROVE  Typed([p EXCEPT !.seen = seen])
    BY <2>4 DEF Typed, RunRecords
  <2>5. Typed([run[r] EXCEPT !.seen = run[r].seen \cup {kind}])
    BY <2>2, <2>3, <2>4
  <2>6. Typed(run'[r])
    BY <2>1, <2>2, <2>5
  <2> QED BY <2>6 DEF Typed
<1>6. DOMAIN run' = Runs /\ run' = [r \in Runs |-> run'[r]]
  BY <1>1 DEF Change
<1>7. run' \in [Runs -> RunRecords]
  BY <1>5, <1>6
<1>8. \A r \in Runs : run'[r].limit # NoLimit => Len(run'[r].records) <= run'[r].limit
  BY <1>5 DEF Typed
<1>9. TypeOK'
  BY <1>2, <1>3, <1>4, <1>7, <1>8 DEF TypeInv, TypeOK
<1> QED BY <1>5, <1>9 DEF TypeInv

LEMMA TypeStep == TypeInv /\ [Next]_vars => TypeInv'
<1> SUFFICES ASSUME TypeInv, [Next]_vars PROVE TypeInv'
  OBVIOUS
<1>0. GoodRuns'
  BY GoodNext DEF TypeInv
<1>1. CASE UNCHANGED vars
  BY <1>0, <1>1 DEF TypeInv, TypeOK, vars
<1>2. ASSUME NEW i \in Issues, OpenIssue(i) \/ CloseIssue(i) \/ UpdateIssue(i)
      PROVE  TypeInv'
  BY <1>0, <1>2, ChangeIsTyped
<1>3. ASSUME NEW r \in Runs,
             \/ \E force \in BOOLEAN, limit \in Limits : StartRun(r, force, limit)
             \/ Fire(r)
      PROVE  TypeInv'
  BY <1>0, <1>3, StartIs, BegunIsTyped, TypedStep
<1>4. ASSUME NEW r \in Runs, NEW force \in BOOLEAN, NEW limit \in Limits, NEW file \in Listings,
             RunFromJson(r, file, force, limit)
      PROVE  TypeInv'
  BY <1>0, <1>4, JsonIs, TypedStep
<1>5. ASSUME NEW r \in Runs, Fails(r) \/ WriteWorkbook(r) \/ Kill(r) PROVE TypeInv'
  BY <1>0, <1>5, OverIs, IdleIsTyped, TypedStep
<1>6. ASSUME NEW r \in Runs, NEW q, Step(r, q), Worked(run[r], q), UNCHANGED faults \/ Fault
      PROVE  TypeInv'
  <2>1. Typed(q)
    BY <1>6, WorkedIsTyped DEF TypeInv
  <2> QED BY <1>0, <1>6, <2>1, TypedStep
<1>7. ASSUME NEW r \in Runs, Handler(r) PROVE TypeInv'
  BY <1>0, <1>5, <1>6, <1>7, PageIsTyped, EnterIs, AnswerIs DEF Handler
<1> QED BY <1>1, <1>2, <1>3, <1>4, <1>5, <1>7 DEF Next

(* For any number of issues, runs, changes and faults: whatever fails, a   *)
(* run has permits, attempts and records within their limits.              *)
THEOREM TypesAreKept == Spec => []TypeOK
<1>1. TypeInv => TypeOK
  BY DEF TypeInv
<1> QED BY <1>1, TypeInit, TypeStep, PTL DEF Spec

-----------------------------------------------------------------------------
(***************************************************************************)
(* What a run lists, against the listing as it stands.                     *)
(***************************************************************************)

(* How far the pages have gone. *)
Reach(p) == p.page * PageSize

(* Nothing happened: the pages so far are the beginning of the listing.    *)
Exact(p, listing) ==
    p.seen = {} =>
        /\ listing = p.start
        /\ Reach(p) <= Len(listing)
        /\ p.records = Parsed(SubSeq(listing, 1, Reach(p)))

(* Issues were opened: the listing ends with the one at the start, and     *)
(* what the pages have passed of that is among the records.                *)
Whole(p, listing) ==
    p.seen \subseteq {"opened"} =>
        /\ Len(p.start) <= Len(listing)
        /\ \A k \in DOMAIN p.start :
               LET at == Len(listing) - Len(p.start) + k
               IN /\ listing[at] = p.start[k]
                  /\ at <= Reach(p) => p.start[k] \in Skipped \cup In(p.records)

ExactInTheEnd(p) ==
    p.seen = {} =>
        LET reach == MaxPages * PageSize
            upto == IF reach < Len(p.start) THEN reach ELSE Len(p.start)
        IN p.records = Trim(Parsed(SubSeq(p.start, 1, upto)), p.limit)

WholeInTheEnd(p) ==
    p.seen \subseteq {"opened"} /\ ~p.capped /\ ~Full(p.records, p.limit) =>
        In(p.start) \ Skipped \subseteq In(p.records)

Lists(p, listing) ==
    /\ p.pc = "list" => Exact(p, listing) /\ Whole(p, listing)
    /\ p.pc = "rows" => ExactInTheEnd(p) /\ WholeInTheEnd(p)

ListingInv == \A r \in Runs : Lists(run[r], open)

LEMMA ReachType ==
    ASSUME NEW n \in Nat
    PROVE  /\ n * PageSize \in Nat /\ (n + 1) * PageSize \in Nat
           /\ (n + 1) * PageSize = n * PageSize + PageSize /\ PageSize \in Nat /\ PageSize > 0
<1>1. PageSize \in Nat \ {0}
  BY SizeAssumption
<1> QED BY <1>1

(* The first items of a list, and those that follow. *)
LEMMA FirstOnes ==
    ASSUME NEW T, NEW s \in Seq(T), NEW a \in Nat, NEW b \in Nat, a <= b, b <= Len(s)
    PROVE  /\ SubSeq(s, 1, a) \in Seq(T) /\ SubSeq(s, a + 1, b) \in Seq(T)
           /\ SubSeq(s, 1, b) = SubSeq(s, 1, a) \o SubSeq(s, a + 1, b)
           /\ Len(SubSeq(s, 1, a)) = a
           /\ \A i \in 1 .. Len(s) : a < i /\ i <= b => s[i] \in In(SubSeq(s, a + 1, b))
<1>1. 1 \in 1 .. Len(s) + 1 /\ a \in (1 - 1) .. Len(s) /\ b \in a .. Len(s) /\ Len(s) \in Nat
  OBVIOUS
<1>2. SubSeq(s, 1, b) = SubSeq(s, 1, a) \o SubSeq(s, a + 1, b)
  BY <1>1, ConcatAdjacentSubSeq
<1>3. /\ SubSeq(s, 1, a) \in Seq(T) /\ SubSeq(s, a + 1, b) \in Seq(T)
      /\ Len(SubSeq(s, 1, a)) = a
  BY <1>1
<1>4. ASSUME NEW i \in 1 .. Len(s), a < i, i <= b
      PROVE  s[i] \in In(SubSeq(s, a + 1, b))
  <2>1. i - a \in DOMAIN SubSeq(s, a + 1, b) /\ SubSeq(s, a + 1, b)[i - a] = s[i]
    BY <1>1, <1>4
  <2> QED BY <2>1 DEF In
<1> QED BY <1>2, <1>3, <1>4

(* The pages meet: one more page is as much more of the listing.           *)
LEMMA PagesMeet ==
    ASSUME open \in Seq(Issues), NEW n \in Nat, n * PageSize <= Len(open)
    PROVE  LET b == IF (n + 1) * PageSize < Len(open) THEN (n + 1) * PageSize ELSE Len(open)
           IN /\ b \in Nat /\ n * PageSize <= b /\ b <= Len(open)
              /\ Page(n) = SubSeq(open, n * PageSize + 1, b)
              /\ Parsed(SubSeq(open, 1, b)) =
                     Parsed(SubSeq(open, 1, n * PageSize)) \o Parsed(Page(n))
<1> DEFINE a == n * PageSize
           c == (n + 1) * PageSize
           b == IF c < Len(open) THEN c ELSE Len(open)
<1>1. Page(n) = SubSeq(open, a + 1, b)
  BY DEF Page
<1>2. a \in Nat /\ c \in Nat /\ a <= c /\ Len(open) \in Nat
  <2>1. a \in Nat /\ c \in Nat /\ c = a + PageSize /\ PageSize \in Nat
    BY ReachType
  <2>2. Len(open) \in Nat
    OBVIOUS
  <2> HIDE DEF a, c
  <2> QED BY <2>1, <2>2
<1> HIDE DEF a, c
<1>3. b \in Nat /\ a <= b /\ b <= Len(open)
  BY <1>2 DEF a
<1> HIDE DEF b
<1>4. /\ SubSeq(open, 1, a) \in Seq(Issues) /\ SubSeq(open, a + 1, b) \in Seq(Issues)
      /\ SubSeq(open, 1, b) = SubSeq(open, 1, a) \o SubSeq(open, a + 1, b)
  BY <1>2, <1>3, FirstOnes
<1>5. Parsed(SubSeq(open, 1, b)) = Parsed(SubSeq(open, 1, a)) \o Parsed(SubSeq(open, a + 1, b))
  BY <1>4, SelectedConcat DEF Parsed
<1> QED BY <1>1, <1>3, <1>5 DEF a, b, c

(* Trimming a list that is full takes nothing from what is added to it.    *)
LEMMA TrimOfMore ==
    ASSUME NEW T, NEW s \in Seq(T), NEW t \in Seq(T), NEW limit \in Limits \cup {NoLimit},
           Full(s, limit)
    PROVE  Trim(s \o t, limit) = Trim(s, limit)
<1>1. limit \in Nat /\ limit > 0 /\ limit <= Len(s) /\ limit # NoLimit
  BY LimitType DEF Full
<1>2. Len(s \o t) = Len(s) + Len(t) /\ Len(s) \in Nat /\ Len(t) \in Nat
  OBVIOUS
<1>3. Full(s \o t, limit)
  BY <1>1, <1>2 DEF Full
<1>4. 1 \in 1 .. Len(s) /\ limit \in 1 .. Len(s)
  BY <1>1, <1>2
<1>5. SubSeq(s \o t, 1, limit) = SubSeq(s, 1, limit)
  BY <1>4, SubSeqOfConcat1
<1> QED BY <1>3, <1>5 DEF Trim

-----------------------------------------------------------------------------
(***************************************************************************)
(* Another page.                                                           *)
(***************************************************************************)

(* The records with those of the next page, and where that page ends.      *)
All(p) == p.records \o Parsed(Page(p.page))

Upto(p) ==
    IF (p.page + 1) * PageSize < Len(open) THEN (p.page + 1) * PageSize ELSE Len(open)

LEMMA UptoType ==
    ASSUME open \in Seq(Issues), NEW p, p.page \in Nat
    PROVE  /\ Upto(p) \in Nat /\ Upto(p) <= Len(open) /\ Len(open) \in Nat
           /\ Reach(p) \in Nat /\ (p.page + 1) * PageSize \in Nat
           /\ (p.page + 1) * PageSize = Reach(p) + PageSize /\ PageSize \in Nat
<1>1. /\ Reach(p) \in Nat /\ (p.page + 1) * PageSize \in Nat
      /\ (p.page + 1) * PageSize = Reach(p) + PageSize /\ PageSize \in Nat
  BY ReachType DEF Reach
<1>2. Len(open) \in Nat
  OBVIOUS
<1> QED BY <1>1, <1>2 DEF Upto

LEMMA AllType ==
    ASSUME open \in Seq(Issues), NEW p \in RunRecords
    PROVE  /\ p.page \in Nat /\ p.records \in Seq(Issues) /\ p.start \in Seq(Issues)
           /\ p.limit \in Limits \cup {NoLimit}
           /\ Parsed(Page(p.page)) \in Seq(Issues) /\ All(p) \in Seq(Issues)
<1>1. /\ p.page \in Nat /\ p.records \in Seq(Issues) /\ p.start \in Seq(Issues)
      /\ p.limit \in Limits \cup {NoLimit}
  BY SizeAssumption DEF RunRecords
<1>2. Parsed(Page(p.page)) \in Seq(Issues)
  BY <1>1, PageType, ParsedType
<1> QED BY <1>1, <1>2 DEF All

LEMMA AllIsExact ==
    ASSUME open \in Seq(Issues), NEW p \in RunRecords, Exact(p, open), p.seen = {}
    PROVE  /\ open = p.start
           /\ All(p) = Parsed(SubSeq(open, 1, Upto(p)))
<1>1. open = p.start /\ Reach(p) <= Len(open) /\ p.records = Parsed(SubSeq(open, 1, Reach(p)))
  BY DEF Exact
<1>2. p.page \in Nat
  BY AllType
<1>3. Parsed(SubSeq(open, 1, Upto(p))) = Parsed(SubSeq(open, 1, Reach(p))) \o Parsed(Page(p.page))
  BY <1>1, <1>2, PagesMeet DEF Upto, Reach
<1> QED BY <1>1, <1>3 DEF All

(* Nothing of the listing as far as its cap is lost at the end.            *)
LEMMA EndIsExact ==
    ASSUME open \in Seq(Issues), NEW p \in RunRecords, Exact(p, open), p.seen = {},
           p.page < MaxPages,
           \/ Full(All(p), p.limit)
           \/ (p.page + 1) * PageSize >= Len(open)
           \/ p.page + 1 = MaxPages
    PROVE  LET reach == MaxPages * PageSize
               upto == IF reach < Len(p.start) THEN reach ELSE Len(p.start)
           IN Trim(All(p), p.limit) = Trim(Parsed(SubSeq(p.start, 1, upto)), p.limit)
<1> DEFINE reach == MaxPages * PageSize
           upto == IF reach < Len(p.start) THEN reach ELSE Len(p.start)
           b == Upto(p)
           c == (p.page + 1) * PageSize
<1>1. open = p.start /\ All(p) = Parsed(SubSeq(open, 1, b))
  BY AllIsExact
<1>2. /\ p.page \in Nat /\ All(p) \in Seq(Issues) /\ p.limit \in Limits \cup {NoLimit}
  BY AllType
<1>3. c \in Nat /\ b \in Nat /\ b <= Len(open) /\ Len(open) \in Nat
  BY <1>2, UptoType
<1>4. reach \in Nat /\ c <= reach /\ (p.page + 1 = MaxPages => c = reach)
  <2>1. MaxPages \in Nat /\ PageSize \in Nat
    BY SizeAssumption
  <2>2. p.page + 1 <= MaxPages /\ p.page + 1 \in Nat
    BY <1>2, <2>1
  <2>3. \A i, j \in Nat : i <= j => i * PageSize <= j * PageSize /\ j * PageSize \in Nat
    BY <2>1
  <2> QED BY <2>1, <2>2, <2>3
<1>5. b = IF c < Len(open) THEN c ELSE Len(open)
  BY DEF Upto
<1> HIDE DEF reach, b, c
<1>6. upto \in Nat /\ b <= upto /\ upto <= Len(open)
  BY <1>1, <1>3, <1>4, <1>5
<1>7. CASE c >= Len(open) \/ p.page + 1 = MaxPages
  <2>1. b = upto
    BY <1>1, <1>3, <1>4, <1>5, <1>7
  <2> QED BY <1>1, <2>1 DEF reach
<1>8. CASE Full(All(p), p.limit)
  <2> HIDE DEF upto
  <2>1. /\ SubSeq(open, b + 1, upto) \in Seq(Issues) /\ SubSeq(open, 1, b) \in Seq(Issues)
        /\ SubSeq(open, 1, upto) = SubSeq(open, 1, b) \o SubSeq(open, b + 1, upto)
    BY <1>3, <1>6, FirstOnes
  <2>2. Parsed(SubSeq(open, 1, upto)) = All(p) \o Parsed(SubSeq(open, b + 1, upto))
    <3>1. ASSUME NEW s \in Seq(Issues), NEW t \in Seq(Issues)
          PROVE  Parsed(s \o t) = Parsed(s) \o Parsed(t)
      BY SelectedConcat DEF Parsed
    <3> QED BY <1>1, <2>1, <3>1
  <2>3. Parsed(SubSeq(open, b + 1, upto)) \in Seq(Issues)
    BY <2>1, ParsedType
  <2>4. Trim(Parsed(SubSeq(open, 1, upto)), p.limit) = Trim(All(p), p.limit)
    <3> DEFINE rest == Parsed(SubSeq(open, b + 1, upto))
               all == All(p)
    <3>1. rest \in Seq(Issues) /\ all \in Seq(Issues) /\ Full(all, p.limit)
      BY <1>2, <1>8, <2>3
    <3>2. Parsed(SubSeq(open, 1, upto)) = all \o rest
      BY <2>2
    <3> HIDE DEF rest, all
    <3>3. Trim(all \o rest, p.limit) = Trim(all, p.limit)
      BY <1>2, <3>1, TrimOfMore
    <3> QED BY <3>2, <3>3 DEF all
  <2> QED BY <1>1, <2>4 DEF reach, upto
<1> QED BY <1>7, <1>8 DEF c

(* What stood at the start and the pages have passed is among the records. *)
LEMMA AllIsWhole ==
    ASSUME open \in Seq(Issues), NEW p \in RunRecords, Whole(p, open), p.seen \subseteq {"opened"},
           NEW k \in DOMAIN p.start, Len(open) - Len(p.start) + k <= Upto(p)
    PROVE  p.start[k] \in Skipped \cup In(All(p))
<1> DEFINE at == Len(open) - Len(p.start) + k
           a == Reach(p)
           b == Upto(p)
<1>1. /\ p.page \in Nat /\ p.records \in Seq(Issues) /\ p.start \in Seq(Issues)
      /\ Parsed(Page(p.page)) \in Seq(Issues)
  BY AllType
<1>2. a \in Nat /\ b \in Nat /\ b <= Len(open) /\ Len(open) \in Nat
  BY <1>1, UptoType
<1>3. /\ open[at] = p.start[k] /\ Len(p.start) <= Len(open)
      /\ at <= a => p.start[k] \in Skipped \cup In(p.records)
  BY DEF Whole
<1>4. at \in Nat /\ at >= 1 /\ at <= b
  BY <1>1, <1>2, <1>3
<1>5. In(All(p)) = In(p.records) \cup In(Parsed(Page(p.page)))
  BY <1>1, InConcat DEF All
<1>6. Page(p.page) = SubSeq(open, a + 1, b)
  BY DEF Page, Reach, Upto
<1> HIDE DEF at, a, b
<1>7. CASE ~(at <= a)
  <2>1. a < at /\ a <= b /\ at \in 1 .. Len(open)
    BY <1>2, <1>4, <1>7
  <2>2. open[at] \in In(SubSeq(open, a + 1, b)) /\ SubSeq(open, a + 1, b) \in Seq(Issues)
    BY <1>2, <1>4, <2>1, FirstOnes
  <2>3. p.start[k] \in In(Page(p.page)) /\ Page(p.page) \in Seq(Issues)
    BY <1>3, <1>6, <2>2
  <2>4. In(Parsed(Page(p.page))) = In(Page(p.page)) \cap (Issues \ Skipped)
    BY <2>3, SelectedItems DEF Parsed
  <2>5. In(Page(p.page)) \subseteq Issues
    BY <2>3, InType
  <2> QED BY <1>5, <2>3, <2>4, <2>5
<1> QED BY <1>3, <1>5, <1>7

LEMMA ListsStep ==
    ASSUME TypeInv, ListingInv, NEW r \in Runs, NEW p, Step(r, p), Lists(p, open)
    PROVE  ListingInv'
<1>1. run' = [run EXCEPT ![r] = p] /\ open' = open
  BY DEF Step
<1>2. \A q \in Runs : run'[q] = IF q = r THEN p ELSE run[q]
  BY <1>1 DEF TypeInv, TypeOK
<1>3. \A q \in Runs : Lists(run'[q], open)
  BY <1>2 DEF ListingInv
<1> QED BY <1>1, <1>3 DEF ListingInv

(* The batch has what was listed. *)
LEMMA BatchLists ==
    ASSUME NEW p \in RunRecords, NEW listing, ExactInTheEnd(p), WholeInTheEnd(p)
    PROVE  Lists(Batch(p), listing)
<1>1. /\ Batch(p).pc = "rows" /\ Batch(p).seen = p.seen /\ Batch(p).start = p.start
      /\ Batch(p).records = p.records /\ Batch(p).limit = p.limit /\ Batch(p).capped = p.capped
  BY DEF Batch, RunRecords
<1> QED BY <1>1 DEF Lists, ExactInTheEnd, WholeInTheEnd

LEMMA PageLists ==
    ASSUME TypeInv, ListingInv, NEW r \in Runs, ListPage(r)
    PROVE  ListingInv'
<1> DEFINE p == run[r]
           records == Trim(All(p), p.limit)
           next == [p EXCEPT !.page = p.page + 1, !.records = records]
           last == [next EXCEPT !.capped = TRUE]
           there == (p.page + 1) * PageSize < Len(open)
           full == Full(records, p.limit)
<1>1. p.pc = "list"
  BY DEF ListPage
<1>2. \/ there /\ ~full /\ next.page < MaxPages /\ Step(r, next)
      \/ there /\ ~full /\ next.page = MaxPages /\ Step(r, Batch(last))
      \/ ~(there /\ ~full) /\ Step(r, Batch(next))
  BY DEF ListPage, All
<1>3. p \in RunRecords /\ Typed(p) /\ open \in Seq(Issues)
  BY DEF TypeInv, TypeOK
<1>4. p.page < MaxPages /\ ~p.capped /\ Exact(p, open) /\ Whole(p, open)
  BY <1>1, <1>3 DEF ListingInv, Lists, Typed
<1>5. /\ p.page \in Nat /\ All(p) \in Seq(Issues) /\ p.limit \in Limits \cup {NoLimit}
      /\ p.start \in Seq(Issues)
  BY <1>3, AllType
<1>6. /\ records \in Seq(Issues) /\ (full <=> Full(All(p), p.limit))
      /\ ~full => records = All(p)
  BY <1>5, TrimType DEF Trim
<1>7. /\ Upto(p) \in Nat /\ Upto(p) <= Len(open) /\ Len(open) \in Nat
      /\ (p.page + 1) * PageSize \in Nat
      /\ there => Upto(p) = (p.page + 1) * PageSize
      /\ ~there => Upto(p) = Len(open)
  BY <1>3, <1>5, UptoType DEF Upto
<1>8. /\ next \in RunRecords /\ next.pc = "list" /\ next.page = p.page + 1
      /\ next.records = records /\ next.limit = p.limit /\ next.start = p.start
      /\ next.seen = p.seen /\ next.capped = p.capped
  <2>1. p.page + 1 \in 0 .. MaxPages
    BY <1>4, <1>5, SizeAssumption
  <2> HIDE DEF records
  <2> QED BY <1>1, <1>3, <1>6, <2>1 DEF RunRecords
<1>9. /\ last \in RunRecords /\ last.records = records /\ last.limit = p.limit
      /\ last.start = p.start /\ last.seen = p.seen /\ last.capped = TRUE
  <2> HIDE DEF next
  <2> QED BY <1>8 DEF RunRecords
<1>10. ASSUME p.seen \subseteq {"opened"}, NEW k \in DOMAIN p.start,
              Len(open) - Len(p.start) + k <= Upto(p)
       PROVE  p.start[k] \in Skipped \cup In(All(p))
  BY <1>3, <1>4, <1>10, AllIsWhole
<1> HIDE DEF next, last, records, full
<1>11. ASSUME there, ~full PROVE Lists(next, open)
  <2>1. Reach(next) = Upto(p)
    BY <1>7, <1>8, <1>11 DEF Reach
  <2>2. Exact(next, open)
    <3>1. ASSUME p.seen = {} PROVE open = p.start /\ All(p) = Parsed(SubSeq(open, 1, Upto(p)))
      BY <1>3, <1>4, <3>1, AllIsExact
    <3> QED BY <1>6, <1>7, <1>8, <1>11, <2>1, <3>1 DEF Exact
  <2>3. Whole(next, open)
    BY <1>4, <1>6, <1>8, <1>10, <1>11, <2>1 DEF Whole
  <2> QED BY <1>8, <2>2, <2>3 DEF Lists
<1>12. ASSUME NEW q, q.start = p.start, q.seen = p.seen, q.records = records, q.limit = p.limit,
              \/ there /\ ~full /\ next.page = MaxPages
              \/ ~(there /\ ~full)
       PROVE  ExactInTheEnd(q)
  <2>1. SUFFICES ASSUME p.seen = {} PROVE ExactInTheEnd(q)
    BY <1>12 DEF ExactInTheEnd
  <2>2. \/ Full(All(p), p.limit)
        \/ (p.page + 1) * PageSize >= Len(open)
        \/ p.page + 1 = MaxPages
    BY <1>6, <1>7, <1>8, <1>12
  <2>3. LET reach == MaxPages * PageSize
            upto == IF reach < Len(p.start) THEN reach ELSE Len(p.start)
        IN Trim(All(p), p.limit) = Trim(Parsed(SubSeq(p.start, 1, upto)), p.limit)
    BY <1>3, <1>4, <2>1, <2>2, EndIsExact
  <2> QED BY <1>12, <2>3 DEF ExactInTheEnd, records
<1>13. ASSUME ~(there /\ ~full) PROVE WholeInTheEnd(next)
  <2>1. SUFFICES ASSUME p.seen \subseteq {"opened"}, ~full, NEW i \in In(p.start) \ Skipped
                 PROVE  i \in In(records)
    BY <1>8 DEF WholeInTheEnd, full
  <2>2. PICK k \in DOMAIN p.start : i = p.start[k]
    BY <2>1 DEF In
  <2>3. Upto(p) = Len(open)
    BY <1>7, <1>13, <2>1
  <2>4. Len(open) - Len(p.start) + k <= Upto(p)
    BY <1>5, <1>7, <2>2, <2>3
  <2>5. p.start[k] \in Skipped \cup In(All(p))
    BY <1>10, <2>1, <2>4
  <2> QED BY <1>6, <2>1, <2>2, <2>5
<1>14. WholeInTheEnd(last)
  BY <1>9 DEF WholeInTheEnd
<1>15. CASE there /\ ~full /\ next.page < MaxPages /\ Step(r, next)
  BY <1>11, <1>15, ListsStep
<1>16. CASE there /\ ~full /\ next.page = MaxPages /\ Step(r, Batch(last))
  <2>1. ExactInTheEnd(last)
    BY <1>9, <1>12, <1>16
  <2> QED BY <1>9, <1>14, <1>16, <2>1, BatchLists, ListsStep
<1>17. CASE ~(there /\ ~full) /\ Step(r, Batch(next))
  <2>1. ExactInTheEnd(next)
    BY <1>8, <1>12, <1>17
  <2> QED BY <1>8, <1>13, <1>17, <2>1, BatchLists, ListsStep
<1> QED BY <1>2, <1>15, <1>16, <1>17

-----------------------------------------------------------------------------
(***************************************************************************)
(* The other steps.                                                        *)
(***************************************************************************)
LEMMA BegunLists ==
    ASSUME TypeInv, NEW p, Begun(p, open)
    PROVE  Lists(p, open)
<1>1. /\ p.pc = "list" /\ p.records = << >> /\ p.page = 0 /\ p.start = open
  BY DEF Begun
<1>2. open \in Seq(Issues) /\ Len(open) \in Nat /\ PageSize \in Nat
  BY SizeAssumption DEF TypeInv, TypeOK
<1>3. Reach(p) = 0
  BY <1>1, <1>2 DEF Reach
<1>4. SubSeq(open, 1, 0) = << >>
  BY <1>2
<1>5. Parsed(SubSeq(open, 1, 0)) = << >>
  BY <1>4, SelectedEmpty DEF Parsed
<1>6. Exact(p, open)
  BY <1>1, <1>2, <1>3, <1>5 DEF Exact
<1>7. Whole(p, open)
  BY <1>1, <1>2, <1>3 DEF Whole
<1> QED BY <1>1, <1>6, <1>7 DEF Lists

(* An issue is opened before the listing, or the run has seen that         *)
(* something else happened.                                                *)
LEMMA ChangeLists ==
    ASSUME TypeInv, ListingInv, NEW i \in Issues, OpenIssue(i) \/ CloseIssue(i) \/ UpdateIssue(i)
    PROVE  ListingInv'
<1>1. PICK kind \in {"opened", "closed", "updated"} :
          Change(kind) /\ (kind = "opened" => open' = <<i>> \o open)
  BY ChangeIs
<1>2. SUFFICES ASSUME NEW r \in Runs PROVE Lists(run'[r], open')
  BY DEF ListingInv
<1>3. run[r] \in RunRecords /\ Lists(run[r], open) /\ open \in Seq(Issues)
  BY DEF TypeInv, TypeOK, ListingInv
<1>4. CASE run[r].pc # "list"
  <2>1. run'[r] = run[r]
    BY <1>1, <1>4 DEF Change
  <2> QED BY <1>3, <1>4, <2>1 DEF Lists
<1>5. CASE run[r].pc = "list"
  <2> DEFINE p == run[r]
             q == [p EXCEPT !.seen = p.seen \cup {kind}]
  <2>1. run'[r] = q
    BY <1>1, <1>5 DEF Change
  <2>2. /\ q.pc = "list" /\ q.seen = p.seen \cup {kind} /\ q.start = p.start
        /\ q.records = p.records /\ q.page = p.page
    BY <1>3, <1>5 DEF RunRecords
  <2>3. p.start \in Seq(Issues) /\ p.page \in Nat /\ Whole(p, open)
    BY <1>3, <1>5, AllType DEF Lists
  <2> HIDE DEF p, q
  <2>4. Exact(q, open')
    BY <2>2 DEF Exact
  <2>5. Whole(q, open')
    <3>1. SUFFICES ASSUME q.seen \subseteq {"opened"} PROVE Whole(q, open')
      BY DEF Whole
    <3>2. kind = "opened" /\ p.seen \subseteq {"opened"} /\ open' = <<i>> \o open
      BY <1>1, <2>2, <3>1
    <3>3. /\ Len(open') = Len(open) + 1 /\ Len(open) \in Nat /\ Len(p.start) \in Nat
          /\ \A k \in 1 .. Len(open) : open'[k + 1] = open[k]
      BY <1>3, <2>3, <3>2
    <3>4. Reach(q) = Reach(p) /\ Reach(p) \in Nat /\ Len(p.start) <= Len(open)
      BY <2>2, <2>3, <3>2, ReachType DEF Reach, Whole
    <3>5. ASSUME NEW k \in DOMAIN p.start
          PROVE  LET at == Len(open') - Len(p.start) + k
                 IN /\ open'[at] = p.start[k]
                    /\ at <= Reach(q) => p.start[k] \in Skipped \cup In(p.records)
      <4> DEFINE before == Len(open) - Len(p.start) + k
      <4>1. open[before] = p.start[k] /\ (before <= Reach(p) => p.start[k] \in Skipped \cup In(p.records))
        BY <2>3, <3>2 DEF Whole
      <4>2. k \in Nat /\ 1 <= k /\ k <= Len(p.start)
        BY <2>3
      <4>3. /\ before \in Nat /\ 1 <= before /\ before <= Len(open)
            /\ Len(open') - Len(p.start) + k = before + 1
        <5>1. /\ Len(open') = Len(open) + 1 /\ Len(open) \in Nat /\ Len(p.start) \in Nat
              /\ Len(p.start) <= Len(open)
          BY <3>3, <3>4
        <5> DEFINE n == Len(open)
                   m == Len(p.start)
                   after == Len(open')
        <5>2. after = n + 1 /\ n \in Nat /\ m \in Nat /\ m <= n /\ k <= m /\ k \in Nat /\ 1 <= k
          BY <4>2, <5>1
        <5> HIDE DEF n, m, after
        <5>3. n - m + k \in Nat /\ 1 <= n - m + k /\ n - m + k <= n /\ after - m + k = n - m + k + 1
          BY <5>2
        <5> QED BY <5>3 DEF n, m, after
      <4> HIDE DEF before
      <4>4. open'[before + 1] = open[before]
        BY <3>3, <4>3
      <4>5. before + 1 <= Reach(q) => before <= Reach(p)
        BY <3>4, <4>3
      <4> QED BY <4>1, <4>3, <4>4, <4>5
    <3>6. q.start = p.start /\ q.records = p.records /\ Len(p.start) <= Len(open')
      BY <2>2, <3>3, <3>4
    <3> QED BY <3>5, <3>6 DEF Whole
  <2> QED BY <2>1, <2>2, <2>4, <2>5 DEF Lists
<1> QED BY <1>4, <1>5

LEMMA ListingInit == Init => ListingInv
<1> SUFFICES ASSUME Init PROVE ListingInv
  OBVIOUS
<1>1. \A r \in Runs : run[r] = Idle
  BY DEF Init
<1>2. Idle.pc = "idle"
  BY DEF Idle
<1> QED BY <1>1, <1>2 DEF ListingInv, Lists

LEMMA ListingStep == TypeInv /\ ListingInv /\ [Next]_vars => ListingInv'
<1> SUFFICES ASSUME TypeInv, ListingInv, [Next]_vars PROVE ListingInv'
  OBVIOUS
<1>0. GoodRuns'
  BY GoodNext DEF TypeInv
<1>1. CASE UNCHANGED vars
  BY <1>1 DEF ListingInv, vars
<1>2. ASSUME NEW r \in Runs,
             \/ \E force \in BOOLEAN, limit \in Limits : StartRun(r, force, limit)
             \/ Fire(r)
      PROVE  ListingInv'
  BY <1>2, StartIs, BegunLists, ListsStep
<1>3. ASSUME NEW r \in Runs, NEW force \in BOOLEAN, NEW limit \in Limits, NEW file \in Listings,
             RunFromJson(r, file, force, limit)
      PROVE  ListingInv'
  <2>1. PICK q : Step(r, q) /\ q.pc = "rows" /\ q.seen = {"file"}
    BY <1>3, JsonIs
  <2>2. Lists(q, open)
    BY <2>1 DEF Lists, ExactInTheEnd, WholeInTheEnd
  <2> QED BY <2>1, <2>2, ListsStep
<1>4. ASSUME NEW r \in Runs, Fails(r) \/ WriteWorkbook(r) \/ Kill(r) PROVE ListingInv'
  <2>1. Idle.pc = "idle" /\ Step(r, Idle)
    BY <1>4, OverIs DEF Idle
  <2>2. Lists(Idle, open)
    BY <2>1 DEF Lists
  <2> QED BY <2>1, <2>2, ListsStep
<1>5. ASSUME NEW r \in Runs, NEW q, Step(r, q), Worked(run[r], q) PROVE ListingInv'
  <2>1. Lists(q, open)
    BY <1>5 DEF Worked, ListingInv, Lists, ExactInTheEnd, WholeInTheEnd
  <2> QED BY <1>5, <2>1, ListsStep
<1>6. ASSUME NEW r \in Runs, Handler(r) PROVE ListingInv'
  BY <1>0, <1>4, <1>5, <1>6, PageLists, EnterIs, AnswerIs DEF Handler
<1> QED BY <1>1, <1>2, <1>3, <1>4, <1>6, ChangeLists DEF Next

(* For any number of issues and pages, any limits and any sizes of a page: *)
(* if nothing happens meanwhile, the pages meet without a gap or an        *)
(* overlap, and a run has what was open, in its order, up to its caps.     *)
THEOREM ListingStaysExact == Spec => []ListingIsExact
<1>1. ListingInv => ListingIsExact
  BY DEF ListingInv, Lists, ExactInTheEnd, ListingIsExact, Listed
<1> QED BY <1>1, TypeInit, TypeStep, ListingInit, ListingStep, PTL DEF Spec

(* However many issues are opened, and between whichever pages: a run that *)
(* meets no cap has every issue that was open when it began.               *)
THEOREM OpeningStaysHarmless == Spec => []OpeningHidesNothing
<1>1. ListingInv => OpeningHidesNothing
  BY DEF ListingInv, Lists, WholeInTheEnd, OpeningHidesNothing, Listed
<1> QED BY <1>1, TypeInit, TypeStep, ListingInit, ListingStep, PTL DEF Spec

=============================================================================
