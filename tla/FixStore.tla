------------------------------ MODULE FixStore ------------------------------
(***************************************************************************)
(* The two stores of a fix (memory/fix_store.py): store_fix commits a row  *)
(* to Postgres and then upserts a vector into Qdrant, with retries; when   *)
(* they are exhausted the row stays without one.  reconcile_missing_vectors*)
(* walks the table in windows, newest first, and indexes the gaps.  Both   *)
(* run at the same time, in processes that can be killed.                  *)
(*                                                                         *)
(* The script of a reconcile pass begins with ensure_collection, as other  *)
(* scripts do (memory/vector_store.py): unless it is told that the         *)
(* collection exists, the collection is deleted and created, and every     *)
(* vector is gone.                                                         *)
(*                                                                         *)
(* A fix is named by its resolved_at, which store_fix takes before it      *)
(* commits: two writers can commit in the other order.                     *)
(***************************************************************************)
EXTENDS Naturals, FiniteSets

CONSTANTS
    Writers,     \* calls of store_fix that can be in flight at once
    Workers,     \* reconcile scripts that can run at once
    Starters,    \* other scripts that ensure the collection when they start
    BatchSize,   \* batch_size
    Limits,      \* values of max_batches
    NoLimit,     \* max_batches=None
    MaxAttempts, \* attempts of one upsert: stop_after_attempt(5)
    MaxFixes,    \* bound: fixes stored
    MaxStarts,   \* bound: starts of the other scripts
    MaxFaults,   \* bound: calls to Qdrant that raise
    MaxDeaths    \* bound: calls and scripts that are killed

ASSUME SizeAssumption ==
    /\ BatchSize \in Nat \ {0}
    /\ MaxAttempts \in Nat \ {0}
    /\ NoLimit \notin Nat
    /\ Limits \subseteq Nat \cup {NoLimit}

ASSUME ScriptAssumption == Workers \cap Starters = {}

ASSUME BoundAssumption ==
    MaxFixes \in Nat /\ MaxStarts \in Nat /\ MaxFaults \in Nat /\ MaxDeaths \in Nat

VARIABLES
    rows,      \* the fixes table
    collection,\* whether Qdrant has the collection
    vectors,   \* the points of the collection
    call,      \* the calls of store_fix
    opening,   \* where each script is in ensure_collection
    pass,      \* the reconcile passes
    began,     \* fixes given a resolved_at so far
    starts, faults, deaths

store == <<collection, vectors>>
vars == <<rows, store, call, opening, pass, began, starts, faults, deaths>>

Scripts == Workers \cup Starters

NoCall == [pc |-> "idle", fix |-> 0, tries |-> 0]

NoPass == [pc |-> "idle", limit |-> NoLimit, offset |-> 0, batches |-> 0, batch |-> {}, gaps |-> {}, tries |-> 0,
           missing |-> 0, reindexed |-> 0, failed |-> 0,
           before |-> {},    \* history: the rows there were when the pass began
           lost |-> FALSE]   \* history: another script has deleted the collection since

Init ==
    /\ rows = {} /\ collection = FALSE /\ vectors = {}
    /\ call = [w \in Writers |-> NoCall]
    /\ opening = [s \in Scripts |-> "no"]
    /\ pass = [k \in Workers |-> NoPass]
    /\ began = 0 /\ starts = 0 /\ faults = 0 /\ deaths = 0

-----------------------------------------------------------------------------
(* upsert_fix: a point that is there is replaced. *)
WriteVector(r) == vectors' = vectors \cup {r} /\ UNCHANGED collection

(* A call that raises, before or after it took effect. *)
Fault(effect) ==
    /\ faults < MaxFaults
    /\ faults' = faults + 1
    /\ effect \/ UNCHANGED store

(* Without the collection every call on its points raises. *)
Raises(effect) == IF collection THEN Fault(effect) ELSE UNCHANGED <<store, faults>>

-----------------------------------------------------------------------------
(***************************************************************************)
(* store_fix.                                                              *)
(***************************************************************************)
\* Variation: the vector before the row.
StoreIndexesFirst(w) ==
    /\ call[w].pc = "idle"
    /\ began < MaxFixes
    /\ began' = began + 1
    /\ WriteVector(began')
    /\ call' = [call EXCEPT ![w] = [pc |-> "commit", fix |-> began', tries |-> 0]]
    /\ UNCHANGED <<rows, opening, pass, starts, faults, deaths>>

StoreFix(w) ==
    /\ call[w].pc = "idle"
    /\ began < MaxFixes
    /\ began' = began + 1
    /\ call' = [call EXCEPT ![w] = [pc |-> "commit", fix |-> began', tries |-> 0]]
    /\ UNCHANGED <<rows, store, opening, pass, starts, faults, deaths>>

CommitRow(w) ==
    /\ call[w].pc = "commit"
    /\ rows' = rows \cup {call[w].fix}
    /\ call' = [call EXCEPT ![w].pc = "index"]
    /\ UNCHANGED <<store, opening, pass, began, starts, faults, deaths>>

UpsertFix(w) ==
    /\ call[w].pc = "index"
    /\ collection
    /\ WriteVector(call[w].fix)
    /\ call' = [call EXCEPT ![w] = NoCall]
    /\ UNCHANGED <<rows, opening, pass, began, starts, faults, deaths>>

\* Variation: one attempt too many.
UpsertFixFailsLate(w) ==
    /\ call[w].pc = "index"
    /\ Raises(WriteVector(call[w].fix))
    /\ call' = IF call[w].tries < MaxAttempts
               THEN [call EXCEPT ![w].tries = @ + 1]
               ELSE [call EXCEPT ![w] = NoCall]
    /\ UNCHANGED <<rows, opening, pass, began, starts, deaths>>

(* Another attempt, or the fix_id is returned with the vector pending. *)
UpsertFixFails(w) ==
    /\ call[w].pc = "index"
    /\ Raises(WriteVector(call[w].fix))
    /\ call' = IF call[w].tries + 1 < MaxAttempts
               THEN [call EXCEPT ![w].tries = @ + 1]
               ELSE [call EXCEPT ![w] = NoCall]
    /\ UNCHANGED <<rows, opening, pass, began, starts, deaths>>

KillCall(w) ==
    /\ call[w].pc # "idle"
    /\ deaths < MaxDeaths
    /\ deaths' = deaths + 1
    /\ call' = [call EXCEPT ![w] = NoCall]
    /\ UNCHANGED <<rows, store, opening, pass, began, starts, faults>>

-----------------------------------------------------------------------------
(***************************************************************************)
(* ensure_collection.                                                      *)
(***************************************************************************)
NotOpening(p) == opening' = [opening EXCEPT ![p] = "no"]

(* The script goes on; a reconcile script begins its pass. *)
Opened(p) ==
    /\ NotOpening(p)
    /\ pass' = IF p \in Workers
               THEN [pass EXCEPT ![p] = [NoPass EXCEPT !.pc = "list", !.limit = pass[p].limit,
                                                       !.before = rows]]
               ELSE pass

(* The exception ends the script. *)
Abandoned(p) ==
    /\ NotOpening(p)
    /\ pass' = IF p \in Workers THEN [pass EXCEPT ![p] = NoPass] ELSE pass

GetCollection(p) ==
    /\ opening[p] = "get"
    /\ IF collection
       THEN Opened(p)
       ELSE opening' = [opening EXCEPT ![p] = "delete"] /\ UNCHANGED pass
    /\ UNCHANGED <<rows, store, call, began, starts, faults, deaths>>

(* An UnexpectedResponse, of whatever status, is taken for a collection    *)
(* that does not exist; any other exception ends the script.               *)
GetCollectionFails(p) ==
    /\ opening[p] = "get"
    /\ Fault(FALSE)
    /\ \/ opening' = [opening EXCEPT ![p] = "delete"] /\ UNCHANGED pass
       \/ Abandoned(p)
    /\ UNCHANGED <<rows, call, began, starts, deaths>>

Deleted == vectors' = {} /\ collection' = FALSE

(* The passes of the other scripts that lose what they have indexed. *)
Robbed(p) == [k \in Workers |-> [pass[k] EXCEPT !.lost = @ \/ (k # p /\ pass[k].pc # "idle")]]

(* recreate_collection deletes first, *)
DeleteCollection(p) ==
    /\ opening[p] = "delete"
    /\ Deleted
    /\ opening' = [opening EXCEPT ![p] = "create"]
    /\ pass' = Robbed(p)
    /\ UNCHANGED <<rows, call, began, starts, faults, deaths>>

DeleteCollectionFails(p) ==
    /\ opening[p] = "delete"
    /\ Fault(Deleted)
    /\ NotOpening(p)
    /\ LET left == IF collection' THEN pass ELSE Robbed(p)
       IN pass' = IF p \in Workers THEN [left EXCEPT ![p] = NoPass] ELSE left
    /\ UNCHANGED <<rows, call, began, starts, deaths>>

(* and then creates, unless another script has; the indexes follow. *)
CreateCollection(p) ==
    /\ opening[p] = "create"
    /\ collection' = TRUE
    /\ IF collection THEN Abandoned(p) ELSE Opened(p)
    /\ UNCHANGED <<rows, vectors, call, began, starts, faults, deaths>>

CreateCollectionFails(p) ==
    /\ opening[p] = "create"
    /\ Fault(collection' = TRUE /\ UNCHANGED vectors)
    /\ Abandoned(p)
    /\ UNCHANGED <<rows, call, began, starts, deaths>>

(* A script that is not the reconcile worker's starts. *)
StartScript(s) ==
    /\ opening[s] = "no"
    /\ starts < MaxStarts
    /\ starts' = starts + 1
    /\ opening' = [opening EXCEPT ![s] = "get"]
    /\ UNCHANGED <<rows, store, call, pass, began, faults, deaths>>

KillScript(s) ==
    /\ opening[s] # "no"
    /\ deaths < MaxDeaths
    /\ deaths' = deaths + 1
    /\ NotOpening(s)
    /\ UNCHANGED <<rows, store, call, pass, began, starts, faults>>

-----------------------------------------------------------------------------
(***************************************************************************)
(* reconcile_missing_vectors.                                              *)
(***************************************************************************)
(* ORDER BY resolved_at DESC: how many rows come before row r. *)
Rank(r) == Cardinality({x \in rows : x > r})

\* Variation: the row at the offset is left out.
WindowAfter(offset) == {r \in rows : offset < Rank(r) /\ Rank(r) <= offset + BatchSize}

(* LIMIT batch_size OFFSET offset. *)
Window(offset) == {r \in rows : offset <= Rank(r) /\ Rank(r) < offset + BatchSize}

StartPass(k, limit) ==
    /\ pass[k].pc \in {"idle", "done"}
    /\ pass' = [pass EXCEPT ![k] = [NoPass EXCEPT !.pc = "open", !.limit = limit]]
    /\ opening' = [opening EXCEPT ![k] = "get"]
    /\ UNCHANGED <<rows, store, call, began, starts, faults, deaths>>

(* An empty window ends the pass. *)
ListWindow(k) ==
    /\ pass[k].pc = "list"
    /\ LET batch == Window(pass[k].offset)
       IN pass' = [pass EXCEPT ![k].batch = batch,
                               ![k].pc = IF batch = {} THEN "done" ELSE "check"]
    /\ UNCHANGED <<rows, store, call, opening, began, starts, faults, deaths>>

PointsExist(k) ==
    /\ pass[k].pc = "check"
    /\ collection
    /\ LET gaps == pass[k].batch \ vectors
       IN pass' = [pass EXCEPT ![k].gaps = gaps,
                               ![k].missing = @ + Cardinality(gaps),
                               ![k].pc = "index"]
    /\ UNCHANGED <<rows, store, call, opening, began, starts, faults, deaths>>

(* points_exist raises: the pass ends without a report. *)
PointsExistFails(k) ==
    /\ pass[k].pc = "check"
    /\ Raises(FALSE)
    /\ pass' = [pass EXCEPT ![k] = NoPass]
    /\ UNCHANGED <<rows, call, opening, began, starts, deaths>>

NextGap(k, r) == pass[k].pc = "index" /\ r \in pass[k].gaps /\ \A x \in pass[k].gaps : x <= r

Reindex(k) ==
    \E r \in rows :
        /\ NextGap(k, r)
        /\ collection
        /\ WriteVector(r)
        /\ pass' = [pass EXCEPT ![k].gaps = @ \ {r}, ![k].tries = 0, ![k].reindexed = @ + 1]
        /\ UNCHANGED <<rows, call, opening, began, starts, faults, deaths>>

\* Variation: a row that cannot be indexed is left without a count.
ReindexFailsSilently(k) ==
    \E r \in rows :
        /\ NextGap(k, r)
        /\ Raises(WriteVector(r))
        /\ pass' = IF pass[k].tries + 1 < MaxAttempts
                   THEN [pass EXCEPT ![k].tries = @ + 1]
                   ELSE [pass EXCEPT ![k].gaps = @ \ {r}, ![k].tries = 0]
        /\ UNCHANGED <<rows, call, opening, began, starts, deaths>>

ReindexFails(k) ==
    \E r \in rows :
        /\ NextGap(k, r)
        /\ Raises(WriteVector(r))
        /\ pass' = IF pass[k].tries + 1 < MaxAttempts
                   THEN [pass EXCEPT ![k].tries = @ + 1]
                   ELSE [pass EXCEPT ![k].gaps = @ \ {r}, ![k].tries = 0, ![k].failed = @ + 1]
        /\ UNCHANGED <<rows, call, opening, began, starts, deaths>>

(* offset += len(batch). *)
Stride(p) == Cardinality(p.batch)

\* Variation: one window is a pass.
EndWindowOnce(k) ==
    /\ pass[k].pc = "index" /\ pass[k].gaps = {}
    /\ pass' = [pass EXCEPT ![k].pc = "idle"]
    /\ UNCHANGED <<rows, store, call, opening, began, starts, faults, deaths>>

(* The window is done; a pass that has reached max_batches ends here. *)
EndWindow(k) ==
    /\ pass[k].pc = "index" /\ pass[k].gaps = {}
    /\ LET p == [pass[k] EXCEPT !.offset = @ + Stride(pass[k]), !.batches = @ + 1, !.batch = {}]
           last == p.limit # NoLimit /\ p.batches >= p.limit
       IN pass' = [pass EXCEPT ![k] = [p EXCEPT !.pc = IF last THEN "idle" ELSE "list"]]
    /\ UNCHANGED <<rows, store, call, opening, began, starts, faults, deaths>>

KillPass(k) ==
    /\ pass[k].pc \notin {"idle", "done"}
    /\ deaths < MaxDeaths
    /\ deaths' = deaths + 1
    /\ Abandoned(k)
    /\ UNCHANGED <<rows, store, call, began, starts, faults>>

-----------------------------------------------------------------------------
Call(w) == CommitRow(w) \/ UpsertFix(w) \/ UpsertFixFails(w)

Open(p) ==
    \/ GetCollection(p) \/ GetCollectionFails(p)
    \/ DeleteCollection(p) \/ DeleteCollectionFails(p)
    \/ CreateCollection(p) \/ CreateCollectionFails(p)

Pass(k) ==
    \/ ListWindow(k) \/ PointsExist(k) \/ PointsExistFails(k)
    \/ Reindex(k) \/ ReindexFails(k) \/ EndWindow(k)

Next ==
    \/ \E w \in Writers : StoreFix(w) \/ Call(w) \/ KillCall(w)
    \/ \E p \in Scripts : Open(p)
    \/ \E s \in Starters : StartScript(s) \/ KillScript(s)
    \/ \E k \in Workers : Pass(k) \/ KillPass(k) \/ \E limit \in Limits : StartPass(k, limit)

Spec == Init /\ [][Next]_vars

(* Calls and reconcile scripts run to their end; that passes without       *)
(* max_batches are started again and again is the schedule the module's    *)
(* comment asks for.                                                       *)
FairSpec ==
    /\ Spec
    /\ \A w \in Writers : WF_vars(Call(w))
    /\ \A k \in Workers : WF_vars(Open(k)) /\ WF_vars(Pass(k)) /\ SF_vars(StartPass(k, NoLimit))

-----------------------------------------------------------------------------
(***************************************************************************)
(* Types.                                                                  *)
(***************************************************************************)
Fix == 1 .. MaxFixes

Calls == [pc: {"idle", "commit", "index"}, fix: Fix \cup {0}, tries: 0 .. (MaxAttempts - 1)]

Passes ==
    [pc: {"idle", "open", "list", "check", "index", "done"}, limit: Nat \cup {NoLimit}, offset: Nat, batches: Nat,
     batch: SUBSET Fix, gaps: SUBSET Fix, tries: 0 .. (MaxAttempts - 1),
     missing: Nat, reindexed: Nat, failed: Nat, before: SUBSET Fix, lost: BOOLEAN]

(* The stores, the calls and the passes keep their shape; no upsert is     *)
(* tried more often than the retry policy allows.                          *)
TypeOK ==
    /\ rows \subseteq Fix /\ collection \in BOOLEAN /\ vectors \subseteq Fix
    /\ call \in [Writers -> Calls]
    /\ opening \in [Scripts -> {"no", "get", "delete", "create"}]
    /\ pass \in [Workers -> Passes]
    /\ began \in 0 .. MaxFixes /\ starts \in Nat /\ faults \in Nat /\ deaths \in Nat

-----------------------------------------------------------------------------
(***************************************************************************)
(* What the two stores promise.                                            *)
(***************************************************************************)

(* A vector without a row could not be recovered, a row without a vector   *)
(* can: every point of the collection has its row, whatever is killed.     *)
VectorsHaveRows == vectors \subseteq rows

(* A pass over the whole table that reports no failure has closed every    *)
(* gap there was when it began, although rows committed meanwhile, in any  *)
(* order, shift the windows under it - unless a script that started beside *)
(* it has deleted the collection, which no report tells.                   *)
PassClosesGaps ==
    \A k \in Workers :
        pass[k].pc = "done" /\ pass[k].failed = 0 /\ ~pass[k].lost => pass[k].before \subseteq vectors

(* The counts a pass returns, from which the script takes its exit code:   *)
(* each missing row is reindexed or failed, and no more rows are scanned   *)
(* than the table has.                                                     *)
CountsAddUp ==
    \A k \in Workers :
        LET p == pass[k]
            scanned == p.offset + Cardinality(p.batch)
        IN /\ p.missing = p.reindexed + p.failed + Cardinality(p.gaps)
           /\ p.missing <= scanned
           /\ scanned <= Cardinality(rows)

(* Every fix is found by similarity in the end: a row whose upsert failed  *)
(* or was killed, or whose vector was deleted with the collection, gets    *)
(* its vector from a later pass.                                           *)
EveryFixIsIndexed == \A r \in Fix : (r \in rows) ~> (r \in vectors)

=============================================================================
