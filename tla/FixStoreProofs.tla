-------------------------- MODULE FixStoreProofs ----------------------------
(***************************************************************************)
(* Theorems about FixStore, for any number of writers, passes and other    *)
(* scripts, every window size and every number of fixes, faults and deaths.*)
(***************************************************************************)
EXTENDS FixStore, FiniteSetTheorems, WellFoundedInduction, TLAPS

(* A window is read, checked and indexed in that order. *)
Stages(k) ==
    /\ pass[k].gaps \subseteq pass[k].batch /\ pass[k].batch \subseteq rows
    /\ pass[k].before \subseteq rows
    /\ pass[k].pc # "index" => pass[k].gaps = {}
    /\ pass[k].pc \in {"idle", "open", "list", "done"} => pass[k].batch = {}

(* The counts; a window's gaps are counted once it was checked. *)
Counts(k) ==
    /\ pass[k].missing = pass[k].reindexed + pass[k].failed + Cardinality(pass[k].gaps)
    /\ pass[k].missing <= pass[k].offset
                             + (IF pass[k].pc = "index" THEN Cardinality(pass[k].batch) ELSE 0)
    /\ pass[k].offset + Cardinality(pass[k].batch) <= Cardinality(rows)

(* What is still to be done about row r in the window of the pass. *)
InHand(k, r) == r \in pass[k].gaps \/ (pass[k].pc = "check" /\ r \in pass[k].batch)

(* While nothing failed or was lost, each row of the beginning that stands *)
(* before the end of the window is indexed or in hand.                     *)
Covers(k) ==
    pass[k].pc \in {"list", "check", "index"} /\ pass[k].failed = 0 /\ ~pass[k].lost =>
        \A r \in pass[k].before :
            Rank(r) < pass[k].offset + Cardinality(pass[k].batch) =>
                r \in vectors \/ InHand(k, r)

Finished(k) ==
    pass[k].pc = "done" /\ pass[k].failed = 0 /\ ~pass[k].lost => pass[k].before \subseteq vectors

PassOK(k) == Stages(k) /\ Counts(k) /\ Covers(k) /\ Finished(k)

(* A call in flight has its fix. *)
Typed == TypeOK /\ \A w \in Writers : call[w].pc # "idle" => call[w].fix \in Fix

IndexedIsCommitted == \A w \in Writers : call[w].pc = "index" => call[w].fix \in rows

(* A pass is not under way while its script is in ensure_collection. *)
OpensFirst == \A k \in Workers : opening[k] # "no" => pass[k].pc = "open"

StoreInv ==
    /\ Typed
    /\ VectorsHaveRows /\ IndexedIsCommitted /\ OpensFirst
    /\ \A k \in Workers : PassOK(k)

-----------------------------------------------------------------------------
(***************************************************************************)
(* Rows and their ranks.                                                   *)
(***************************************************************************)

LEMMA FixIsFinite ==
    ASSUME NEW S, S \subseteq Fix
    PROVE  IsFiniteSet(S) /\ Cardinality(S) \in Nat
<1>1. IsFiniteSet(Fix)
  BY BoundAssumption, FS_Interval DEF Fix
<1> QED BY <1>1, FS_Subset, FS_CardinalityType

(* What is left of a set of numbers from a greater one on, or up to a      *)
(* smaller one, is less.                                                   *)
LEMMA CutOff ==
    ASSUME NEW S \in SUBSET Nat, NEW m \in S, NEW n \in S, m < n
    PROVE  /\ <<{x \in S : n <= x}, {x \in S : m <= x}>> \in StrictSubsetOrdering(S)
           /\ <<{x \in S : x <= m}, {x \in S : x <= n}>> \in StrictSubsetOrdering(S)
<1> DEFINE From(r) == {x \in S : r <= x}
           UpTo(r) == {x \in S : x <= r}
<1>0. S \subseteq Nat
  OBVIOUS
<1>1. /\ \A x \in S : n <= x => m <= x
      /\ \A x \in S : x <= m => x <= n
      /\ m <= m /\ n <= n /\ ~(n <= m)
  BY <1>0
<1>2. From(n) \in SUBSET From(m) /\ m \in From(m) /\ m \notin From(n)
  BY <1>1, Zenon
<1>3. UpTo(m) \in SUBSET UpTo(n) /\ n \in UpTo(n) /\ n \notin UpTo(m)
  BY <1>1, Zenon
<1>4. \A r : From(r) \in SUBSET S /\ UpTo(r) \in SUBSET S
  OBVIOUS
<1> HIDE DEF From, UpTo
<1>5. <<From(n), From(m)>> \in StrictSubsetOrdering(S)
  BY <1>2, <1>4 DEF StrictSubsetOrdering
<1>6. <<UpTo(m), UpTo(n)>> \in StrictSubsetOrdering(S)
  BY <1>3, <1>4 DEF StrictSubsetOrdering
<1> QED BY <1>5, <1>6 DEF From, UpTo

(* A set of rows that is not empty has a newest one ... *)
LEMMA NewestRow ==
    ASSUME NEW S, S \subseteq Fix, S # {}
    PROVE  \E m \in S : \A x \in S : x <= m
<1> DEFINE From(r) == {x \in S : r <= x}
           T == {From(r) : r \in S}
<1>1. T \subseteq FiniteSubsetsOf(S) /\ T # {}
  BY FixIsFinite DEF FiniteSubsetsOf
<1>2. \E U \in T : \A V \in T : ~(<<V, U>> \in StrictSubsetOrdering(S))
  <2> HIDE DEF T
  <2> QED BY <1>1, FS_StrictSubsetOrderingWellFounded, WFMin
<1>3. PICK m \in S : \A n \in S : ~(<<From(n), From(m)>> \in StrictSubsetOrdering(S))
  <2> HIDE DEF From
  <2> QED BY <1>2
<1>4. ASSUME NEW n \in S, ~(n <= m) PROVE FALSE
  <2>1. S \in SUBSET Nat
    BY BoundAssumption DEF Fix
  <2>3. m < n
    BY <1>4, <2>1
  <2> QED BY <1>3, <1>4, <2>1, <2>3, CutOff
<1> QED BY <1>4

(* ... and an oldest one. *)
LEMMA OldestRow ==
    ASSUME NEW S, S \subseteq Fix, S # {}
    PROVE  \E m \in S : \A x \in S : m <= x
<1> DEFINE UpTo(r) == {x \in S : x <= r}
           T == {UpTo(r) : r \in S}
<1>1. T \subseteq FiniteSubsetsOf(S) /\ T # {}
  BY FixIsFinite DEF FiniteSubsetsOf
<1>2. \E U \in T : \A V \in T : ~(<<V, U>> \in StrictSubsetOrdering(S))
  <2> HIDE DEF T
  <2> QED BY <1>1, FS_StrictSubsetOrderingWellFounded, WFMin
<1>3. PICK m \in S : \A n \in S : ~(<<UpTo(n), UpTo(m)>> \in StrictSubsetOrdering(S))
  <2> HIDE DEF UpTo
  <2> QED BY <1>2
<1>4. ASSUME NEW n \in S, ~(m <= n) PROVE FALSE
  <2>1. S \in SUBSET Nat
    BY BoundAssumption DEF Fix
  <2>3. n < m
    BY <1>4, <2>1
  <2> QED BY <1>3, <1>4, <2>1, <2>3, CutOff
<1> QED BY <1>4

LEMMA RankType ==
    ASSUME rows \subseteq Fix, NEW r
    PROVE  Rank(r) \in Nat
  BY FixIsFinite DEF Rank

(* A window that is empty is behind the last row: ranks have no gap. *)
LEMMA EmptyWindowIsBehind ==
    ASSUME rows \subseteq Fix, NEW offset \in Nat, Window(offset) = {}
    PROVE  \A r \in rows : Rank(r) < offset
<1> DEFINE Late == {r \in rows : offset <= Rank(r)}
<1> SUFFICES ASSUME Late # {} PROVE FALSE
  BY RankType
<1>1. PICK m \in Late : \A x \in Late : x <= m
  BY NewestRow
<1>2. rows \subseteq Nat /\ BatchSize \in Nat \ {0}
  BY BoundAssumption, SizeAssumption DEF Fix
<1>3. offset + BatchSize <= Rank(m)
  BY <1>1, <1>2, RankType DEF Window
<1> DEFINE Newer == {x \in rows : x > m}
<1>4. Newer # {}
  <2>1. Rank(m) = Cardinality(Newer)
    BY DEF Rank
  <2>2. Cardinality({}) = 0
    BY FS_EmptySet
  <2> HIDE DEF Newer
  <2> QED BY <1>2, <1>3, <2>1, <2>2
<1>5. PICK n \in Newer : \A x \in Newer : n <= x
  BY <1>4, OldestRow
<1>6. {x \in rows : x > n} = Newer \ {n}
  <2>1. \A x \in rows : x > n <=> x > m /\ x # n
    BY <1>1, <1>2, <1>5
  <2> QED BY <2>1, Zenon
<1>7. Rank(n) = Rank(m) - 1
  <2>1. Rank(m) = Cardinality(Newer) /\ Rank(n) = Cardinality(Newer \ {n})
    BY <1>6 DEF Rank
  <2>2. IsFiniteSet(Newer)
    BY FixIsFinite
  <2> HIDE DEF Newer
  <2> QED BY <1>5, <2>1, <2>2, FS_RemoveElement
<1>8. n \in Late
  BY <1>2, <1>3, <1>5, <1>7, RankType
<1> QED BY <1>1, <1>2, <1>5, <1>8

(* A window holds no more rows than there are behind the offset, nor more  *)
(* than the batch size.                                                    *)
LEMMA WindowFits ==
    ASSUME rows \subseteq Fix, NEW offset \in Nat, offset <= Cardinality(rows)
    PROVE  /\ Window(offset) \subseteq rows
           /\ offset + Cardinality(Window(offset)) <= Cardinality(rows)
           /\ Cardinality(Window(offset)) <= BatchSize
<1> DEFINE W == Window(offset)
<1>1. W \subseteq rows /\ rows \subseteq Nat
  BY BoundAssumption DEF Window, Fix
<1>2. /\ IsFiniteSet(rows) /\ Cardinality(rows) \in Nat
      /\ IsFiniteSet(W) /\ Cardinality(W) \in Nat
  BY <1>1, FixIsFinite
<1>3. CASE W = {}
  BY <1>1, <1>2, <1>3, FS_EmptySet, SizeAssumption
<1>4. CASE W # {}
  <2>1. PICK m \in W : \A x \in W : x <= m
    BY <1>1, <1>4, NewestRow
  <2>2. PICK o \in W : \A x \in W : o <= x
    BY <1>1, <1>4, OldestRow
  <2>0. (\A x \in rows : x \in Nat) /\ (\A x \in W : x \in Nat) /\ m \in Nat /\ o \in Nat
    BY <1>1
  <2> DEFINE Newer(r) == {x \in rows : x > r}
             N == Newer(m)
             O == Newer(o)
  <2>3. offset <= Cardinality(N)
    <3>1. offset <= Rank(m)
      BY <2>1 DEF Window
    <3> QED BY <3>1 DEF Rank
  <2>4. Cardinality(O) < offset + BatchSize
    <3>1. Rank(o) < offset + BatchSize
      BY <2>2 DEF Window
    <3> QED BY <3>1 DEF Rank
  <2>5. N \subseteq rows /\ N \cap W = {} /\ O \subseteq rows
    <3>1. \A x \in W : ~(x > m)
      BY <2>0, <2>1
    <3> QED BY <1>1, <3>1, Zenon
  <2>6. (N \cup W) \ {o} \subseteq O
    <3>1. \A x \in rows : x > m => x > o
      BY <2>0, <2>2
    <3>2. \A x \in W : x # o => x > o
      BY <2>0, <2>2
    <3> QED BY <1>1, <3>1, <3>2, Zenon
  <2> HIDE DEF W, N, O
  <2>7. /\ IsFiniteSet(N) /\ Cardinality(N) \in Nat
        /\ IsFiniteSet(O) /\ Cardinality(O) \in Nat
        /\ IsFiniteSet(N \cup W)
    <3>1. N \subseteq Fix /\ O \subseteq Fix /\ N \cup W \subseteq Fix
      BY <1>1, <2>5
    <3> QED BY <3>1, FixIsFinite
  <2>8. Cardinality(N \cup W) = Cardinality(N) + Cardinality(W)
    <3>1. Cardinality(N \cap W) = 0
      BY <2>5, FS_EmptySet
    <3>2. Cardinality(N \cup W) = Cardinality(N) + Cardinality(W) - Cardinality(N \cap W)
      BY <1>2, <2>7, FS_Union
    <3> QED BY <1>2, <2>7, <3>1, <3>2
  <2>9. Cardinality(N \cup W) <= Cardinality(rows)
    BY <1>1, <1>2, <2>5, FS_Subset
  <2>10. Cardinality((N \cup W) \ {o}) = Cardinality(N \cup W) - 1
    BY <2>2, <2>7, FS_RemoveElement
  <2>11. Cardinality((N \cup W) \ {o}) <= Cardinality(O)
    BY <2>6, <2>7, FS_Subset
  <2>12. /\ offset + Cardinality(W) <= Cardinality(rows)
         /\ Cardinality(W) <= BatchSize
    BY <1>2, <2>3, <2>4, <2>7, <2>8, <2>9, <2>10, <2>11, SizeAssumption
  <2> QED BY <1>1, <2>12 DEF W
<1> QED BY <1>3, <1>4

-----------------------------------------------------------------------------
(***************************************************************************)
(* Types.                                                                  *)
(***************************************************************************)
LEMMA TypeInit == Init => Typed
<1>1. NoCall \in Calls /\ NoCall.pc = "idle"
  BY SizeAssumption DEF Calls, NoCall
<1>2. NoPass \in Passes
  BY SizeAssumption DEF Passes, NoPass
<1> SUFFICES ASSUME Init PROVE Typed
  OBVIOUS
<1>3. collection \in BOOLEAN
  BY DEF Init
<1>4. /\ call \in [Writers -> Calls] /\ pass \in [Workers -> Passes]
      /\ opening \in [Scripts -> {"no", "get", "delete", "create"}]
      /\ \A w \in Writers : call[w].pc = "idle"
  BY <1>1, <1>2 DEF Init
<1>5. /\ rows \subseteq Fix /\ vectors \subseteq Fix /\ began \in 0 .. MaxFixes
      /\ starts \in Nat /\ faults \in Nat /\ deaths \in Nat
  BY BoundAssumption DEF Init
<1> QED BY <1>3, <1>4, <1>5 DEF Typed, TypeOK

LEMMA CallType ==
    ASSUME Typed, NEW w \in Writers, StoreFix(w) \/ Call(w) \/ KillCall(w)
    PROVE  Typed'
<1> USE BoundAssumption, SizeAssumption
<1>0. call[w] \in Calls /\ (call[w].pc # "idle" => call[w].fix \in Fix)
  BY DEF Typed, TypeOK
<1>1. NoCall \in Calls /\ NoCall.pc = "idle"
  BY DEF Calls, NoCall
<1>2. ASSUME NEW c \in Calls, call' = [call EXCEPT ![w] = c], c.pc # "idle" => c.fix \in Fix,
             rows' \subseteq Fix, vectors' \subseteq Fix, collection' \in BOOLEAN,
             UNCHANGED <<opening, pass, starts>>,
             began' \in 0 .. MaxFixes, faults' \in Nat, deaths' \in Nat
      PROVE  Typed'
  BY <1>2 DEF Typed, TypeOK
<1>3. /\ rows \subseteq Fix /\ vectors \subseteq Fix /\ collection \in BOOLEAN
      /\ began \in 0 .. MaxFixes /\ faults \in Nat /\ deaths \in Nat
  BY DEF Typed, TypeOK
<1>4. CASE StoreFix(w)
  <2>1. began' \in Fix /\ began' \in 0 .. MaxFixes
    BY <1>3, <1>4 DEF StoreFix, Fix
  <2>2. [pc |-> "commit", fix |-> began', tries |-> 0] \in Calls
    BY <2>1 DEF Calls
  <2> QED BY <1>2, <1>3, <1>4, <2>1, <2>2 DEF StoreFix, store
<1>5. CASE CommitRow(w)
  <2>1. [call[w] EXCEPT !.pc = "index"] \in Calls
    BY <1>0 DEF Calls
  <2>2. [call[w] EXCEPT !.pc = "index"].fix = call[w].fix
    BY <1>0 DEF Calls
  <2>3. call' = [call EXCEPT ![w] = [call[w] EXCEPT !.pc = "index"]]
    BY <1>5 DEF CommitRow
  <2> QED BY <1>0, <1>2, <1>3, <1>5, <2>1, <2>2, <2>3 DEF CommitRow, store
<1>6. CASE UpsertFix(w)
  BY <1>0, <1>1, <1>2, <1>3, <1>6 DEF UpsertFix, WriteVector
<1>7. CASE UpsertFixFails(w)
  <2> DEFINE again == [call[w] EXCEPT !.tries = call[w].tries + 1]
  <2>1. call[w].tries + 1 < MaxAttempts => again \in Calls
    BY <1>0 DEF Calls
  <2>2. again.pc = "index" /\ again.fix \in Fix
    BY <1>0, <1>7 DEF Calls, UpsertFixFails
  <2>3. call' = IF call[w].tries + 1 < MaxAttempts
                THEN [call EXCEPT ![w] = again] ELSE [call EXCEPT ![w] = NoCall]
    BY <1>7 DEF UpsertFixFails
  <2>4. vectors' \subseteq Fix /\ collection' \in BOOLEAN /\ faults' \in Nat
    BY <1>0, <1>3, <1>7 DEF UpsertFixFails, Raises, Fault, WriteVector, store
  <2> HIDE DEF again
  <2>5. CASE call[w].tries + 1 < MaxAttempts
    BY <1>2, <1>3, <1>7, <2>1, <2>2, <2>3, <2>4, <2>5 DEF UpsertFixFails
  <2>6. CASE ~(call[w].tries + 1 < MaxAttempts)
    BY <1>1, <1>2, <1>3, <1>7, <2>3, <2>4, <2>6 DEF UpsertFixFails
  <2> QED BY <2>5, <2>6
<1>8. CASE KillCall(w)
  <2>1. /\ call' = [call EXCEPT ![w] = NoCall] /\ deaths' \in Nat
        /\ UNCHANGED <<rows, collection, vectors, opening, pass, began, starts, faults>>
    BY <1>3, <1>8 DEF KillCall, store
  <2> QED BY <1>1, <1>2, <1>3, <2>1
<1> QED BY <1>4, <1>5, <1>6, <1>7, <1>8 DEF Call

(* A pass with one field changed is a pass. *)
LEMMA PassFields ==
    ASSUME NEW p \in Passes
    PROVE  /\ \A v \in {"idle", "open", "list", "check", "index", "done"} : [p EXCEPT !.pc = v] \in Passes
           /\ \A v \in Nat \cup {NoLimit} : [p EXCEPT !.limit = v] \in Passes
           /\ \A v \in Nat : /\ [p EXCEPT !.offset = v] \in Passes
                             /\ [p EXCEPT !.batches = v] \in Passes
                             /\ [p EXCEPT !.missing = v] \in Passes
                             /\ [p EXCEPT !.reindexed = v] \in Passes
                             /\ [p EXCEPT !.failed = v] \in Passes
           /\ \A v \in SUBSET Fix : /\ [p EXCEPT !.batch = v] \in Passes
                                    /\ [p EXCEPT !.gaps = v] \in Passes
                                    /\ [p EXCEPT !.before = v] \in Passes
           /\ \A v \in 0 .. (MaxAttempts - 1) : [p EXCEPT !.tries = v] \in Passes
           /\ \A v \in BOOLEAN : [p EXCEPT !.lost = v] \in Passes
  BY DEF Passes

(* A pass whose script has ensured the collection. *)
Fresh(k) == [NoPass EXCEPT !.pc = "list", !.limit = pass[k].limit, !.before = rows]

LEMMA FreshType ==
    ASSUME Typed, NEW k \in Workers
    PROVE  NoPass \in Passes /\ Fresh(k) \in Passes
<1>1. NoPass \in Passes
  BY SizeAssumption DEF Passes, NoPass
<1>2. rows \in SUBSET Fix /\ pass[k].limit \in Nat \cup {NoLimit}
  BY DEF Typed, TypeOK, Passes
<1>3. [[[NoPass EXCEPT !.pc = "list"] EXCEPT !.limit = pass[k].limit] EXCEPT !.before = rows]
          \in Passes
  BY <1>1, <1>2, PassFields
<1> QED BY <1>1, <1>3 DEF Fresh

LEMMA RobbedType ==
    ASSUME Typed, NEW p
    PROVE  Robbed(p) \in [Workers -> Passes]
<1> SUFFICES ASSUME NEW k \in Workers PROVE Robbed(p)[k] \in Passes
  BY DEF Robbed
<1>1. pass[k] \in Passes /\ pass[k].lost \in BOOLEAN
  BY DEF Typed, TypeOK, Passes
<1>2. Robbed(p)[k] = [pass[k] EXCEPT !.lost = (pass[k].lost \/ (k # p /\ pass[k].pc # "idle"))]
  BY <1>1 DEF Robbed
<1>3. (pass[k].lost \/ (k # p /\ pass[k].pc # "idle")) \in BOOLEAN
  OBVIOUS
<1> QED BY <1>1, <1>2, <1>3, PassFields

(* The pass of a script: it ends, begins, or stays. *)
LEMMA OpenMoves ==
    ASSUME Typed, NEW p \in Scripts, Open(p)
    PROVE  /\ opening[p] # "no" /\ opening' \in [Scripts -> {"no", "get", "delete", "create"}]
           /\ vectors' = vectors \/ vectors' = {}
           /\ UNCHANGED <<rows, call, began, starts, deaths>>
           /\ \/ pass' = pass /\ vectors' = vectors
              \/ pass' = Robbed(p)
              \/ /\ pass' \in {[pass EXCEPT ![p] = NoPass], [pass EXCEPT ![p] = Fresh(p)]}
                 /\ p \in Workers /\ vectors' = vectors
                 /\ opening' = [opening EXCEPT ![p] = "no"]
              \/ /\ pass' = [Robbed(p) EXCEPT ![p] = NoPass]
                 /\ p \in Workers
                 /\ opening' = [opening EXCEPT ![p] = "no"]
           /\ \A s \in Scripts : opening'[s] # "no" => opening[s] # "no"
           /\ collection' \in BOOLEAN /\ faults' \in Nat
<1>0. opening \in [Scripts -> {"no", "get", "delete", "create"}] /\ faults \in Nat
      /\ collection \in BOOLEAN
  BY DEF Typed, TypeOK
<1>1. CASE GetCollection(p)
  BY <1>0, <1>1 DEF GetCollection, Opened, NotOpening, Fresh, store
<1>2. CASE GetCollectionFails(p)
  BY <1>0, <1>2 DEF GetCollectionFails, Fault, Abandoned, NotOpening, store
<1>3. CASE DeleteCollection(p)
  BY <1>0, <1>3 DEF DeleteCollection, Deleted
<1>4. CASE DeleteCollectionFails(p)
  <2>1. \/ collection' = collection /\ vectors' = vectors
        \/ collection' = FALSE /\ vectors' = {}
    BY <1>4 DEF DeleteCollectionFails, Fault, Deleted, store
  <2>2. /\ opening[p] = "delete" /\ opening' = [opening EXCEPT ![p] = "no"]
        /\ UNCHANGED <<rows, call, began, starts, deaths>> /\ faults' = faults + 1
    BY <1>4 DEF DeleteCollectionFails, Fault, NotOpening
  <2>3. \A s \in Scripts : opening'[s] # "no" => opening[s] # "no"
    BY <1>0, <2>2
  <2>4. \/ pass' = pass /\ vectors' = vectors
        \/ pass' = Robbed(p)
        \/ p \in Workers /\ pass' = [pass EXCEPT ![p] = NoPass] /\ vectors' = vectors
        \/ p \in Workers /\ pass' = [Robbed(p) EXCEPT ![p] = NoPass]
    <3>1. CASE collection'
      BY <1>4, <2>1, <3>1 DEF DeleteCollectionFails
    <3>2. CASE ~collection'
      BY <1>4, <3>2 DEF DeleteCollectionFails
    <3> QED BY <3>1, <3>2
  <2>5. vectors' = vectors \/ vectors' = {}
    BY <2>1
  <2>6. collection' \in BOOLEAN
    BY <1>0, <2>1
  <2>7. opening' \in [Scripts -> {"no", "get", "delete", "create"}] /\ faults' \in Nat
    BY <1>0, <2>2
  <2> QED BY <2>2, <2>3, <2>4, <2>5, <2>6, <2>7
<1>5. CASE CreateCollection(p)
  BY <1>0, <1>5 DEF CreateCollection, Opened, Abandoned, NotOpening, Fresh
<1>6. CASE CreateCollectionFails(p)
  <2>1. /\ vectors' = vectors /\ collection' \in BOOLEAN /\ faults' = faults + 1
        /\ opening[p] = "create" /\ UNCHANGED <<rows, call, began, starts, deaths>>
    BY <1>0, <1>6 DEF CreateCollectionFails, Fault, store
  <2>2. /\ opening' = [opening EXCEPT ![p] = "no"]
        /\ pass' = IF p \in Workers THEN [pass EXCEPT ![p] = NoPass] ELSE pass
    BY <1>6 DEF CreateCollectionFails, Abandoned, NotOpening
  <2> QED BY <1>0, <2>1, <2>2
<1> QED BY <1>1, <1>2, <1>3, <1>4, <1>5, <1>6 DEF Open

LEMMA OpenType ==
    ASSUME Typed, NEW p \in Scripts, Open(p)
    PROVE  Typed'
<1>1. vectors' \subseteq Fix
  BY OpenMoves DEF Typed, TypeOK
<1>2. pass' \in [Workers -> Passes]
  <2>1. pass \in [Workers -> Passes] /\ Robbed(p) \in [Workers -> Passes]
    BY RobbedType DEF Typed, TypeOK
  <2>2. p \in Workers => NoPass \in Passes /\ Fresh(p) \in Passes
    BY FreshType
  <2>3. \/ pass' = pass
        \/ pass' = Robbed(p)
        \/ p \in Workers /\ pass' = [pass EXCEPT ![p] = NoPass]
        \/ p \in Workers /\ pass' = [pass EXCEPT ![p] = Fresh(p)]
        \/ p \in Workers /\ pass' = [Robbed(p) EXCEPT ![p] = NoPass]
    BY OpenMoves
  <2> QED BY <2>1, <2>2, <2>3
<1> QED BY <1>1, <1>2, OpenMoves DEF Typed, TypeOK

LEMMA StarterType ==
    ASSUME Typed, NEW s \in Starters, StartScript(s) \/ KillScript(s)
    PROVE  Typed'
<1>1. s \in Scripts
  BY DEF Scripts
<1> QED BY <1>1 DEF Typed, TypeOK, StartScript, KillScript, NotOpening, store

LEMMA PassType ==
    ASSUME Typed, NEW k \in Workers,
           Pass(k) \/ KillPass(k) \/ \E limit \in Limits : StartPass(k, limit)
    PROVE  Typed'
<1> USE BoundAssumption, SizeAssumption
<1>0. pass[k] \in Passes /\ NoPass \in Passes
  BY FreshType DEF Typed, TypeOK
<1>1. /\ rows \subseteq Fix /\ vectors \subseteq Fix /\ collection \in BOOLEAN
      /\ opening \in [Scripts -> {"no", "get", "delete", "create"}]
      /\ faults \in Nat /\ deaths \in Nat /\ k \in Scripts
  BY DEF Typed, TypeOK, Scripts
<1>2. /\ vectors' \subseteq Fix /\ collection' \in BOOLEAN /\ faults' \in Nat /\ deaths' \in Nat
      /\ rows' = rows /\ call' = call /\ began' = began /\ starts' = starts
      /\ opening' \in [Scripts -> {"no", "get", "delete", "create"}]
  <2>0. CASE KillPass(k)
    BY <1>1, <2>0 DEF KillPass, Abandoned, NotOpening, store
  <2>1. CASE \E limit \in Limits : StartPass(k, limit)
    BY <1>1, <2>1 DEF StartPass, store
  <2>2. CASE ListWindow(k) \/ PointsExist(k) \/ EndWindow(k)
    BY <1>1, <2>2 DEF ListWindow, PointsExist, EndWindow, store
  <2>3. CASE PointsExistFails(k)
    BY <1>1, <2>3 DEF PointsExistFails, Raises, Fault, store
  <2>4. CASE Reindex(k)
    BY <1>1, <2>4 DEF Reindex, WriteVector
  <2>5. CASE ReindexFails(k)
    BY <1>1, <2>5 DEF ReindexFails, Raises, Fault, WriteVector, store
  <2> QED BY <2>0, <2>1, <2>2, <2>3, <2>4, <2>5 DEF Pass
<1> SUFFICES \E p \in Passes : pass' = [pass EXCEPT ![k] = p]
  BY <1>2 DEF Typed, TypeOK
<1> DEFINE q == pass[k]
<1>3. /\ q.offset \in Nat /\ q.batches \in Nat /\ q.missing \in Nat /\ q.reindexed \in Nat
      /\ q.failed \in Nat /\ q.batch \subseteq Fix /\ q.gaps \subseteq Fix
      /\ q.tries \in 0 .. (MaxAttempts - 1)
  BY <1>0 DEF Passes
<1>11. 0 \in 0 .. (MaxAttempts - 1)
  BY SizeAssumption
<1>4. CASE \E limit \in Limits : StartPass(k, limit)
  <2> PICK limit \in Limits : StartPass(k, limit)
    BY <1>4
  <2>1. [[NoPass EXCEPT !.pc = "open"] EXCEPT !.limit = limit] \in Passes
    BY <1>0, PassFields
  <2> QED BY <2>1 DEF StartPass
<1>5. CASE ListWindow(k)
  <2>1. PICK batch \in SUBSET Fix, label \in {"done", "check"} :
            pass' = [pass EXCEPT ![k].batch = batch, ![k].pc = label]
    <3>1. Window(q.offset) \in SUBSET Fix
      BY <1>1 DEF Window
    <3> QED BY <1>5, <3>1 DEF ListWindow
  <2>2. [[q EXCEPT !.batch = batch] EXCEPT !.pc = label] \in Passes
    BY <1>0, PassFields
  <2> QED BY <2>1, <2>2
<1>6. CASE PointsExist(k)
  <2>1. PICK gaps \in SUBSET Fix, n \in Nat :
            pass' = [pass EXCEPT ![k].gaps = gaps, ![k].missing = n, ![k].pc = "index"]
    <3>1. q.batch \ vectors \in SUBSET Fix /\ q.missing + Cardinality(q.batch \ vectors) \in Nat
      BY <1>3, FixIsFinite
    <3> QED BY <1>6, <3>1 DEF PointsExist
  <2>2. [[[q EXCEPT !.gaps = gaps] EXCEPT !.missing = n] EXCEPT !.pc = "index"] \in Passes
    BY <1>0, PassFields
  <2> QED BY <2>1, <2>2
<1>7. CASE PointsExistFails(k) \/ KillPass(k)
  BY <1>0, <1>7 DEF PointsExistFails, KillPass, Abandoned
<1>8. CASE Reindex(k)
  <2>1. PICK gaps \in SUBSET Fix, n \in Nat :
            pass' = [pass EXCEPT ![k].gaps = gaps, ![k].tries = 0, ![k].reindexed = n]
    <3>1. PICK r \in rows :
              pass' = [pass EXCEPT ![k].gaps = q.gaps \ {r}, ![k].tries = 0,
                                   ![k].reindexed = q.reindexed + 1]
      BY <1>8 DEF Reindex
    <3>2. q.gaps \ {r} \in SUBSET Fix /\ q.reindexed + 1 \in Nat
      BY <1>3
    <3> HIDE DEF q
    <3> QED BY <3>1, <3>2
  <2>2. [[[q EXCEPT !.gaps = gaps] EXCEPT !.tries = 0] EXCEPT !.reindexed = n] \in Passes
    BY <1>0, <1>11, PassFields
  <2> QED BY <2>1, <2>2
<1>9. CASE ReindexFails(k)
  <2>1. CASE q.tries + 1 < MaxAttempts
    <3>1. pass' = [pass EXCEPT ![k].tries = q.tries + 1]
      BY <1>9, <2>1 DEF ReindexFails
    <3>2. q.tries + 1 \in 0 .. (MaxAttempts - 1)
      BY <1>3, <2>1
    <3>3. [q EXCEPT !.tries = q.tries + 1] \in Passes
      BY <1>0, <3>2, PassFields
    <3> QED BY <3>1, <3>3
  <2>2. CASE ~(q.tries + 1 < MaxAttempts)
    <3>1. PICK gaps \in SUBSET Fix, n \in Nat :
              pass' = [pass EXCEPT ![k].gaps = gaps, ![k].tries = 0, ![k].failed = n]
      <4>1. PICK r \in rows :
                pass' = [pass EXCEPT ![k].gaps = q.gaps \ {r}, ![k].tries = 0,
                                     ![k].failed = q.failed + 1]
        BY <1>9, <2>2 DEF ReindexFails
      <4>2. q.gaps \ {r} \in SUBSET Fix /\ q.failed + 1 \in Nat
        BY <1>3
      <4> HIDE DEF q
      <4> QED BY <4>1, <4>2
    <3>2. [[[q EXCEPT !.gaps = gaps] EXCEPT !.tries = 0] EXCEPT !.failed = n] \in Passes
      BY <1>0, <1>11, PassFields
    <3> QED BY <3>1, <3>2
  <2> QED BY <2>1, <2>2
<1>10. CASE EndWindow(k)
  <2>1. PICK offset \in Nat, batches \in Nat, label \in {"idle", "list"} :
            pass' = [pass EXCEPT ![k] = [q EXCEPT !.offset = offset, !.batches = batches,
                                                  !.batch = {}, !.pc = label]]
    <3>1. q.offset + Stride(q) \in Nat /\ q.batches + 1 \in Nat
      BY <1>3, FixIsFinite DEF Stride
    <3>2. PICK label \in {"idle", "list"} :
              pass' = [pass EXCEPT ![k] = [q EXCEPT !.offset = q.offset + Stride(q),
                            !.batches = q.batches + 1, !.batch = {}, !.pc = label]]
      BY <1>10 DEF EndWindow
    <3> HIDE DEF q
    <3> QED BY <3>1, <3>2
  <2>2. [[[[q EXCEPT !.offset = offset] EXCEPT !.batches = batches] EXCEPT !.batch = {}]
             EXCEPT !.pc = label] \in Passes
    BY <1>0, PassFields
  <2> QED BY <2>1, <2>2
<1> QED BY <1>4, <1>5, <1>6, <1>7, <1>8, <1>9, <1>10 DEF Pass

LEMMA TypeStep == Typed /\ [Next]_vars => Typed'
<1>1. Typed /\ UNCHANGED vars => Typed'
  BY DEF Typed, TypeOK, vars, store
<1> QED BY <1>1, CallType, OpenType, StarterType, PassType DEF Next

(* Both stores, the calls and the passes keep their shape. *)
THEOREM TypesHold == Spec => []TypeOK
  BY TypeInit, TypeStep, PTL DEF Spec, Typed

-----------------------------------------------------------------------------
(***************************************************************************)
(* The passes.                                                             *)
(***************************************************************************)

(* New rows move the others down, never up. *)
LEMMA RankGrows ==
    ASSUME rows \subseteq rows', rows' \subseteq Fix, NEW r
    PROVE  Rank(r) \in Nat /\ Rank(r)' \in Nat /\ Rank(r) <= Rank(r)'
<1> DEFINE old == {x \in rows : x > r}
           new == {x \in rows' : x > r}
<1>1. old \subseteq new /\ new \subseteq Fix /\ old \subseteq Fix
  OBVIOUS
<1> HIDE DEF old, new
<1>2. Cardinality(old) <= Cardinality(new) /\ Cardinality(old) \in Nat /\ Cardinality(new) \in Nat
  BY <1>1, FixIsFinite, FS_Subset
<1> QED BY <1>2 DEF Rank, old, new

(* What others write does not disturb a pass, and what they delete only    *)
(* one that is told so.                                                    *)
LEMMA PassStays ==
    ASSUME Typed, Typed', NEW k \in Workers, PassOK(k), rows \subseteq rows',
           NEW lost \in BOOLEAN, pass[k].lost => lost,
           pass'[k] = [pass[k] EXCEPT !.lost = lost],
           vectors \subseteq vectors' \/ lost \/ pass[k].pc \in {"idle", "open"}
    PROVE  PassOK(k)'
<1>1. rows' \subseteq Fix /\ pass[k] \in Passes
  BY DEF Typed, TypeOK
<1>2. /\ pass'[k].gaps = pass[k].gaps /\ pass'[k].batch = pass[k].batch
      /\ pass'[k].before = pass[k].before /\ pass'[k].pc = pass[k].pc
      /\ pass'[k].missing = pass[k].missing /\ pass'[k].reindexed = pass[k].reindexed
      /\ pass'[k].failed = pass[k].failed /\ pass'[k].offset = pass[k].offset
      /\ pass'[k].lost = lost
  BY <1>1 DEF Passes
<1>3. Stages(k)'
  BY <1>2 DEF PassOK, Stages
<1>4. Counts(k)'
  <2>1. /\ Cardinality(rows) <= Cardinality(rows')
        /\ Cardinality(rows) \in Nat /\ Cardinality(rows') \in Nat
    BY <1>1, FixIsFinite, FS_Subset
  <2>2. pass[k].offset \in Nat /\ Cardinality(pass[k].batch) \in Nat
    BY <1>1, FixIsFinite DEF Passes
  <2> QED BY <1>2, <2>1, <2>2 DEF PassOK, Counts
<1>5. Covers(k)'
  <2> SUFFICES ASSUME pass[k].pc \in {"list", "check", "index"}, pass[k].failed = 0, ~lost
               PROVE  Covers(k)'
    BY <1>2 DEF Covers
  <2>1. \A r : Rank(r) \in Nat /\ Rank(r)' \in Nat /\ Rank(r) <= Rank(r)'
    BY <1>1, RankGrows
  <2>2. pass[k].offset + Cardinality(pass[k].batch) \in Nat
    BY <1>1, FixIsFinite DEF Passes
  <2>3. \A r : Rank(r)' < pass[k].offset + Cardinality(pass[k].batch) =>
                   Rank(r) < pass[k].offset + Cardinality(pass[k].batch)
    BY <2>1, <2>2
  <2>4. vectors \subseteq vectors'
    OBVIOUS
  <2> QED BY <1>2, <2>3, <2>4 DEF PassOK, Covers, InHand
<1>6. Finished(k)'
  BY <1>2 DEF PassOK, Finished
<1> QED BY <1>3, <1>4, <1>5, <1>6 DEF PassOK

LEMMA PassUnmoved ==
    ASSUME Typed, Typed', NEW k \in Workers, PassOK(k), rows \subseteq rows',
           pass'[k] = pass[k], vectors \subseteq vectors'
    PROVE  PassOK(k)'
<1>1. pass[k].lost \in BOOLEAN /\ pass'[k] = [pass[k] EXCEPT !.lost = pass[k].lost]
  BY DEF Typed, TypeOK, Passes
<1> QED BY <1>1, PassStays

(* A pass that is over, or begins, owes nothing yet. *)
LEMMA PassBegins ==
    ASSUME Typed, NEW k \in Workers, rows' = rows,
           pass'[k] = NoPass \/ pass'[k] = Fresh(k) \/ \E limit \in Limits : StartPass(k, limit)
    PROVE  PassOK(k)'
<1>1. /\ pass'[k].gaps = {} /\ pass'[k].batch = {} /\ pass'[k].pc \in {"idle", "open", "list"}
      /\ pass'[k].missing = 0 /\ pass'[k].reindexed = 0 /\ pass'[k].failed = 0
      /\ pass'[k].offset = 0 /\ pass'[k].before \subseteq rows
  <2>1. CASE pass'[k] = NoPass
    BY <2>1 DEF NoPass
  <2>2. ASSUME NEW limit \in Limits, StartPass(k, limit)
        PROVE  pass'[k] = [NoPass EXCEPT !.pc = "open", !.limit = limit]
    BY <2>2 DEF StartPass, Typed, TypeOK
  <2>3. CASE pass'[k] = Fresh(k)
    BY <2>3 DEF Fresh, NoPass
  <2> QED BY <2>1, <2>2, <2>3 DEF NoPass
<1>2. Cardinality({}) = 0 /\ Cardinality(rows) \in Nat
  BY FS_EmptySet, FixIsFinite DEF Typed, TypeOK
<1>3. \A r : Rank(r)' \in Nat
  BY FixIsFinite DEF Rank, Typed, TypeOK
<1>4. Stages(k)' /\ Counts(k)' /\ Finished(k)'
  BY <1>1, <1>2 DEF Stages, Counts, Finished
<1>5. Covers(k)'
  BY <1>1, <1>2, <1>3 DEF Covers
<1> QED BY <1>4, <1>5 DEF PassOK

LEMMA ListIsCovered ==
    ASSUME Typed, NEW k \in Workers, PassOK(k), ListWindow(k)
    PROVE  PassOK(k)'
<1> DEFINE q == pass[k]
           W == Window(q.offset)
<1>0. /\ rows \subseteq Fix /\ q \in Passes /\ q.offset \in Nat /\ q.missing \in Nat
      /\ q.pc = "list" /\ q.batch = {} /\ q.gaps = {}
  BY DEF Typed, TypeOK, Passes, PassOK, Stages, ListWindow
<1>1. /\ UNCHANGED <<rows, vectors>>
      /\ pass'[k] = [q EXCEPT !.batch = W, !.pc = IF W = {} THEN "done" ELSE "check"]
  BY DEF ListWindow, Typed, TypeOK, store
<1>2. /\ pass'[k].batch = W /\ pass'[k].gaps = {} /\ pass'[k].before = q.before
      /\ pass'[k].pc = IF W = {} THEN "done" ELSE "check"
      /\ pass'[k].missing = q.missing /\ pass'[k].reindexed = q.reindexed
      /\ pass'[k].failed = q.failed /\ pass'[k].offset = q.offset /\ pass'[k].lost = q.lost
  <2> HIDE DEF W
  <2> QED BY <1>0, <1>1 DEF Passes
<1>3. Cardinality({}) = 0 /\ Cardinality(rows) \in Nat /\ Cardinality(W) \in Nat
  <2>1. W \subseteq Fix
    BY <1>0 DEF Window
  <2> QED BY <1>0, <2>1, FS_EmptySet, FixIsFinite
<1>4. /\ q.offset <= Cardinality(rows)
      /\ q.missing = q.reindexed + q.failed + 0
      /\ q.missing <= q.offset
  BY <1>0, <1>3 DEF PassOK, Counts
<1>5. /\ W \subseteq rows /\ q.offset + Cardinality(W) <= Cardinality(rows)
      /\ Cardinality(W) <= BatchSize
  BY <1>0, <1>4, WindowFits
<1>6. \A r \in rows : Rank(r) < q.offset + Cardinality(W) => Rank(r) < q.offset \/ r \in W
  <2>1. \A r : Rank(r) \in Nat
    BY <1>0, RankType
  <2>2. ASSUME NEW r \in rows, Rank(r) < q.offset + Cardinality(W), ~(Rank(r) < q.offset)
        PROVE  r \in W
    <3>1. q.offset <= Rank(r) /\ Rank(r) < q.offset + BatchSize
      BY <1>0, <1>3, <1>5, <2>1, <2>2, SizeAssumption
    <3> QED BY <3>1 DEF Window
  <2> QED BY <2>2
<1>7. q.before \subseteq rows
  BY DEF PassOK, Stages
<1>8. q.failed = 0 /\ ~q.lost => \A r \in q.before : Rank(r) < q.offset => r \in vectors
  BY <1>0, <1>3 DEF PassOK, Covers, InHand
<1>9. W = {} => \A r \in rows : Rank(r) < q.offset
  BY <1>0, EmptyWindowIsBehind
<1>10. rows' = rows /\ vectors' = vectors /\ \A r : Rank(r)' = Rank(r)
  BY <1>1 DEF Rank
<1> HIDE DEF W, q
<1>11. Stages(k)'
  BY <1>2, <1>5, <1>7, <1>10 DEF Stages
<1>12. Counts(k)'
  BY <1>0, <1>2, <1>3, <1>4, <1>5, <1>10 DEF Counts
<1>13. Covers(k)'
  BY <1>2, <1>6, <1>7, <1>8, <1>10 DEF Covers, InHand
<1>14. Finished(k)'
  BY <1>2, <1>7, <1>8, <1>9, <1>10 DEF Finished
<1> QED BY <1>11, <1>12, <1>13, <1>14 DEF PassOK

LEMMA CheckIsCovered ==
    ASSUME Typed, NEW k \in Workers, PassOK(k), PointsExist(k)
    PROVE  PassOK(k)'
<1> DEFINE q == pass[k]
           G == q.batch \ vectors
<1>0. /\ rows \subseteq Fix /\ q \in Passes /\ q.offset \in Nat /\ q.missing \in Nat
      /\ q.reindexed \in Nat /\ q.failed \in Nat
      /\ q.pc = "check" /\ q.gaps = {} /\ q.batch \subseteq rows /\ q.before \subseteq rows
  BY DEF Typed, TypeOK, Passes, PassOK, Stages, PointsExist
<1>1. /\ UNCHANGED <<rows, vectors>>
      /\ pass'[k] = [q EXCEPT !.gaps = G, !.missing = q.missing + Cardinality(G), !.pc = "index"]
  BY DEF PointsExist, Typed, TypeOK, store
<1>2. /\ pass'[k].batch = q.batch /\ pass'[k].gaps = G /\ pass'[k].before = q.before
      /\ pass'[k].pc = "index" /\ pass'[k].missing = q.missing + Cardinality(G)
      /\ pass'[k].reindexed = q.reindexed
      /\ pass'[k].failed = q.failed /\ pass'[k].offset = q.offset /\ pass'[k].lost = q.lost
  <2> HIDE DEF G
  <2> QED BY <1>0, <1>1 DEF Passes
<1>3. /\ Cardinality(q.batch) \in Nat /\ Cardinality(G) \in Nat
      /\ Cardinality(G) <= Cardinality(q.batch) /\ Cardinality({}) = 0
      /\ Cardinality(rows) \in Nat
  <2>1. q.batch \subseteq Fix /\ G \subseteq q.batch
    BY <1>0
  <2>2. G \subseteq Fix
    BY <2>1
  <2> HIDE DEF G, q
  <2> QED BY <1>0, <2>1, <2>2, FixIsFinite, FS_Subset, FS_EmptySet
<1>4. /\ q.missing = q.reindexed + q.failed
      /\ q.missing <= q.offset
      /\ q.offset + Cardinality(q.batch) <= Cardinality(rows)
  BY <1>0, <1>3 DEF PassOK, Counts
<1>5. q.failed = 0 /\ ~q.lost => \A r \in q.before : Rank(r) < q.offset + Cardinality(q.batch) =>
                                           r \in vectors \/ r \in q.batch
  BY <1>0 DEF PassOK, Covers, InHand
<1>6. G \subseteq q.batch /\ \A r \in q.batch : r \in vectors \/ r \in G
  OBVIOUS
<1>7. rows' = rows /\ vectors' = vectors /\ \A r : Rank(r)' = Rank(r)
  BY <1>1 DEF Rank
<1> HIDE DEF G, q
<1>8. Stages(k)'
  BY <1>0, <1>2, <1>6, <1>7 DEF Stages
<1>9. Counts(k)'
  BY <1>0, <1>2, <1>3, <1>4, <1>7 DEF Counts
<1>10. Covers(k)' /\ Finished(k)'
  BY <1>2, <1>5, <1>6, <1>7 DEF Covers, InHand, Finished
<1> QED BY <1>8, <1>9, <1>10 DEF PassOK

(* A gap is taken off the list by its vector or by a failure. *)
LEMMA GapIsCovered ==
    ASSUME Typed, Typed', NEW k \in Workers, PassOK(k), Reindex(k) \/ ReindexFails(k)
    PROVE  PassOK(k)'
<1> DEFINE q == pass[k]
<1>0. /\ rows \subseteq Fix /\ q \in Passes /\ q.offset \in Nat /\ q.missing \in Nat
      /\ q.reindexed \in Nat /\ q.failed \in Nat /\ q.gaps \subseteq q.batch
      /\ q.pc = "index" /\ q.batch \subseteq rows /\ q.before \subseteq rows
  BY DEF Typed, TypeOK, Passes, PassOK, Stages, Reindex, ReindexFails, NextGap
<1>1. PICK r \in q.gaps :
          \/ /\ pass' = [pass EXCEPT ![k].gaps = @ \ {r}, ![k].tries = 0, ![k].reindexed = @ + 1]
             /\ vectors' = vectors \cup {r}
          \/ /\ pass' = [pass EXCEPT ![k].gaps = @ \ {r}, ![k].tries = 0, ![k].failed = @ + 1]
             /\ vectors' = vectors \/ vectors' = vectors \cup {r}
          \/ /\ pass' = [pass EXCEPT ![k].tries = @ + 1]
             /\ vectors' = vectors \/ vectors' = vectors \cup {r}
  BY DEF Reindex, ReindexFails, NextGap, Raises, Fault, WriteVector, store
<1>2. rows' = rows /\ vectors \subseteq vectors' /\ \A x : Rank(x)' = Rank(x)
  <2>1. rows' = rows
    BY DEF Reindex, ReindexFails
  <2> QED BY <1>1, <2>1 DEF Rank
<1>3. /\ pass'[k].batch = q.batch /\ pass'[k].before = q.before /\ pass'[k].pc = "index"
      /\ pass'[k].missing = q.missing /\ pass'[k].offset = q.offset /\ pass'[k].lost = q.lost
      /\ \/ /\ pass'[k].gaps = q.gaps \ {r} /\ r \in vectors'
            /\ pass'[k].reindexed = q.reindexed + 1 /\ pass'[k].failed = q.failed
         \/ /\ pass'[k].gaps = q.gaps \ {r}
            /\ pass'[k].reindexed = q.reindexed /\ pass'[k].failed = q.failed + 1
         \/ /\ pass'[k].gaps = q.gaps
            /\ pass'[k].reindexed = q.reindexed /\ pass'[k].failed = q.failed
  BY <1>0, <1>1 DEF Passes, Typed, TypeOK
<1>4. /\ Cardinality(q.gaps) \in Nat /\ Cardinality(q.gaps \ {r}) = Cardinality(q.gaps) - 1
      /\ Cardinality(q.batch) \in Nat /\ Cardinality(rows) \in Nat
  <2>1. q.gaps \subseteq Fix /\ q.batch \subseteq Fix
    BY <1>0
  <2> HIDE DEF q
  <2> QED BY <1>0, <1>1, <2>1, FixIsFinite, FS_RemoveElement
<1>5. /\ q.missing = q.reindexed + q.failed + Cardinality(q.gaps)
      /\ q.missing <= q.offset + Cardinality(q.batch)
      /\ q.offset + Cardinality(q.batch) <= Cardinality(rows)
  BY <1>0 DEF PassOK, Counts
<1>6. q.failed = 0 /\ ~q.lost => \A x \in q.before : Rank(x) < q.offset + Cardinality(q.batch) =>
                                           x \in vectors \/ x \in q.gaps
  BY <1>0 DEF PassOK, Covers, InHand
<1> HIDE DEF q
<1>7. Stages(k)'
  BY <1>0, <1>2, <1>3 DEF Stages
<1>8. Counts(k)'
  <2>1. pass'[k].missing = pass'[k].reindexed + pass'[k].failed + Cardinality(pass'[k].gaps)
    <3>1. CASE pass'[k].gaps = q.gaps
      BY <1>0, <1>3, <1>4, <1>5, <3>1
    <3>2. CASE pass'[k].gaps = q.gaps \ {r}
      <4>1. Cardinality(pass'[k].gaps) = Cardinality(q.gaps) - 1
        BY <1>4, <3>2
      <4>2. CASE pass'[k].reindexed = q.reindexed + 1 /\ pass'[k].failed = q.failed
        BY <1>0, <1>3, <1>4, <1>5, <4>1, <4>2
      <4>3. CASE pass'[k].reindexed = q.reindexed /\ pass'[k].failed = q.failed + 1
        BY <1>0, <1>3, <1>4, <1>5, <4>1, <4>3
      <4>4. r \in q.gaps /\ q.gaps \ {r} # q.gaps
        OBVIOUS
      <4> QED BY <1>3, <3>2, <4>2, <4>3, <4>4
    <3> QED BY <1>3, <3>1, <3>2
  <2>2. /\ pass'[k].missing <= pass'[k].offset
                               + (IF pass'[k].pc = "index" THEN Cardinality(pass'[k].batch) ELSE 0)
        /\ pass'[k].offset + Cardinality(pass'[k].batch) <= Cardinality(rows')
    BY <1>2, <1>3, <1>5
  <2> QED BY <2>1, <2>2 DEF Counts
<1>9. Covers(k)' /\ Finished(k)'
  <2>1. pass'[k].failed = 0 => \A x \in q.gaps : x \in vectors' \/ x \in pass'[k].gaps
    BY <1>0, <1>3
  <2>2. pass'[k].failed = 0 => q.failed = 0
    BY <1>0, <1>3
  <2> QED BY <1>2, <1>3, <1>6, <2>1, <2>2 DEF Covers, InHand, Finished
<1> QED BY <1>7, <1>8, <1>9 DEF PassOK

LEMMA EndIsCovered ==
    ASSUME Typed, NEW k \in Workers, PassOK(k), EndWindow(k)
    PROVE  PassOK(k)'
<1> DEFINE q == pass[k]
           n == Cardinality(q.batch)
<1>0. /\ rows \subseteq Fix /\ q \in Passes /\ q.offset \in Nat /\ q.missing \in Nat
      /\ q.reindexed \in Nat /\ q.failed \in Nat /\ q.batch \subseteq rows
      /\ q.pc = "index" /\ q.gaps = {} /\ q.before \subseteq rows
  BY DEF Typed, TypeOK, Passes, PassOK, Stages, EndWindow
<1>1. PICK label \in {"idle", "list"} :
          pass' = [pass EXCEPT ![k] = [q EXCEPT !.offset = q.offset + Stride(q),
                        !.batches = q.batches + 1, !.batch = {}, !.pc = label]]
  BY DEF EndWindow
<1>2. rows' = rows /\ vectors' = vectors /\ \A x : Rank(x)' = Rank(x)
  BY DEF EndWindow, Rank, store
<1>3. /\ pass'[k].batch = {} /\ pass'[k].before = q.before /\ pass'[k].pc = label
      /\ pass'[k].missing = q.missing /\ pass'[k].offset = q.offset + n
      /\ pass'[k].gaps = {} /\ pass'[k].reindexed = q.reindexed /\ pass'[k].failed = q.failed
      /\ pass'[k].lost = q.lost
  BY <1>0, <1>1 DEF Passes, Typed, TypeOK, Stride
<1>4. n \in Nat /\ Cardinality({}) = 0 /\ Cardinality(rows) \in Nat
  <2>1. q.batch \subseteq Fix
    BY <1>0
  <2> QED BY <1>0, <2>1, FixIsFinite, FS_EmptySet
<1>5. /\ q.missing = q.reindexed + q.failed + 0
      /\ q.missing <= q.offset + n
      /\ q.offset + n <= Cardinality(rows)
  BY <1>0, <1>4 DEF PassOK, Counts
<1>6. q.failed = 0 /\ ~q.lost => \A x \in q.before : Rank(x) < q.offset + n => x \in vectors
  BY <1>0 DEF PassOK, Covers, InHand
<1> HIDE DEF q, n
<1>7. Stages(k)'
  BY <1>0, <1>2, <1>3 DEF Stages
<1>8. Counts(k)'
  BY <1>0, <1>2, <1>3, <1>4, <1>5 DEF Counts
<1>9. Covers(k)' /\ Finished(k)'
  BY <1>0, <1>2, <1>3, <1>4, <1>6 DEF Covers, InHand, Finished
<1> QED BY <1>7, <1>8, <1>9 DEF PassOK

-----------------------------------------------------------------------------
LEMMA StoreInit == Init => StoreInv
<1> SUFFICES ASSUME Init PROVE StoreInv
  OBVIOUS
<1>1. Typed
  BY TypeInit
<1>2. Cardinality({}) = 0
  BY FS_EmptySet
<1>3. ASSUME NEW k \in Workers PROVE PassOK(k)
  <2>1. pass[k] = NoPass /\ rows = {}
    BY DEF Init
  <2>2. /\ pass[k].pc = "idle" /\ pass[k].gaps = {} /\ pass[k].batch = {} /\ pass[k].before = {}
        /\ pass[k].missing = 0 /\ pass[k].reindexed = 0 /\ pass[k].failed = 0
        /\ pass[k].offset = 0
    BY <2>1 DEF NoPass
  <2>3. Stages(k) /\ Covers(k) /\ Finished(k)
    BY <2>2 DEF Stages, Covers, Finished
  <2>4. Counts(k)
    BY <1>2, <2>1, <2>2 DEF Counts
  <2> QED BY <2>3, <2>4 DEF PassOK
<1> QED BY <1>1, <1>3 DEF Init, StoreInv, VectorsHaveRows, IndexedIsCommitted, OpensFirst, NoCall, Scripts

(* Whatever the others delete is lost for all passes but the one that      *)
(* deletes, which has indexed nothing yet.                                 *)
LEMMA OpenIsSafe ==
    ASSUME StoreInv, Typed', NEW p \in Scripts, Open(p)
    PROVE  StoreInv'
<1>0. /\ Typed /\ rows' = rows /\ call' = call /\ vectors' \subseteq vectors
      /\ p \in Workers => pass[p].pc = "open"
  BY OpenMoves DEF StoreInv, OpensFirst
<1>1. /\ \A k \in Workers : pass[k] \in Passes
      /\ pass \in [Workers -> Passes] /\ Robbed(p) \in [Workers -> Passes]
      /\ \A k \in Workers : k \in Scripts
  BY <1>0, RobbedType DEF Typed, TypeOK, Scripts
<1>2. ASSUME NEW k \in Workers, pass'[k] = Robbed(p)[k]
      PROVE  PassOK(k)' /\ pass'[k].pc = pass[k].pc
  <2> DEFINE lost == pass[k].lost \/ (k # p /\ pass[k].pc # "idle")
  <2>1. pass'[k] = [pass[k] EXCEPT !.lost = lost] /\ lost \in BOOLEAN /\ (pass[k].lost => lost)
    BY <1>1, <1>2 DEF Robbed
  <2>2. lost \/ pass[k].pc \in {"idle", "open"}
    BY <1>0
  <2> HIDE DEF lost
  <2>3. PassOK(k)'
    BY <1>0, <2>1, <2>2, PassStays DEF StoreInv
  <2>4. pass'[k].pc = pass[k].pc
    BY <1>1, <2>1 DEF Passes
  <2> QED BY <2>3, <2>4
<1>3. ASSUME NEW k \in Workers, pass'[k] = pass[k], vectors' = vectors
      PROVE  PassOK(k)' /\ pass'[k].pc = pass[k].pc
  BY <1>0, <1>3, PassUnmoved DEF StoreInv
<1>4. ASSUME NEW k \in Workers, pass'[k] = NoPass \/ pass'[k] = Fresh(k)
      PROVE  PassOK(k)'
  BY <1>0, <1>4, PassBegins
<1>5. ASSUME NEW k \in Workers
      PROVE  PassOK(k)' /\ (pass'[k].pc = pass[k].pc \/ opening'[k] = "no")
  <2>1. CASE pass' = pass /\ vectors' = vectors
    BY <1>3, <2>1
  <2>2. CASE pass' = Robbed(p)
    BY <1>2, <2>2
  <2>3. CASE /\ pass' \in {[pass EXCEPT ![p] = NoPass], [pass EXCEPT ![p] = Fresh(p)]}
             /\ p \in Workers /\ vectors' = vectors
             /\ opening' = [opening EXCEPT ![p] = "no"]
    <3>1. k = p => (pass'[k] = NoPass \/ pass'[k] = Fresh(k)) /\ opening'[k] = "no"
      BY <1>0, <1>1, <2>3 DEF Typed, TypeOK
    <3>2. k # p => pass'[k] = pass[k]
      BY <1>1, <2>3
    <3> QED BY <1>3, <1>4, <2>3, <3>1, <3>2
  <2>4. CASE /\ pass' = [Robbed(p) EXCEPT ![p] = NoPass]
             /\ p \in Workers
             /\ opening' = [opening EXCEPT ![p] = "no"]
    <3>1. k = p => pass'[k] = NoPass /\ opening'[k] = "no"
      BY <1>0, <1>1, <2>4 DEF Typed, TypeOK
    <3>2. k # p => pass'[k] = Robbed(p)[k]
      BY <1>1, <2>4
    <3> QED BY <1>2, <1>4, <3>1, <3>2
  <2> QED BY <1>0, <2>1, <2>2, <2>3, <2>4, OpenMoves
<1>6. OpensFirst'
  <2>1. \A k \in Workers : opening'[k] # "no" => opening[k] # "no"
    BY <1>0, <1>1, OpenMoves
  <2> QED BY <1>5, <2>1 DEF StoreInv, OpensFirst
<1>7. VectorsHaveRows' /\ IndexedIsCommitted'
  BY <1>0 DEF StoreInv, VectorsHaveRows, IndexedIsCommitted
<1> QED BY <1>5, <1>6, <1>7 DEF StoreInv

LEMMA StoreStep == StoreInv /\ [Next]_vars => StoreInv'
<1> SUFFICES ASSUME StoreInv, [Next]_vars PROVE StoreInv'
  OBVIOUS
<1>0. Typed /\ Typed'
  BY TypeStep DEF StoreInv
<1>1. CASE UNCHANGED vars
  <2>1. \A k \in Workers : PassOK(k)'
    BY <1>0, <1>1, PassUnmoved DEF StoreInv, vars, store
  <2> QED BY <1>0, <1>1, <2>1 DEF StoreInv, VectorsHaveRows, IndexedIsCommitted, OpensFirst, vars,
                                  store
<1>2. ASSUME NEW w \in Writers, StoreFix(w) \/ Call(w) \/ KillCall(w)
      PROVE  StoreInv'
  <2>1. rows \subseteq rows' /\ vectors \subseteq vectors' /\ UNCHANGED <<opening, pass>>
    BY <1>2 DEF StoreFix, Call, CommitRow, UpsertFix, UpsertFixFails, KillCall, Raises, Fault,
                WriteVector, store
  <2>2. \A k \in Workers : PassOK(k)'
    BY <1>0, <2>1, PassUnmoved DEF StoreInv
  <2>3. VectorsHaveRows' /\ OpensFirst'
    <3>1. CASE StoreFix(w) \/ KillCall(w) \/ CommitRow(w)
      BY <2>1, <3>1 DEF StoreInv, VectorsHaveRows, StoreFix, KillCall, CommitRow, OpensFirst, store
    <3>2. CASE UpsertFix(w) \/ UpsertFixFails(w)
      <4>1. /\ call[w].fix \in rows /\ rows' = rows
            /\ vectors' = vectors \/ vectors' = vectors \cup {call[w].fix}
        BY <3>2 DEF StoreInv, IndexedIsCommitted, UpsertFix, UpsertFixFails, Raises, Fault,
                    WriteVector, store
      <4> QED BY <2>1, <4>1 DEF StoreInv, VectorsHaveRows, OpensFirst
    <3> QED BY <1>2, <3>1, <3>2 DEF Call
  <2>4. IndexedIsCommitted'
    <3>1. \A v \in Writers : v # w => call'[v] = call[v]
      BY <1>0, <1>2 DEF Typed, TypeOK, StoreFix, Call, CommitRow, UpsertFix, UpsertFixFails,
                        KillCall
    <3>2. call'[w].pc = "index" => call'[w].fix \in rows'
      <4>0. call[w] \in Calls
        BY <1>0 DEF Typed, TypeOK
      <4>1. CASE StoreFix(w) \/ KillCall(w) \/ UpsertFix(w)
        BY <1>0, <4>1 DEF Typed, TypeOK, StoreFix, KillCall, UpsertFix, NoCall
      <4>2. CASE CommitRow(w)
        BY <1>0, <4>0, <4>2 DEF Typed, TypeOK, CommitRow, Calls
      <4>3. CASE UpsertFixFails(w)
        <5>1. \/ call'[w] = NoCall
              \/ call'[w] = [call[w] EXCEPT !.tries = call[w].tries + 1]
          BY <1>0, <4>3 DEF Typed, TypeOK, UpsertFixFails
        <5> QED BY <4>0, <4>3, <5>1 DEF Calls, NoCall, UpsertFixFails, StoreInv,
                                         IndexedIsCommitted
      <4> QED BY <1>2, <4>1, <4>2, <4>3 DEF Call
    <3> QED BY <2>1, <3>1, <3>2 DEF StoreInv, IndexedIsCommitted
  <2> QED BY <1>0, <2>2, <2>3, <2>4 DEF StoreInv
<1>3. ASSUME NEW k \in Workers,
             Pass(k) \/ KillPass(k) \/ \E limit \in Limits : StartPass(k, limit)
      PROVE  StoreInv'
  <2>1. rows' = rows /\ vectors \subseteq vectors' /\ vectors' \subseteq rows /\ call' = call
    <3>1. vectors \subseteq rows
      BY DEF StoreInv, VectorsHaveRows
    <3>2. CASE KillPass(k)
      BY <3>1, <3>2 DEF KillPass, store
    <3>3. CASE \E limit \in Limits : StartPass(k, limit)
      BY <3>1, <3>3 DEF StartPass, store
    <3>4. CASE ListWindow(k) \/ PointsExist(k) \/ EndWindow(k)
      BY <3>1, <3>4 DEF ListWindow, PointsExist, EndWindow, store
    <3>5. CASE PointsExistFails(k)
      BY <3>1, <3>5 DEF PointsExistFails, Raises, Fault, store
    <3>6. CASE Reindex(k) \/ ReindexFails(k)
      BY <3>1, <3>6 DEF Reindex, ReindexFails, Raises, Fault, WriteVector, store
    <3> QED BY <1>3, <3>2, <3>3, <3>4, <3>5, <3>6 DEF Pass
  <2>2. \A j \in Workers : j # k => pass'[j] = pass[j] /\ opening'[j] = opening[j]
    BY <1>0, <1>3 DEF Typed, TypeOK, Pass, KillPass, Abandoned, NotOpening, StartPass, ListWindow,
                      PointsExist, PointsExistFails, Reindex, ReindexFails, EndWindow, Scripts
  <2>3. \A j \in Workers : j # k => PassOK(j)'
    BY <1>0, <2>1, <2>2, PassUnmoved DEF StoreInv
  <2>4. PassOK(k)'
    <3>1. CASE PointsExistFails(k) \/ KillPass(k)
      <4>1. pass'[k] = NoPass
        BY <1>0, <3>1 DEF PointsExistFails, KillPass, Abandoned, Typed, TypeOK
      <4> QED BY <1>0, <2>1, <4>1, PassBegins
    <3>2. CASE \E limit \in Limits : StartPass(k, limit)
      BY <1>0, <2>1, <3>2, PassBegins
    <3>3. PassOK(k)
      BY DEF StoreInv
    <3> QED BY <1>0, <1>3, <3>1, <3>2, <3>3, ListIsCovered, CheckIsCovered, GapIsCovered,
               EndIsCovered DEF Pass
  <2>5. opening'[k] # "no" => pass'[k].pc = "open"
    <3>0. k \in Scripts /\ pass[k] \in Passes
      BY <1>0 DEF Scripts, Typed, TypeOK
    <3>1. CASE KillPass(k)
      BY <1>0, <3>0, <3>1 DEF KillPass, Abandoned, NotOpening, Typed, TypeOK
    <3>2. CASE \E limit \in Limits : StartPass(k, limit)
      BY <1>0, <3>0, <3>2 DEF StartPass, NoPass, Typed, TypeOK
    <3>3. CASE Pass(k)
      <4>1. pass[k].pc # "open" /\ opening' = opening
        BY <3>3 DEF Pass, ListWindow, PointsExist, PointsExistFails, Reindex, ReindexFails,
                    EndWindow, NextGap
      <4> QED BY <4>1 DEF StoreInv, OpensFirst
    <3> QED BY <1>3, <3>1, <3>2, <3>3
  <2>6. VectorsHaveRows' /\ IndexedIsCommitted' /\ OpensFirst'
    BY <2>1, <2>2, <2>5 DEF StoreInv, VectorsHaveRows, IndexedIsCommitted, OpensFirst
  <2> QED BY <1>0, <2>3, <2>4, <2>6 DEF StoreInv
<1>4. ASSUME NEW p \in Scripts, Open(p)
      PROVE  StoreInv'
  BY <1>0, <1>4, OpenIsSafe
<1>5. ASSUME NEW s \in Starters, StartScript(s) \/ KillScript(s)
      PROVE  StoreInv'
  <2>1. UNCHANGED <<rows, vectors, call, pass>>
    BY <1>5 DEF StartScript, KillScript, store
  <2>2. \A k \in Workers : opening'[k] = opening[k]
    BY <1>0, <1>5, ScriptAssumption DEF StartScript, KillScript, NotOpening, Typed, TypeOK, Scripts
  <2>3. \A k \in Workers : PassOK(k)'
    BY <1>0, <2>1, PassUnmoved DEF StoreInv
  <2> QED BY <1>0, <2>1, <2>2, <2>3 DEF StoreInv, VectorsHaveRows, IndexedIsCommitted, OpensFirst
<1> QED BY <1>1, <1>2, <1>3, <1>4, <1>5 DEF Next

(* Every point of the collection has its row, whatever fails or is killed. *)
THEOREM NoVectorIsOrphaned == Spec => []VectorsHaveRows
  BY StoreInit, StoreStep, PTL DEF Spec, StoreInv

(* A pass over the whole table without a failure has closed every gap it   *)
(* began with, for every window size, and whatever is committed meanwhile, *)
(* while no other script that starts deletes the collection.               *)
THEOREM PassesCloseGaps == Spec => []PassClosesGaps
<1>1. StoreInv => PassClosesGaps
  BY DEF StoreInv, PassOK, Finished, PassClosesGaps
<1> QED BY <1>1, StoreInit, StoreStep, PTL DEF Spec

(* The counts a pass reports add up, and never exceed the table. *)
THEOREM CountsAreTrue == Spec => []CountsAddUp
<1>1. StoreInv => CountsAddUp
  <2> SUFFICES ASSUME StoreInv, NEW k \in Workers
               PROVE  LET p == pass[k]
                          scanned == p.offset + Cardinality(p.batch)
                      IN /\ p.missing = p.reindexed + p.failed + Cardinality(p.gaps)
                         /\ p.missing <= scanned
                         /\ scanned <= Cardinality(rows)
    BY DEF CountsAddUp
  <2>1. pass[k] \in Passes /\ pass[k].offset \in Nat /\ pass[k].missing \in Nat
        /\ Cardinality(pass[k].batch) \in Nat
    BY FixIsFinite DEF StoreInv, Typed, TypeOK, Passes
  <2> QED BY <2>1 DEF StoreInv, PassOK, Counts
<1> QED BY <1>1, StoreInit, StoreStep, PTL DEF Spec

=============================================================================
