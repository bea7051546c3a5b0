------------------------- MODULE CaptureLaneProofs --------------------------
(***************************************************************************)
(* Theorems about CaptureLane, for any number of requests, events, runs    *)
(* and restarts, every capacity of the recorder and every kind of event:   *)
(* what was acknowledged is mirrored, how many rows a run can get, what a  *)
(* stored fix holds, whose events they are and in which order.             *)
(***************************************************************************)
EXTENDS CaptureLane, SelectionProofs, FiniteSetTheorems, TLAPS

Labels == {"idle", "record", "mirror", "merge", "store", "update", "clear"}

IsJob(j) == DOMAIN j = {"event", "snap", "merged", "fix", "run", "owed"}

IsThread(s) == DOMAIN s = {"active", "resolved", "events", "fix"}

(* As much of the types as the theorems need.  What a trace holds after a  *)
(* merge is not among it.                                                  *)
Shaped ==
    /\ IsThread(saved) /\ saved.active \in BOOLEAN
    /\ \E S : rows \in Seq(S)
    /\ \A k \in DOMAIN rows : rows[k].run \in Nat /\ rows[k].run <= runs
    /\ pc \in [Clients -> Labels]
    /\ DOMAIN job = Clients
    /\ \A c \in Clients : IsJob(job[c]) /\ job[c].run \in Nat /\ job[c].run <= runs
    /\ sent \subseteq Events /\ runs \in Nat
    /\ overlaps \in Nat /\ deaths \in Nat /\ crashes \in Nat

-----------------------------------------------------------------------------
(***************************************************************************)
(* Shapes.                                                                 *)
(***************************************************************************)

LEMMA ShapeInit == Init => Shaped
<1> SUFFICES ASSUME Init PROVE Shaped
  OBVIOUS
<1>1. rows \in Seq({}) /\ DOMAIN rows = {}
  BY DEF Init
<1>2. pc \in [Clients -> Labels] /\ DOMAIN job = Clients /\ \A c \in Clients : job[c] = NoJob
  BY DEF Init, Labels
<1>3. IsJob(NoJob) /\ NoJob.run = 0
  BY DEF IsJob, NoJob
<1>4. IsThread(saved) /\ saved.active = FALSE
  BY DEF Init, IsThread
<1> QED BY <1>1, <1>2, <1>3, <1>4 DEF Init, Shaped

(* What a request does to pc and job. *)
LEMMA MoveShape ==
    ASSUME Shaped, NEW c \in Clients, NEW label \in Labels, NEW j, IsJob(j), j.run \in Nat,
           j.run <= runs, pc' = [pc EXCEPT ![c] = label], job' = [job EXCEPT ![c] = j]
    PROVE  /\ pc' \in [Clients -> Labels] /\ DOMAIN job' = Clients
           /\ \A d \in Clients : IsJob(job'[d]) /\ job'[d].run \in Nat /\ job'[d].run <= runs
           /\ pc'[c] = label /\ job'[c] = j
           /\ \A d \in Clients \ {c} : pc'[d] = pc[d] /\ job'[d] = job[d]
  BY DEF Shaped

LEMMA FinishShape ==
    ASSUME Shaped, NEW c \in Clients, Finish(c)
    PROVE  /\ pc' \in [Clients -> Labels] /\ DOMAIN job' = Clients
           /\ \A d \in Clients : IsJob(job'[d]) /\ job'[d].run \in Nat /\ job'[d].run <= runs
           /\ pc'[c] = "idle"
           /\ \A d \in Clients \ {c} : pc'[d] = pc[d] /\ job'[d] = job[d]
<1>1. IsJob(NoJob) /\ NoJob.run \in Nat /\ NoJob.run <= runs
  BY DEF IsJob, NoJob, Shaped
<1>2. "idle" \in Labels
  BY DEF Labels
<1> QED BY <1>1, <1>2, MoveShape DEF Finish

(* A request at work, as the actions see it: it goes to its next label,    *)
(* its run stays what it was.                                              *)
LEMMA GotoShape ==
    ASSUME Shaped, NEW c \in Clients, NEW label \in Labels, NEW j, IsJob(j),
           j.run = job[c].run \/ j.run = runs, Goto(c, label, j)
    PROVE  /\ pc' \in [Clients -> Labels] /\ DOMAIN job' = Clients
           /\ \A d \in Clients : IsJob(job'[d]) /\ job'[d].run \in Nat /\ job'[d].run <= runs
           /\ pc'[c] = label /\ job'[c] = j
           /\ \A d \in Clients \ {c} : pc'[d] = pc[d] /\ job'[d] = job[d]
<1>1. j.run \in Nat /\ j.run <= runs
  BY DEF Shaped
<1> QED BY <1>1, MoveShape DEF Goto

LEMMA BeginShape ==
    ASSUME Shaped, NEW c \in Clients, NEW label \in Labels, NEW j, IsJob(j),
           j.run = runs, Begin(c, label, j)
    PROVE  /\ pc' \in [Clients -> Labels] /\ DOMAIN job' = Clients
           /\ \A d \in Clients : IsJob(job'[d]) /\ job'[d].run \in Nat /\ job'[d].run <= runs
           /\ pc'[c] = label /\ job'[c] = j
           /\ \A d \in Clients \ {c} : pc'[d] = pc[d] /\ job'[d] = job[d]
           /\ overlaps' \in Nat
           /\ \/ overlaps' = overlaps /\ \A d \in Clients : pc[d] = "idle"
              \/ overlaps' = overlaps + 1
<1>1. Goto(c, label, j)
  BY DEF Begin
<1>2. /\ overlaps' \in Nat
      /\ \/ overlaps' = overlaps /\ \A d \in Clients : pc[d] = "idle"
         \/ overlaps' = overlaps + 1
  BY DEF Begin, Shaped
<1> QED BY <1>1, <1>2, GotoShape

-----------------------------------------------------------------------------
(***************************************************************************)
(* What each action does to the fields the theorems speak of.              *)
(***************************************************************************)

(* Request c goes from one label to another, and no other one moves. *)
Moves(c, from, to) ==
    /\ pc[c] = from /\ pc'[c] = to
    /\ \A d \in Clients \ {c} : pc'[d] = pc[d] /\ job'[d] = job[d]

Calm == UNCHANGED <<rows, runs, deaths, crashes>>

LEMMA EmitShape ==
    ASSUME Shaped, EmitNewIssue
    PROVE  /\ Shaped'
           /\ saved'.active = TRUE /\ saved'.events = << >> /\ acked' = {} /\ runs' = runs + 1
           /\ UNCHANGED <<rows, pc, job, overlaps, deaths, crashes>>
<1>1. /\ IsThread(saved') /\ saved'.active = TRUE /\ saved'.events = << >>
  BY DEF EmitNewIssue, Shaped, IsThread
<1>2. /\ acked' = {} /\ runs' = runs + 1
      /\ UNCHANGED <<rows, pc, job, overlaps, deaths, crashes, sent>>
  BY DEF EmitNewIssue, bounds, requests
<1>3. runs \in Nat /\ runs' \in Nat /\ \A n \in Nat : n <= runs => n <= runs'
  BY <1>2 DEF Shaped
<1>4. \A d \in Clients : IsJob(job'[d]) /\ job'[d].run \in Nat /\ job'[d].run <= runs'
  BY <1>2, <1>3 DEF Shaped
<1>5. \A k \in DOMAIN rows : rows'[k].run \in Nat /\ rows'[k].run <= runs'
  BY <1>2, <1>3 DEF Shaped
<1>6. Shaped'
  BY <1>1, <1>2, <1>3, <1>4, <1>5 DEF Shaped
<1> QED BY <1>1, <1>2, <1>6

LEMMA ReadEventShape ==
    ASSUME Shaped, NEW c \in Clients, ReadForEvent(c)
    PROVE  /\ Shaped' /\ Calm /\ UNCHANGED <<saved, acked>>
           /\ \/ UNCHANGED <<pc, job, overlaps>>
              \/ /\ Moves(c, "idle", "record") /\ saved.active
                 /\ job'[c].snap = saved.events /\ job'[c].run = runs /\ job'[c].event \in Events
                 /\ \/ overlaps' = overlaps /\ \A d \in Clients : pc[d] = "idle"
                    \/ overlaps' = overlaps + 1
<1>1. PICK e \in Events \ sent :
          /\ sent' = sent \cup {e}
          /\ IF saved.active
             THEN Begin(c, "record", [NoJob EXCEPT !.event = e, !.snap = saved.events, !.run = runs])
             ELSE UNCHANGED <<requests, overlaps>>
  BY DEF ReadForEvent
<1>2. Calm /\ UNCHANGED <<saved, acked>> /\ pc[c] = "idle"
  BY DEF ReadForEvent, Calm
<1>3. sent' \subseteq Events
  BY <1>1 DEF Shaped
<1>4. CASE ~saved.active
  BY <1>1, <1>2, <1>3, <1>4 DEF Shaped, Calm, requests
<1>5. CASE saved.active
  <2> DEFINE j == [NoJob EXCEPT !.event = e, !.snap = saved.events, !.run = runs]
  <2>1. IsJob(j) /\ j.run = runs /\ j.snap = saved.events /\ j.event = e
    BY DEF IsJob, NoJob
  <2>2. Begin(c, "record", j) /\ "record" \in Labels
    BY <1>1, <1>5 DEF Labels
  <2> HIDE DEF j
  <2>3. /\ pc' \in [Clients -> Labels] /\ DOMAIN job' = Clients
        /\ \A d \in Clients : IsJob(job'[d]) /\ job'[d].run \in Nat /\ job'[d].run <= runs
        /\ pc'[c] = "record" /\ job'[c] = j
        /\ \A d \in Clients \ {c} : pc'[d] = pc[d] /\ job'[d] = job[d]
        /\ overlaps' \in Nat
        /\ \/ overlaps' = overlaps /\ \A d \in Clients : pc[d] = "idle"
           \/ overlaps' = overlaps + 1
    BY <2>1, <2>2, BeginShape
  <2>4. Shaped'
    BY <1>2, <1>3, <2>3 DEF Shaped, Calm
  <2> QED BY <1>2, <1>5, <2>1, <2>3, <2>4 DEF Moves
<1>6. saved.active \in BOOLEAN
  BY DEF Shaped
<1> QED BY <1>4, <1>5, <1>6

LEMMA RecordShape ==
    ASSUME Shaped, NEW c \in Clients, RecordEvent(c)
    PROVE  /\ Shaped' /\ Calm /\ UNCHANGED <<saved, acked, overlaps>>
           /\ Moves(c, "record", "mirror") /\ job'[c] = job[c]
<1>1. IsJob(job[c]) /\ "mirror" \in Labels
  BY DEF Shaped, Labels
<1>2. Goto(c, "mirror", job[c]) /\ pc[c] = "record" /\ Calm /\ UNCHANGED <<saved, acked, overlaps, sent>>
  BY DEF RecordEvent, Calm, bounds
<1>3. /\ pc' \in [Clients -> Labels] /\ DOMAIN job' = Clients
      /\ \A d \in Clients : IsJob(job'[d]) /\ job'[d].run \in Nat /\ job'[d].run <= runs
      /\ pc'[c] = "mirror" /\ job'[c] = job[c]
      /\ \A d \in Clients \ {c} : pc'[d] = pc[d] /\ job'[d] = job[d]
  BY <1>1, <1>2, GotoShape
<1>4. Shaped'
  BY <1>2, <1>3 DEF Shaped, Calm
<1> QED BY <1>2, <1>3, <1>4 DEF Moves

LEMMA MirrorShape ==
    ASSUME Shaped, NEW c \in Clients, MirrorEvent(c)
    PROVE  /\ Shaped' /\ Calm /\ UNCHANGED overlaps
           /\ Moves(c, "mirror", "idle")
           /\ saved'.active = saved.active
           /\ saved'.events = Append(job[c].snap, job[c].event)
           /\ acked' = acked \/ acked' = acked \cup {job[c].event}
<1>1. Finish(c) /\ pc[c] = "mirror" /\ Calm /\ UNCHANGED <<overlaps, sent>>
  BY DEF MirrorEvent, Calm, bounds
<1>2. /\ pc' \in [Clients -> Labels] /\ DOMAIN job' = Clients
      /\ \A d \in Clients : IsJob(job'[d]) /\ job'[d].run \in Nat /\ job'[d].run <= runs
      /\ pc'[c] = "idle"
      /\ \A d \in Clients \ {c} : pc'[d] = pc[d] /\ job'[d] = job[d]
  BY <1>1, FinishShape
<1>3. /\ IsThread(saved') /\ saved'.active = saved.active
      /\ saved'.events = Append(job[c].snap, job[c].event)
  BY DEF MirrorEvent, Shaped, IsThread
<1>4. Shaped'
  BY <1>1, <1>2, <1>3 DEF Shaped, Calm
<1>5. acked' = acked \/ acked' = acked \cup {job[c].event}
  BY DEF MirrorEvent
<1> QED BY <1>1, <1>2, <1>3, <1>4, <1>5 DEF Moves

LEMMA ReadResolveShape ==
    ASSUME Shaped, NEW c \in Clients, ReadForResolve(c)
    PROVE  /\ Shaped' /\ Calm /\ UNCHANGED <<saved, acked>>
           /\ \/ UNCHANGED <<pc, job, overlaps>>
              \/ /\ Moves(c, "idle", "merge") /\ saved.active /\ job'[c].run = runs
                 /\ \/ overlaps' = overlaps /\ \A d \in Clients : pc[d] = "idle"
                    \/ overlaps' = overlaps + 1
<1>1. IF saved.active
      THEN Begin(c, "merge", [NoJob EXCEPT !.snap = saved.events, !.fix = saved.fix,
                                           !.run = runs, !.owed = acked])
      ELSE UNCHANGED <<requests, overlaps>>
  BY DEF ReadForResolve
<1>2. Calm /\ UNCHANGED <<saved, acked, sent>> /\ pc[c] = "idle"
  BY DEF ReadForResolve, Calm
<1>3. CASE ~saved.active
  BY <1>1, <1>2, <1>3 DEF Shaped, Calm, requests
<1>4. CASE saved.active
  <2> DEFINE j == [NoJob EXCEPT !.snap = saved.events, !.fix = saved.fix, !.run = runs,
                                !.owed = acked]
  <2>1. IsJob(j) /\ j.run = runs
    BY DEF IsJob, NoJob
  <2>2. Begin(c, "merge", j) /\ "merge" \in Labels
    BY <1>1, <1>4 DEF Labels
  <2> HIDE DEF j
  <2>3. /\ pc' \in [Clients -> Labels] /\ DOMAIN job' = Clients
        /\ \A d \in Clients : IsJob(job'[d]) /\ job'[d].run \in Nat /\ job'[d].run <= runs
        /\ pc'[c] = "merge" /\ job'[c] = j
        /\ \A d \in Clients \ {c} : pc'[d] = pc[d] /\ job'[d] = job[d]
        /\ overlaps' \in Nat
        /\ \/ overlaps' = overlaps /\ \A d \in Clients : pc[d] = "idle"
           \/ overlaps' = overlaps + 1
    BY <2>1, <2>2, BeginShape
  <2>4. Shaped'
    BY <1>2, <2>3 DEF Shaped, Calm
  <2> QED BY <1>2, <1>4, <2>1, <2>3, <2>4 DEF Moves
<1>5. saved.active \in BOOLEAN
  BY DEF Shaped
<1> QED BY <1>3, <1>4, <1>5

LEMMA MergeShape ==
    ASSUME Shaped, NEW c \in Clients, MergeAndMark(c)
    PROVE  /\ Shaped' /\ Calm /\ UNCHANGED <<saved, acked, overlaps>>
           /\ Moves(c, "merge", "store") /\ job'[c].run = job[c].run
<1>1. PICK merged : Goto(c, "store", [job[c] EXCEPT !.merged = merged])
  BY DEF MergeAndMark
<1> DEFINE j == [job[c] EXCEPT !.merged = merged]
<1>2. IsJob(j) /\ j.run = job[c].run /\ "store" \in Labels
  BY DEF Shaped, IsJob, Labels
<1>3. Goto(c, "store", j) /\ pc[c] = "merge" /\ Calm /\ UNCHANGED <<saved, acked, overlaps, sent>>
  BY <1>1 DEF MergeAndMark, Calm, bounds
<1> HIDE DEF j
<1>4. /\ pc' \in [Clients -> Labels] /\ DOMAIN job' = Clients
      /\ \A d \in Clients : IsJob(job'[d]) /\ job'[d].run \in Nat /\ job'[d].run <= runs
      /\ pc'[c] = "store" /\ job'[c] = j
      /\ \A d \in Clients \ {c} : pc'[d] = pc[d] /\ job'[d] = job[d]
  BY <1>2, <1>3, GotoShape
<1>5. Shaped'
  BY <1>3, <1>4 DEF Shaped, Calm
<1> QED BY <1>2, <1>3, <1>4, <1>5 DEF Moves

(* A row has the run of the request that stored it. *)
LEMMA StoreShape ==
    ASSUME Shaped, NEW c \in Clients, StoreFix(c)
    PROVE  /\ Shaped' /\ UNCHANGED <<saved, acked, overlaps, runs, deaths, crashes>>
           /\ Moves(c, "store", "update") /\ job'[c].run = job[c].run
           /\ rows' = rows \/ rows' = Append(rows, Row(c))
<1>1. PICK j : Goto(c, "update", j) /\ (j = job[c] \/ j = [job[c] EXCEPT !.fix = Len(rows')])
  BY DEF StoreFix
<1>2. IsJob(j) /\ j.run = job[c].run /\ "update" \in Labels
  BY <1>1 DEF Shaped, IsJob, Labels
<1>3. pc[c] = "store" /\ UNCHANGED <<saved, acked, overlaps, sent, runs, deaths, crashes>>
  BY DEF StoreFix, bounds
<1>4. /\ pc' \in [Clients -> Labels] /\ DOMAIN job' = Clients
      /\ \A d \in Clients : IsJob(job'[d]) /\ job'[d].run \in Nat /\ job'[d].run <= runs
      /\ pc'[c] = "update" /\ job'[c] = j
      /\ \A d \in Clients \ {c} : pc'[d] = pc[d] /\ job'[d] = job[d]
  BY <1>1, <1>2, GotoShape
<1>5. rows' = rows \/ rows' = Append(rows, Row(c))
  BY DEF StoreFix
<1>6. /\ \E S : rows' \in Seq(S)
      /\ \A k \in DOMAIN rows' : rows'[k].run \in Nat /\ rows'[k].run <= runs
  <2>1. PICK S : rows \in Seq(S)
    BY DEF Shaped
  <2>2. CASE rows' = rows
    BY <2>1, <2>2 DEF Shaped
  <2>3. CASE rows' = Append(rows, Row(c))
    <3>1. rows \in Seq(S \cup {Row(c)})
      BY <2>1
    <3>2. rows' \in Seq(S \cup {Row(c)})
      BY <2>3, <3>1
    <3>3. Row(c).run \in Nat /\ Row(c).run <= runs
      BY DEF Row, Shaped
    <3>4. ASSUME NEW k \in DOMAIN rows' PROVE (k \in DOMAIN rows /\ rows'[k] = rows[k]) \/ rows'[k] = Row(c)
      BY <2>3, <3>1, <3>4
    <3> HIDE DEF Row
    <3> QED BY <3>2, <3>3, <3>4 DEF Shaped
  <2> QED BY <1>5, <2>2, <2>3
<1>7. Shaped'
  BY <1>3, <1>4, <1>6 DEF Shaped
<1> QED BY <1>2, <1>3, <1>4, <1>5, <1>7 DEF Moves

LEMMA UpdateShape ==
    ASSUME Shaped, NEW c \in Clients, UpdateFinalized(c)
    PROVE  /\ Shaped' /\ Calm /\ UNCHANGED <<acked, overlaps>>
           /\ Moves(c, "update", "clear") /\ job'[c] = job[c]
           /\ saved'.active = FALSE
<1>1. IsJob(job[c]) /\ "clear" \in Labels
  BY DEF Shaped, Labels
<1>2. Goto(c, "clear", job[c]) /\ pc[c] = "update" /\ Calm /\ UNCHANGED <<acked, overlaps, sent>>
  BY DEF UpdateFinalized, Calm, bounds
<1>3. /\ pc' \in [Clients -> Labels] /\ DOMAIN job' = Clients
      /\ \A d \in Clients : IsJob(job'[d]) /\ job'[d].run \in Nat /\ job'[d].run <= runs
      /\ pc'[c] = "clear" /\ job'[c] = job[c]
      /\ \A d \in Clients \ {c} : pc'[d] = pc[d] /\ job'[d] = job[d]
  BY <1>1, <1>2, GotoShape
<1>4. IsThread(saved') /\ saved'.active = FALSE
  BY DEF UpdateFinalized, IsThread
<1>5. Shaped'
  BY <1>2, <1>3, <1>4 DEF Shaped, Calm
<1> QED BY <1>2, <1>3, <1>4, <1>5 DEF Moves

LEMMA ClearShape ==
    ASSUME Shaped, NEW c \in Clients, ClearRecorder(c)
    PROVE  /\ Shaped' /\ Calm /\ UNCHANGED <<saved, acked, overlaps>>
           /\ Moves(c, "clear", "idle")
<1>1. Finish(c) /\ pc[c] = "clear" /\ Calm /\ UNCHANGED <<saved, acked, overlaps, sent>>
  BY DEF ClearRecorder, Calm, bounds
<1>2. Shaped'
  BY <1>1, FinishShape DEF Shaped, Calm
<1> QED BY <1>1, <1>2, FinishShape DEF Moves

LEMMA DieShape ==
    ASSUME Shaped, NEW c \in Clients, Die(c)
    PROVE  /\ Shaped' /\ UNCHANGED <<saved, acked, overlaps, rows, runs, crashes>>
           /\ deaths' = deaths + 1 /\ Moves(c, pc[c], "idle")
<1>1. Finish(c) /\ UNCHANGED <<saved, acked, overlaps, rows, runs, crashes, sent>> /\ deaths' = deaths + 1
  BY DEF Die
<1>2. deaths' \in Nat
  BY <1>1 DEF Shaped
<1>3. Shaped'
  BY <1>1, <1>2, FinishShape DEF Shaped
<1> QED BY <1>1, <1>3, FinishShape DEF Moves

LEMMA CrashShape ==
    ASSUME Shaped, Crash
    PROVE  /\ Shaped' /\ UNCHANGED <<saved, acked, overlaps, rows, runs, deaths>>
           /\ crashes' = crashes + 1 /\ \A c \in Clients : pc'[c] = "idle"
<1>1. /\ UNCHANGED <<saved, acked, overlaps, rows, runs, deaths, sent>> /\ crashes' = crashes + 1
      /\ pc' = [c \in Clients |-> "idle"] /\ job' = [c \in Clients |-> NoJob]
  BY DEF Crash
<1>2. crashes' \in Nat /\ IsJob(NoJob) /\ NoJob.run = 0 /\ runs \in Nat
  BY <1>1 DEF Shaped, IsJob, NoJob
<1>3. pc' \in [Clients -> Labels] /\ \A c \in Clients : pc'[c] = "idle"
  BY <1>1 DEF Labels
<1>4. DOMAIN job' = Clients /\ \A c \in Clients : IsJob(job'[c]) /\ job'[c].run \in Nat /\ job'[c].run <= runs
  BY <1>1, <1>2
<1>5. Shaped'
  BY <1>1, <1>2, <1>3, <1>4 DEF Shaped
<1> QED BY <1>1, <1>3, <1>5

-----------------------------------------------------------------------------
(***************************************************************************)
(* What is acknowledged is mirrored.                                       *)
(***************************************************************************)
OneAtATime ==
    overlaps = 0 => \A c, d \in Clients : pc[c] # "idle" /\ pc[d] # "idle" => c = d

(* The checkpoint of an active run, and the list an event in flight will   *)
(* write back, have everything that was acknowledged.                      *)
Mirrored ==
    overlaps = 0 =>
        /\ saved.active => saved.events \in Seq(Entries) /\ acked \subseteq In(saved.events)
        /\ \A c \in Clients :
               pc[c] \in {"record", "mirror"} =>
                   /\ job[c].event \in Events /\ job[c].snap \in Seq(Entries)
                   /\ acked \subseteq In(job[c].snap)

AckInv == Shaped /\ OneAtATime /\ Mirrored

LEMMA InAppended ==
    ASSUME NEW S, NEW s \in Seq(S), NEW e \in S
    PROVE  Append(s, e) \in Seq(S) /\ In(Append(s, e)) = In(s) \cup {e}
<1>1. Append(s, e) \in Seq(S) /\ Len(Append(s, e)) = Len(s) + 1 /\ Len(s) \in Nat
  OBVIOUS
<1>2. \A k \in DOMAIN s : k \in DOMAIN Append(s, e) /\ Append(s, e)[k] = s[k]
  BY <1>1
<1>3. Len(s) + 1 \in DOMAIN Append(s, e) /\ Append(s, e)[Len(s) + 1] = e
  BY <1>1
<1>4. \A k \in DOMAIN Append(s, e) : k \in DOMAIN s \/ k = Len(s) + 1
  BY <1>1
<1> QED BY <1>1, <1>2, <1>3, <1>4 DEF In

(* A request at work moves on: nobody else was at work, and nobody is.     *)
LEMMA StillOne ==
    ASSUME Shaped, OneAtATime, NEW c \in Clients, NEW from, NEW to, from # "idle",
           Moves(c, from, to), overlaps' = overlaps
    PROVE  OneAtATime' /\ (overlaps = 0 => \A d \in Clients \ {c} : pc[d] = "idle" /\ pc'[d] = "idle")
  BY DEF OneAtATime, Moves

(* A request that begins without an overlap begins alone. *)
LEMMA BeginsAlone ==
    ASSUME Shaped, NEW c \in Clients, NEW to, Moves(c, "idle", to), overlaps' \in Nat,
           \/ overlaps' = overlaps /\ \A d \in Clients : pc[d] = "idle"
           \/ overlaps' = overlaps + 1
    PROVE  /\ OneAtATime'
           /\ overlaps' = 0 => overlaps = 0 /\ \A d \in Clients \ {c} : pc'[d] = "idle"
<1>1. overlaps + 1 # 0
  BY DEF Shaped
<1> QED BY <1>1 DEF OneAtATime, Moves

LEMMA AckInit == Init => AckInv
<1> SUFFICES ASSUME Init PROVE AckInv
  OBVIOUS
<1>1. saved.active = FALSE /\ \A c \in Clients : pc[c] = "idle"
  BY DEF Init
<1> QED BY <1>1, ShapeInit DEF AckInv, OneAtATime, Mirrored

LEMMA AckOfRequest ==
    ASSUME AckInv, NEW c \in Clients,
           ReadForEvent(c) \/ ReadForResolve(c) \/ Handler(c) \/ Die(c)
    PROVE  AckInv'
<1>0. Shaped /\ OneAtATime /\ Mirrored
  BY DEF AckInv
<1>1. CASE ReadForEvent(c)
  <2>1. Shaped' /\ UNCHANGED <<saved, acked>>
    BY <1>0, <1>1, ReadEventShape
  <2>2. CASE UNCHANGED <<pc, job, overlaps>>
    BY <1>0, <2>1, <2>2 DEF AckInv, OneAtATime, Mirrored
  <2>3. ASSUME Moves(c, "idle", "record"), saved.active, job'[c].snap = saved.events,
               job'[c].event \in Events,
               \/ overlaps' = overlaps /\ \A d \in Clients : pc[d] = "idle"
               \/ overlaps' = overlaps + 1
        PROVE  AckInv'
    <3>1. overlaps' \in Nat
      BY <2>1 DEF Shaped
    <3>2. /\ OneAtATime'
          /\ overlaps' = 0 => overlaps = 0 /\ \A d \in Clients \ {c} : pc'[d] = "idle"
      BY <1>0, <2>3, <3>1, BeginsAlone
    <3>3. Mirrored'
      BY <1>0, <2>1, <2>3, <3>2 DEF Mirrored
    <3> QED BY <2>1, <3>2, <3>3 DEF AckInv
  <2> QED BY <1>0, <1>1, <2>2, <2>3, ReadEventShape
<1>2. CASE ReadForResolve(c)
  <2>1. Shaped' /\ UNCHANGED <<saved, acked>>
    BY <1>0, <1>2, ReadResolveShape
  <2>2. CASE UNCHANGED <<pc, job, overlaps>>
    BY <1>0, <2>1, <2>2 DEF AckInv, OneAtATime, Mirrored
  <2>3. ASSUME Moves(c, "idle", "merge"),
               \/ overlaps' = overlaps /\ \A d \in Clients : pc[d] = "idle"
               \/ overlaps' = overlaps + 1
        PROVE  AckInv'
    <3>1. overlaps' \in Nat
      BY <2>1 DEF Shaped
    <3>2. /\ OneAtATime'
          /\ overlaps' = 0 => overlaps = 0 /\ \A d \in Clients \ {c} : pc'[d] = "idle"
      BY <1>0, <2>3, <3>1, BeginsAlone
    <3>3. pc'[c] = "merge"
      BY <2>3 DEF Moves
    <3>4. Mirrored'
      BY <1>0, <2>1, <3>2, <3>3 DEF Mirrored
    <3> QED BY <2>1, <3>2, <3>4 DEF AckInv
  <2> QED BY <1>0, <1>2, <2>2, <2>3, ReadResolveShape
<1>3. CASE RecordEvent(c)
  <2>1. /\ Shaped' /\ UNCHANGED <<saved, acked, overlaps>>
        /\ Moves(c, "record", "mirror") /\ job'[c] = job[c]
    BY <1>0, <1>3, RecordShape
  <2>2. OneAtATime'
    BY <1>0, <2>1, StillOne
  <2>3. Mirrored'
    BY <1>0, <2>1 DEF Mirrored, Moves
  <2> QED BY <2>1, <2>2, <2>3 DEF AckInv
<1>4. CASE MirrorEvent(c)
  <2>1. /\ Shaped' /\ UNCHANGED overlaps
        /\ Moves(c, "mirror", "idle")
        /\ saved'.active = saved.active
        /\ saved'.events = Append(job[c].snap, job[c].event)
        /\ acked' = acked \/ acked' = acked \cup {job[c].event}
    BY <1>0, <1>4, MirrorShape
  <2>2. OneAtATime' /\ (overlaps = 0 => \A d \in Clients \ {c} : pc[d] = "idle" /\ pc'[d] = "idle")
    BY <1>0, <2>1, StillOne
  <2>3. ASSUME overlaps = 0
        PROVE  saved'.events \in Seq(Entries) /\ acked' \subseteq In(saved'.events)
    <3>1. /\ job[c].event \in Entries /\ job[c].snap \in Seq(Entries)
          /\ acked \subseteq In(job[c].snap)
      BY <1>0, <2>1, <2>3 DEF Mirrored, Moves, Entries
    <3> QED BY <2>1, <3>1, InAppended
  <2>4. Mirrored'
    BY <2>1, <2>2, <2>3 DEF Mirrored, Moves
  <2> QED BY <2>1, <2>2, <2>4 DEF AckInv
<1>5. ASSUME NEW from \in Labels, NEW to, from # "idle", to \notin {"record", "mirror"}, Moves(c, from, to),
             Shaped', overlaps' = overlaps, acked' = acked, saved' = saved \/ saved'.active = FALSE
      PROVE  AckInv'
  <2>1. OneAtATime'
    BY <1>0, <1>5, StillOne
  <2>2. Mirrored'
    BY <1>0, <1>5 DEF Mirrored, Moves
  <2> QED BY <1>5, <2>1, <2>2 DEF AckInv
<1>6. CASE MergeAndMark(c)
  BY <1>0, <1>5, <1>6, MergeShape DEF Labels
<1>7. CASE StoreFix(c)
  BY <1>0, <1>5, <1>7, StoreShape DEF Labels
<1>8. CASE UpdateFinalized(c)
  BY <1>0, <1>5, <1>8, UpdateShape DEF Labels
<1>9. CASE ClearRecorder(c)
  BY <1>0, <1>5, <1>9, ClearShape DEF Labels
<1>10. CASE Die(c)
  <2>1. pc[c] \in Labels /\ pc[c] # "idle"
    BY <1>0, <1>10 DEF Shaped, Die
  <2> QED BY <1>0, <1>5, <1>10, <2>1, DieShape
<1> QED BY <1>1, <1>2, <1>3, <1>4, <1>6, <1>7, <1>8, <1>9, <1>10 DEF Handler

LEMMA AckStep == AckInv /\ [Next]_vars => AckInv'
<1> SUFFICES ASSUME AckInv, [Next]_vars PROVE AckInv'
  OBVIOUS
<1>1. CASE UNCHANGED vars
  BY <1>1 DEF AckInv, Shaped, OneAtATime, Mirrored, vars, requests, bounds
<1>2. CASE EmitNewIssue
  <2>1. << >> \in Seq(Entries) /\ In(<< >>) = {}
    BY DEF In
  <2> QED BY <1>2, <2>1, EmitShape DEF AckInv, OneAtATime, Mirrored
<1>3. CASE Crash
  BY <1>3, CrashShape DEF AckInv, OneAtATime, Mirrored
<1> QED BY <1>1, <1>2, <1>3, AckOfRequest DEF Next

(* For any number of requests and restarts: while no two requests are in   *)
(* flight at once, what was answered 202 is in the checkpoint.             *)
THEOREM AcknowledgedIsKept == Spec => []AckedIsMirrored
<1>1. AckInv => AckedIsMirrored
  BY DEF AckInv, Mirrored, AckedIsMirrored, NoAckIsLost
<1> QED BY <1>1, AckInit, AckStep, PTL DEF Spec

-----------------------------------------------------------------------------
(***************************************************************************)
(* A run becomes one row, and one more for each overlap or cut.            *)
(***************************************************************************)

(* Requests that can still store a row for run n. *)
Storing(n) == {c \in Clients : pc[c] \in {"merge", "store"} /\ job[c].run = n}

(* A resolve of run n is between its first and its last step. *)
Resolving(n) == \E c \in Clients : pc[c] \in {"merge", "store", "update"} /\ job[c].run = n

Cuts == overlaps + deaths + crashes

(* Nobody has asked for the one row the run is due. *)
Due(n) == IF n = runs /\ saved.active /\ ~Resolving(n) THEN 0 ELSE 1

Budget(n) == Cardinality(RowsOf(n)) + Cardinality(Storing(n)) <= Cuts + Due(n)

RowInv == Shaped /\ \A n \in 1 .. runs : Budget(n)

LEMMA StoringIsFinite == \A n : IsFiniteSet(Storing(n)) /\ Cardinality(Storing(n)) \in Nat
  BY ClientAssumption, FS_Subset, FS_CardinalityType DEF Storing

LEMMA RowsAreFinite ==
    ASSUME Shaped
    PROVE  \A n : IsFiniteSet(RowsOf(n)) /\ Cardinality(RowsOf(n)) \in Nat
<1>1. PICK S : rows \in Seq(S)
  BY DEF Shaped
<1>2. DOMAIN rows = 1 .. Len(rows) /\ Len(rows) \in Nat
  BY <1>1
<1>3. IsFiniteSet(DOMAIN rows)
  BY <1>2, FS_Interval
<1> QED BY <1>3, FS_Subset, FS_CardinalityType DEF RowsOf

LEMMA DueIsOneOrNone == \A n : Due(n) = 0 \/ Due(n) = 1
  BY Zenon DEF Due

LEMMA CutsType == (Shaped => Cuts \in Nat) /\ (Shaped' => Cuts' \in Nat)
<1>1. Shaped => overlaps \in Nat /\ deaths \in Nat /\ crashes \in Nat
  BY DEF Shaped
<1>2. Shaped' => overlaps' \in Nat /\ deaths' \in Nat /\ crashes' \in Nat
  BY DEF Shaped
<1> HIDE DEF Shaped
<1> QED BY <1>1, <1>2 DEF Cuts

LEMMA CutsMove ==
    ASSUME Shaped, Shaped', UNCHANGED <<deaths, crashes>>
    PROVE  /\ Cuts \in Nat /\ Cuts' \in Nat
           /\ overlaps' = overlaps => Cuts' = Cuts
           /\ overlaps' = overlaps + 1 => Cuts' = Cuts + 1
<1>1. /\ overlaps \in Nat /\ deaths \in Nat /\ crashes \in Nat
      /\ overlaps' \in Nat /\ deaths' = deaths /\ crashes' = crashes
  BY DEF Shaped
<1>2. Cuts = overlaps + deaths + crashes /\ Cuts' = overlaps' + deaths' + crashes'
  BY DEF Cuts
<1>3. Cuts \in Nat /\ Cuts' \in Nat
  BY CutsType
<1>4. overlaps' = overlaps => Cuts' = Cuts
  BY <1>1, <1>2
<1>5. ASSUME overlaps' = overlaps + 1 PROVE Cuts' = Cuts + 1
  BY <1>1, <1>2, <1>5
<1> QED BY <1>3, <1>4, <1>5

(* A step that stores no row and gives the budget what it adds to the      *)
(* requests that can store one.                                            *)
LEMMA BudgetKept ==
    ASSUME Shaped, Shaped', NEW n, Budget(n), RowsOf(n)' = RowsOf(n),
           Cardinality(Storing(n)') + Cuts + Due(n) <= Cardinality(Storing(n)) + Cuts' + Due(n)'
    PROVE  Budget(n)'
<1>1. Cuts \in Nat /\ Cuts' \in Nat
  BY CutsType
<1>2. (Due(n) = 0 \/ Due(n) = 1) /\ (Due(n)' = 0 \/ Due(n)' = 1)
  BY Zenon DEF Due
<1>3. Cardinality(RowsOf(n)) \in Nat /\ Cardinality(Storing(n)) \in Nat
  BY StoringIsFinite, RowsAreFinite
<1>4. Cardinality(Storing(n)') \in Nat
  BY ClientAssumption, FS_Subset, FS_CardinalityType DEF Storing
<1> QED BY <1>1, <1>2, <1>3, <1>4 DEF Budget

(* A subset of what could store before. *)
LEMMA BudgetStays ==
    ASSUME Shaped, Shaped', NEW n, Budget(n), RowsOf(n)' = RowsOf(n), Storing(n)' \subseteq Storing(n),
           Cuts + Due(n) <= Cuts' + Due(n)'
    PROVE  Budget(n)'
<1>1. IsFiniteSet(Storing(n)) /\ Cardinality(Storing(n)) \in Nat
  BY StoringIsFinite
<1>2. Cardinality(Storing(n)') <= Cardinality(Storing(n)) /\ Cardinality(Storing(n)') \in Nat
  BY <1>1, FS_Subset, FS_CardinalityType
<1>3. Cuts \in Nat /\ Cuts' \in Nat
  BY CutsType
<1>4. (Due(n) = 0 \/ Due(n) = 1) /\ (Due(n)' = 0 \/ Due(n)' = 1)
  BY Zenon DEF Due
<1>5. Cardinality(Storing(n)') + Cuts + Due(n) <= Cardinality(Storing(n)) + Cuts' + Due(n)'
  BY <1>1, <1>2, <1>3, <1>4
<1> QED BY <1>5, BudgetKept

(* What the steps of one request do to Storing and Resolving. *)
LEMMA RequestCounts ==
    ASSUME Shaped, Shaped', NEW c \in Clients, NEW from, NEW to, Moves(c, from, to), NEW n
    PROVE  /\ Storing(n)' \subseteq Storing(n) \cup {c}
           /\ (to \notin {"merge", "store"} \/ job'[c].run # n) => Storing(n)' \subseteq Storing(n) \ {c}
           /\ (from \in {"merge", "store"} /\ job'[c].run = job[c].run) => Storing(n)' \subseteq Storing(n)
           /\ (to \in {"merge", "store", "update"} /\ job'[c].run = n) => Resolving(n)'
           /\ (from \in {"idle", "record", "mirror", "clear"}) => (Resolving(n) => Resolving(n)')
           /\ (to \in {"merge", "store", "update"} /\ job'[c].run = job[c].run) => (Resolving(n) => Resolving(n)')
           /\ (from = "store" /\ job[c].run = n) => c \in Storing(n)
  BY DEF Storing, Resolving, Moves

LEMMA RowInit == Init => RowInv
<1> SUFFICES ASSUME Init PROVE RowInv
  OBVIOUS
<1>1. runs = 0
  BY DEF Init
<1> QED BY <1>1, ShapeInit DEF RowInv

LEMMA BudgetOfEmit ==
    ASSUME RowInv, EmitNewIssue
    PROVE  RowInv'
<1>0. /\ Shaped /\ Shaped' /\ runs' = runs + 1 /\ runs \in Nat
      /\ UNCHANGED <<rows, pc, job, overlaps, deaths, crashes>>
  BY EmitShape DEF RowInv, Shaped
<1>1. ASSUME NEW n \in 1 .. runs PROVE Budget(n)'
  <2>1. Storing(n)' = Storing(n) /\ Cuts' = Cuts
    BY <1>0 DEF Storing, Cuts
  <2>2. Due(n)' = 1 /\ Due(n) \in {0, 1}
    BY <1>0, <1>1 DEF Due
  <2>3. Cuts \in Nat
    BY <1>0, CutsType
  <2>4. Cuts + Due(n) <= Cuts' + Due(n)'
    BY <2>1, <2>2, <2>3
  <2>5. RowsOf(n)' = RowsOf(n) /\ Budget(n)
    BY <1>0, <1>1 DEF RowsOf, RowInv
  <2> QED BY <1>0, <2>1, <2>4, <2>5, BudgetStays
<1>2. ASSUME NEW n, n = runs + 1 PROVE Budget(n)'
  <2>1. RowsOf(n)' = {}
    <3>1. \A k \in DOMAIN rows : rows[k].run # runs + 1
      BY <1>0 DEF Shaped
    <3> QED BY <1>0, <1>2, <3>1 DEF RowsOf
  <2>2. Storing(n)' = {}
    <3>1. \A c \in Clients : job[c].run # runs + 1
      BY <1>0 DEF Shaped
    <3> QED BY <1>0, <1>2, <3>1 DEF Storing
  <2>3. Cuts' \in Nat /\ Due(n)' \in {0, 1}
    BY <1>0 DEF Shaped, Cuts, Due
  <2>4. Cardinality(RowsOf(n)') = 0 /\ Cardinality(Storing(n)') = 0
    BY <2>1, <2>2, FS_EmptySet
  <2> QED BY <2>3, <2>4 DEF Budget
<1>3. \A n \in 1 .. runs' : n \in 1 .. runs \/ n = runs + 1
  BY <1>0
<1> QED BY <1>0, <1>1, <1>2, <1>3 DEF RowInv

LEMMA BudgetOfCut ==
    ASSUME RowInv, Crash \/ \E c \in Clients : Die(c)
    PROVE  RowInv'
<1>0. Shaped /\ Shaped' /\ UNCHANGED <<rows, runs>> /\ Cuts' = Cuts + 1
  <2>1. /\ Shaped /\ Shaped' /\ UNCHANGED <<rows, runs>>
        /\ overlaps' = overlaps
        /\ \/ deaths' = deaths + 1 /\ crashes' = crashes
           \/ deaths' = deaths /\ crashes' = crashes + 1
    BY CrashShape, DieShape DEF RowInv
  <2>2. overlaps \in Nat /\ deaths \in Nat /\ crashes \in Nat
    BY <2>1 DEF Shaped
  <2>3. Cuts = overlaps + deaths + crashes /\ Cuts' = overlaps' + deaths' + crashes'
    BY DEF Cuts
  <2> QED BY <2>1, <2>2, <2>3
<1>1. ASSUME NEW n PROVE Storing(n)' \subseteq Storing(n)
  <2>1. CASE Crash
    BY <2>1, CrashShape DEF RowInv, Storing
  <2>2. ASSUME NEW c \in Clients, Die(c) PROVE Storing(n)' \subseteq Storing(n)
    BY <2>2, DieShape DEF RowInv, Storing, Moves
  <2> QED BY <2>1, <2>2
<1>2. ASSUME NEW n \in 1 .. runs PROVE Budget(n)'
  <2>1. RowsOf(n)' = RowsOf(n)
    BY <1>0 DEF RowsOf
  <2>2. Cuts' + Due(n)' >= Cuts + Due(n)
    <3>1. (Due(n) = 0 \/ Due(n) = 1) /\ (Due(n)' = 0 \/ Due(n)' = 1)
      BY Zenon DEF Due
    <3> QED BY <1>0, <3>1, CutsType
  <2> QED BY <1>0, <1>1, <1>2, <2>1, <2>2, BudgetStays DEF RowInv
<1> QED BY <1>0, <1>2 DEF RowInv

(* A resolve begins: the row the run is due, or an overlap. *)
LEMMA BudgetOfResolve ==
    ASSUME RowInv, Shaped', Calm, saved' = saved, NEW c \in Clients, Moves(c, "idle", "merge"),
           saved.active, job'[c].run = runs,
           \/ overlaps' = overlaps /\ \A d \in Clients : pc[d] = "idle"
           \/ overlaps' = overlaps + 1
    PROVE  RowInv'
<1>0. Shaped /\ Cuts \in Nat /\ Cuts' \in Nat /\ runs' = runs /\ rows' = rows
  BY CutsType DEF RowInv, Calm
<1>9. Cuts' = Cuts \/ Cuts' = Cuts + 1
  BY <1>0, CutsMove DEF Calm
<1>1. ASSUME NEW n \in 1 .. runs PROVE Budget(n)'
  <2>0. Budget(n) /\ RowsOf(n)' = RowsOf(n)
    BY <1>0, <1>1 DEF RowInv, RowsOf
  <2>1. (Due(n) = 0 \/ Due(n) = 1) /\ (Due(n)' = 0 \/ Due(n)' = 1)
    BY Zenon DEF Due
  <2>2. CASE n # runs
    <3>1. Storing(n)' \subseteq Storing(n)
      BY <1>0, <2>2, RequestCounts
    <3>2. Due(n)' = Due(n)
      BY <1>0, <2>2 DEF Due
    <3>3. Cuts + Due(n) <= Cuts' + Due(n)'
      BY <1>0, <1>9, <2>1, <3>2
    <3> QED BY <1>0, <2>0, <3>1, <3>3, BudgetStays
  <2>3. CASE n = runs
    <3>1. Storing(n)' \subseteq Storing(n) \cup {c} /\ Due(n)' = 1
      <4>1. Storing(n)' \subseteq Storing(n) \cup {c} /\ Resolving(n)'
        BY <1>0, <2>3, RequestCounts
      <4> QED BY <4>1 DEF Due
    <3>2. Cardinality(Storing(n)') <= Cardinality(Storing(n)) + 1
      <4>1. IsFiniteSet(Storing(n)) /\ Cardinality(Storing(n)) \in Nat
        BY StoringIsFinite
      <4>2. IsFiniteSet(Storing(n) \cup {c}) /\ Cardinality(Storing(n) \cup {c}) <= Cardinality(Storing(n)) + 1
        <5>1. /\ IsFiniteSet(Storing(n) \cup {c})
              /\ Cardinality(Storing(n) \cup {c}) =
                     IF c \in Storing(n) THEN Cardinality(Storing(n)) ELSE Cardinality(Storing(n)) + 1
          BY <4>1, FS_AddElement
        <5> QED BY <4>1, <5>1
      <4>3. Cardinality(Storing(n) \cup {c}) \in Nat /\ Cardinality(Storing(n)') <= Cardinality(Storing(n) \cup {c})
            /\ Cardinality(Storing(n)') \in Nat
        BY <3>1, <4>2, FS_Subset, FS_CardinalityType
      <4> QED BY <4>1, <4>2, <4>3
    <3>3. Cuts' + 1 >= Cuts + Due(n) + 1
      <4>1. CASE overlaps' = overlaps + 1
        <5>1. Cuts' = Cuts + 1
          BY <1>0, <4>1, CutsMove DEF Calm
        <5> QED BY <1>0, <2>1, <5>1
      <4>2. CASE overlaps' = overlaps /\ \A d \in Clients : pc[d] = "idle"
        <5>1. Due(n) = 0
          BY <2>3, <4>2 DEF Due, Resolving
        <5>2. Cuts' = Cuts
          BY <1>0, <4>2, CutsMove DEF Calm
        <5> QED BY <1>0, <5>1, <5>2
      <4> QED BY <4>1, <4>2
    <3>4. Cardinality(Storing(n)) \in Nat /\ Cardinality(Storing(n)') \in Nat
      BY ClientAssumption, FS_Subset, FS_CardinalityType DEF Storing
    <3>5. Cardinality(Storing(n)') + Cuts + Due(n) <= Cardinality(Storing(n)) + Cuts' + Due(n)'
      BY <1>0, <2>1, <3>1, <3>2, <3>3, <3>4
    <3> QED BY <1>0, <2>0, <3>5, BudgetKept
  <2> QED BY <2>2, <2>3
<1> QED BY <1>0, <1>1 DEF RowInv

(* A row is stored: one request fewer that could store it. *)
LEMMA BudgetOfStore ==
    ASSUME RowInv, NEW c \in Clients, StoreFix(c)
    PROVE  RowInv'
<1>0. /\ Shaped /\ Shaped' /\ UNCHANGED <<saved, overlaps, runs, deaths, crashes>>
      /\ Moves(c, "store", "update") /\ job'[c].run = job[c].run
      /\ rows' = rows \/ rows' = Append(rows, Row(c))
  BY StoreShape DEF RowInv
<1>1. ASSUME NEW n \in 1 .. runs PROVE Budget(n)'
  <2>0. Budget(n) /\ Cuts' = Cuts /\ Cuts \in Nat
    BY <1>0, <1>1, CutsType DEF RowInv, Cuts
  <2>1. (Due(n) = 0 \/ Due(n) = 1) /\ (Due(n)' = 0 \/ Due(n)' = 1)
    BY Zenon DEF Due
  <2>2. /\ Storing(n)' \subseteq Storing(n) \ {c}
        /\ Resolving(n) => Resolving(n)'
        /\ job[c].run = n => c \in Storing(n)
    BY <1>0, RequestCounts
  <2>3. Due(n)' >= Due(n)
    BY <1>0, <2>2 DEF Due
  <2>4. CASE RowsOf(n)' = RowsOf(n)
    BY <1>0, <2>0, <2>1, <2>2, <2>3, <2>4, BudgetStays
  <2>5. CASE rows' = Append(rows, Row(c)) /\ job[c].run # n
    <3>1. RowsOf(n)' = RowsOf(n)
      <4>1. PICK S : rows \in Seq(S)
        BY <1>0 DEF Shaped
      <4>2. Row(c).run # n
        BY <2>5 DEF Row
      <4> HIDE DEF Row
      <4> QED BY <2>5, <4>1, <4>2 DEF RowsOf
    <3> QED BY <1>0, <2>0, <2>1, <2>2, <2>3, <3>1, BudgetStays
  <2>6. CASE rows' = Append(rows, Row(c)) /\ job[c].run = n
    <3>1. Cardinality(RowsOf(n)') = Cardinality(RowsOf(n)) + 1
      <4>1. PICK S : rows \in Seq(S)
        BY <1>0 DEF Shaped
      <4>2. Row(c).run = n
        BY <2>6 DEF Row
      <4>3. RowsOf(n)' = RowsOf(n) \cup {Len(rows) + 1} /\ Len(rows) + 1 \notin RowsOf(n)
        BY <2>6, <4>1, <4>2 DEF RowsOf
      <4> QED BY <1>0, <4>3, RowsAreFinite, FS_AddElement
    <3>2. /\ Cardinality(Storing(n)) \in Nat /\ Cardinality(Storing(n)') \in Nat
          /\ Cardinality(Storing(n)') <= Cardinality(Storing(n)) - 1
      <4>1. IsFiniteSet(Storing(n)) /\ Cardinality(Storing(n)) \in Nat
        BY StoringIsFinite
      <4>2. IsFiniteSet(Storing(n) \ {c}) /\ Cardinality(Storing(n) \ {c}) = Cardinality(Storing(n)) - 1
        BY <2>2, <2>6, <4>1, FS_RemoveElement
      <4> QED BY <2>2, <4>1, <4>2, FS_Subset, FS_CardinalityType
    <3>3. Cardinality(RowsOf(n)) \in Nat
      BY <1>0, RowsAreFinite
    <3> QED BY <2>0, <2>1, <2>3, <3>1, <3>2, <3>3 DEF Budget
  <2>7. rows' = rows => RowsOf(n)' = RowsOf(n)
    BY DEF RowsOf
  <2> QED BY <1>0, <2>4, <2>5, <2>6, <2>7
<1> QED BY <1>0, <1>1 DEF RowInv

(* A step without a row that keeps what its run has under way. *)
LEMMA BudgetOfMove ==
    ASSUME RowInv, Shaped', Calm, overlaps' = overlaps \/ overlaps' = overlaps + 1,
           saved'.active = FALSE \/ saved'.active = saved.active,
           NEW c \in Clients, NEW from, NEW to, Moves(c, from, to),
           \/ from \in {"merge", "store"} /\ job'[c].run = job[c].run
           \/ to \notin {"merge", "store"},
           \/ from \in {"idle", "record", "mirror", "clear"}
           \/ to \in {"merge", "store", "update"} /\ job'[c].run = job[c].run
           \/ saved'.active = FALSE
    PROVE  RowInv'
<1>0. Shaped /\ rows' = rows /\ runs' = runs
  BY DEF RowInv, Calm
<1>1. /\ Cuts \in Nat /\ Cuts' \in Nat
      /\ Cuts' = Cuts \/ Cuts' = Cuts + 1
  BY <1>0, CutsMove DEF Calm
<1>2. ASSUME NEW n \in 1 .. runs PROVE Budget(n)'
  <2>1. /\ Storing(n)' \subseteq Storing(n)
        /\ (Resolving(n) => Resolving(n)') \/ saved'.active = FALSE
    BY <1>0, RequestCounts
  <2>2. Due(n)' >= Due(n)
    <3>1. CASE saved'.active = FALSE
      BY <1>0, <3>1 DEF Due
    <3>2. CASE saved'.active = saved.active /\ (Resolving(n) => Resolving(n)')
      BY <1>0, <3>2 DEF Due
    <3> QED BY <2>1, <3>1, <3>2
  <2>3. (Due(n) = 0 \/ Due(n) = 1) /\ (Due(n)' = 0 \/ Due(n)' = 1)
    BY Zenon DEF Due
  <2>4. Cuts + Due(n) <= Cuts' + Due(n)'
    BY <1>1, <2>2, <2>3
  <2>5. RowsOf(n)' = RowsOf(n) /\ Budget(n)
    BY <1>0, <1>2 DEF RowsOf, RowInv
  <2> QED BY <1>0, <2>1, <2>4, <2>5, BudgetStays
<1> QED BY <1>0, <1>2 DEF RowInv

LEMMA BudgetOfRequest ==
    ASSUME RowInv, NEW c \in Clients,
           ReadForEvent(c) \/ ReadForResolve(c) \/ Handler(c) \/ Die(c)
    PROVE  RowInv'
<1>0. Shaped
  BY DEF RowInv
<1>2. CASE UNCHANGED <<saved, rows, pc, job, runs, overlaps, deaths, crashes>> /\ Shaped'
  BY <1>2 DEF RowInv, Budget, RowsOf, Storing, Resolving, Due, Cuts
<1>3. CASE ReadForEvent(c)
  <2>1. Shaped' /\ Calm /\ saved' = saved
    BY <1>0, <1>3, ReadEventShape
  <2>2. CASE UNCHANGED <<pc, job, overlaps>>
    BY <1>2, <2>1, <2>2 DEF Calm
  <2>3. CASE Moves(c, "idle", "record") /\ (overlaps' = overlaps \/ overlaps' = overlaps + 1)
    BY <2>1, <2>3, BudgetOfMove
  <2> QED BY <1>0, <1>3, <2>2, <2>3, ReadEventShape
<1>4. CASE RecordEvent(c)
  <2>1. Shaped' /\ Calm /\ overlaps' = overlaps /\ saved' = saved /\ Moves(c, "record", "mirror")
    BY <1>0, <1>4, RecordShape
  <2> QED BY <2>1, BudgetOfMove
<1>5. CASE MirrorEvent(c)
  <2>1. /\ Shaped' /\ Calm /\ overlaps' = overlaps /\ saved'.active = saved.active
        /\ Moves(c, "mirror", "idle")
    BY <1>0, <1>5, MirrorShape
  <2> QED BY <2>1, BudgetOfMove
<1>6. CASE MergeAndMark(c)
  <2>1. /\ Shaped' /\ Calm /\ overlaps' = overlaps /\ saved' = saved
        /\ Moves(c, "merge", "store") /\ job'[c].run = job[c].run
    BY <1>0, <1>6, MergeShape
  <2> QED BY <2>1, BudgetOfMove
<1>7. CASE UpdateFinalized(c)
  <2>1. /\ Shaped' /\ Calm /\ overlaps' = overlaps /\ saved'.active = FALSE
        /\ Moves(c, "update", "clear")
    BY <1>0, <1>7, UpdateShape
  <2> QED BY <2>1, BudgetOfMove
<1>8. CASE ClearRecorder(c)
  <2>1. Shaped' /\ Calm /\ overlaps' = overlaps /\ saved' = saved /\ Moves(c, "clear", "idle")
    BY <1>0, <1>8, ClearShape
  <2> QED BY <2>1, BudgetOfMove
<1>9. CASE ReadForResolve(c)
  <2>1. Shaped' /\ Calm /\ saved' = saved
    BY <1>0, <1>9, ReadResolveShape
  <2>2. CASE UNCHANGED <<pc, job, overlaps>>
    BY <1>2, <2>1, <2>2 DEF Calm
  <2>3. CASE /\ Moves(c, "idle", "merge") /\ saved.active /\ job'[c].run = runs
             /\ \/ overlaps' = overlaps /\ \A d \in Clients : pc[d] = "idle"
                \/ overlaps' = overlaps + 1
    BY <2>1, <2>3, BudgetOfResolve
  <2> QED BY <1>0, <1>9, <2>2, <2>3, ReadResolveShape
<1> QED BY <1>3, <1>4, <1>5, <1>6, <1>7, <1>8, <1>9, BudgetOfStore, BudgetOfCut DEF Handler

LEMMA RowStep == RowInv /\ [Next]_vars => RowInv'
<1> SUFFICES ASSUME RowInv, [Next]_vars PROVE RowInv'
  OBVIOUS
<1>1. CASE UNCHANGED vars
  BY <1>1 DEF RowInv, Shaped, Budget, RowsOf, Storing, Resolving, Due, Cuts, vars, requests, bounds
<1> QED BY <1>1, BudgetOfEmit, BudgetOfCut, BudgetOfRequest DEF Next

(* For any number of requests in flight, deaths and restarts, a run gets   *)
(* one row and at most one more for each overlap and each cut.             *)
THEOREM RowsStayBounded == Spec => []RowsAreBounded
<1>1. RowInv => RowsAreBounded
  <2> SUFFICES ASSUME RowInv, NEW n \in 1 .. runs
               PROVE  Cardinality(RowsOf(n)) <= 1 + overlaps + deaths + crashes
    BY DEF RowsAreBounded
  <2>1. /\ Cardinality(RowsOf(n)) \in Nat /\ Cardinality(Storing(n)) \in Nat
        /\ overlaps \in Nat /\ deaths \in Nat /\ crashes \in Nat
    BY RowsAreFinite, StoringIsFinite DEF RowInv, Shaped
  <2>2. Budget(n) /\ (Due(n) = 0 \/ Due(n) = 1)
    BY DueIsOneOrNone DEF RowInv
  <2> QED BY <2>1, <2>2 DEF Budget, Cuts
<1> QED BY <1>1, RowInit, RowStep, PTL DEF Spec

-----------------------------------------------------------------------------
(***************************************************************************)
(* After finalize the thread says what was stored.                         *)
(***************************************************************************)

(* Nobody finalizes the run under a request: while one is at work the run  *)
(* is captured, and the thread still names the fix of an earlier one.  A   *)
(* resolve hands on that name, or that of the row it has stored.           *)
Handing(c) ==
    /\ pc[c] \in Labels \ {"idle", "clear"} => saved.active
    /\ pc[c] \in {"merge", "store"} => job[c].fix = saved.fix
    /\ pc[c] = "update" =>
           \/ job[c].fix = saved.fix
           \/ job[c].fix \in DOMAIN rows /\ rows[job[c].fix].trace = job[c].merged

NamesEarlierRun == saved.fix = 0 \/ rows[saved.fix].run < runs

SaysWhatIsStored ==
    saved.fix # 0 /\ rows[saved.fix].run = runs => saved.events = rows[saved.fix].trace

Finalized ==
    overlaps = 0 =>
        /\ saved.fix = 0 \/ saved.fix \in DOMAIN rows
        /\ saved.active => NamesEarlierRun
        /\ ~saved.active => SaysWhatIsStored
        /\ \A c \in Clients : Handing(c)

FinalInv == Shaped /\ OneAtATime /\ Finalized

LEMMA FinalInit == Init => FinalInv
<1> SUFFICES ASSUME Init PROVE FinalInv
  OBVIOUS
<1>1. saved.active = FALSE /\ saved.fix = 0 /\ \A c \in Clients : pc[c] = "idle"
  BY DEF Init
<1>2. \A c \in Clients : Handing(c)
  BY <1>1 DEF Handing
<1> QED BY <1>1, <1>2, ShapeInit DEF FinalInv, OneAtATime, Finalized, SaysWhatIsStored

(* A request is at work alone, and the thread and the table stay.          *)
LEMMA FinalOfMove ==
    ASSUME FinalInv, Shaped', OneAtATime', NEW c \in Clients, NEW from, NEW to, Moves(c, from, to),
           overlaps' \in Nat, overlaps' = 0 => overlaps = 0,
           saved' = saved, rows' = rows, runs' = runs,
           overlaps = 0 => Handing(c)'
    PROVE  FinalInv'
<1>1. ASSUME overlaps = 0, NEW d \in Clients PROVE Handing(d)'
  <2>1. CASE d = c
    BY <1>1, <2>1
  <2>2. CASE d # c
    <3>1. pc'[d] = pc[d] /\ job'[d] = job[d] /\ Handing(d)
      BY <1>1, <2>2 DEF FinalInv, Finalized, Moves
    <3> QED BY <3>1 DEF Handing
  <2> QED BY <2>1, <2>2
<1>2. Finalized'
  BY <1>1 DEF FinalInv, Finalized, NamesEarlierRun, SaysWhatIsStored
<1> QED BY <1>2 DEF FinalInv

(* The run is captured again: its fix is of an earlier one. *)
LEMMA FinalOfEmit ==
    ASSUME FinalInv, EmitNewIssue
    PROVE  FinalInv'
<1>1. /\ Shaped /\ Shaped' /\ saved'.active = TRUE /\ runs' = runs + 1 /\ runs \in Nat
      /\ UNCHANGED <<rows, pc, job, overlaps>>
  BY EmitShape DEF FinalInv, Shaped
<1>2. saved'.fix = saved.fix
  BY <1>1 DEF EmitNewIssue, Shaped, IsThread
<1>3. OneAtATime'
  BY <1>1 DEF FinalInv, OneAtATime
<1>4. ASSUME overlaps = 0 PROVE saved.fix = 0 \/ (saved.fix \in DOMAIN rows /\ rows[saved.fix].run < runs + 1)
  <2>1. saved.fix = 0 \/ saved.fix \in DOMAIN rows
    BY <1>4 DEF FinalInv, Finalized
  <2>2. \A k \in DOMAIN rows : rows[k].run < runs + 1
    BY <1>1 DEF Shaped
  <2> QED BY <2>1, <2>2
<1>5. ASSUME overlaps = 0, NEW c \in Clients PROVE Handing(c)'
  <2>1. Handing(c)
    BY <1>5 DEF FinalInv, Finalized
  <2> QED BY <1>1, <1>2, <2>1 DEF Handing
<1>6. Finalized'
  BY <1>1, <1>2, <1>4, <1>5 DEF Finalized, NamesEarlierRun
<1> QED BY <1>1, <1>3, <1>6 DEF FinalInv

(* An event in flight writes while the run is captured. *)
LEMMA FinalOfMirror ==
    ASSUME FinalInv, NEW c \in Clients, MirrorEvent(c)
    PROVE  FinalInv'
<1>1. /\ Shaped /\ Shaped' /\ UNCHANGED <<overlaps, rows, runs>> /\ Moves(c, "mirror", "idle")
      /\ saved'.active = saved.active
  BY MirrorShape DEF FinalInv, Calm
<1>2. saved'.fix = saved.fix
  BY <1>1 DEF MirrorEvent, Shaped, IsThread
<1>3. OneAtATime'
  BY <1>1, StillOne DEF FinalInv
<1>4. overlaps = 0 => saved.active
  BY <1>1 DEF FinalInv, Finalized, Handing, Moves, Labels
<1>5. ASSUME overlaps = 0, NEW d \in Clients PROVE Handing(d)'
  <2>1. Handing(d) /\ (pc'[d] = "idle" \/ (pc'[d] = pc[d] /\ job'[d] = job[d]))
    BY <1>1, <1>5 DEF FinalInv, Finalized, Moves
  <2> QED BY <1>1, <1>2, <2>1 DEF Handing
<1>6. Finalized'
  BY <1>1, <1>2, <1>4, <1>5 DEF FinalInv, Finalized, NamesEarlierRun
<1> QED BY <1>1, <1>3, <1>6 DEF FinalInv

(* The name of the new row, with the trace it was made of, or none. *)
LEMMA FinalOfStore ==
    ASSUME FinalInv, NEW c \in Clients, StoreFix(c)
    PROVE  FinalInv'
<1>1. /\ Shaped /\ Shaped' /\ UNCHANGED <<saved, overlaps, runs>> /\ Moves(c, "store", "update")
      /\ rows' = rows \/ rows' = Append(rows, Row(c))
  BY StoreShape DEF FinalInv
<1>2. OneAtATime' /\ (overlaps = 0 => \A d \in Clients \ {c} : pc[d] = "idle" /\ pc'[d] = "idle")
  BY <1>1, StillOne DEF FinalInv
<1>3. PICK S : rows \in Seq(S)
  BY <1>1 DEF Shaped
<1>4. \A k \in DOMAIN rows : k \in DOMAIN rows' /\ rows'[k] = rows[k]
  <2>1. CASE rows' = rows
    BY <2>1
  <2>2. CASE rows' = Append(rows, Row(c))
    BY <1>3, <2>2
  <2> QED BY <1>1, <2>1, <2>2
<1>5. \/ job'[c] = job[c]
      \/ /\ job'[c].fix \in DOMAIN rows'
         /\ rows'[job'[c].fix].trace = job'[c].merged
  <2>1. CASE Goto(c, "update", job[c])
    BY <1>1, <2>1 DEF Goto, Shaped
  <2>2. CASE rows' = Append(rows, Row(c)) /\ Goto(c, "update", [job[c] EXCEPT !.fix = Len(rows')])
    <3>1. job'[c] = [job[c] EXCEPT !.fix = Len(rows')]
      BY <1>1, <2>2 DEF Goto, Shaped
    <3>2. job'[c].fix = Len(rows') /\ job'[c].merged = job[c].merged
      BY <1>1, <3>1 DEF Shaped, IsJob
    <3>3. Row(c).trace = job[c].merged
      BY DEF Row
    <3>4. Len(rows') \in DOMAIN rows' /\ rows'[Len(rows')] = Row(c)
      <4> HIDE DEF Row
      <4> QED BY <1>3, <2>2
    <3> QED BY <3>2, <3>3, <3>4
  <2> QED BY <2>1, <2>2 DEF StoreFix
<1>6. ASSUME overlaps = 0 PROVE saved.active /\ job[c].fix = saved.fix
  BY <1>1, <1>6 DEF FinalInv, Finalized, Handing, Moves, Labels
<1>7. ASSUME overlaps = 0, NEW d \in Clients PROVE Handing(d)'
  <2>1. CASE d = c
    BY <1>1, <1>5, <1>6, <1>7, <2>1 DEF Handing, Moves
  <2>2. CASE d # c
    BY <1>2, <1>7, <2>2 DEF Handing
  <2> QED BY <2>1, <2>2
<1>8. Finalized'
  BY <1>1, <1>4, <1>6, <1>7 DEF FinalInv, Finalized, NamesEarlierRun
<1> QED BY <1>1, <1>2, <1>8 DEF FinalInv

(* The thread is written by the one request at work. *)
LEMMA FinalOfUpdate ==
    ASSUME FinalInv, NEW c \in Clients, UpdateFinalized(c)
    PROVE  FinalInv'
<1>1. /\ Shaped /\ Shaped' /\ UNCHANGED <<overlaps, rows, runs>> /\ Moves(c, "update", "clear")
      /\ saved'.active = FALSE
  BY UpdateShape DEF FinalInv, Calm
<1>2. saved'.fix = job[c].fix /\ saved'.events = job[c].merged
  BY DEF UpdateFinalized
<1>3. OneAtATime' /\ (overlaps = 0 => \A d \in Clients \ {c} : pc[d] = "idle" /\ pc'[d] = "idle")
  BY <1>1, StillOne DEF FinalInv
<1>4. ASSUME overlaps = 0
      PROVE  /\ NamesEarlierRun
             /\ \/ job[c].fix = saved.fix
                \/ job[c].fix \in DOMAIN rows /\ rows[job[c].fix].trace = job[c].merged
  BY <1>1, <1>4 DEF FinalInv, Finalized, Handing, Moves, Labels
<1>5. ASSUME overlaps = 0 PROVE SaysWhatIsStored' /\ (saved'.fix = 0 \/ saved'.fix \in DOMAIN rows)
  <2>1. CASE job[c].fix = saved.fix
    <3>1. saved.fix = 0 \/ saved.fix \in DOMAIN rows
      BY <1>5 DEF FinalInv, Finalized
    <3>2. saved.fix = 0 \/ rows[saved.fix].run # runs
      <4>1. \A k \in DOMAIN rows : rows[k].run \in Nat
        BY <1>1 DEF Shaped
      <4>2. runs \in Nat
        BY <1>1 DEF Shaped
      <4> QED BY <1>4, <1>5, <3>1, <4>1, <4>2 DEF NamesEarlierRun
    <3> QED BY <1>1, <1>2, <2>1, <3>1, <3>2 DEF SaysWhatIsStored
  <2>2. CASE job[c].fix \in DOMAIN rows /\ rows[job[c].fix].trace = job[c].merged
    BY <1>1, <1>2, <2>2 DEF SaysWhatIsStored
  <2> QED BY <1>4, <1>5, <2>1, <2>2
<1>6. ASSUME overlaps = 0, NEW d \in Clients PROVE Handing(d)'
  <2>1. pc'[d] = "idle" \/ pc'[d] = "clear"
    BY <1>1, <1>3, <1>6 DEF Moves
  <2> QED BY <2>1 DEF Handing
<1>7. Finalized'
  BY <1>1, <1>5, <1>6 DEF Finalized
<1> QED BY <1>1, <1>3, <1>7 DEF FinalInv

LEMMA FinalOfResolve ==
    ASSUME FinalInv, NEW c \in Clients, ReadForResolve(c)
    PROVE  FinalInv'
<1>1. Shaped /\ Shaped' /\ UNCHANGED <<saved, rows, runs>> /\ overlaps' \in Nat
  BY ReadResolveShape DEF FinalInv, Calm, Shaped
<1>2. CASE UNCHANGED <<pc, job, overlaps>>
  BY <1>1, <1>2 DEF FinalInv, OneAtATime, Finalized, Handing, NamesEarlierRun, SaysWhatIsStored
<1>3. ASSUME Moves(c, "idle", "merge"), saved.active,
             \/ overlaps' = overlaps /\ \A d \in Clients : pc[d] = "idle"
             \/ overlaps' = overlaps + 1
      PROVE  FinalInv'
  <2>1. /\ OneAtATime'
        /\ overlaps' = 0 => overlaps = 0 /\ \A d \in Clients \ {c} : pc'[d] = "idle"
    BY <1>1, <1>3, BeginsAlone
  <2>2. job'[c].fix = saved.fix
    <3>1. Begin(c, "merge", [NoJob EXCEPT !.snap = saved.events, !.fix = saved.fix,
                                          !.run = runs, !.owed = acked])
      BY <1>3 DEF ReadForResolve
    <3>2. job' = [job EXCEPT ![c] = [NoJob EXCEPT !.snap = saved.events, !.fix = saved.fix,
                                                  !.run = runs, !.owed = acked]]
      BY <3>1 DEF Begin, Goto
    <3> QED BY <1>1, <3>2 DEF Shaped, NoJob
  <2>3. Handing(c)'
    BY <1>1, <1>3, <2>2 DEF Handing, Moves
  <2> QED BY <1>1, <1>3, <2>1, <2>3, FinalOfMove
<1> QED BY <1>1, <1>2, <1>3, ReadResolveShape

LEMMA FinalOfEvent ==
    ASSUME FinalInv, NEW c \in Clients, ReadForEvent(c)
    PROVE  FinalInv'
<1>1. Shaped /\ Shaped' /\ UNCHANGED <<saved, rows, runs>> /\ overlaps' \in Nat
  BY ReadEventShape DEF FinalInv, Calm, Shaped
<1>2. CASE UNCHANGED <<pc, job, overlaps>>
  BY <1>1, <1>2 DEF FinalInv, OneAtATime, Finalized, Handing, NamesEarlierRun, SaysWhatIsStored
<1>3. ASSUME Moves(c, "idle", "record"), saved.active,
             \/ overlaps' = overlaps /\ \A d \in Clients : pc[d] = "idle"
             \/ overlaps' = overlaps + 1
      PROVE  FinalInv'
  <2>1. /\ OneAtATime'
        /\ overlaps' = 0 => overlaps = 0 /\ \A d \in Clients \ {c} : pc'[d] = "idle"
    BY <1>1, <1>3, BeginsAlone
  <2>2. Handing(c)'
    BY <1>1, <1>3 DEF Handing, Moves
  <2> QED BY <1>1, <1>3, <2>1, <2>2, FinalOfMove
<1> QED BY <1>1, <1>2, <1>3, ReadEventShape

(* The steps of a request that leave the thread and the table alone. *)
LEMMA FinalOfStep ==
    ASSUME FinalInv, NEW c \in Clients,
           RecordEvent(c) \/ MergeAndMark(c) \/ ClearRecorder(c) \/ Die(c)
    PROVE  FinalInv'
<1>0. Shaped /\ OneAtATime
  BY DEF FinalInv
<1>1. ASSUME NEW from, NEW to, from # "idle", Moves(c, from, to), Shaped',
             UNCHANGED <<saved, overlaps, rows, runs>>, overlaps = 0 => Handing(c)'
      PROVE  FinalInv'
  <2>1. OneAtATime' /\ overlaps' \in Nat
    BY <1>0, <1>1, StillOne DEF Shaped
  <2> QED BY <1>0, <1>1, <2>1, FinalOfMove
<1>2. overlaps = 0 => Handing(c)
  BY DEF FinalInv, Finalized
<1>3. CASE RecordEvent(c)
  <2>1. Shaped' /\ UNCHANGED <<saved, overlaps, rows, runs>> /\ Moves(c, "record", "mirror")
    BY <1>0, <1>3, RecordShape DEF Calm
  <2>2. overlaps = 0 => Handing(c)'
    BY <1>2, <2>1 DEF Handing, Moves, Labels
  <2> QED BY <1>1, <2>1, <2>2
<1>4. CASE MergeAndMark(c)
  <2>1. Shaped' /\ UNCHANGED <<saved, overlaps, rows, runs>> /\ Moves(c, "merge", "store")
    BY <1>0, <1>4, MergeShape DEF Calm
  <2>2. PICK merged : job' = [job EXCEPT ![c] = [job[c] EXCEPT !.merged = merged]]
    BY <1>4 DEF MergeAndMark, Goto
  <2>3. job'[c].fix = job[c].fix
    BY <1>0, <2>2 DEF Shaped, IsJob
  <2>4. overlaps = 0 => Handing(c)'
    BY <1>2, <2>1, <2>3 DEF Handing, Moves, Labels
  <2> QED BY <1>1, <2>1, <2>4
<1>5. CASE ClearRecorder(c)
  <2>1. Shaped' /\ UNCHANGED <<saved, overlaps, rows, runs>> /\ Moves(c, "clear", "idle")
    BY <1>0, <1>5, ClearShape DEF Calm
  <2>2. Handing(c)'
    BY <2>1 DEF Handing, Moves
  <2> QED BY <1>1, <2>1, <2>2
<1>6. CASE Die(c)
  <2>1. Shaped' /\ UNCHANGED <<saved, overlaps, rows, runs>> /\ Moves(c, pc[c], "idle")
    BY <1>0, <1>6, DieShape
  <2>2. Handing(c)' /\ pc[c] # "idle"
    BY <1>6, <2>1 DEF Handing, Moves, Die
  <2> QED BY <1>1, <2>1, <2>2
<1> QED BY <1>3, <1>4, <1>5, <1>6

LEMMA FinalStep == FinalInv /\ [Next]_vars => FinalInv'
<1> SUFFICES ASSUME FinalInv, [Next]_vars PROVE FinalInv'
  OBVIOUS
<1>1. CASE UNCHANGED vars
  BY <1>1 DEF FinalInv, Shaped, OneAtATime, Finalized, Handing, NamesEarlierRun, SaysWhatIsStored,
              vars, requests, bounds
<1>2. CASE Crash
  <2>1. /\ Shaped' /\ UNCHANGED <<saved, overlaps, rows, runs>>
        /\ \A c \in Clients : pc'[c] = "idle"
    BY <1>2, CrashShape DEF FinalInv
  <2>2. OneAtATime' /\ \A c \in Clients : Handing(c)'
    BY <2>1 DEF OneAtATime, Handing
  <2> QED BY <2>1, <2>2 DEF FinalInv, Finalized, NamesEarlierRun, SaysWhatIsStored
<1> QED BY <1>1, <1>2, FinalOfEmit, FinalOfEvent, FinalOfResolve, FinalOfMirror, FinalOfStore,
           FinalOfUpdate, FinalOfStep DEF Next, Handler

(* For any number of requests, deaths and restarts: as long as no two were *)
(* in flight at once, a finalized thread shows the trace of its fix.       *)
THEOREM FinalizedStaysTrue == Spec => []FinalizedTraceIsKept
<1>1. FinalInv => FinalizedTraceIsKept
  BY DEF FinalInv, Finalized, SaysWhatIsStored, FinalizedTraceIsKept
<1> QED BY <1>1, FinalInit, FinalStep, PTL DEF Spec

-----------------------------------------------------------------------------
(***************************************************************************)
(* The deque and the merge.                                                *)
(***************************************************************************)

LEMMA EntryFacts ==
    /\ Marker \in Entries /\ Marker \notin Events /\ Events \subseteq Entries
    /\ DOMAIN Kind = Entries /\ ByHand \notin Entries
  BY EventAssumption DEF Entries

(* An entry is put at the end, and the oldest one may have to go. *)
LEMMA PushIs ==
    ASSUME NEW queue \in Seq(Entries), Len(queue) <= MaxEvents, NEW e \in Entries
    PROVE  /\ Push(queue, e) \in Seq(Entries) /\ Len(Push(queue, e)) <= MaxEvents
           /\ In(Push(queue, e)) \subseteq In(queue) \cup {e}
           /\ e \in In(Push(queue, e))
           /\ Len(queue) < MaxEvents => /\ In(Push(queue, e)) = In(queue) \cup {e}
                                        /\ Len(Push(queue, e)) = Len(queue) + 1
<1>0. MaxEvents \in Nat \ {0} /\ Len(queue) \in Nat
  BY CapacityAssumption
<1>1. CASE Len(queue) = MaxEvents
  <2> DEFINE t == Tail(queue)
  <2>1. t \in Seq(Entries) /\ Len(t) = Len(queue) - 1 /\ \A k \in 1 .. Len(t) : t[k] = queue[k + 1]
    BY <1>0, <1>1
  <2>2. In(t) \subseteq In(queue)
    <3> SUFFICES ASSUME NEW k \in DOMAIN t PROVE t[k] \in In(queue)
      BY DEF In
    <3> HIDE DEF t
    <3>1. k \in 1 .. Len(t) /\ k + 1 \in DOMAIN queue
      BY <1>0, <2>1
    <3> QED BY <2>1, <3>1 DEF In
  <2> HIDE DEF t
  <2>3. /\ Append(t, e) \in Seq(Entries) /\ Len(Append(t, e)) = Len(t) + 1
        /\ In(Append(t, e)) = In(t) \cup {e}
    BY <2>1, InAppend
  <2>4. Push(queue, e) = Append(t, e)
    BY <1>1 DEF Push, t
  <2> QED BY <1>0, <1>1, <2>1, <2>2, <2>3, <2>4
<1>2. CASE Len(queue) # MaxEvents
  <2>1. /\ Append(queue, e) \in Seq(Entries) /\ Len(Append(queue, e)) = Len(queue) + 1
        /\ In(Append(queue, e)) = In(queue) \cup {e}
    BY InAppend
  <2>2. Push(queue, e) = Append(queue, e)
    BY <1>2 DEF Push
  <2> QED BY <1>0, <1>2, <2>1, <2>2
<1> QED BY <1>1, <1>2

(* The entries of the live trace whose time is not among the known ones. *)
Newer(known, live) == {e \in In(live) : Stamp[e] \notin {Stamp[d] : d \in In(known)}}

LEMMA MergeIs ==
    ASSUME NEW known \in Seq(Entries), NEW live \in Seq(Entries)
    PROVE  /\ Merge(known, live) = known \o Selected(live, Newer(known, live))
           /\ Selected(live, Newer(known, live)) \in Seq(Entries)
           /\ Merge(known, live) \in Seq(Entries)
           /\ In(Merge(known, live)) = In(known) \cup Newer(known, live)
<1> DEFINE N == Newer(known, live)
           u == Selected(live, N)
<1>1. Merge(known, live) = known \o u
  BY DEF Merge, Newer
<1>2. u \in Seq(Entries \cap N) /\ In(u) = In(live) \cap N
  BY SelectedItems
<1>3. N \subseteq In(live)
  BY DEF Newer
<1> HIDE DEF u, N
<1>4. u \in Seq(Entries)
  BY <1>2
<1>5. known \o u \in Seq(Entries) /\ In(known \o u) = In(known) \cup In(u)
  BY <1>4, InConcat
<1> QED BY <1>1, <1>2, <1>3, <1>4, <1>5 DEF N, u

-----------------------------------------------------------------------------
(***************************************************************************)
(* Types.                                                                  *)
(***************************************************************************)
Rows == [run: Nat, trace: Seq(Entries), owed: SUBSET Events]
Threads == [active: BOOLEAN, resolved: BOOLEAN, events: Seq(Entries), fix: Nat]

LEMMA NoJobType == NoJob \in Jobs
<1>1. << >> \in Seq(Entries) /\ {} \in SUBSET Events
  OBVIOUS
<1> QED BY <1>1, EntryFacts DEF NoJob, Jobs

LEMMA EmptyBuffer == << >> \in Seq(Entries) /\ Len(<< >>) = 0 /\ 0 <= MaxEvents
<1>1. << >> \in Seq(Entries) /\ Len(<< >>) = 0
  OBVIOUS
<1> QED BY <1>1, CapacityAssumption

LEMMA TypeInit == Init => TypeOK
<1> SUFFICES ASSUME Init PROVE TypeOK
  OBVIOUS
<1>1. << >> \in Seq(Entries) /\ Len(<< >>) = 0 /\ 0 <= MaxEvents
  BY EmptyBuffer
<1>2. << >> \in Seq(Rows) /\ << >> \in Seq([event: Events, run: Nat])
  OBVIOUS
<1>3. saved \in Threads
  BY <1>1 DEF Init, Threads
<1> QED BY <1>1, <1>2, <1>3, NoJobType DEF Init, TypeOK, Rows, Threads

(* What a request does to pc and job keeps their types. *)
LEMMA MoveType ==
    ASSUME TypeOK, NEW c \in Clients, NEW label \in Labels, NEW j \in Jobs,
           pc' = [pc EXCEPT ![c] = label], job' = [job EXCEPT ![c] = j]
    PROVE  pc' \in [Clients -> Labels] /\ job' \in [Clients -> Jobs]
BY DEF TypeOK, Labels

LEMMA TypeOfEmit == TypeOK /\ EmitNewIssue => TypeOK'
<1> SUFFICES ASSUME TypeOK, EmitNewIssue PROVE TypeOK'
  OBVIOUS
<1>1. runs' \in Nat /\ acked' = {}
  BY DEF TypeOK, EmitNewIssue
<1>2. saved' \in Threads
  <2>1. << >> \in Seq(Entries)
    OBVIOUS
  <2> QED BY <2>1 DEF TypeOK, EmitNewIssue, Threads
<1> QED BY <1>1, <1>2 DEF TypeOK, EmitNewIssue, requests, bounds, Threads

LEMMA TypeOfReadEvent == ASSUME TypeOK, NEW c \in Clients, ReadForEvent(c) PROVE TypeOK'
<1>1. PICK e \in Events \ sent :
          /\ sent' = sent \cup {e}
          /\ IF saved.active
             THEN Begin(c, "record", [NoJob EXCEPT !.event = e, !.snap = saved.events, !.run = runs])
             ELSE UNCHANGED <<requests, overlaps>>
  BY DEF ReadForEvent
<1>2. sent' \subseteq Events
  BY <1>1 DEF TypeOK
<1>3. pc' \in [Clients -> Labels] /\ job' \in [Clients -> Jobs] /\ overlaps' \in Nat
  <2>1. CASE saved.active
    <3> DEFINE j == [NoJob EXCEPT !.event = e, !.snap = saved.events, !.run = runs]
    <3>1. j \in Jobs
      BY NoJobType, EntryFacts DEF Jobs, TypeOK
    <3>2. Begin(c, "record", j) /\ "record" \in Labels
      BY <1>1, <2>1 DEF Labels
    <3> HIDE DEF j
    <3>3. overlaps' \in Nat
      BY <3>2 DEF Begin, TypeOK
    <3>4. pc' = [pc EXCEPT ![c] = "record"] /\ job' = [job EXCEPT ![c] = j]
      BY <3>2 DEF Begin, Goto
    <3> QED BY <3>1, <3>2, <3>3, <3>4, MoveType
  <2>2. CASE ~saved.active
    BY <1>1, <2>2 DEF TypeOK, requests, Labels
  <2> QED BY <2>1, <2>2
<1> QED BY <1>2, <1>3 DEF TypeOK, ReadForEvent, Labels

LEMMA TypeOfReadResolve == ASSUME TypeOK, NEW c \in Clients, ReadForResolve(c) PROVE TypeOK'
<1>1. IF saved.active
      THEN Begin(c, "merge", [NoJob EXCEPT !.snap = saved.events, !.fix = saved.fix,
                                           !.run = runs, !.owed = acked])
      ELSE UNCHANGED <<requests, overlaps>>
  BY DEF ReadForResolve
<1>2. resolves' \in Nat
  BY DEF ReadForResolve, TypeOK
<1>3. pc' \in [Clients -> Labels] /\ job' \in [Clients -> Jobs] /\ overlaps' \in Nat
  <2>1. CASE saved.active
    <3> DEFINE j == [NoJob EXCEPT !.snap = saved.events, !.fix = saved.fix, !.run = runs, !.owed = acked]
    <3>1. j \in Jobs
      BY NoJobType DEF Jobs, TypeOK
    <3>2. Begin(c, "merge", j) /\ "merge" \in Labels
      BY <1>1, <2>1 DEF Labels
    <3> HIDE DEF j
    <3>3. overlaps' \in Nat
      BY <3>2 DEF Begin, TypeOK
    <3>4. pc' = [pc EXCEPT ![c] = "merge"] /\ job' = [job EXCEPT ![c] = j]
      BY <3>2 DEF Begin, Goto
    <3> QED BY <3>1, <3>2, <3>3, <3>4, MoveType
  <2>2. CASE ~saved.active
    BY <1>1, <2>2 DEF TypeOK, requests, Labels
  <2> QED BY <2>1, <2>2
<1> QED BY <1>2, <1>3 DEF TypeOK, ReadForResolve, Labels

(* The event of a request that records or mirrors is one the hooks posted. *)
Posted == \A c \in Clients : pc[c] \in {"record", "mirror"} => job[c].event \in Events

LEMMA TypeOfRecord ==
    ASSUME TypeOK, Posted, NEW c \in Clients, RecordEvent(c) PROVE TypeOK'
<1>1. job[c] \in Jobs /\ job[c].event \in Events /\ job[c].run \in Nat /\ job[c].event \in Entries
  BY EntryFacts DEF TypeOK, Posted, RecordEvent, Jobs
<1>2. buffer' \in Seq(Entries) /\ Len(buffer') <= MaxEvents
  BY <1>1, PushIs DEF RecordEvent, TypeOK
<1>3. recorded' \in Seq([event: Events, run: Nat])
  <2> DEFINE r == [event |-> job[c].event, run |-> job[c].run]
  <2>1. r \in [event: Events, run: Nat]
    BY <1>1
  <2>2. recorded' = Append(recorded, r)
    BY DEF RecordEvent
  <2> HIDE DEF r
  <2> QED BY <2>1, <2>2 DEF TypeOK
<1>4. pc' \in [Clients -> Labels] /\ job' \in [Clients -> Jobs]
  BY <1>1, MoveType DEF RecordEvent, Goto, Labels
<1> QED BY <1>2, <1>3, <1>4 DEF TypeOK, RecordEvent, bounds, Labels

LEMMA TypeOfMirror ==
    ASSUME TypeOK, Posted, NEW c \in Clients, MirrorEvent(c) PROVE TypeOK'
<1>1. job[c] \in Jobs /\ job[c].event \in Events /\ job[c].event \in Entries
  BY EntryFacts DEF TypeOK, Posted, MirrorEvent
<1>2. Append(job[c].snap, job[c].event) \in Seq(Entries)
  BY <1>1 DEF Jobs
<1>3. saved' \in Threads
  BY <1>2 DEF MirrorEvent, TypeOK, Threads
<1>4. acked' \subseteq Events
  BY <1>1 DEF MirrorEvent, TypeOK
<1>5. pc' \in [Clients -> Labels] /\ job' \in [Clients -> Jobs]
  BY NoJobType, MoveType DEF MirrorEvent, Finish, Labels
<1> QED BY <1>3, <1>4, <1>5 DEF TypeOK, MirrorEvent, bounds, Labels, Threads

LEMMA TypeOfMerge ==
    ASSUME TypeOK, NEW c \in Clients, MergeAndMark(c) PROVE TypeOK'
<1> DEFINE live == Merge(job[c].snap, buffer)
           marked == Push(buffer, Marker)
           m == IF flagged THEN live ELSE Merge(live, marked)
<1>0. job[c] \in Jobs /\ job[c].snap \in Seq(Entries)
  BY DEF TypeOK, Jobs
<1>1. marked \in Seq(Entries) /\ Len(marked) <= MaxEvents
  BY EntryFacts, PushIs DEF TypeOK
<1>2. live \in Seq(Entries)
  BY <1>0, MergeIs DEF TypeOK
<1>3. Goto(c, "store", [job[c] EXCEPT !.merged = m]) /\ buffer' = (IF flagged THEN buffer ELSE marked)
  BY DEF MergeAndMark
<1> HIDE DEF live, marked
<1>4. m \in Seq(Entries)
  BY <1>1, <1>2, MergeIs
<1> HIDE DEF m
<1>5. [job[c] EXCEPT !.merged = m] \in Jobs
  BY <1>0, <1>4 DEF Jobs
<1>6. pc' \in [Clients -> Labels] /\ job' \in [Clients -> Jobs]
  BY <1>3, <1>5, MoveType DEF Goto, Labels
<1>7. buffer' \in Seq(Entries) /\ Len(buffer') <= MaxEvents
  BY <1>1, <1>3 DEF TypeOK
<1> QED BY <1>6, <1>7 DEF TypeOK, MergeAndMark, bounds, Labels

LEMMA TypeOfStore ==
    ASSUME TypeOK, NEW c \in Clients, StoreFix(c) PROVE TypeOK'
<1>0. job[c] \in Jobs
  BY DEF TypeOK
<1>1. Row(c) \in Rows
  BY <1>0 DEF Row, Rows, Jobs
<1>2. rows' \in Seq(Rows)
  <2>1. rows \in Seq(Rows)
    BY DEF TypeOK, Rows
  <2>2. rows' = rows \/ rows' = Append(rows, Row(c))
    BY DEF StoreFix
  <2> HIDE DEF Row, Rows
  <2> QED BY <1>1, <2>1, <2>2
<1>3. PICK j : Goto(c, "update", j) /\ (j = job[c] \/ j = [job[c] EXCEPT !.fix = Len(rows')])
  BY DEF StoreFix
<1>4. j \in Jobs
  <2>1. Len(rows') \in Nat
    BY <1>2
  <2> QED BY <1>0, <1>3, <2>1 DEF Jobs
<1>5. pc' \in [Clients -> Labels] /\ job' \in [Clients -> Jobs]
  BY <1>3, <1>4, MoveType DEF Goto, Labels
<1> QED BY <1>2, <1>5 DEF TypeOK, StoreFix, bounds, Labels, Rows

LEMMA TypeOfUpdate ==
    ASSUME TypeOK, NEW c \in Clients, UpdateFinalized(c) PROVE TypeOK'
<1>0. job[c] \in Jobs
  BY DEF TypeOK
<1>1. saved' \in Threads
  BY <1>0 DEF UpdateFinalized, Threads, Jobs
<1>2. pc' \in [Clients -> Labels] /\ job' \in [Clients -> Jobs]
  BY <1>0, MoveType DEF UpdateFinalized, Goto, Labels
<1> QED BY <1>1, <1>2 DEF TypeOK, UpdateFinalized, bounds, Labels, Threads

LEMMA TypeOfEnd ==
    ASSUME TypeOK, NEW c \in Clients, ClearRecorder(c) \/ Die(c) PROVE TypeOK'
<1>1. pc' \in [Clients -> Labels] /\ job' \in [Clients -> Jobs]
  BY NoJobType, MoveType DEF ClearRecorder, Die, Finish, Labels
<1>2. buffer' \in Seq(Entries) /\ Len(buffer') <= MaxEvents /\ flagged' \in BOOLEAN
  BY EmptyBuffer DEF ClearRecorder, Die, TypeOK
<1>3. deaths' \in Nat
  BY DEF ClearRecorder, Die, TypeOK, bounds
<1> QED BY <1>1, <1>2, <1>3 DEF TypeOK, ClearRecorder, Die, bounds, Labels

LEMMA TypeOfCrash == TypeOK /\ Crash => TypeOK'
<1> SUFFICES ASSUME TypeOK, Crash PROVE TypeOK'
  OBVIOUS
<1>1. pc' \in [Clients -> Labels] /\ job' \in [Clients -> Jobs]
  BY NoJobType DEF Crash, Labels
<1>2. buffer' \in Seq(Entries) /\ Len(buffer') <= MaxEvents
  <2>1. buffer' = << >>
    BY DEF Crash
  <2> QED BY <2>1, EmptyBuffer
<1>3. flagged' \in BOOLEAN /\ crashes' \in Nat
  <2>1. crashes \in Nat
    BY DEF TypeOK
  <2>2. flagged' = FALSE /\ crashes' = crashes + 1
    BY DEF Crash
  <2>3. crashes' \in Nat
    BY <2>1, <2>2
  <2> QED BY <2>2, <2>3
<1> QED BY <1>1, <1>2, <1>3 DEF TypeOK, Crash, Labels

TypeInv == TypeOK /\ Posted

LEMMA PostedInit == Init => Posted
BY DEF Init, Posted

LEMMA PostedStep ==
    ASSUME TypeOK, Posted, [Next]_vars PROVE Posted'
<1>0. DOMAIN job = Clients /\ DOMAIN pc = Clients
  BY DEF TypeOK
<1>1. CASE UNCHANGED vars
  BY <1>1 DEF Posted, vars, requests
<1>2. CASE EmitNewIssue
  BY <1>2 DEF Posted, EmitNewIssue, requests
<1>3. CASE Crash
  BY <1>3 DEF Posted, Crash
<1>4. ASSUME NEW c \in Clients, NEW label, NEW j, Goto(c, label, j),
             label \in {"record", "mirror"} => j.event \in Events
      PROVE  Posted'
  BY <1>0, <1>4 DEF Posted, Goto
<1>5. ASSUME NEW c \in Clients, Finish(c) PROVE Posted'
  BY <1>0, <1>5 DEF Posted, Finish
<1>6. ASSUME NEW c \in Clients, ReadForEvent(c) PROVE Posted'
  <2>1. PICK e \in Events :
          IF saved.active
             THEN Begin(c, "record", [NoJob EXCEPT !.event = e, !.snap = saved.events, !.run = runs])
             ELSE UNCHANGED <<requests, overlaps>>
    BY <1>6 DEF ReadForEvent
  <2>2. CASE saved.active
    <3> DEFINE j == [NoJob EXCEPT !.event = e, !.snap = saved.events, !.run = runs]
    <3>1. j.event = e /\ Goto(c, "record", j)
      BY <2>1, <2>2 DEF NoJob, Begin
    <3> HIDE DEF j
    <3> QED BY <1>4, <3>1
  <2>3. CASE ~saved.active
    BY <2>1, <2>3 DEF Posted, requests
  <2> QED BY <2>2, <2>3
<1>7. ASSUME NEW c \in Clients, ReadForResolve(c) PROVE Posted'
  <2>1. CASE saved.active
    <3>1. PICK j : Goto(c, "merge", j)
      BY <1>7, <2>1 DEF ReadForResolve, Begin
    <3> QED BY <1>4, <3>1
  <2>2. CASE ~saved.active
    BY <1>7, <2>2 DEF Posted, ReadForResolve, requests
  <2> QED BY <2>1, <2>2
<1>8. ASSUME NEW c \in Clients, RecordEvent(c) PROVE Posted'
  BY <1>4, <1>8 DEF RecordEvent, Posted
<1>9. ASSUME NEW c \in Clients, MirrorEvent(c) \/ ClearRecorder(c) \/ Die(c) PROVE Posted'
  BY <1>5, <1>9 DEF MirrorEvent, ClearRecorder, Die
<1>10. ASSUME NEW c \in Clients, MergeAndMark(c) \/ StoreFix(c) \/ UpdateFinalized(c) PROVE Posted'
  <2>1. PICK label, j : label \in {"store", "update", "clear"} /\ Goto(c, label, j)
    BY <1>10 DEF MergeAndMark, StoreFix, UpdateFinalized
  <2> QED BY <1>4, <2>1
<1> QED BY <1>1, <1>2, <1>3, <1>6, <1>7, <1>8, <1>9, <1>10 DEF Next, Handler

LEMMA TypeStep == TypeInv /\ [Next]_vars => TypeInv'
<1> SUFFICES ASSUME TypeOK, Posted, [Next]_vars PROVE TypeOK' /\ Posted'
  BY DEF TypeInv
<1>1. Posted'
  BY PostedStep
<1>2. CASE UNCHANGED vars
  BY <1>1, <1>2 DEF TypeOK, vars, requests, bounds
<1>3. CASE Next
  BY <1>1, <1>3, TypeOfEmit, TypeOfCrash, TypeOfReadEvent, TypeOfReadResolve, TypeOfRecord, TypeOfMirror,
     TypeOfMerge, TypeOfStore, TypeOfUpdate, TypeOfEnd DEF Next, Handler
<1> QED BY <1>2, <1>3

(* For any number of requests, deaths and restarts: traces hold events and *)
(* markers, and the deque never exceeds its limit.                         *)
THEOREM TypesAreKept == Spec => []TypeOK
<1>1. TypeInv => TypeOK
  BY DEF TypeInv
<1>2. Init => TypeInv
  BY TypeInit, PostedInit DEF TypeInv
<1> QED BY <1>1, <1>2, TypeStep, PTL DEF Spec

-----------------------------------------------------------------------------
(***************************************************************************)
(* The plan of a trace, entry by entry.                                    *)
(***************************************************************************)
IsScan(f, t, n) == f = [i \in 0 .. n |-> IF i = 0 THEN Start ELSE Take(f[i - 1], t[i])]

LEMMA ScanZero ==
    ASSUME NEW t, NEW n \in Nat, NEW f, IsScan(f, t, n)
    PROVE  f[0] = Start
BY DEF IsScan

LEMMA ScanStep ==
    ASSUME NEW t, NEW n \in Nat, NEW f, IsScan(f, t, n), NEW k \in Nat, k + 1 <= n
    PROVE  f[k + 1] = Take(f[k], t[k + 1])
<1> DEFINE G(i) == IF i = 0 THEN Start ELSE Take(f[i - 1], t[i])
<1>1. f = [i \in 0 .. n |-> G(i)]
  BY DEF IsScan
<1>2. \A i \in 0 .. n : f[i] = G(i)
  <2> HIDE DEF G
  <2> QED BY <1>1
<1>3. k + 1 \in 0 .. n /\ k + 1 # 0 /\ (k + 1) - 1 = k
  OBVIOUS
<1> QED BY <1>2, <1>3

LEMMA ScanExists ==
    ASSUME NEW t
    PROVE  \A n \in Nat : \E f : IsScan(f, t, n)
<1> DEFINE Done == {n \in Nat : \E f : IsScan(f, t, n)}
<1>1. 0 \in Done
  <2>1. IsScan([i \in 0 .. 0 |-> Start], t, 0)
    BY DEF IsScan
  <2> QED BY <2>1
<1>2. ASSUME NEW n \in Nat, n \in Done PROVE n + 1 \in Done
  <2>1. PICK f : IsScan(f, t, n)
    BY <1>2
  <2> DEFINE Item(k) == IF k = 0 THEN Start ELSE Take(f[k - 1], t[k])
             g == [k \in 0 .. (n + 1) |-> Item(k)]
  <2>2. \A k \in 0 .. n : g[k] = f[k]
    <3>1. f[0] = Start
      BY <2>1, ScanZero
    <3>2. ASSUME NEW k \in 1 .. n PROVE f[k] = Take(f[k - 1], t[k])
      <4>1. PICK j \in Nat : k = j + 1
        <5>1. k - 1 \in Nat /\ k = (k - 1) + 1
          OBVIOUS
        <5> QED BY <5>1
      <4>2. j + 1 <= n /\ k - 1 = j
        BY <4>1
      <4>3. f[j + 1] = Take(f[j], t[j + 1])
        BY <2>1, <4>2, ScanStep
      <4> QED BY <4>1, <4>2, <4>3
    <3> QED BY <3>1, <3>2
  <2>3. \A k \in 0 .. (n + 1) : k # 0 => k - 1 \in 0 .. n
    OBVIOUS
  <2>4. \A k \in 0 .. (n + 1) : Item(k) = IF k = 0 THEN Start ELSE Take(g[k - 1], t[k])
    <3> HIDE DEF g
    <3> QED BY <2>2, <2>3
  <2>5. IsScan(g, t, n + 1)
    <3>1. g = [k \in 0 .. (n + 1) |-> Item(k)]
      OBVIOUS
    <3> HIDE DEF g, Item
    <3> QED BY <2>4, <3>1, Zenon DEF IsScan
  <2> QED BY <2>5
<1> HIDE DEF Done
<1>3. \A n \in Nat : n \in Done
  BY <1>1, <1>2, Induction
<1> QED BY <1>3 DEF Done

LEMMA ScanIsUnique ==
    ASSUME NEW s, NEW t, NEW n \in Nat, NEW m \in Nat, NEW f, NEW g,
           IsScan(f, s, n), IsScan(g, t, m), n <= m, AgreeUpTo(s, t, n)
    PROVE  f[n] = g[n]
<1> DEFINE Same == {k \in Nat : k <= n => f[k] = g[k]}
<1>1. f[0] = Start /\ g[0] = Start
  BY ScanZero
<1>2. 0 \in Same
  BY <1>1
<1>3. ASSUME NEW k \in Nat, k \in Same PROVE k + 1 \in Same
  <2>1. ASSUME k + 1 <= n PROVE f[k + 1] = g[k + 1]
    <3>1. k + 1 \in 1 .. n /\ k + 1 <= m /\ k <= n
      BY <2>1
    <3>2. f[k] = g[k] /\ s[k + 1] = t[k + 1]
      BY <1>3, <3>1 DEF AgreeUpTo
    <3>3. f[k + 1] = Take(f[k], s[k + 1])
      BY <2>1, ScanStep
    <3>4. g[k + 1] = Take(g[k], t[k + 1])
      BY <3>1, ScanStep
    <3> QED BY <3>2, <3>3, <3>4
  <2> QED BY <2>1
<1> HIDE DEF Same
<1>4. \A k \in Nat : k \in Same
  BY <1>2, <1>3, Induction
<1> QED BY <1>4 DEF Same

LEMMA ScanIs ==
    ASSUME NEW t, Len(t) \in Nat
    PROVE  \E f : IsScan(f, t, Len(t)) /\ Scan(t) = f[Len(t)]
<1> DEFINE f == CHOOSE f : IsScan(f, t, Len(t))
<1>1. IsScan(f, t, Len(t))
  BY ScanExists
<1>2. Scan(t) = f[Len(t)]
  BY DEF Scan, IsScan
<1> QED BY <1>1, <1>2

LEMMA ScanEmpty == Scan(<< >>) = Start
<1>1. PICK f : IsScan(f, << >>, 0) /\ Scan(<< >>) = f[0]
  BY ScanIs
<1>2. f[0] = Start
  BY <1>1, ScanZero
<1> QED BY <1>1, <1>2

LEMMA ScanAppend ==
    ASSUME NEW T, NEW s \in Seq(T), NEW e \in T
    PROVE  Scan(Append(s, e)) = Take(Scan(s), e)
<1> DEFINE t == Append(s, e)
<1>1. /\ Len(s) \in Nat /\ Len(t) = Len(s) + 1 /\ t[Len(s) + 1] = e
      /\ \A k \in 1 .. Len(s) : s[k] = t[k]
  OBVIOUS
<1> HIDE DEF t
<1>2. PICK f : IsScan(f, s, Len(s)) /\ Scan(s) = f[Len(s)]
  BY <1>1, ScanIs
<1>3. PICK g : IsScan(g, t, Len(t)) /\ Scan(t) = g[Len(t)]
  BY <1>1, ScanIs
<1>4. f[Len(s)] = g[Len(s)]
  <2>1. Len(t) \in Nat /\ Len(s) <= Len(t) /\ AgreeUpTo(s, t, Len(s))
    BY <1>1 DEF AgreeUpTo
  <2> QED BY <1>1, <1>2, <1>3, <2>1, ScanIsUnique
<1>5. g[Len(s) + 1] = Take(g[Len(s)], e)
  <2>1. Len(t) \in Nat /\ Len(s) + 1 <= Len(t)
    BY <1>1
  <2>2. g[Len(s) + 1] = Take(g[Len(s)], t[Len(s) + 1])
    BY <1>1, <1>3, <2>1, ScanStep
  <2> QED BY <1>1, <2>2
<1> QED BY <1>1, <1>2, <1>3, <1>4, <1>5 DEF t

-----------------------------------------------------------------------------
(***************************************************************************)
(* What the plan of a trace speaks of.                                     *)
(***************************************************************************)
Steps == [event: Entries \cup {ByHand}, files: SUBSET Entries]

Scans == [plan: Seq(Steps), pending: SUBSET Entries, over: BOOLEAN]

(* What the loop has taken so far. *)
Spoken(s) == Named(s.plan) \cup s.pending

LEMMA NamedEmpty == Named(<< >>) = {}
BY DEF Named

LEMMA NamedAppend ==
    ASSUME NEW plan \in Seq(Steps), NEW step \in Steps
    PROVE  Named(Append(plan, step)) = Named(plan) \cup {step.event} \cup step.files
<1> DEFINE q == Append(plan, step)
<1>1. /\ Len(plan) \in Nat /\ DOMAIN plan = 1 .. Len(plan) /\ DOMAIN q = 1 .. (Len(plan) + 1)
      /\ q[Len(plan) + 1] = step /\ \A i \in 1 .. Len(plan) : q[i] = plan[i]
  OBVIOUS
<1> HIDE DEF q
<1>2. \A i \in DOMAIN q : i \in DOMAIN plan \/ i = Len(plan) + 1
  BY <1>1
<1>3. DOMAIN plan \subseteq DOMAIN q /\ Len(plan) + 1 \in DOMAIN q
  BY <1>1
<1>4. {q[i].event : i \in DOMAIN q} = {plan[i].event : i \in DOMAIN plan} \cup {step.event}
  BY <1>1, <1>2, <1>3
<1>5. UNION {q[i].files : i \in DOMAIN q} = (UNION {plan[i].files : i \in DOMAIN plan}) \cup step.files
  BY <1>1, <1>2, <1>3
<1> QED BY <1>4, <1>5 DEF Named, q

LEMMA NamedAttach ==
    ASSUME NEW plan \in Seq(Steps), NEW files \in SUBSET Entries
    PROVE  /\ Attach(plan, files) \in Seq(Steps)
           /\ Named(plan) \subseteq Named(Attach(plan, files))
           /\ Named(Attach(plan, files)) \subseteq Named(plan) \cup files
<1>1. CASE plan # << >> /\ plan[Len(plan)].files = {}
  <2> DEFINE n == Len(plan)
             q == [plan EXCEPT ![n].files = files]
  <2>1. n \in DOMAIN plan /\ plan[n] \in Steps
    BY <1>1
  <2>2. /\ DOMAIN q = DOMAIN plan
        /\ \A i \in DOMAIN plan : i # n => q[i] = plan[i]
        /\ q[n] = [plan[n] EXCEPT !.files = files]
    BY <2>1
  <2>3. q[n] \in Steps /\ q[n].event = plan[n].event /\ q[n].files = files
    BY <2>1, <2>2 DEF Steps
  <2>4. q \in Seq(Steps)
    <3>1. q = [i \in 1 .. Len(plan) |-> q[i]] /\ Len(plan) \in Nat
      BY <2>1
    <3>2. \A i \in 1 .. Len(plan) : q[i] \in Steps
      BY <2>2, <2>3
    <3> HIDE DEF q
    <3> QED BY <3>1, <3>2
  <2>5. Attach(plan, files) = q
    BY <1>1 DEF Attach
  <2>6. plan[n].files = {}
    BY <1>1
  <2> HIDE DEF q, n
  <2>7. {q[i].event : i \in DOMAIN q} = {plan[i].event : i \in DOMAIN plan}
    BY <2>2, <2>3
  <2>8. \A i \in DOMAIN plan : plan[i].files \subseteq q[i].files /\ q[i].files \subseteq plan[i].files \cup files
    BY <2>2, <2>3, <2>6
  <2>9. /\ UNION {plan[i].files : i \in DOMAIN plan} \subseteq UNION {q[i].files : i \in DOMAIN q}
        /\ UNION {q[i].files : i \in DOMAIN q} \subseteq (UNION {plan[i].files : i \in DOMAIN plan}) \cup files
    BY <2>2, <2>8
  <2> QED BY <2>4, <2>5, <2>7, <2>9 DEF Named
<1>2. CASE ~(plan # << >> /\ plan[Len(plan)].files = {})
  BY <1>2 DEF Attach
<1> QED BY <1>1, <1>2

LEMMA DeedsAreEvents ==
    /\ \A e \in Entries : e \in Deeds <=> Kind[e] \in {"action", "file_touched"}
    /\ \A e \in Entries : Kind[e] = "resolution" /\ e # Marker => e \in Endings
    /\ Deeds \subseteq Entries /\ Marker \notin Deeds
BY EventAssumption, EntryFacts DEF Deeds, Endings, Entries

(* An entry is spoken of when it is a deed and nothing is over; what was   *)
(* spoken of stays so.                                                     *)
LEMMA TakeIs ==
    ASSUME NEW s \in Scans, NEW e \in Entries
    PROVE  /\ Take(s, e) \in Scans
           /\ Spoken(s) \subseteq Spoken(Take(s, e))
           /\ Spoken(Take(s, e)) \subseteq Spoken(s) \cup ({e} \cap Deeds)
           /\ ~s.over /\ e \in Deeds => e \in Spoken(Take(s, e))
           /\ ~s.over /\ e # Marker /\ e \notin Endings => ~Take(s, e).over
<1>0. /\ s.plan \in Seq(Steps) /\ s.pending \in SUBSET Entries /\ s.over \in BOOLEAN
      /\ e \in DOMAIN Kind /\ Kind[e] \in Kinds
      /\ e \in Deeds <=> Kind[e] \in {"action", "file_touched"}
      /\ Kind[e] = "resolution" => e = Marker \/ e \in Endings
  BY EntryFacts, DeedsAreEvents, KindAssumption DEF Scans
<1>1. CASE s.over \/ Kind[e] = "note"
  <2>1. Take(s, e) = s
    BY <1>1 DEF Take
  <2> QED BY <1>0, <1>1, <2>1
<1>2. CASE ~s.over /\ Kind[e] = "resolution"
  <2>1. Take(s, e) = [s EXCEPT !.over = TRUE]
    BY <1>2 DEF Take
  <2>2. Take(s, e) \in Scans /\ Take(s, e).plan = s.plan /\ Take(s, e).pending = s.pending
    BY <2>1 DEF Scans
  <2> QED BY <1>0, <1>2, <2>2 DEF Spoken
<1>3. CASE ~s.over /\ Kind[e] = "file_touched"
  <2> DEFINE files == s.pending \cup {e}
             plan == Attach(s.plan, files)
  <2>1. Take(s, e) = [s EXCEPT !.pending = files, !.plan = Attach(@, files)]
    BY <1>3 DEF Take
  <2>2. /\ plan \in Seq(Steps) /\ Named(s.plan) \subseteq Named(plan)
        /\ Named(plan) \subseteq Named(s.plan) \cup files
    BY <1>0, NamedAttach
  <2>3. Take(s, e) = [plan |-> plan, pending |-> files, over |-> s.over]
    <3> HIDE DEF files
    <3> QED BY <1>0, <2>1 DEF Scans
  <2> HIDE DEF plan
  <2>4. Take(s, e) \in Scans /\ Take(s, e).plan = plan /\ Take(s, e).pending = files /\ Take(s, e).over = s.over
    BY <1>0, <2>2, <2>3 DEF Scans
  <2> QED BY <1>0, <1>3, <2>2, <2>4 DEF Spoken
<1>4. CASE ~s.over /\ Kind[e] = "action"
  <2> DEFINE step == Step(e, s.pending)
             plan == Append(s.plan, step)
  <2>1. Take(s, e) = [s EXCEPT !.plan = plan, !.pending = {}]
    BY <1>4 DEF Take
  <2>2. step \in Steps /\ step.event = e /\ step.files = s.pending
    BY <1>0 DEF Steps, Step
  <2> HIDE DEF step
  <2>3. plan \in Seq(Steps) /\ Named(plan) = Named(s.plan) \cup {e} \cup s.pending
    BY <1>0, <2>2, NamedAppend
  <2> HIDE DEF plan
  <2>4. Take(s, e) \in Scans /\ Take(s, e).plan = plan /\ Take(s, e).pending = {} /\ Take(s, e).over = s.over
    BY <1>0, <2>1, <2>3 DEF Scans
  <2> QED BY <1>0, <1>4, <2>3, <2>4 DEF Spoken
<1> QED BY <1>0, <1>1, <1>2, <1>3, <1>4 DEF Kinds

(* What stands behind a resolution stays there, and what comes next does.  *)
LEMMA CleanupGrows ==
    ASSUME NEW t \in Seq(Entries), NEW e \in Entries
    PROVE  /\ Cleanup(t) \subseteq Cleanup(Append(t, e))
           /\ In(t) \cap Endings # {} => e \in Cleanup(Append(t, e))
<1> DEFINE u == Append(t, e)
<1>1. /\ Len(t) \in Nat /\ DOMAIN t = 1 .. Len(t) /\ DOMAIN u = 1 .. (Len(t) + 1)
      /\ u[Len(t) + 1] = e /\ \A i \in 1 .. Len(t) : u[i] = t[i]
  OBVIOUS
<1> HIDE DEF u
<1>2. \A i \in DOMAIN t : i \in DOMAIN u /\ u[i] = t[i] /\ i < Len(t) + 1
  BY <1>1
<1>3. Cleanup(t) \subseteq Cleanup(u)
  <2> SUFFICES ASSUME NEW i \in DOMAIN t, NEW j \in DOMAIN t, i < j, t[i] \in Endings
               PROVE  t[j] \in Cleanup(u)
    BY DEF Cleanup
  <2>1. i \in DOMAIN u /\ j \in DOMAIN u /\ u[i] \in Endings /\ u[j] = t[j]
    BY <1>2
  <2> QED BY <2>1 DEF Cleanup
<1>4. ASSUME In(t) \cap Endings # {} PROVE e \in Cleanup(u)
  <2>1. PICK i \in DOMAIN t : t[i] \in Endings
    BY <1>4 DEF In
  <2>2. i \in DOMAIN u /\ u[i] \in Endings /\ i < Len(t) + 1 /\ Len(t) + 1 \in DOMAIN u
    BY <1>1, <1>2, <2>1
  <2> QED BY <1>1, <2>2 DEF Cleanup
<1> QED BY <1>3, <1>4 DEF u

(* The plan of a trace speaks of deeds of the trace only.  Without the     *)
(* marker it is over at the first resolution of a hook, and speaks of all  *)
(* deeds that are not behind it.                                           *)
LEMMA ScanItems ==
    \A t \in Seq(Entries) :
        /\ Scan(t) \in Scans
        /\ Spoken(Scan(t)) \subseteq In(t) \cap Deeds
        /\ Marker \notin In(t) => /\ Scan(t).over => In(t) \cap Endings # {}
                                  /\ In(t) \cap Deeds \subseteq Spoken(Scan(t)) \cup Cleanup(t)
<1> DEFINE Good(t) == /\ Scan(t) \in Scans
                      /\ Spoken(Scan(t)) \subseteq In(t) \cap Deeds
                      /\ Marker \notin In(t) =>
                             /\ Scan(t).over => In(t) \cap Endings # {}
                             /\ In(t) \cap Deeds \subseteq Spoken(Scan(t)) \cup Cleanup(t)
           P == {t \in Seq(Entries) : Good(t)}
<1>1. << >> \in P
  <2>1. Start \in Scans /\ Spoken(Start) = {} /\ ~Start.over
    <3>1. << >> \in Seq(Steps)
      OBVIOUS
    <3> QED BY <3>1, NamedEmpty DEF Start, Scans, Spoken
  <2>2. Good(<< >>)
    BY <2>1, ScanEmpty, InEmpty
  <2>3. << >> \in Seq(Entries)
    OBVIOUS
  <2> HIDE DEF Good
  <2> QED BY <2>2, <2>3
<1>2. ASSUME NEW t \in Seq(Entries), NEW e \in Entries, t \in P PROVE Append(t, e) \in P
  <2> DEFINE u == Append(t, e)
             s == Scan(t)
  <2>1. /\ s \in Scans /\ Spoken(s) \subseteq In(t) \cap Deeds
        /\ Marker \notin In(t) => /\ s.over => In(t) \cap Endings # {}
                                  /\ In(t) \cap Deeds \subseteq Spoken(s) \cup Cleanup(t)
    BY <1>2
  <2>2. u \in Seq(Entries) /\ In(u) = In(t) \cup {e} /\ Scan(u) = Take(s, e)
    BY InAppend, ScanAppend
  <2>3. Cleanup(t) \subseteq Cleanup(u) /\ (In(t) \cap Endings # {} => e \in Cleanup(u))
    BY CleanupGrows
  <2> HIDE DEF u, s
  <2>4. /\ Take(s, e) \in Scans
        /\ Spoken(s) \subseteq Spoken(Take(s, e))
        /\ Spoken(Take(s, e)) \subseteq Spoken(s) \cup ({e} \cap Deeds)
        /\ ~s.over /\ e \in Deeds => e \in Spoken(Take(s, e))
        /\ ~s.over /\ e # Marker /\ e \notin Endings => ~Take(s, e).over
    BY <2>1, TakeIs
  <2>5. Take(s, e) \in Scans /\ Spoken(Take(s, e)) \subseteq In(u) \cap Deeds
    BY <2>1, <2>2, <2>4
  <2>6. ASSUME Marker \notin In(u)
        PROVE  /\ Take(s, e).over => In(u) \cap Endings # {}
               /\ In(u) \cap Deeds \subseteq Spoken(Take(s, e)) \cup Cleanup(u)
    <3>1. Marker \notin In(t) /\ e # Marker
      BY <2>2, <2>6
    <3> QED BY <2>1, <2>2, <2>3, <2>4, <3>1
  <2>7. Good(u)
    BY <2>2, <2>5, <2>6
  <2> HIDE DEF Good
  <2> QED BY <2>2, <2>7 DEF u
<1> HIDE DEF P
<1>3. \A t \in Seq(Entries) : t \in P
  BY <1>1, <1>2, AppendInduction
<1> QED BY <1>3 DEF P

(* What comes later takes nothing back. *)
LEMMA ScanGrows ==
    ASSUME NEW s \in Seq(Entries)
    PROVE  \A t \in Seq(Entries) : Spoken(Scan(s)) \subseteq Spoken(Scan(s \o t))
<1> DEFINE a == Spoken(Scan(s))
           Good(t) == a \subseteq Spoken(Scan(s \o t))
           P == {t \in Seq(Entries) : Good(t)}
<1>1. << >> \in P
  <2>1. s \o << >> = s /\ << >> \in Seq(Entries)
    OBVIOUS
  <2> QED BY <2>1
<1>2. ASSUME NEW t \in Seq(Entries), NEW e \in Entries, t \in P PROVE Append(t, e) \in P
  <2>1. s \o Append(t, e) = Append(s \o t, e) /\ s \o t \in Seq(Entries) /\ Append(t, e) \in Seq(Entries)
    OBVIOUS
  <2> DEFINE u == s \o t
  <2>2. a \subseteq Spoken(Scan(u)) /\ u \in Seq(Entries)
    BY <1>2, <2>1
  <2> HIDE DEF u, a
  <2>3. Scan(Append(u, e)) = Take(Scan(u), e) /\ Scan(u) \in Scans
    BY <2>2, ScanAppend, ScanItems
  <2>4. a \subseteq Spoken(Scan(Append(u, e)))
    BY <2>2, <2>3, TakeIs
  <2> QED BY <2>1, <2>4 DEF u
<1> HIDE DEF P
<1>3. \A t \in Seq(Entries) : t \in P
  BY <1>1, <1>2, AppendInduction
<1> QED BY <1>3 DEF P

(* The plan speaks of what the loop has taken, and at most of a step that  *)
(* is done by hand.                                                        *)
LEMMA CoveredIs ==
    ASSUME NEW t \in Seq(Entries)
    PROVE  /\ Spoken(Scan(t)) \subseteq Covered(t)
           /\ Covered(t) \subseteq Spoken(Scan(t)) \cup {ByHand}
<1> DEFINE s == Scan(t)
           step == Step(ByHand, s.pending)
<1>1. s \in Scans
  BY ScanItems
<1> HIDE DEF s
<1>2. s.plan \in Seq(Steps) /\ s.pending \in SUBSET Entries
  BY <1>1 DEF Scans
<1>3. step \in Steps /\ step.event = ByHand /\ step.files = s.pending
  BY <1>2 DEF Step, Steps
<1>4. Covered(t) = Named(IF s.pending = {} THEN s.plan ELSE Append(s.plan, step))
  BY DEF Covered, Baseline, s
<1> HIDE DEF step
<1>5. Named(Append(s.plan, step)) = Named(s.plan) \cup {ByHand} \cup s.pending
  BY <1>2, <1>3, NamedAppend
<1>6. Spoken(s) \subseteq Covered(t) /\ Covered(t) \subseteq Spoken(s) \cup {ByHand}
  BY <1>4, <1>5 DEF Spoken
<1> QED BY <1>6 DEF s

(* What a trace has behind a resolution is there in every longer one.      *)
LEMMA CleanupOfLonger ==
    ASSUME NEW s \in Seq(Entries), NEW t \in Seq(Entries)
    PROVE  Cleanup(s) \subseteq Cleanup(s \o t)
<1> DEFINE u == s \o t
<1>1. /\ Len(s) \in Nat /\ Len(t) \in Nat /\ DOMAIN s = 1 .. Len(s) /\ DOMAIN u = 1 .. (Len(s) + Len(t))
      /\ \A i \in 1 .. Len(s) : u[i] = s[i]
  OBVIOUS
<1> HIDE DEF u
<1>2. \A i \in DOMAIN s : i \in DOMAIN u /\ u[i] = s[i]
  BY <1>1
<1> SUFFICES ASSUME NEW i \in DOMAIN s, NEW j \in DOMAIN s, i < j, s[i] \in Endings
             PROVE  s[j] \in Cleanup(u)
  BY DEF Cleanup, u
<1>3. i \in DOMAIN u /\ j \in DOMAIN u /\ u[i] \in Endings /\ u[j] = s[j]
  BY <1>2
<1> QED BY <1>3 DEF Cleanup

(* The deeds a trace accounts for: in its plan, or behind a resolution.    *)
Told(t) == Covered(t) \cup Cleanup(t)

(* The deeds of a trace without the marker are told by every trace it is   *)
(* the beginning of.                                                       *)
LEMMA DeedsAreTold ==
    ASSUME NEW s \in Seq(Entries), Marker \notin In(s), NEW t \in Seq(Entries)
    PROVE  In(s) \cap Deeds \subseteq Told(s \o t)
<1>1. s \o t \in Seq(Entries)
  OBVIOUS
<1>2. In(s) \cap Deeds \subseteq Spoken(Scan(s)) \cup Cleanup(s)
  BY ScanItems
<1>3. Spoken(Scan(s)) \subseteq Spoken(Scan(s \o t))
  BY ScanGrows
<1>4. Spoken(Scan(s \o t)) \subseteq Covered(s \o t)
  BY <1>1, CoveredIs
<1>5. Cleanup(s) \subseteq Cleanup(s \o t)
  BY CleanupOfLonger
<1> QED BY <1>2, <1>3, <1>4, <1>5 DEF Told

-----------------------------------------------------------------------------
(***************************************************************************)
(* What each action does, field by field.                                  *)
(***************************************************************************)
Base == TypeInv /\ AckInv

LEMMA BaseInit == Init => Base
BY TypeInit, PostedInit, AckInit DEF Base, TypeInv

LEMMA BaseStep == Base /\ [Next]_vars => Base'
BY TypeStep, AckStep DEF Base

LEMMA BaseIs ==
    ASSUME Base
    PROVE  /\ TypeOK /\ Posted /\ OneAtATime /\ Mirrored /\ Shaped
           /\ saved.events \in Seq(Entries) /\ saved.active \in BOOLEAN
           /\ buffer \in Seq(Entries) /\ Len(buffer) <= MaxEvents /\ flagged \in BOOLEAN
           /\ rows \in Seq(Rows)
           /\ recorded \in Seq([event: Events, run: Nat])
           /\ sent \subseteq Events /\ acked \subseteq Events
           /\ runs \in Nat /\ resolves \in Nat /\ overlaps \in Nat /\ deaths \in Nat /\ crashes \in Nat
BY DEF Base, TypeInv, AckInv, TypeOK, Rows

LEMMA JobIs ==
    ASSUME Base, NEW c \in Clients
    PROVE  /\ pc[c] \in Labels
           /\ job[c].event \in Entries /\ job[c].snap \in Seq(Entries) /\ job[c].merged \in Seq(Entries)
           /\ job[c].run \in Nat /\ job[c].owed \subseteq Events
<1>1. job[c] \in Jobs /\ pc[c] \in Labels
  BY DEF Base, TypeInv, TypeOK, Labels
<1> QED BY <1>1 DEF Jobs

(* Alone at work, as OneAtATime has it. *)
Alone(c) == overlaps = 0 => \A d \in Clients \ {c} : pc[d] = "idle" /\ pc'[d] = "idle"

LEMMA IsAlone ==
    ASSUME Base, NEW c \in Clients, NEW from, NEW to, from # "idle", Moves(c, from, to)
    PROVE  Alone(c)
BY DEF Alone, Base, AckInv, OneAtATime, Moves

(* A request that begins: alone, or counted. *)
Begins(c) ==
    \/ overlaps' = overlaps /\ \A d \in Clients : pc[d] = "idle"
    \/ overlaps' = overlaps + 1

LEMMA EmitEffect ==
    ASSUME Base, EmitNewIssue
    PROVE  /\ saved'.active = TRUE /\ saved'.events = << >> /\ acked' = {} /\ runs' = runs + 1
           /\ UNCHANGED <<buffer, flagged, rows, pc, job, sent, resolves, overlaps, deaths, crashes,
                          recorded>>
<1>1. Shaped
  BY BaseIs
<1>2. UNCHANGED <<buffer, flagged, rows, pc, job, sent, resolves, overlaps, deaths, crashes, recorded>>
  BY DEF EmitNewIssue, requests, bounds
<1> QED BY <1>1, <1>2, EmitShape

LEMMA EventEffect ==
    ASSUME Base, NEW c \in Clients, ReadForEvent(c)
    PROVE  /\ UNCHANGED <<saved, buffer, flagged, rows, runs, resolves, deaths, crashes, acked,
                          recorded>>
           /\ \E e \in Events \ sent :
                 /\ sent' = sent \cup {e}
                 /\ \/ UNCHANGED <<pc, job, overlaps>>
                    \/ /\ Moves(c, "idle", "record") /\ saved.active /\ Begins(c)
                       /\ job'[c].event = e /\ job'[c].snap = saved.events
<1>1. PICK e \in Events \ sent :
          /\ sent' = sent \cup {e}
          /\ IF saved.active
             THEN Begin(c, "record", [NoJob EXCEPT !.event = e, !.snap = saved.events, !.run = runs])
             ELSE UNCHANGED <<requests, overlaps>>
  BY DEF ReadForEvent
<1>2. UNCHANGED <<saved, buffer, flagged, rows, runs, resolves, deaths, crashes, acked, recorded>>
  BY DEF ReadForEvent
<1>3. \/ UNCHANGED <<pc, job, overlaps>>
      \/ /\ Moves(c, "idle", "record") /\ saved.active /\ Begins(c)
         /\ job'[c].event = e /\ job'[c].snap = saved.events
  <2>1. CASE ~saved.active
    BY <1>1, <2>1 DEF requests
  <2>2. CASE saved.active
    <3> DEFINE j == [NoJob EXCEPT !.event = e, !.snap = saved.events, !.run = runs]
    <3>1. j.event = e /\ j.snap = saved.events
      BY DEF NoJob
    <3>2. Begin(c, "record", j) /\ pc[c] = "idle"
      BY <1>1, <2>2 DEF ReadForEvent
    <3> HIDE DEF j
    <3>3. pc' = [pc EXCEPT ![c] = "record"] /\ job' = [job EXCEPT ![c] = j] /\ Begins(c)
      BY <3>2 DEF Begin, Goto, Begins
    <3>4. DOMAIN pc = Clients /\ DOMAIN job = Clients
      BY BaseIs DEF TypeOK
    <3> QED BY <2>2, <3>1, <3>2, <3>3, <3>4 DEF Moves
  <2> QED BY <2>1, <2>2
<1> QED BY <1>1, <1>2, <1>3

LEMMA ResolveEffect ==
    ASSUME Base, NEW c \in Clients, ReadForResolve(c)
    PROVE  /\ UNCHANGED <<saved, buffer, flagged, rows, runs, sent, deaths, crashes, acked, recorded>>
           /\ resolves' = resolves + 1
           /\ \/ UNCHANGED <<pc, job, overlaps>>
              \/ /\ Moves(c, "idle", "merge") /\ saved.active /\ Begins(c)
                 /\ job'[c].snap = saved.events /\ job'[c].owed = acked
<1>1. IF saved.active
      THEN Begin(c, "merge", [NoJob EXCEPT !.snap = saved.events, !.fix = saved.fix,
                                           !.run = runs, !.owed = acked])
      ELSE UNCHANGED <<requests, overlaps>>
  BY DEF ReadForResolve
<1>2. /\ UNCHANGED <<saved, buffer, flagged, rows, runs, sent, deaths, crashes, acked, recorded>>
      /\ resolves' = resolves + 1
  BY DEF ReadForResolve
<1>3. CASE ~saved.active
  BY <1>1, <1>2, <1>3 DEF requests
<1>4. CASE saved.active
  <2> DEFINE j == [NoJob EXCEPT !.snap = saved.events, !.fix = saved.fix, !.run = runs,
                                !.owed = acked]
  <2>1. j.snap = saved.events /\ j.owed = acked
    BY DEF NoJob
  <2>2. Begin(c, "merge", j) /\ pc[c] = "idle"
    BY <1>1, <1>4 DEF ReadForResolve
  <2> HIDE DEF j
  <2>3. pc' = [pc EXCEPT ![c] = "merge"] /\ job' = [job EXCEPT ![c] = j] /\ Begins(c)
    BY <2>2 DEF Begin, Goto, Begins
  <2>4. DOMAIN pc = Clients /\ DOMAIN job = Clients
    BY BaseIs DEF TypeOK
  <2> QED BY <1>2, <1>4, <2>1, <2>2, <2>3, <2>4 DEF Moves
<1> QED BY <1>3, <1>4, BaseIs

LEMMA GotoEffect ==
    ASSUME Base, NEW c \in Clients, NEW label, NEW j, Goto(c, label, j)
    PROVE  Moves(c, pc[c], label) /\ job'[c] = j
<1>1. DOMAIN pc = Clients /\ DOMAIN job = Clients
  BY BaseIs DEF TypeOK
<1> QED BY <1>1 DEF Goto, Moves

LEMMA FinishEffect ==
    ASSUME Base, NEW c \in Clients, Finish(c)
    PROVE  Moves(c, pc[c], "idle") /\ job'[c] = NoJob
<1>1. DOMAIN pc = Clients /\ DOMAIN job = Clients
  BY BaseIs DEF TypeOK
<1> QED BY <1>1 DEF Finish, Moves

LEMMA RecordEffect ==
    ASSUME Base, NEW c \in Clients, RecordEvent(c)
    PROVE  /\ Moves(c, "record", "mirror") /\ job'[c] = job[c] /\ job[c].event \in Events
           /\ buffer' = Push(buffer, job[c].event)
           /\ recorded' = Append(recorded, [event |-> job[c].event, run |-> job[c].run])
           /\ UNCHANGED <<saved, flagged, rows, sent, runs, resolves, overlaps, deaths, crashes, acked>>
BY GotoEffect, BaseIs DEF RecordEvent, bounds, Posted

LEMMA MirrorEffect ==
    ASSUME Base, NEW c \in Clients, MirrorEvent(c)
    PROVE  /\ Moves(c, "mirror", "idle") /\ job'[c] = NoJob /\ job[c].event \in Events
           /\ saved'.active = saved.active
           /\ saved'.events = Append(job[c].snap, job[c].event)
           /\ acked' = acked \/ acked' = acked \cup {job[c].event}
           /\ UNCHANGED <<buffer, flagged, rows, sent, runs, resolves, overlaps, deaths, crashes,
                          recorded>>
<1>1. saved'.active = saved.active /\ saved'.events = Append(job[c].snap, job[c].event)
  BY BaseIs DEF MirrorEvent, Shaped, IsThread
<1>2. Moves(c, "mirror", "idle") /\ job'[c] = NoJob
  BY FinishEffect DEF MirrorEvent
<1> QED BY <1>1, <1>2, BaseIs DEF MirrorEvent, bounds, Posted

LEMMA MergeEffect ==
    ASSUME Base, NEW c \in Clients, MergeAndMark(c)
    PROVE  /\ Moves(c, "merge", "store")
           /\ job'[c].snap = job[c].snap /\ job'[c].owed = job[c].owed /\ job'[c].event = job[c].event
           /\ job'[c].merged = IF flagged THEN Merge(job[c].snap, buffer)
                               ELSE Merge(Merge(job[c].snap, buffer), Push(buffer, Marker))
           /\ buffer' = IF flagged THEN buffer ELSE Push(buffer, Marker)
           /\ flagged' = TRUE
           /\ UNCHANGED <<saved, rows, sent, runs, resolves, overlaps, deaths, crashes, acked, recorded>>
<1> DEFINE m == IF flagged THEN Merge(job[c].snap, buffer)
                ELSE Merge(Merge(job[c].snap, buffer), Push(buffer, Marker))
           j == [job[c] EXCEPT !.merged = m]
<1>1. Goto(c, "store", j) /\ pc[c] = "merge"
  BY DEF MergeAndMark
<1>2. IsJob(job[c])
  BY BaseIs DEF Shaped
<1> HIDE DEF m
<1>3. j.snap = job[c].snap /\ j.owed = job[c].owed /\ j.event = job[c].event /\ j.merged = m
  BY <1>2 DEF IsJob
<1> HIDE DEF j
<1>4. Moves(c, "merge", "store") /\ job'[c] = j
  BY <1>1, GotoEffect
<1> QED BY <1>3, <1>4 DEF MergeAndMark, bounds, m

LEMMA StoreEffect ==
    ASSUME Base, NEW c \in Clients, StoreFix(c)
    PROVE  /\ Moves(c, "store", "update")
           /\ job'[c].snap = job[c].snap /\ job'[c].merged = job[c].merged
           /\ job'[c].owed = job[c].owed /\ job'[c].event = job[c].event
           /\ rows' = rows \/ rows' = Append(rows, Row(c))
           /\ UNCHANGED <<saved, buffer, flagged, sent, runs, resolves, overlaps, deaths, crashes, acked,
                          recorded>>
<1>1. PICK j : Goto(c, "update", j) /\ (j = job[c] \/ j = [job[c] EXCEPT !.fix = Len(rows')])
  BY DEF StoreFix
<1>2. IsJob(job[c]) /\ pc[c] = "store"
  BY BaseIs DEF Shaped, StoreFix
<1>3. j.snap = job[c].snap /\ j.merged = job[c].merged /\ j.owed = job[c].owed /\ j.event = job[c].event
  BY <1>1, <1>2 DEF IsJob
<1>4. Moves(c, "store", "update") /\ job'[c] = j
  BY <1>1, <1>2, GotoEffect
<1>5. rows' = rows \/ rows' = Append(rows, Row(c))
  BY DEF StoreFix
<1> QED BY <1>3, <1>4, <1>5 DEF StoreFix, bounds

LEMMA UpdateEffect ==
    ASSUME Base, NEW c \in Clients, UpdateFinalized(c)
    PROVE  /\ Moves(c, "update", "clear") /\ job'[c] = job[c]
           /\ saved'.active = FALSE /\ saved'.events = job[c].merged
           /\ UNCHANGED <<buffer, flagged, rows, sent, runs, resolves, overlaps, deaths, crashes, acked,
                          recorded>>
BY GotoEffect DEF UpdateFinalized, bounds

LEMMA ClearEffect ==
    ASSUME Base, NEW c \in Clients, ClearRecorder(c)
    PROVE  /\ Moves(c, "clear", "idle") /\ job'[c] = NoJob
           /\ buffer' = << >> /\ flagged' = FALSE
           /\ UNCHANGED <<saved, rows, sent, runs, resolves, overlaps, deaths, crashes, acked, recorded>>
BY FinishEffect DEF ClearRecorder, bounds

LEMMA DieEffect ==
    ASSUME Base, NEW c \in Clients, Die(c)
    PROVE  /\ Moves(c, pc[c], "idle") /\ job'[c] = NoJob /\ pc[c] # "idle"
           /\ deaths' = deaths + 1
           /\ UNCHANGED <<saved, buffer, flagged, rows, sent, runs, resolves, overlaps, crashes, acked,
                          recorded>>
BY FinishEffect DEF Die

LEMMA CrashEffect ==
    ASSUME Base, Crash
    PROVE  /\ \A c \in Clients : pc'[c] = "idle" /\ job'[c] = NoJob
           /\ buffer' = << >> /\ flagged' = FALSE /\ crashes' = crashes + 1
           /\ UNCHANGED <<saved, rows, sent, runs, resolves, overlaps, deaths, acked, recorded>>
BY DEF Crash

(* The row that is stored is a new one, and it is the last. *)
LEMMA RowsAppended ==
    ASSUME Base, NEW c \in Clients, rows' = Append(rows, Row(c))
    PROVE  /\ \A k \in DOMAIN rows : k \in DOMAIN rows' /\ rows'[k] = rows[k]
           /\ \A k \in DOMAIN rows' : k \in DOMAIN rows \/ k = Len(rows) + 1
           /\ Len(rows) + 1 \in DOMAIN rows' /\ Len(rows) + 1 \notin DOMAIN rows
           /\ rows'[Len(rows) + 1].trace = job[c].merged
           /\ rows'[Len(rows) + 1].owed = job[c].owed
<1>1. rows \in Seq(Rows)
  BY BaseIs
<1>2. Row(c).trace = job[c].merged /\ Row(c).owed = job[c].owed
  BY DEF Row
<1> HIDE DEF Row
<1> QED BY <1>1, <1>2

-----------------------------------------------------------------------------
(***************************************************************************)
(* A stored fix is complete.                                               *)
(***************************************************************************)

(* A trace makes up for what is owed. *)
Pays(trace, owed) == owed \cap Deeds \subseteq Told(trace)

RowsPay == \A k \in DOMAIN rows : Pays(rows[k].trace, rows[k].owed)

(* While a run is captured nothing has marked its trace, so the plan of    *)
(* what is merged begins with the plan of what was read.                   *)
Unmarked(c) ==
    /\ pc[c] \in {"record", "mirror", "merge"} => Marker \notin In(job[c].snap)
    /\ pc[c] = "merge" => job[c].owed \subseteq In(job[c].snap)
    /\ pc[c] = "store" => Pays(job[c].merged, job[c].owed)

Complete ==
    overlaps = 0 =>
        /\ saved.active => Marker \notin In(saved.events)
        /\ \A c \in Clients : Unmarked(c)
        /\ RowsPay

LEMMA CompleteInit == Init => Complete
<1> SUFFICES ASSUME Init PROVE Complete
  OBVIOUS
<1>1. rows = << >> /\ saved.active = FALSE /\ \A c \in Clients : pc[c] = "idle"
  BY DEF Init
<1> QED BY <1>1 DEF Complete, Unmarked, RowsPay

LEMMA ThreeParts ==
    ASSUME NEW T, NEW s \in Seq(T), NEW t \in Seq(T), NEW u \in Seq(T)
    PROVE  t \o u \in Seq(T) /\ (s \o t) \o u = s \o (t \o u)
OBVIOUS

(* What the merge makes begins with what was read. *)
LEMMA MergeBegins ==
    ASSUME Base, NEW c \in Clients, MergeAndMark(c)
    PROVE  \E t \in Seq(Entries) : job'[c].merged = job[c].snap \o t
<1> DEFINE s == job[c].snap
           live == Merge(s, buffer)
           marked == Push(buffer, Marker)
           u == Selected(buffer, Newer(s, buffer))
           v == Selected(marked, Newer(live, marked))
<1>1. s \in Seq(Entries) /\ buffer \in Seq(Entries) /\ marked \in Seq(Entries)
  BY JobIs, BaseIs, PushIs, EntryFacts
<1>2. live = s \o u /\ u \in Seq(Entries) /\ live \in Seq(Entries)
  BY <1>1, MergeIs
<1>3. Merge(live, marked) = live \o v /\ v \in Seq(Entries)
  BY <1>1, <1>2, MergeIs
<1>4. job'[c].merged = IF flagged THEN live ELSE Merge(live, marked)
  BY MergeEffect
<1> HIDE DEF s, live, marked, u, v
<1>5. u \o v \in Seq(Entries) /\ (s \o u) \o v = s \o (u \o v)
  <2>1. s \in Seq(Entries) /\ u \in Seq(Entries) /\ v \in Seq(Entries)
    BY <1>1, <1>2, <1>3
  <2> QED BY ONLY <2>1, ThreeParts
<1>6. job'[c].merged = s \o u \/ job'[c].merged = s \o (u \o v)
  BY <1>2, <1>3, <1>4, <1>5
<1> QED BY <1>2, <1>5, <1>6 DEF s

(* A request is at work alone: what it leaves keeps the invariant. *)
LEMMA CompleteOfMove ==
    ASSUME Base, Complete, NEW c \in Clients, NEW from, NEW to, Moves(c, from, to),
           overlaps' = 0 => /\ overlaps = 0 /\ Unmarked(c)' /\ RowsPay'
                            /\ saved'.active => Marker \notin In(saved'.events)
    PROVE  Complete'
<1>1. ASSUME overlaps' = 0, NEW d \in Clients PROVE Unmarked(d)'
  <2>1. CASE d = c
    BY <1>1, <2>1
  <2>2. CASE d # c
    <3>1. pc'[d] = pc[d] /\ job'[d] = job[d] /\ Unmarked(d)
      BY <1>1, <2>2 DEF Complete, Moves
    <3> QED BY <3>1 DEF Unmarked
  <2> QED BY <2>1, <2>2
<1> QED BY <1>1 DEF Complete

LEMMA CompleteOfRequest ==
    ASSUME Base, Complete, NEW c \in Clients,
           ReadForEvent(c) \/ ReadForResolve(c) \/ Handler(c) \/ Die(c)
    PROVE  Complete'
<1>0. /\ overlaps \in Nat /\ overlaps + 1 # 0
      /\ overlaps = 0 => /\ saved.active => Marker \notin In(saved.events)
                         /\ Unmarked(c) /\ RowsPay
  BY BaseIs DEF Complete
<1>1. CASE ReadForEvent(c)
  <2>1. UNCHANGED <<saved, rows>>
    BY <1>1, EventEffect
  <2>2. CASE UNCHANGED <<pc, job, overlaps>>
    BY <2>1, <2>2 DEF Complete, Unmarked, RowsPay
  <2>3. ASSUME Moves(c, "idle", "record"), saved.active, Begins(c), job'[c].snap = saved.events
        PROVE  Complete'
    <3>1. overlaps' = 0 => overlaps = 0
      BY <1>0, <2>3 DEF Begins
    <3>2. overlaps' = 0 => Unmarked(c)' /\ RowsPay'
      BY <1>0, <2>1, <2>3, <3>1 DEF Unmarked, Moves, RowsPay
    <3> QED BY <1>0, <2>1, <2>3, <3>1, <3>2, CompleteOfMove
  <2> QED BY <1>1, <2>2, <2>3, EventEffect
<1>2. CASE ReadForResolve(c)
  <2>1. UNCHANGED <<saved, rows>>
    BY <1>2, ResolveEffect
  <2>2. CASE UNCHANGED <<pc, job, overlaps>>
    BY <2>1, <2>2 DEF Complete, Unmarked, RowsPay
  <2>3. ASSUME Moves(c, "idle", "merge"), saved.active, Begins(c), job'[c].snap = saved.events,
               job'[c].owed = acked
        PROVE  Complete'
    <3>1. overlaps' = 0 => overlaps = 0
      BY <1>0, <2>3 DEF Begins
    <3>2. overlaps = 0 => acked \subseteq In(saved.events)
      BY <2>3, BaseIs DEF Mirrored
    <3>3. overlaps' = 0 => Unmarked(c)' /\ RowsPay'
      BY <1>0, <2>1, <2>3, <3>1, <3>2 DEF Unmarked, Moves, RowsPay
    <3> QED BY <1>0, <2>1, <2>3, <3>1, <3>3, CompleteOfMove
  <2> QED BY <1>2, <2>2, <2>3, ResolveEffect
<1>3. CASE RecordEvent(c)
  <2>1. Moves(c, "record", "mirror") /\ job'[c] = job[c] /\ UNCHANGED <<saved, rows, overlaps>>
    BY <1>3, RecordEffect
  <2>2. overlaps' = 0 => Unmarked(c)' /\ RowsPay'
    BY <1>0, <2>1 DEF Unmarked, Moves, RowsPay
  <2> QED BY <1>0, <2>1, <2>2, CompleteOfMove
<1>4. CASE MirrorEvent(c)
  <2>1. /\ Moves(c, "mirror", "idle") /\ saved'.events = Append(job[c].snap, job[c].event)
        /\ job[c].event \in Events /\ UNCHANGED <<rows, overlaps>>
    BY <1>4, MirrorEffect
  <2>2. In(saved'.events) = In(job[c].snap) \cup {job[c].event}
    BY <2>1, JobIs, InAppend
  <2>3. overlaps' = 0 => Marker \notin In(saved'.events)
    BY <1>0, <2>1, <2>2, EntryFacts DEF Unmarked, Moves
  <2>4. overlaps' = 0 => Unmarked(c)' /\ RowsPay'
    BY <1>0, <2>1 DEF Unmarked, Moves, RowsPay
  <2> QED BY <1>0, <2>1, <2>3, <2>4, CompleteOfMove
<1>5. CASE MergeAndMark(c)
  <2>1. /\ Moves(c, "merge", "store") /\ job'[c].owed = job[c].owed
        /\ UNCHANGED <<saved, rows, overlaps>>
    BY <1>5, MergeEffect
  <2>2. PICK t \in Seq(Entries) : job'[c].merged = job[c].snap \o t
    BY <1>5, MergeBegins
  <2>3. ASSUME overlaps' = 0 PROVE Pays(job'[c].merged, job'[c].owed)
    <3>1. Marker \notin In(job[c].snap) /\ job[c].owed \subseteq In(job[c].snap)
      BY <1>0, <2>1, <2>3 DEF Unmarked, Moves
    <3>2. In(job[c].snap) \cap Deeds \subseteq Told(job[c].snap \o t)
      BY <3>1, JobIs, DeedsAreTold
    <3> QED BY <2>1, <2>2, <3>1, <3>2 DEF Pays
  <2>4. overlaps' = 0 => Unmarked(c)' /\ RowsPay'
    BY <1>0, <2>1, <2>3 DEF Unmarked, Moves, RowsPay
  <2> QED BY <1>0, <2>1, <2>4, CompleteOfMove
<1>6. CASE StoreFix(c)
  <2>1. /\ Moves(c, "store", "update") /\ UNCHANGED <<saved, overlaps>>
        /\ rows' = rows \/ rows' = Append(rows, Row(c))
    BY <1>6, StoreEffect
  <2>2. ASSUME overlaps' = 0 PROVE RowsPay'
    <3>1. Pays(job[c].merged, job[c].owed) /\ RowsPay
      BY <1>0, <2>1, <2>2 DEF Unmarked, Moves
    <3>2. CASE rows' = Append(rows, Row(c))
      BY <3>1, <3>2, RowsAppended DEF RowsPay
    <3>3. CASE rows' = rows
      BY <3>1, <3>3 DEF RowsPay
    <3> QED BY <2>1, <3>2, <3>3
  <2>3. overlaps' = 0 => Unmarked(c)'
    BY <2>1 DEF Unmarked, Moves
  <2> QED BY <1>0, <2>1, <2>2, <2>3, CompleteOfMove
<1>7. CASE UpdateFinalized(c)
  <2>1. Moves(c, "update", "clear") /\ saved'.active = FALSE /\ UNCHANGED <<rows, overlaps>>
    BY <1>7, UpdateEffect
  <2>2. overlaps' = 0 => Unmarked(c)' /\ RowsPay'
    BY <1>0, <2>1 DEF Unmarked, Moves, RowsPay
  <2> QED BY <1>0, <2>1, <2>2, CompleteOfMove
<1>8. CASE ClearRecorder(c) \/ Die(c)
  <2>1. Moves(c, pc[c], "idle") /\ UNCHANGED <<saved, rows, overlaps>>
    BY <1>8, ClearEffect, DieEffect DEF Moves
  <2>2. overlaps' = 0 => Unmarked(c)' /\ RowsPay'
    BY <1>0, <2>1 DEF Unmarked, Moves, RowsPay
  <2> QED BY <1>0, <2>1, <2>2, CompleteOfMove
<1> QED BY <1>1, <1>2, <1>3, <1>4, <1>5, <1>6, <1>7, <1>8 DEF Handler

LEMMA CompleteStep == Base /\ Complete /\ [Next]_vars => Complete'
<1> SUFFICES ASSUME Base, Complete, [Next]_vars PROVE Complete'
  OBVIOUS
<1>1. CASE UNCHANGED vars
  BY <1>1 DEF Complete, Unmarked, RowsPay, vars, requests, bounds
<1>2. CASE EmitNewIssue
  <2>1. saved'.events = << >> /\ UNCHANGED <<rows, pc, job, overlaps>>
    BY <1>2, EmitEffect
  <2> QED BY <2>1, InEmpty DEF Complete, Unmarked, RowsPay
<1>3. CASE Crash
  <2>1. (\A c \in Clients : pc'[c] = "idle") /\ UNCHANGED <<saved, rows, overlaps>>
    BY <1>3, CrashEffect
  <2> QED BY <2>1 DEF Complete, Unmarked, RowsPay
<1> QED BY <1>1, <1>2, <1>3, CompleteOfRequest DEF Next

(* For any number of resolves, runs, deaths and restarts and any recorder: *)
(* as long as no two requests were in flight at once, the plan of a stored *)
(* fix has every action and file acknowledged before its resolve, or its   *)
(* trace has it behind a resolution posted by a hook.                      *)
THEOREM StoredFixStaysComplete == Spec => []StoredFixIsComplete
<1>1. Base /\ Complete => StoredFixIsComplete
  BY DEF Complete, RowsPay, Pays, Told, StoredFixIsComplete
<1> QED BY <1>1, BaseInit, BaseStep, CompleteInit, CompleteStep, PTL DEF Spec

-----------------------------------------------------------------------------
(***************************************************************************)
(* No event in the fixes of two runs.                                      *)
(***************************************************************************)

(* What the hooks have posted, and the marker, is all a trace can hold.    *)
Taken == sent \cup {Marker}

Given(c) ==
    /\ job[c].event \in Taken
    /\ In(job[c].snap) \subseteq Taken /\ In(job[c].merged) \subseteq Taken

FromHooks ==
    /\ In(buffer) \subseteq Taken /\ In(saved.events) \subseteq Taken
    /\ \A k \in DOMAIN rows : In(rows[k].trace) \subseteq Taken
    /\ \A c \in Clients : Given(c)

LEMMA GivenToNoJob ==
    ASSUME NEW c, job'[c] = NoJob
    PROVE  Given(c)'
BY InEmpty DEF Given, Taken, NoJob

LEMMA HooksInit == Init => FromHooks
<1> SUFFICES ASSUME Init PROVE FromHooks
  OBVIOUS
<1>1. \A c \in Clients : Given(c)
  BY InEmpty DEF Init, Given, Taken, NoJob
<1>2. rows = << >> /\ buffer = << >> /\ saved.events = << >>
  BY DEF Init
<1> QED BY <1>1, <1>2, InEmpty DEF FromHooks

(* A request moves, and it is given nothing but what the hooks posted.     *)
LEMMA HooksOfMove ==
    ASSUME FromHooks, NEW c \in Clients, NEW from, NEW to, Moves(c, from, to), sent \subseteq sent',
           Given(c)', In(buffer') \subseteq Taken', In(saved'.events) \subseteq Taken',
           \A k \in DOMAIN rows' : In(rows'[k].trace) \subseteq Taken'
    PROVE  FromHooks'
<1>1. Taken \subseteq Taken'
  BY DEF Taken
<1>2. ASSUME NEW d \in Clients PROVE Given(d)'
  <2>1. CASE d = c
    BY <2>1
  <2>2. CASE d # c
    <3>1. job'[d] = job[d] /\ Given(d)
      BY <2>2 DEF FromHooks, Moves
    <3> QED BY <1>1, <3>1 DEF Given
  <2> QED BY <2>1, <2>2
<1> QED BY <1>2 DEF FromHooks

LEMMA HooksOfRequest ==
    ASSUME Base, FromHooks, NEW c \in Clients,
           ReadForEvent(c) \/ ReadForResolve(c) \/ Handler(c) \/ Die(c)
    PROVE  FromHooks'
<1>0. /\ Given(c) /\ In(buffer) \subseteq Taken /\ In(saved.events) \subseteq Taken
      /\ \A k \in DOMAIN rows : In(rows[k].trace) \subseteq Taken
  BY DEF FromHooks
<1>1. CASE ReadForEvent(c)
  <2>1. PICK e \in Events \ sent :
            /\ sent' = sent \cup {e}
            /\ \/ UNCHANGED <<pc, job, overlaps>>
               \/ /\ Moves(c, "idle", "record") /\ saved.active /\ Begins(c)
                  /\ job'[c].event = e /\ job'[c].snap = saved.events
    BY <1>1, EventEffect
  <2>2. UNCHANGED <<saved, buffer, rows>> /\ Taken \subseteq Taken' /\ e \in Taken' /\ sent \subseteq sent'
    BY <1>1, <2>1, EventEffect DEF Taken
  <2>3. CASE UNCHANGED <<pc, job, overlaps>>
    BY <1>0, <2>2, <2>3 DEF FromHooks, Given
  <2>4. ASSUME Moves(c, "idle", "record"), job'[c].event = e, job'[c].snap = saved.events
        PROVE  FromHooks'
    <3>1. In(job'[c].merged) \subseteq Taken'
      <4>1. PICK f : Begin(c, "record", [NoJob EXCEPT !.event = f, !.snap = saved.events, !.run = runs])
        BY <1>1, <2>4 DEF ReadForEvent, requests, Moves
      <4>2. job'[c] = [NoJob EXCEPT !.event = f, !.snap = saved.events, !.run = runs]
        BY <4>1, BaseIs DEF Begin, Goto, TypeOK
      <4> QED BY <4>2, InEmpty DEF NoJob
    <3>2. Given(c)'
      BY <1>0, <2>2, <2>4, <3>1 DEF Given
    <3> QED BY <1>0, <2>2, <2>4, <3>2, HooksOfMove
  <2> QED BY <2>1, <2>3, <2>4
<1>2. CASE ReadForResolve(c)
  <2>1. UNCHANGED <<saved, buffer, rows, sent>> /\ Taken' = Taken
    BY <1>2, ResolveEffect DEF Taken
  <2>2. CASE UNCHANGED <<pc, job, overlaps>>
    BY <1>0, <2>1, <2>2 DEF FromHooks, Given
  <2>3. ASSUME Moves(c, "idle", "merge"), saved.active
        PROVE  FromHooks'
    <3>1. Begin(c, "merge", [NoJob EXCEPT !.snap = saved.events, !.fix = saved.fix,
                                          !.run = runs, !.owed = acked])
      BY <1>2, <2>3 DEF ReadForResolve
    <3>2. job'[c] = [NoJob EXCEPT !.snap = saved.events, !.fix = saved.fix, !.run = runs, !.owed = acked]
      BY <3>1, BaseIs DEF Begin, Goto, TypeOK
    <3>3. job'[c].event = Marker /\ job'[c].snap = saved.events /\ job'[c].merged = << >>
      BY <3>2 DEF NoJob
    <3>4. Given(c)'
      BY <1>0, <2>1, <3>3, InEmpty DEF Given, Taken
    <3> QED BY <1>0, <2>1, <2>3, <3>4, HooksOfMove
  <2> QED BY <1>2, <2>2, <2>3, ResolveEffect
<1>3. CASE RecordEvent(c)
  <2>1. /\ Moves(c, "record", "mirror") /\ job'[c] = job[c] /\ buffer' = Push(buffer, job[c].event)
        /\ UNCHANGED <<saved, rows, sent>> /\ Taken' = Taken
    BY <1>3, RecordEffect DEF Taken
  <2>2. In(buffer') \subseteq Taken'
    BY <1>0, <2>1, JobIs, BaseIs, PushIs DEF Given
  <2>3. Given(c)'
    BY <1>0, <2>1 DEF Given
  <2> QED BY <1>0, <2>1, <2>2, <2>3, HooksOfMove
<1>4. CASE MirrorEvent(c)
  <2>1. /\ Moves(c, "mirror", "idle") /\ job'[c] = NoJob
        /\ saved'.events = Append(job[c].snap, job[c].event)
        /\ UNCHANGED <<buffer, rows, sent>> /\ Taken' = Taken
    BY <1>4, MirrorEffect DEF Taken
  <2>2. In(saved'.events) \subseteq Taken'
    <3>1. In(saved'.events) = In(job[c].snap) \cup {job[c].event}
      BY <2>1, JobIs, InAppend
    <3> QED BY <1>0, <2>1, <3>1 DEF Given
  <2> QED BY <1>0, <2>1, <2>2, GivenToNoJob, HooksOfMove
<1>5. CASE MergeAndMark(c)
  <2>1. /\ Moves(c, "merge", "store") /\ job'[c].snap = job[c].snap /\ job'[c].event = job[c].event
        /\ job'[c].merged = IF flagged THEN Merge(job[c].snap, buffer)
                            ELSE Merge(Merge(job[c].snap, buffer), Push(buffer, Marker))
        /\ buffer' = IF flagged THEN buffer ELSE Push(buffer, Marker)
        /\ UNCHANGED <<saved, rows, sent>> /\ Taken' = Taken
    BY <1>5, MergeEffect DEF Taken
  <2> DEFINE live == Merge(job[c].snap, buffer)
             marked == Push(buffer, Marker)
  <2>2. /\ marked \in Seq(Entries) /\ In(marked) \subseteq Taken
    BY <1>0, BaseIs, EntryFacts, PushIs DEF Taken
  <2>3. live \in Seq(Entries) /\ In(live) \subseteq Taken
    <3>1. /\ live \in Seq(Entries)
          /\ In(live) = In(job[c].snap) \cup Newer(job[c].snap, buffer)
      BY BaseIs, JobIs, MergeIs
    <3>2. Newer(job[c].snap, buffer) \subseteq In(buffer)
      BY DEF Newer
    <3> QED BY <1>0, <3>1, <3>2 DEF Given
  <2> HIDE DEF live, marked
  <2>4. In(Merge(live, marked)) \subseteq Taken
    <3>1. In(Merge(live, marked)) = In(live) \cup Newer(live, marked)
      BY <2>2, <2>3, MergeIs
    <3>2. Newer(live, marked) \subseteq In(marked)
      BY DEF Newer
    <3> QED BY <2>2, <2>3, <3>1, <3>2
  <2>5. In(job'[c].merged) \subseteq Taken' /\ In(buffer') \subseteq Taken'
    BY <1>0, <2>1, <2>2, <2>3, <2>4 DEF live, marked
  <2>6. Given(c)'
    BY <1>0, <2>1, <2>5 DEF Given
  <2> QED BY <1>0, <2>1, <2>5, <2>6, HooksOfMove
<1>6. CASE StoreFix(c)
  <2>1. /\ Moves(c, "store", "update") /\ UNCHANGED <<saved, buffer, sent>> /\ Taken' = Taken
        /\ job'[c].snap = job[c].snap /\ job'[c].merged = job[c].merged /\ job'[c].event = job[c].event
        /\ rows' = rows \/ rows' = Append(rows, Row(c))
    BY <1>6, StoreEffect DEF Taken
  <2>2. \A k \in DOMAIN rows' : In(rows'[k].trace) \subseteq Taken'
    <3>1. CASE rows' = Append(rows, Row(c))
      BY <1>0, <2>1, <3>1, RowsAppended DEF Given
    <3>2. CASE rows' = rows
      BY <1>0, <2>1, <3>2
    <3> QED BY <2>1, <3>1, <3>2
  <2>3. Given(c)'
    BY <1>0, <2>1 DEF Given
  <2> QED BY <1>0, <2>1, <2>2, <2>3, HooksOfMove
<1>7. CASE UpdateFinalized(c)
  <2>1. /\ Moves(c, "update", "clear") /\ job'[c] = job[c] /\ saved'.events = job[c].merged
        /\ UNCHANGED <<buffer, rows, sent>> /\ Taken' = Taken
    BY <1>7, UpdateEffect DEF Taken
  <2>2. Given(c)' /\ In(saved'.events) \subseteq Taken'
    BY <1>0, <2>1 DEF Given
  <2> QED BY <1>0, <2>1, <2>2, HooksOfMove
<1>8. CASE ClearRecorder(c) \/ Die(c)
  <2>1. /\ Moves(c, pc[c], "idle") /\ job'[c] = NoJob
        /\ (buffer' = buffer \/ buffer' = << >>)
        /\ UNCHANGED <<saved, rows, sent>> /\ Taken' = Taken
    BY <1>8, ClearEffect, DieEffect DEF Moves, Taken
  <2>2. In(buffer') \subseteq Taken'
    BY <1>0, <2>1, InEmpty
  <2> QED BY <1>0, <2>1, <2>2, GivenToNoJob, HooksOfMove
<1> QED BY <1>1, <1>2, <1>3, <1>4, <1>5, <1>6, <1>7, <1>8 DEF Handler

LEMMA HooksStep == Base /\ FromHooks /\ [Next]_vars => FromHooks'
<1> SUFFICES ASSUME Base, FromHooks, [Next]_vars PROVE FromHooks'
  OBVIOUS
<1>1. CASE UNCHANGED vars
  BY <1>1 DEF FromHooks, Given, Taken, vars, requests, bounds
<1>2. CASE EmitNewIssue
  <2>1. saved'.events = << >> /\ UNCHANGED <<buffer, rows, pc, job, sent>>
    BY <1>2, EmitEffect
  <2> QED BY <2>1, InEmpty DEF FromHooks, Given, Taken
<1>3. CASE Crash
  <2>1. /\ \A c \in Clients : job'[c] = NoJob
        /\ buffer' = << >> /\ UNCHANGED <<saved, rows, sent>>
    BY <1>3, CrashEffect
  <2>2. \A c \in Clients : Given(c)'
    BY <2>1, GivenToNoJob
  <2> QED BY <2>1, <2>2, InEmpty DEF FromHooks, Taken
<1> QED BY <1>1, <1>2, <1>3, HooksOfRequest DEF Next

-----------------------------------------------------------------------------

(* No other request is at work, before the step and after it. *)
Quiet(c) == \A d \in Clients \ {c} : pc[d] = "idle" /\ pc'[d] = "idle"

LEMMA QuietAtWork ==
    ASSUME Base, NEW c \in Clients, NEW from, NEW to, from # "idle", Moves(c, from, to), overlaps = 0
    PROVE  Quiet(c)
BY IsAlone DEF Alone, Quiet

LEMMA QuietAtBegin ==
    ASSUME Base, NEW c \in Clients, NEW to, Moves(c, "idle", to), Begins(c), overlaps' = 0
    PROVE  Quiet(c) /\ overlaps = 0
<1>1. overlaps + 1 # 0
  BY BaseIs
<1> QED BY <1>1 DEF Begins, Quiet, Moves

(* In a stored trace, and not the marker. *)
Stored(e) == e # Marker /\ \E k \in DOMAIN rows : e \in In(rows[k].trace)

Unstored(S) == \A e \in S : ~Stored(e)

(* Between the commit of its row and its end, a resolve leaves what is     *)
(* stored in the recorder, and until the update in the checkpoint.         *)
Finishing == \E c \in Clients : pc[c] \in {"update", "clear"}
Updating == \E c \in Clients : pc[c] = "update"

Fresh(c) ==
    /\ pc[c] \in {"record", "mirror"} => ~Stored(job[c].event)
    /\ pc[c] \in {"record", "mirror", "merge"} => Unstored(In(job[c].snap))
    /\ pc[c] = "store" => Unstored(In(job[c].merged))

Apart == \A k, m \in DOMAIN rows : k # m => In(rows[k].trace) \cap In(rows[m].trace) \subseteq {Marker}

(* Nothing that is stored is left where the next resolve looks.            *)
Separate ==
    Cuts = 0 =>
        /\ Apart
        /\ ~Finishing => Unstored(In(buffer))
        /\ saved.active /\ ~Updating => Unstored(In(saved.events))
        /\ \A c \in Clients : Fresh(c)

LEMMA NoCuts ==
    ASSUME Base
    PROVE  Cuts = 0 <=> overlaps = 0 /\ deaths = 0 /\ crashes = 0
BY BaseIs DEF Cuts

LEMMA WhoFinishes ==
    ASSUME NEW c \in Clients, NEW from, NEW to, Moves(c, from, to), Quiet(c)
    PROVE  /\ Finishing <=> from \in {"update", "clear"}
           /\ Finishing' <=> to \in {"update", "clear"}
           /\ Updating <=> from = "update"
           /\ Updating' <=> to = "update"
BY DEF Moves, Quiet, Finishing, Updating

LEMMA SeparateInit == Init => Separate
<1> SUFFICES ASSUME Init PROVE Separate
  OBVIOUS
<1>1. rows = << >> /\ \A c \in Clients : pc[c] = "idle"
  BY DEF Init
<1> QED BY <1>1 DEF Separate, Apart, Fresh, Unstored, Stored

(* A request moves, and no row is stored. *)
LEMMA SeparateOfMove ==
    ASSUME Base, Separate, NEW c \in Clients, NEW from, NEW to, Moves(c, from, to), rows' = rows,
           Cuts' = 0 => /\ Cuts = 0
                        /\ Fresh(c)'
                        /\ ~Finishing' => Unstored(In(buffer'))
                        /\ saved'.active /\ ~Updating' => Unstored(In(saved'.events))
    PROVE  Separate'
<1> SUFFICES ASSUME Cuts' = 0 PROVE Separate'
  BY DEF Separate
<1>1. \A S : Unstored(S)' <=> Unstored(S)
  BY DEF Unstored, Stored
<1>2. ASSUME NEW d \in Clients PROVE Fresh(d)'
  <2>1. CASE d = c
    BY <2>1
  <2>2. CASE d # c
    <3>1. pc'[d] = pc[d] /\ job'[d] = job[d] /\ Fresh(d)
      BY <2>2 DEF Separate, Moves
    <3> QED BY <3>1 DEF Fresh, Unstored, Stored
  <2> QED BY <2>1, <2>2
<1>3. Apart'
  BY DEF Separate, Apart
<1>4. /\ (~Finishing => Unstored(In(buffer)))'
      /\ (saved.active /\ ~Updating => Unstored(In(saved.events)))'
  <2>1. In(buffer)' = In(buffer') /\ In(saved.events)' = In(saved'.events)
    BY DEF In
  <2> QED BY <2>1 DEF Unstored, Stored
<1> QED BY <1>2, <1>3, <1>4 DEF Separate

LEMMA UnstoredUnion ==
    ASSUME NEW S, NEW T
    PROVE  /\ Unstored(S) /\ Unstored(T) => Unstored(S \cup T)
           /\ Unstored(S) /\ T \subseteq S => Unstored(T)
           /\ Unstored({Marker}) /\ Unstored({})
BY DEF Unstored, Stored

LEMMA StillStored ==
    ASSUME rows' = rows
    PROVE  /\ \A e : Stored(e)' <=> Stored(e)
           /\ \A S : Unstored(S)' <=> Unstored(S)
BY DEF Unstored, Stored

(* What the hooks have not posted yet is not stored. *)
LEMMA NotYetStored ==
    ASSUME FromHooks, NEW e \in Events \ sent
    PROVE  ~Stored(e)
BY DEF FromHooks, Stored, Taken

LEMMA SeparateOfEvent ==
    ASSUME Base, FromHooks, Separate, NEW c \in Clients, ReadForEvent(c)
    PROVE  Separate'
<1>1. PICK e \in Events \ sent :
          \/ UNCHANGED <<pc, job, overlaps>>
          \/ /\ Moves(c, "idle", "record") /\ saved.active /\ Begins(c)
             /\ job'[c].event = e /\ job'[c].snap = saved.events
  BY EventEffect
<1>2. UNCHANGED <<saved, buffer, rows, deaths, crashes>>
  BY EventEffect
<1>3. CASE UNCHANGED <<pc, job, overlaps>>
  BY <1>2, <1>3 DEF Separate, Apart, Finishing, Updating, Fresh, Unstored, Stored, Cuts
<1>4. ASSUME Moves(c, "idle", "record"), saved.active, Begins(c),
             job'[c].event = e, job'[c].snap = saved.events
      PROVE  Separate'
  <2> SUFFICES ASSUME Cuts' = 0
               PROVE  /\ Cuts = 0
                      /\ Fresh(c)'
                      /\ ~Finishing' => Unstored(In(buffer'))
                      /\ saved'.active /\ ~Updating' => Unstored(In(saved'.events))
    BY <1>2, <1>4, SeparateOfMove
  <2>1. overlaps' = 0
    BY <1>2, <1>4, BaseIs DEF Cuts, Begins
  <2>2. Quiet(c) /\ Cuts = 0
    BY <1>2, <1>4, <2>1, QuietAtBegin DEF Cuts
  <2>3. ~Finishing /\ ~Updating
    BY <1>4, <2>2, WhoFinishes
  <2>4. Unstored(In(buffer)) /\ Unstored(In(saved.events))
    BY <1>4, <2>2, <2>3 DEF Separate
  <2>5. Fresh(c)'
    BY <1>2, <1>4, <2>4, NotYetStored, StillStored DEF Fresh, Moves
  <2> QED BY <1>2, <2>2, <2>4, <2>5
<1> QED BY <1>1, <1>3, <1>4

LEMMA SeparateOfResolve ==
    ASSUME Base, Separate, NEW c \in Clients, ReadForResolve(c)
    PROVE  Separate'
<1>1. UNCHANGED <<saved, buffer, rows, deaths, crashes>>
  BY ResolveEffect
<1>2. CASE UNCHANGED <<pc, job, overlaps>>
  BY <1>1, <1>2 DEF Separate, Apart, Finishing, Updating, Fresh, Unstored, Stored, Cuts
<1>3. ASSUME Moves(c, "idle", "merge"), saved.active, Begins(c), job'[c].snap = saved.events
      PROVE  Separate'
  <2> SUFFICES ASSUME Cuts' = 0
               PROVE  /\ Cuts = 0
                      /\ Fresh(c)'
                      /\ ~Finishing' => Unstored(In(buffer'))
                      /\ saved'.active /\ ~Updating' => Unstored(In(saved'.events))
    BY <1>1, <1>3, SeparateOfMove
  <2>1. overlaps' = 0
    BY <1>1, <1>3, BaseIs DEF Cuts, Begins
  <2>2. Quiet(c) /\ Cuts = 0
    BY <1>1, <1>3, <2>1, QuietAtBegin DEF Cuts
  <2>3. ~Finishing /\ ~Updating
    BY <1>3, <2>2, WhoFinishes
  <2>4. Unstored(In(buffer)) /\ Unstored(In(saved.events))
    BY <1>3, <2>2, <2>3 DEF Separate
  <2>5. Fresh(c)'
    BY <1>1, <1>3, <2>4, StillStored DEF Fresh, Moves
  <2> QED BY <1>1, <2>2, <2>4, <2>5
<1> QED BY <1>2, <1>3, ResolveEffect

(* A step of the one request at work that stores nothing. *)
LEMMA SeparateAtWork ==
    ASSUME Base, Separate, NEW c \in Clients, NEW from, NEW to, from # "idle", Moves(c, from, to),
           UNCHANGED <<rows, overlaps, deaths, crashes>>,
           Cuts = 0 /\ Quiet(c) /\ Fresh(c)
             /\ (from \notin {"update", "clear"} => Unstored(In(buffer)))
             /\ (saved.active /\ from # "update" => Unstored(In(saved.events)))
             => /\ Fresh(c)'
                /\ to \notin {"update", "clear"} => Unstored(In(buffer'))
                /\ saved'.active /\ to # "update" => Unstored(In(saved'.events))
    PROVE  Separate'
<1>1. ASSUME Cuts' = 0
      PROVE  /\ Cuts = 0
             /\ Fresh(c)'
             /\ ~Finishing' => Unstored(In(buffer'))
             /\ saved'.active /\ ~Updating' => Unstored(In(saved'.events))
  <2>1. Cuts = 0 /\ overlaps = 0
    BY <1>1, BaseIs DEF Cuts
  <2>2. Quiet(c)
    BY <2>1, QuietAtWork
  <2>3. /\ Fresh(c)
        /\ from \notin {"update", "clear"} => Unstored(In(buffer))
        /\ saved.active /\ from # "update" => Unstored(In(saved.events))
    BY <2>1, <2>2, WhoFinishes DEF Separate
  <2> QED BY <2>1, <2>2, <2>3, WhoFinishes
<1> QED BY <1>1, SeparateOfMove

LEMMA SeparateOfHandler ==
    ASSUME Base, Separate, NEW c \in Clients,
           RecordEvent(c) \/ MirrorEvent(c) \/ MergeAndMark(c) \/ UpdateFinalized(c) \/ ClearRecorder(c)
    PROVE  Separate'
<1>1. CASE RecordEvent(c)
  <2>1. /\ Moves(c, "record", "mirror") /\ job'[c] = job[c] /\ buffer' = Push(buffer, job[c].event)
        /\ UNCHANGED <<saved, rows, overlaps, deaths, crashes>>
    BY <1>1, RecordEffect
  <2>2. In(buffer') \subseteq In(buffer) \cup {job[c].event}
    BY <2>1, JobIs, BaseIs, PushIs
  <2>3. ASSUME Fresh(c), Unstored(In(buffer)) PROVE Unstored(In(buffer')) /\ Fresh(c)'
    BY <2>1, <2>2, <2>3, StillStored DEF Fresh, Moves, Unstored
  <2> QED BY <2>1, <2>3, SeparateAtWork
<1>2. CASE MirrorEvent(c)
  <2>1. /\ Moves(c, "mirror", "idle") /\ saved'.events = Append(job[c].snap, job[c].event)
        /\ UNCHANGED <<buffer, rows, overlaps, deaths, crashes>>
    BY <1>2, MirrorEffect
  <2>2. In(saved'.events) = In(job[c].snap) \cup {job[c].event}
    BY <2>1, JobIs, InAppend
  <2>3. ASSUME Fresh(c) PROVE Unstored(In(saved'.events)) /\ Fresh(c)'
    BY <2>1, <2>2, <2>3 DEF Fresh, Moves, Unstored
  <2> QED BY <2>1, <2>3, SeparateAtWork
<1>3. CASE MergeAndMark(c)
  <2>1. /\ Moves(c, "merge", "store")
        /\ job'[c].merged = IF flagged THEN Merge(job[c].snap, buffer)
                            ELSE Merge(Merge(job[c].snap, buffer), Push(buffer, Marker))
        /\ buffer' = IF flagged THEN buffer ELSE Push(buffer, Marker)
        /\ UNCHANGED <<saved, rows, overlaps, deaths, crashes>>
    BY <1>3, MergeEffect
  <2> DEFINE live == Merge(job[c].snap, buffer)
             marked == Push(buffer, Marker)
  <2>2. marked \in Seq(Entries) /\ In(marked) \subseteq In(buffer) \cup {Marker}
    BY BaseIs, EntryFacts, PushIs
  <2>3. live \in Seq(Entries) /\ In(live) \subseteq In(job[c].snap) \cup In(buffer)
    <3>1. live \in Seq(Entries) /\ In(live) = In(job[c].snap) \cup Newer(job[c].snap, buffer)
      BY BaseIs, JobIs, MergeIs
    <3>2. Newer(job[c].snap, buffer) \subseteq In(buffer)
      BY DEF Newer
    <3> QED BY <3>1, <3>2
  <2> HIDE DEF live, marked
  <2>4. In(Merge(live, marked)) \subseteq In(job[c].snap) \cup In(buffer) \cup {Marker}
    <3>1. In(Merge(live, marked)) = In(live) \cup Newer(live, marked)
      BY <2>2, <2>3, MergeIs
    <3>2. Newer(live, marked) \subseteq In(marked)
      BY DEF Newer
    <3> QED BY <2>2, <2>3, <3>1, <3>2
  <2>5. /\ In(job'[c].merged) \subseteq In(job[c].snap) \cup In(buffer) \cup {Marker}
        /\ In(buffer') \subseteq In(buffer) \cup {Marker}
    BY <2>1, <2>2, <2>3, <2>4 DEF live, marked
  <2>6. ASSUME Fresh(c), Unstored(In(buffer)) PROVE Unstored(In(buffer')) /\ Fresh(c)'
    <3>1. Unstored(In(job[c].snap)) /\ ~Stored(Marker)
      BY <2>1, <2>6 DEF Fresh, Moves, Stored
    <3>2. Unstored(In(job'[c].merged)) /\ Unstored(In(buffer'))
      BY <2>5, <2>6, <3>1 DEF Unstored
    <3> QED BY <2>1, <3>2, StillStored DEF Fresh, Moves
  <2> QED BY <2>1, <2>6, SeparateAtWork
<1>4. CASE UpdateFinalized(c)
  <2>1. /\ Moves(c, "update", "clear") /\ saved'.active = FALSE
        /\ UNCHANGED <<buffer, rows, overlaps, deaths, crashes>>
    BY <1>4, UpdateEffect
  <2>2. Fresh(c)'
    BY <2>1 DEF Fresh, Moves
  <2> QED BY <2>1, <2>2, SeparateAtWork
<1>5. CASE ClearRecorder(c)
  <2>1. /\ Moves(c, "clear", "idle") /\ buffer' = << >>
        /\ UNCHANGED <<saved, rows, overlaps, deaths, crashes>>
    BY <1>5, ClearEffect
  <2>2. Fresh(c)' /\ Unstored(In(buffer'))
    BY <2>1, InEmpty DEF Fresh, Moves, Unstored
  <2> QED BY <2>1, <2>2, SeparateAtWork
<1> QED BY <1>1, <1>2, <1>3, <1>4, <1>5

(* The row that is stored has nothing of another one; from here on what it *)
(* has may be in the recorder and the checkpoint, until the resolve ends.  *)
LEMMA SeparateOfStore ==
    ASSUME Base, Separate, NEW c \in Clients, StoreFix(c)
    PROVE  Separate'
<1>1. /\ Moves(c, "store", "update") /\ UNCHANGED <<saved, buffer, overlaps, deaths, crashes>>
      /\ rows' = rows \/ rows' = Append(rows, Row(c))
  BY StoreEffect
<1> SUFFICES ASSUME Cuts' = 0 PROVE Separate'
  BY DEF Separate
<1>2. Cuts = 0 /\ overlaps = 0
  BY <1>1, BaseIs DEF Cuts
<1>3. Quiet(c)
  BY <1>1, <1>2, QuietAtWork
<1>4. Finishing' /\ Updating'
  BY <1>1, <1>3, WhoFinishes
<1>5. \A d \in Clients : Fresh(d)'
  BY <1>1, <1>3 DEF Fresh, Quiet, Moves
<1>6. Apart /\ Unstored(In(job[c].merged))
  BY <1>1, <1>2 DEF Separate, Fresh, Moves
<1>7. Apart'
  <2>1. CASE rows' = rows
    BY <1>6, <2>1 DEF Apart
  <2>2. CASE rows' = Append(rows, Row(c))
    <3> DEFINE n == Len(rows) + 1
    <3>1. /\ \A k \in DOMAIN rows : k \in DOMAIN rows' /\ rows'[k] = rows[k]
          /\ \A k \in DOMAIN rows' : k \in DOMAIN rows \/ k = n
          /\ rows'[n].trace = job[c].merged
      BY <2>2, RowsAppended
    <3> HIDE DEF n
    <3>2. \A k \in DOMAIN rows : In(rows[k].trace) \cap In(job[c].merged) \subseteq {Marker}
      BY <1>6 DEF Unstored, Stored
    <3>3. ASSUME NEW k \in DOMAIN rows', NEW m \in DOMAIN rows', k # m
          PROVE  In(rows'[k].trace) \cap In(rows'[m].trace) \subseteq {Marker}
      <4>1. CASE k \in DOMAIN rows /\ m \in DOMAIN rows
        BY <1>6, <3>1, <3>3, <4>1 DEF Apart
      <4>2. CASE k = n \/ m = n
        BY <3>1, <3>2, <3>3, <4>2
      <4> QED BY <3>1, <4>1, <4>2
    <3> QED BY <3>3 DEF Apart
  <2> QED BY <1>1, <2>1, <2>2
<1> QED BY <1>4, <1>5, <1>7 DEF Separate

LEMMA SeparateStep == Base /\ FromHooks /\ Separate /\ [Next]_vars => Separate'
<1> SUFFICES ASSUME Base, FromHooks, Separate, [Next]_vars PROVE Separate'
  OBVIOUS
<1>1. CASE UNCHANGED vars
  BY <1>1 DEF Separate, Apart, Finishing, Updating, Fresh, Unstored, Stored, Cuts, vars, requests, bounds
<1>2. CASE EmitNewIssue
  <2>1. saved'.events = << >> /\ UNCHANGED <<buffer, rows, pc, job, overlaps, deaths, crashes>>
    BY <1>2, EmitEffect
  <2> QED BY <2>1, InEmpty DEF Separate, Apart, Finishing, Updating, Fresh, Unstored, Stored, Cuts
<1>3. CASE Crash
  <2>1. Cuts' # 0
    <3>1. crashes' = crashes + 1 /\ UNCHANGED <<overlaps, deaths>>
      BY <1>3, CrashEffect
    <3> QED BY <3>1, BaseIs DEF Cuts
  <2> QED BY <2>1 DEF Separate
<1>4. ASSUME NEW c \in Clients, Die(c) PROVE Separate'
  <2>1. Cuts' # 0
    <3>1. deaths' = deaths + 1 /\ UNCHANGED <<overlaps, crashes>>
      BY <1>4, DieEffect
    <3> QED BY <3>1, BaseIs DEF Cuts
  <2> QED BY <2>1 DEF Separate
<1> QED BY <1>1, <1>2, <1>3, <1>4, SeparateOfEvent, SeparateOfResolve, SeparateOfHandler, SeparateOfStore
        DEF Next, Handler

(* For any number of runs and resolves: as long as requests come one after *)
(* the other and none is cut off, what was done in one run is in the fix   *)
(* of no other, although the recorder and the checkpoint outlive the run.  *)
THEOREM RunsStayApart == Spec => []NoEventInTwoRuns
<1>1. Base /\ Separate => NoEventInTwoRuns
  <2> SUFFICES ASSUME Base, Separate, Cuts = 0, NEW k \in DOMAIN rows, NEW m \in DOMAIN rows,
                      rows[k].run # rows[m].run
               PROVE  Covered(rows[k].trace) \cap Covered(rows[m].trace) \subseteq {ByHand}
    BY DEF NoEventInTwoRuns, Cuts
  <2>1. \A n \in DOMAIN rows : Covered(rows[n].trace) \subseteq (In(rows[n].trace) \cap Deeds) \cup {ByHand}
    <3> SUFFICES ASSUME NEW n \in DOMAIN rows
                 PROVE  Covered(rows[n].trace) \subseteq (In(rows[n].trace) \cap Deeds) \cup {ByHand}
      OBVIOUS
    <3>1. rows[n] \in Rows
      BY BaseIs
    <3>2. rows[n].trace \in Seq(Entries)
      BY <3>1 DEF Rows
    <3> QED BY <3>2, ScanItems, CoveredIs
  <2>2. In(rows[k].trace) \cap In(rows[m].trace) \subseteq {Marker}
    BY DEF Separate, Apart
  <2>3. Marker \notin Deeds
    BY DeedsAreEvents
  <2> QED BY <2>1, <2>2, <2>3
<1>2. Base /\ FromHooks /\ Separate => NoEventInTwoRuns
  BY <1>1
<1> QED BY <1>2, BaseInit, BaseStep, HooksInit, HooksStep, SeparateInit, SeparateStep, PTL DEF Spec

-----------------------------------------------------------------------------
(***************************************************************************)
(* The order in which the recorder took the events.                        *)
(***************************************************************************)
Orders(log, e) == {k \in DOMAIN log : log[k].event = e}

EventsOf(log) == {log[k].event : k \in DOMAIN log}

Once(log) == \A i, j \in DOMAIN log : log[i].event = log[j].event => i = j

(* All events of the trace were recorded, and in the order they have.      *)
Settled(log, t) ==
    /\ In(t) \ {Marker} \subseteq EventsOf(log)
    /\ \A i, j \in DOMAIN t :
           i < j /\ t[i] # Marker /\ t[j] # Marker =>
               \A m \in Orders(log, t[i]), n \in Orders(log, t[j]) : m < n

Log == Seq([event: Events, run: Nat])

LEMMA SettledInOrder ==
    ASSUME NEW t, Settled(recorded, t)
    PROVE  InOrder(t)
BY DEF Settled, InOrder, Orders, Order

(* A marker at the end disturbs no order. *)
LEMMA SettledThenMarkers ==
    ASSUME NEW log, NEW s \in Seq(Entries), NEW w \in Seq(Entries), In(w) \subseteq {Marker},
           Settled(log, s)
    PROVE  Settled(log, s \o w)
<1> DEFINE t == s \o w
<1>1. /\ Len(s) \in Nat /\ Len(w) \in Nat /\ DOMAIN s = 1 .. Len(s) /\ DOMAIN w = 1 .. Len(w)
      /\ DOMAIN t = 1 .. (Len(s) + Len(w))
      /\ \A k \in 1 .. Len(s) : t[k] = s[k]
      /\ \A k \in (Len(s) + 1) .. (Len(s) + Len(w)) : t[k] = w[k - Len(s)]
  OBVIOUS
<1>2. In(t) = In(s) \cup In(w)
  BY InConcat
<1> HIDE DEF t
<1>3. ASSUME NEW k \in DOMAIN t, t[k] # Marker PROVE k \in DOMAIN s /\ t[k] = s[k]
  <2>1. CASE k \in 1 .. Len(s)
    BY <1>1, <2>1
  <2>2. CASE k \notin 1 .. Len(s)
    <3>1. k - Len(s) \in DOMAIN w /\ t[k] = w[k - Len(s)]
      BY <1>1, <2>2
    <3>2. t[k] \in In(w)
      BY <3>1 DEF In
    <3> QED BY <1>3, <3>2
  <2> QED BY <2>1, <2>2
<1>4. Settled(log, t)
  BY <1>2, <1>3 DEF Settled
<1> QED BY <1>4 DEF t

(* Nor does the event that was recorded last. *)
LEMMA SettledThenLast ==
    ASSUME NEW log \in Log, NEW s \in Seq(Entries), NEW e \in Entries, Settled(log, s),
           Orders(log, e) = {Len(log)}, e \notin In(s)
    PROVE  Settled(log, Append(s, e))
<1> DEFINE t == Append(s, e)
<1>1. /\ Len(s) \in Nat /\ DOMAIN s = 1 .. Len(s) /\ DOMAIN t = 1 .. (Len(s) + 1)
      /\ \A k \in 1 .. Len(s) : t[k] = s[k]
      /\ t[Len(s) + 1] = e
  OBVIOUS
<1>2. In(t) = In(s) \cup {e}
  BY InAppend
<1>3. Len(log) \in Nat /\ DOMAIN log = 1 .. Len(log)
  BY DEF Log
<1>4. Len(log) \in DOMAIN log /\ log[Len(log)].event = e
  BY DEF Orders
<1> HIDE DEF t
<1>5. ASSUME NEW i \in DOMAIN t, NEW j \in DOMAIN t, i < j, t[i] # Marker, t[j] # Marker,
             NEW m \in Orders(log, t[i]), NEW n \in Orders(log, t[j])
      PROVE  m < n
  <2>1. i \in DOMAIN s /\ t[i] = s[i]
    BY <1>1, <1>5
  <2>2. CASE j \in DOMAIN s
    BY <1>1, <1>5, <2>1, <2>2 DEF Settled
  <2>3. CASE j \notin DOMAIN s
    <3>1. t[j] = e /\ n = Len(log)
      BY <1>1, <1>5, <2>3
    <3>2. s[i] \in In(s) /\ s[i] # e
      BY <2>1 DEF In
    <3>3. m \in DOMAIN log /\ log[m].event = s[i]
      BY <1>5, <2>1 DEF Orders
    <3>4. m # Len(log)
      BY <1>4, <3>2, <3>3
    <3> QED BY <1>3, <3>1, <3>3, <3>4
  <2> QED BY <2>2, <2>3
<1>6. In(t) \ {Marker} \subseteq EventsOf(log)
  BY <1>2, <1>4 DEF Settled, EventsOf
<1>7. Settled(log, t)
  BY <1>5, <1>6 DEF Settled
<1> QED BY <1>7 DEF t

(* A log with one more event at its end, that it did not have before.      *)
LEMMA LogAppended ==
    ASSUME NEW log \in Log, NEW r \in [event: Events, run: Nat], r.event \notin EventsOf(log), Once(log)
    PROVE  /\ EventsOf(Append(log, r)) = EventsOf(log) \cup {r.event}
           /\ \A e : e # r.event => Orders(Append(log, r), e) = Orders(log, e)
           /\ Orders(Append(log, r), r.event) = {Len(Append(log, r))}
           /\ Once(Append(log, r))
<1> DEFINE new == Append(log, r)
<1>1. /\ Len(log) \in Nat /\ DOMAIN log = 1 .. Len(log) /\ Len(new) = Len(log) + 1
      /\ DOMAIN new = 1 .. (Len(log) + 1)
      /\ \A k \in DOMAIN log : new[k] = log[k]
      /\ new[Len(log) + 1] = r
  BY DEF Log
<1> HIDE DEF new
<1>2. \A k \in DOMAIN log : log[k].event # r.event
  BY DEF EventsOf
<1>3. EventsOf(new) = EventsOf(log) \cup {r.event}
  BY <1>1 DEF EventsOf
<1>4. \A e : e # r.event => Orders(new, e) = Orders(log, e)
  BY <1>1 DEF Orders
<1>5. Orders(new, r.event) = {Len(new)}
  BY <1>1, <1>2 DEF Orders
<1>6. Once(new)
  BY <1>1, <1>2 DEF Once
<1> QED BY <1>3, <1>4, <1>5, <1>6 DEF new

(* What was settled before stays so.                                       *)
LEMMA SettledLater ==
    ASSUME NEW log \in Log, NEW r \in [event: Events, run: Nat], r.event \notin EventsOf(log), Once(log),
           NEW t, Settled(log, t)
    PROVE  Settled(Append(log, r), t)
<1>1. r.event # Marker
  BY EntryFacts
<1>2. \A i \in DOMAIN t : t[i] # Marker => t[i] # r.event
  BY DEF Settled, In
<1>3. \A i \in DOMAIN t : t[i] # Marker => Orders(Append(log, r), t[i]) = Orders(log, t[i])
  BY <1>2, LogAppended
<1>4. EventsOf(log) \subseteq EventsOf(Append(log, r))
  BY LogAppended
<1> QED BY <1>3, <1>4 DEF Settled

(* When all the recorder has was read from the checkpoint, the merge adds  *)
(* markers only.                                                           *)
LEMMA MergeAddsMarkers ==
    ASSUME Base, NEW c \in Clients, MergeAndMark(c), In(buffer) \ {Marker} \subseteq In(job[c].snap),
           Settled(recorded, job[c].snap)
    PROVE  Settled(recorded, job'[c].merged)
<1> DEFINE s == job[c].snap
           live == Merge(s, buffer)
           marked == Push(buffer, Marker)
           u == Selected(buffer, Newer(s, buffer))
           v == Selected(marked, Newer(live, marked))
<1>1. /\ s \in Seq(Entries) /\ buffer \in Seq(Entries) /\ marked \in Seq(Entries)
      /\ In(marked) \subseteq In(buffer) \cup {Marker}
  BY JobIs, BaseIs, PushIs, EntryFacts
<1>2. live = s \o u /\ u \in Seq(Entries) /\ live \in Seq(Entries) /\ In(live) = In(s) \cup Newer(s, buffer)
  BY <1>1, MergeIs
<1>3. Merge(live, marked) = live \o v /\ v \in Seq(Entries)
  BY <1>1, <1>2, MergeIs
<1>4. In(u) = In(buffer) \cap Newer(s, buffer) /\ In(v) = In(marked) \cap Newer(live, marked)
  BY <1>1, SelectedItems
<1>5. job'[c].merged = IF flagged THEN live ELSE Merge(live, marked)
  BY MergeEffect
<1>6. \A known, e : e \in In(known) => \A l : e \notin Newer(known, l)
  BY DEF Newer
<1>7. In(buffer) \ {Marker} \subseteq In(s) /\ Settled(recorded, s)
  OBVIOUS
<1> HIDE DEF s, live, marked, u, v
<1>8. In(u) \subseteq {Marker}
  BY <1>4, <1>6, <1>7
<1>9. In(v) \subseteq {Marker}
  BY <1>1, <1>2, <1>4, <1>6, <1>7
<1>10. Settled(recorded, live)
  BY <1>1, <1>2, <1>7, <1>8, SettledThenMarkers
<1>11. Settled(recorded, live \o v)
  BY <1>2, <1>3, <1>9, <1>10, SettledThenMarkers
<1> QED BY <1>3, <1>5, <1>10, <1>11

(* The traces of the one run take the order of the recorder with them, and *)
(* the recorder has nothing the request at work has not read or brought.   *)
InTurn == overlaps = 0 /\ deaths = 0 /\ runs <= 1

Held(queue, S) == In(queue) \ {Marker} \subseteq S

Turn(c) ==
    /\ pc[c] # "idle" => runs = 1
    /\ pc[c] = "record" => /\ job[c].event \in sent /\ job[c].event \notin EventsOf(recorded)
                           /\ Held(buffer, In(job[c].snap))
    /\ pc[c] = "mirror" => /\ Orders(recorded, job[c].event) = {Len(recorded)}
                           /\ job[c].event \notin In(job[c].snap)
                           /\ Held(buffer, In(job[c].snap) \cup {job[c].event})
    /\ pc[c] = "merge" => Held(buffer, In(job[c].snap))
    /\ pc[c] \in {"record", "mirror", "merge"} => Settled(recorded, job[c].snap)
    /\ pc[c] = "store" => Settled(recorded, job[c].merged)

Mirroring == \E c \in Clients : pc[c] = "mirror"

Thread ==
    /\ runs = 0 => ~saved.active /\ buffer = << >>
    /\ saved.active => Settled(recorded, saved.events)
    /\ saved.active /\ ~Mirroring => Held(buffer, In(saved.events))

RowsSettled == \A k \in DOMAIN rows : Settled(recorded, rows[k].trace)

Ordered ==
    InTurn =>
        /\ Once(recorded) /\ EventsOf(recorded) \subseteq sent
        /\ Thread /\ RowsSettled
        /\ \A c \in Clients : Turn(c)

LEMMA OrderedInit == Init => Ordered
<1> SUFFICES ASSUME Init PROVE Ordered
  OBVIOUS
<1>1. /\ rows = << >> /\ recorded = << >> /\ buffer = << >> /\ saved.active = FALSE
      /\ \A c \in Clients : pc[c] = "idle"
  BY DEF Init
<1> QED BY <1>1, InEmpty DEF Ordered, Once, EventsOf, Thread, RowsSettled, Turn

LEMMA TurnOfOther ==
    ASSUME Ordered, InTurn, NEW c \in Clients, NEW from, NEW to, Moves(c, from, to), Quiet(c)
    PROVE  \A d \in Clients \ {c} : Turn(d)'
BY DEF Quiet, Turn

LEMMA WhoMirrors ==
    ASSUME NEW c \in Clients, NEW from, NEW to, Moves(c, from, to), Quiet(c)
    PROVE  (Mirroring <=> from = "mirror") /\ (Mirroring' <=> to = "mirror")
BY DEF Moves, Quiet, Mirroring

(* A request moves alone, and what is recorded stays. *)
LEMMA OrderedOfMove ==
    ASSUME Base, Ordered, NEW c \in Clients, NEW from, NEW to, Moves(c, from, to),
           recorded' = recorded, runs' = runs, sent \subseteq sent',
           InTurn' => /\ InTurn /\ Quiet(c)
                      /\ Thread' /\ RowsSettled' /\ Turn(c)'
    PROVE  Ordered'
<1> SUFFICES ASSUME InTurn' PROVE Ordered'
  BY DEF Ordered
<1>1. InTurn /\ Quiet(c) /\ Thread' /\ RowsSettled' /\ Turn(c)'
  OBVIOUS
<1>2. Once(recorded') /\ EventsOf(recorded') \subseteq sent'
  BY <1>1 DEF Ordered
<1>3. \A d \in Clients : Turn(d)'
  BY <1>1, TurnOfOther
<1> QED BY <1>1, <1>2, <1>3 DEF Ordered

LEMMA OrderedOfEvent ==
    ASSUME Base, Ordered, NEW c \in Clients, ReadForEvent(c)
    PROVE  Ordered'
<1>1. PICK e \in Events \ sent :
          /\ sent' = sent \cup {e}
          /\ \/ UNCHANGED <<pc, job, overlaps>>
             \/ /\ Moves(c, "idle", "record") /\ saved.active /\ Begins(c)
                /\ job'[c].event = e /\ job'[c].snap = saved.events
  BY EventEffect
<1>2. UNCHANGED <<saved, buffer, rows, runs, deaths, recorded>>
  BY EventEffect
<1>3. CASE UNCHANGED <<pc, job, overlaps>>
  <2> SUFFICES ASSUME InTurn' PROVE Ordered'
    BY DEF Ordered
  <2>1. InTurn
    BY <1>2, <1>3 DEF InTurn
  <2>2. \A d \in Clients : Turn(d)'
    BY <1>1, <1>2, <1>3, <2>1 DEF Ordered, Turn
  <2>3. Thread' /\ RowsSettled'
    BY <1>2, <1>3, <2>1 DEF Ordered, Thread, RowsSettled, Mirroring
  <2> QED BY <1>1, <1>2, <2>1, <2>2, <2>3 DEF Ordered
<1>4. ASSUME Moves(c, "idle", "record"), saved.active, Begins(c),
             job'[c].event = e, job'[c].snap = saved.events
      PROVE  Ordered'
  <2> SUFFICES ASSUME InTurn'
               PROVE  /\ InTurn /\ Quiet(c)
                      /\ Thread' /\ RowsSettled' /\ Turn(c)'
    BY <1>1, <1>2, <1>4, OrderedOfMove
  <2>1. InTurn /\ Quiet(c)
    BY <1>2, <1>4, QuietAtBegin DEF InTurn
  <2>2. ~Mirroring /\ Thread /\ RowsSettled /\ EventsOf(recorded) \subseteq sent
    BY <1>4, <2>1, WhoMirrors DEF Ordered
  <2>3. Held(buffer, In(saved.events)) /\ Settled(recorded, saved.events) /\ runs = 1
    <3>1. Held(buffer, In(saved.events)) /\ Settled(recorded, saved.events) /\ runs # 0
      BY <1>4, <2>2 DEF Thread
    <3> QED BY <2>1, <3>1, BaseIs DEF InTurn
  <2>4. Thread' /\ RowsSettled'
    BY <1>2, <1>4, <2>2, <2>3 DEF Thread, RowsSettled
  <2>5. Turn(c)'
    BY <1>1, <1>2, <1>4, <2>2, <2>3 DEF Turn, Moves
  <2> QED BY <2>1, <2>4, <2>5
<1> QED BY <1>1, <1>3, <1>4

LEMMA OrderedOfResolve ==
    ASSUME Base, Ordered, NEW c \in Clients, ReadForResolve(c)
    PROVE  Ordered'
<1>1. UNCHANGED <<saved, buffer, rows, runs, sent, deaths, recorded>>
  BY ResolveEffect
<1>2. CASE UNCHANGED <<pc, job, overlaps>>
  BY <1>1, <1>2 DEF Ordered, InTurn, Thread, RowsSettled, Turn, Mirroring
<1>3. ASSUME Moves(c, "idle", "merge"), saved.active, Begins(c), job'[c].snap = saved.events
      PROVE  Ordered'
  <2> SUFFICES ASSUME InTurn'
               PROVE  /\ InTurn /\ Quiet(c)
                      /\ Thread' /\ RowsSettled' /\ Turn(c)'
    BY <1>1, <1>3, OrderedOfMove
  <2>1. InTurn /\ Quiet(c)
    BY <1>1, <1>3, QuietAtBegin DEF InTurn
  <2>2. ~Mirroring /\ Thread /\ RowsSettled
    BY <1>3, <2>1, WhoMirrors DEF Ordered
  <2>3. Held(buffer, In(saved.events)) /\ Settled(recorded, saved.events) /\ runs = 1
    <3>1. Held(buffer, In(saved.events)) /\ Settled(recorded, saved.events) /\ runs # 0
      BY <1>3, <2>2 DEF Thread
    <3> QED BY <2>1, <3>1, BaseIs DEF InTurn
  <2>4. Thread' /\ RowsSettled'
    BY <1>1, <1>3, <2>2, <2>3 DEF Thread, RowsSettled
  <2>5. Turn(c)'
    BY <1>1, <1>3, <2>3 DEF Turn, Moves
  <2> QED BY <2>1, <2>4, <2>5
<1> QED BY <1>2, <1>3, ResolveEffect

LEMMA OrderedOfRecord ==
    ASSUME Base, Ordered, NEW c \in Clients, RecordEvent(c)
    PROVE  Ordered'
<1> DEFINE r == [event |-> job[c].event, run |-> job[c].run]
<1>1. /\ Moves(c, "record", "mirror") /\ job'[c] = job[c] /\ job[c].event \in Events
      /\ buffer' = Push(buffer, job[c].event) /\ recorded' = Append(recorded, r)
      /\ UNCHANGED <<saved, rows, sent, runs, overlaps, deaths>>
  BY RecordEffect
<1> SUFFICES ASSUME InTurn' PROVE Ordered'
  BY DEF Ordered
<1>2. InTurn /\ Quiet(c)
  BY <1>1, QuietAtWork DEF InTurn
<1>3. /\ job[c].event \in sent /\ job[c].event \notin EventsOf(recorded) /\ job[c].event # Marker
      /\ Held(buffer, In(job[c].snap)) /\ Settled(recorded, job[c].snap) /\ runs = 1
  BY <1>1, <1>2, EntryFacts DEF Ordered, Turn, Moves
<1>4. /\ r \in [event: Events, run: Nat] /\ r.event = job[c].event /\ recorded \in Log
      /\ Once(recorded) /\ EventsOf(recorded) \subseteq sent /\ Thread /\ RowsSettled
  BY <1>1, <1>2, JobIs, BaseIs DEF Log, Ordered
<1> HIDE DEF r
<1>5. \A t : Settled(recorded, t) => Settled(recorded', t)
  BY <1>1, <1>3, <1>4, SettledLater
<1>6. /\ Once(recorded') /\ EventsOf(recorded') = EventsOf(recorded) \cup {job[c].event}
      /\ Orders(recorded', job[c].event) = {Len(recorded')}
  BY <1>1, <1>3, <1>4, LogAppended
<1>7. In(buffer') \subseteq In(buffer) \cup {job[c].event}
  BY <1>1, BaseIs, EntryFacts, PushIs
<1>8. Turn(c)'
  <2>1. job[c].event \notin In(job[c].snap)
    BY <1>3 DEF Settled
  <2>2. Held(buffer', In(job[c].snap) \cup {job[c].event})
    BY <1>3, <1>7 DEF Held
  <2> QED BY <1>1, <1>3, <1>5, <1>6, <2>1, <2>2 DEF Turn, Moves
<1>9. \A d \in Clients : Turn(d)'
  BY <1>1, <1>2, <1>8, TurnOfOther
<1>10. Thread'
  <2>1. Mirroring'
    BY <1>1, <1>2, WhoMirrors
  <2> QED BY <1>1, <1>3, <1>4, <1>5, <2>1 DEF Thread
<1>11. RowsSettled'
  BY <1>1, <1>4, <1>5 DEF RowsSettled
<1> QED BY <1>1, <1>3, <1>4, <1>6, <1>9, <1>10, <1>11 DEF Ordered

LEMMA OrderedOfMirror ==
    ASSUME Base, Ordered, NEW c \in Clients, MirrorEvent(c)
    PROVE  Ordered'
<1>1. /\ Moves(c, "mirror", "idle") /\ saved'.active = saved.active
      /\ saved'.events = Append(job[c].snap, job[c].event) /\ job[c].event \in Events
      /\ UNCHANGED <<buffer, rows, sent, runs, overlaps, deaths, recorded>>
  BY MirrorEffect
<1> SUFFICES ASSUME InTurn'
             PROVE  /\ InTurn /\ Quiet(c)
                    /\ Thread' /\ RowsSettled' /\ Turn(c)'
  BY <1>1, OrderedOfMove
<1>2. InTurn /\ Quiet(c)
  BY <1>1, QuietAtWork DEF InTurn
<1>3. /\ Orders(recorded, job[c].event) = {Len(recorded)} /\ job[c].event \notin In(job[c].snap)
      /\ Held(buffer, In(job[c].snap) \cup {job[c].event}) /\ Settled(recorded, job[c].snap)
      /\ runs = 1 /\ RowsSettled
  BY <1>1, <1>2 DEF Ordered, Turn, Moves
<1>4. recorded \in Log /\ job[c].snap \in Seq(Entries) /\ job[c].event \in Entries
  BY JobIs, BaseIs DEF Log
<1>5. Settled(recorded, saved'.events)
  BY <1>1, <1>3, <1>4, SettledThenLast
<1>6. In(saved'.events) = In(job[c].snap) \cup {job[c].event}
  BY <1>1, <1>4, InAppend
<1>7. Thread' /\ RowsSettled'
  BY <1>1, <1>3, <1>5, <1>6 DEF Thread, RowsSettled
<1>8. Turn(c)'
  BY <1>1 DEF Turn, Moves
<1> QED BY <1>2, <1>7, <1>8

LEMMA OrderedOfMerge ==
    ASSUME Base, Ordered, NEW c \in Clients, MergeAndMark(c)
    PROVE  Ordered'
<1>1. /\ Moves(c, "merge", "store")
      /\ buffer' = IF flagged THEN buffer ELSE Push(buffer, Marker)
      /\ UNCHANGED <<saved, rows, sent, runs, overlaps, deaths, recorded>>
  BY MergeEffect
<1> SUFFICES ASSUME InTurn'
             PROVE  /\ InTurn /\ Quiet(c)
                    /\ Thread' /\ RowsSettled' /\ Turn(c)'
  BY <1>1, OrderedOfMove
<1>2. InTurn /\ Quiet(c)
  BY <1>1, QuietAtWork DEF InTurn
<1>3. /\ Held(buffer, In(job[c].snap)) /\ Settled(recorded, job[c].snap)
      /\ runs = 1 /\ RowsSettled /\ Thread /\ ~Mirroring
  BY <1>1, <1>2, WhoMirrors DEF Ordered, Turn, Moves
<1>4. Settled(recorded, job'[c].merged)
  BY <1>3, MergeAddsMarkers DEF Held
<1>5. In(buffer') \subseteq In(buffer) \cup {Marker}
  BY <1>1, BaseIs, EntryFacts, PushIs
<1>6. Thread' /\ RowsSettled'
  BY <1>1, <1>3, <1>5 DEF Thread, RowsSettled, Held
<1>7. Turn(c)'
  BY <1>1, <1>3, <1>4 DEF Turn, Moves
<1> QED BY <1>2, <1>6, <1>7

LEMMA OrderedOfEnd ==
    ASSUME Base, Ordered, NEW c \in Clients, StoreFix(c) \/ UpdateFinalized(c) \/ ClearRecorder(c)
    PROVE  Ordered'
<1>1. CASE StoreFix(c)
  <2>1. /\ Moves(c, "store", "update") /\ (rows' = rows \/ rows' = Append(rows, Row(c)))
        /\ UNCHANGED <<saved, buffer, sent, runs, overlaps, deaths, recorded>>
    BY <1>1, StoreEffect
  <2> SUFFICES ASSUME InTurn'
               PROVE  /\ InTurn /\ Quiet(c)
                      /\ Thread' /\ RowsSettled' /\ Turn(c)'
    BY <2>1, OrderedOfMove
  <2>2. InTurn /\ Quiet(c)
    BY <2>1, QuietAtWork DEF InTurn
  <2>3. /\ Settled(recorded, job[c].merged) /\ runs = 1 /\ RowsSettled /\ Thread /\ ~Mirroring
    BY <2>1, <2>2, WhoMirrors DEF Ordered, Turn, Moves
  <2>4. RowsSettled'
    <3>1. CASE rows' = Append(rows, Row(c))
      BY <2>1, <2>3, <3>1, RowsAppended DEF RowsSettled
    <3>2. CASE rows' = rows
      BY <2>1, <2>3, <3>2 DEF RowsSettled
    <3> QED BY <2>1, <3>1, <3>2
  <2>5. Thread' /\ Turn(c)'
    BY <2>1, <2>3 DEF Thread, Turn, Moves
  <2> QED BY <2>2, <2>4, <2>5
<1>2. CASE UpdateFinalized(c) \/ ClearRecorder(c)
  <2>1. PICK from, to : /\ Moves(c, from, to) /\ from \in {"update", "clear"} /\ to \in {"clear", "idle"}
    BY <1>2, UpdateEffect, ClearEffect
  <2>2. /\ (saved' = saved \/ saved'.active = FALSE)
        /\ (buffer' = buffer \/ buffer' = << >>)
        /\ UNCHANGED <<rows, sent, runs, overlaps, deaths, recorded>>
    BY <1>2, UpdateEffect, ClearEffect
  <2> SUFFICES ASSUME InTurn'
               PROVE  /\ InTurn /\ Quiet(c)
                      /\ Thread' /\ RowsSettled' /\ Turn(c)'
    BY <2>1, <2>2, OrderedOfMove
  <2>3. InTurn /\ Quiet(c)
    BY <2>1, <2>2, QuietAtWork DEF InTurn
  <2>4. runs = 1 /\ RowsSettled /\ Thread /\ ~Mirroring
    BY <2>1, <2>3, WhoMirrors DEF Ordered, Turn, Moves
  <2>5. Held(buffer, In(saved.events)) => Held(buffer', In(saved.events))
    BY <2>2, InEmpty DEF Held
  <2> QED BY <2>1, <2>2, <2>3, <2>4, <2>5 DEF Thread, RowsSettled, Turn, Moves
<1> QED BY <1>1, <1>2

LEMMA OrderedStep == Base /\ Ordered /\ [Next]_vars => Ordered'
<1> SUFFICES ASSUME Base, Ordered, [Next]_vars PROVE Ordered'
  OBVIOUS
<1>1. CASE UNCHANGED vars
  BY <1>1 DEF Ordered, InTurn, Thread, RowsSettled, Turn, Mirroring, vars, requests, bounds
<1>2. CASE EmitNewIssue
  <2> SUFFICES ASSUME InTurn' PROVE Ordered'
    BY DEF Ordered
  <2>1. /\ saved'.active = TRUE /\ saved'.events = << >> /\ runs' = runs + 1
        /\ UNCHANGED <<buffer, rows, pc, job, sent, overlaps, deaths, recorded>>
    BY <1>2, EmitEffect
  <2>2. runs = 0 /\ runs' = 1 /\ InTurn
    BY <2>1, BaseIs DEF InTurn
  <2>3. buffer = << >> /\ \A c \in Clients : pc[c] = "idle"
    <3>1. buffer = << >>
      BY <2>2 DEF Ordered, Thread
    <3>2. \A c \in Clients : Turn(c) /\ runs # 1
      BY <2>2 DEF Ordered
    <3> QED BY <3>1, <3>2 DEF Turn
  <2>4. Settled(recorded, << >>) /\ Held(<< >>, In(<< >>))
    BY InEmpty DEF Settled, Held
  <2>5. Thread' /\ \A c \in Clients : Turn(c)'
    BY <2>1, <2>2, <2>3, <2>4 DEF Thread, Turn
  <2> QED BY <2>1, <2>2, <2>5 DEF Ordered, RowsSettled
<1>3. CASE Crash
  <2> SUFFICES ASSUME InTurn' PROVE Ordered'
    BY DEF Ordered
  <2>1. /\ \A c \in Clients : pc'[c] = "idle"
        /\ buffer' = << >>
        /\ UNCHANGED <<saved, rows, sent, runs, overlaps, deaths, recorded>>
    BY <1>3, CrashEffect
  <2>2. InTurn
    BY <2>1 DEF InTurn
  <2>3. Thread' /\ \A c \in Clients : Turn(c)'
    BY <2>1, <2>2, InEmpty DEF Ordered, Thread, Turn, Held
  <2> QED BY <2>1, <2>2, <2>3 DEF Ordered, RowsSettled
<1>4. ASSUME NEW c \in Clients, Die(c) PROVE Ordered'
  <2>1. deaths' # 0
    BY <1>4, DieEffect, BaseIs
  <2> QED BY <2>1 DEF Ordered, InTurn
<1> QED BY <1>1, <1>2, <1>3, <1>4, OrderedOfEvent, OrderedOfResolve, OrderedOfRecord, OrderedOfMirror,
           OrderedOfMerge, OrderedOfEnd DEF Next, Handler

(* For any number of requests, resolves and restarts, and any recorder: in *)
(* the one run of a thread, as long as no two requests were in flight at   *)
(* once and none died, a fix has its steps in the order they were          *)
(* recorded; the merge of the recorder adds nothing but markers.           *)
THEOREM OrderStaysKept == Spec => []OrderIsKept
<1>1. Base /\ Ordered => OrderIsKept
  <2> SUFFICES ASSUME Base, Ordered, InTurn PROVE TraceInOrder
    BY DEF OrderIsKept, InTurn
  <2> QED BY SettledInOrder DEF Ordered, RowsSettled, TraceInOrder
<1> QED BY <1>1, BaseInit, BaseStep, OrderedInit, OrderedStep, PTL DEF Spec

-----------------------------------------------------------------------------
(***************************************************************************)
(* One resolve, and events in flight beside it.                            *)
(***************************************************************************)
Late == {"merge", "store", "update", "clear"}

Lone == resolves <= 1 /\ crashes = 0 /\ Cardinality(sent) <= MaxEvents

(* The resolve is still to come, or has read and not merged. *)
Waiting == resolves = 0 \/ \E c \in Clients : pc[c] = "merge"

Recording == {c \in Clients : pc[c] = "record"}

OneResolve ==
    /\ resolves = 0 => \A c \in Clients : pc[c] \notin Late
    /\ \A c, d \in Clients : pc[c] \in Late /\ pc[d] \in Late => c = d

(* Until the merge the recorder has all that is acknowledged, whatever the *)
(* checkpoint has lost, and it never had to drop anything.                 *)
Whole ==
    /\ ~flagged
    /\ Marker \notin In(buffer) /\ Marker \notin In(saved.events)
    /\ acked \subseteq In(buffer)
    /\ Len(buffer) + Cardinality(Recording) <= Cardinality(sent)

Carried(c) ==
    /\ pc[c] \in {"record", "mirror", "merge"} => Marker \notin In(job[c].snap)
    /\ pc[c] = "mirror" => job[c].event \in In(buffer)
    /\ pc[c] = "merge" => job[c].owed \subseteq In(buffer)

(* A trace makes up for what is owed, except for what shares its time with *)
(* an entry of the trace.                                                  *)
Meets(trace, owed) == owed \cap Deeds \subseteq Told(trace) \cup Twins(trace)

Met(c) == pc[c] = "store" => Meets(job[c].merged, job[c].owed)

RowsMeet == \A k \in DOMAIN rows : Meets(rows[k].trace, rows[k].owed)

LoneInv ==
    /\ IsFiniteSet(sent)
    /\ Lone => /\ OneResolve
               /\ Waiting => Whole /\ \A c \in Clients : Carried(c)
               /\ \A c \in Clients : Met(c)
               /\ RowsMeet

LEMMA LoneInit == Init => LoneInv
<1> SUFFICES ASSUME Init PROVE LoneInv
  OBVIOUS
<1>1. /\ \A c \in Clients : pc[c] = "idle"
      /\ buffer = << >> /\ saved.events = << >> /\ flagged = FALSE /\ acked = {} /\ sent = {} /\ rows = << >>
  BY DEF Init
<1>2. Recording = {}
  BY <1>1 DEF Recording
<1>3. IsFiniteSet({}) /\ Cardinality({}) = 0 /\ Len(<< >>) = 0
  BY FS_EmptySet
<1>4. Whole
  BY <1>1, <1>2, <1>3, InEmpty DEF Whole
<1> QED BY <1>1, <1>3, <1>4 DEF LoneInv, OneResolve, Carried, Met, RowsMeet, Late

LEMMA Counted ==
    ASSUME Base, LoneInv
    PROVE  /\ IsFiniteSet(sent) /\ Cardinality(sent) \in Nat
           /\ IsFiniteSet(Recording) /\ Cardinality(Recording) \in Nat
           /\ Len(buffer) \in Nat /\ MaxEvents \in Nat
<1>1. IsFiniteSet(Recording)
  BY ClientAssumption, FS_Subset DEF Recording
<1> QED BY <1>1, BaseIs, CapacityAssumption, FS_CardinalityType DEF LoneInv

(* One step of a request, or of nobody's. *)
LEMMA LoneOfMove ==
    ASSUME Base, LoneInv, NEW c \in Clients, NEW from, NEW to, Moves(c, from, to), IsFiniteSet(sent'),
           Lone' => /\ Lone /\ OneResolve' /\ RowsMeet' /\ Met(c)'
                    /\ Waiting' => Waiting /\ Whole' /\ Carried(c)' /\ In(buffer) \subseteq In(buffer')
    PROVE  LoneInv'
<1> SUFFICES ASSUME Lone' PROVE LoneInv'
  BY DEF LoneInv
<1>1. ASSUME NEW d \in Clients PROVE Met(d)'
  BY DEF LoneInv, Met, Moves
<1>2. ASSUME Waiting', NEW d \in Clients PROVE Carried(d)'
  <2>1. CASE d = c
    BY <1>2, <2>1
  <2>2. CASE d # c
    <3>1. pc'[d] = pc[d] /\ job'[d] = job[d] /\ Carried(d) /\ In(buffer) \subseteq In(buffer')
      BY <1>2, <2>2 DEF LoneInv, Moves
    <3> QED BY <3>1 DEF Carried
  <2> QED BY <2>1, <2>2
<1> QED BY <1>1, <1>2 DEF LoneInv

(* Who resolves, after a step of a resolve and after one of an event. *)
LEMMA ResolveMoves ==
    ASSUME NEW c \in Clients, NEW from, NEW to, Moves(c, from, to), from \in Late,
           to \in {"store", "update", "clear", "idle"}, resolves' = resolves, OneResolve
    PROVE  OneResolve' /\ ~Waiting'
BY DEF Moves, OneResolve, Waiting, Late

LEMMA EventMoves ==
    ASSUME NEW c \in Clients, NEW from, NEW to, Moves(c, from, to), from \notin Late, to \notin Late,
           resolves' = resolves, OneResolve
    PROVE  OneResolve' /\ (Waiting' <=> Waiting)
BY DEF Moves, OneResolve, Waiting, Late

(* A step that posts nothing keeps the bounds. *)
LEMMA LoneBefore ==
    ASSUME Base, LoneInv, Lone', crashes' = crashes, resolves' = resolves \/ resolves' = resolves + 1,
           sent' = sent \/ \E e : sent' = sent \cup {e}
    PROVE  Lone
<1>1. Cardinality(sent) <= Cardinality(sent')
  <2>1. CASE sent' = sent
    BY <2>1, Counted
  <2>2. ASSUME NEW e, sent' = sent \cup {e} PROVE Cardinality(sent) <= Cardinality(sent')
    <3>1. IsFiniteSet(sent') /\ sent \subseteq sent'
      BY <2>2, Counted, FS_AddElement
    <3> QED BY <3>1, FS_Subset
  <2> QED BY <2>1, <2>2
<1>2. Cardinality(sent') \in Nat
  <2>1. IsFiniteSet(sent')
    BY Counted, FS_AddElement
  <2> QED BY <2>1, FS_CardinalityType
<1> QED BY <1>1, <1>2, BaseIs, Counted DEF Lone

LEMMA LoneOfEvent ==
    ASSUME Base, LoneInv, NEW c \in Clients, ReadForEvent(c)
    PROVE  LoneInv'
<1>1. PICK e \in Events \ sent :
          /\ sent' = sent \cup {e}
          /\ \/ UNCHANGED <<pc, job, overlaps>>
             \/ /\ Moves(c, "idle", "record") /\ saved.active /\ Begins(c)
                /\ job'[c].event = e /\ job'[c].snap = saved.events
  BY EventEffect
<1>2. UNCHANGED <<saved, buffer, flagged, rows, resolves, crashes, acked>>
  BY EventEffect
<1>3. IsFiniteSet(sent') /\ Cardinality(sent') = Cardinality(sent) + 1
  BY <1>1, Counted, FS_AddElement
<1>4. Lone' => Lone
  BY <1>1, <1>2, LoneBefore
<1>5. CASE UNCHANGED <<pc, job, overlaps>>
  <2>1. Recording' = Recording
    BY <1>5 DEF Recording
  <2>2. Whole => Whole'
    BY <1>2, <1>3, <2>1, Counted DEF Whole
  <2>3. \A d \in Clients : (Carried(d) => Carried(d)') /\ (Met(d) => Met(d)')
    BY <1>2, <1>5 DEF Carried, Met
  <2>4. (OneResolve' <=> OneResolve) /\ (Waiting' <=> Waiting) /\ (RowsMeet' <=> RowsMeet)
    BY <1>2, <1>5 DEF OneResolve, Waiting, RowsMeet
  <2> QED BY <1>3, <1>4, <2>2, <2>3, <2>4 DEF LoneInv
<1>6. ASSUME Moves(c, "idle", "record"), job'[c].event = e, job'[c].snap = saved.events
      PROVE  LoneInv'
  <2>1. Recording' = Recording \cup {c} /\ c \notin Recording
    BY <1>6 DEF Moves, Recording
  <2>2. Cardinality(Recording') = Cardinality(Recording) + 1
    BY <2>1, Counted, FS_AddElement
  <2>3. Whole => Whole'
    BY <1>2, <1>3, <2>2, Counted DEF Whole
  <2>4. Whole => Carried(c)'
    BY <1>2, <1>6 DEF Carried, Moves, Whole
  <2>5. (OneResolve => OneResolve' /\ (Waiting' <=> Waiting)) /\ (RowsMeet' <=> RowsMeet) /\ Met(c)'
    BY <1>2, <1>6, EventMoves DEF Late, RowsMeet, Met, Moves
  <2> QED BY <1>2, <1>3, <1>4, <1>6, <2>3, <2>4, <2>5, LoneOfMove DEF LoneInv
<1> QED BY <1>1, <1>5, <1>6

LEMMA LoneOfResolve ==
    ASSUME Base, LoneInv, NEW c \in Clients, ReadForResolve(c)
    PROVE  LoneInv'
<1>1. /\ UNCHANGED <<saved, buffer, flagged, rows, sent, crashes, acked>>
      /\ resolves' = resolves + 1
  BY ResolveEffect
<1>2. /\ IsFiniteSet(sent')
      /\ Lone' => Lone /\ resolves = 0
  <2>1. Lone' => resolves = 0
    BY <1>1, BaseIs DEF Lone
  <2> QED BY <1>1, <2>1, LoneBefore DEF LoneInv
<1>3. CASE UNCHANGED <<pc, job, overlaps>>
  <2> SUFFICES ASSUME Lone' PROVE LoneInv'
    BY <1>2 DEF LoneInv
  <2>1. OneResolve /\ Waiting /\ resolves' # 0 /\ \A d \in Clients : pc[d] \notin Late
    BY <1>1, <1>2 DEF LoneInv, Waiting, OneResolve
  <2>2. OneResolve' /\ ~Waiting'
    BY <1>1, <1>2, <1>3, <2>1 DEF OneResolve, Waiting, Late
  <2>3. (\A d \in Clients : Met(d)') /\ RowsMeet'
    BY <1>1, <1>2, <1>3 DEF LoneInv, Met, RowsMeet
  <2> QED BY <1>2, <2>2, <2>3 DEF LoneInv
<1>4. ASSUME Moves(c, "idle", "merge"), job'[c].snap = saved.events, job'[c].owed = acked
      PROVE  LoneInv'
  <2>1. ASSUME Lone'
        PROVE  OneResolve' /\ RowsMeet' /\ Met(c)' /\ Waiting
    <3>1. \A d \in Clients : pc[d] \notin Late
      BY <1>2, <2>1 DEF LoneInv, OneResolve
    <3>2. OneResolve'
      BY <1>1, <1>2, <1>4, <2>1, <3>1 DEF OneResolve, Moves
    <3> QED BY <1>1, <1>2, <1>4, <2>1, <3>2 DEF LoneInv, RowsMeet, Met, Waiting, Moves
  <2>2. ASSUME Lone' PROVE Whole' /\ Carried(c)'
    <3>1. Whole
      BY <1>2, <2>1, <2>2 DEF LoneInv
    <3>2. Recording' = Recording
      BY <1>4 DEF Recording, Moves
    <3>3. Whole'
      BY <1>1, <3>1, <3>2 DEF Whole
    <3>4. Carried(c)'
      BY <1>1, <1>4, <3>1 DEF Carried, Whole, Moves
    <3> QED BY <3>3, <3>4
  <2> QED BY <1>1, <1>2, <1>4, <2>1, <2>2, LoneOfMove
<1> QED BY <1>3, <1>4, ResolveEffect

LEMMA LoneOfRecord ==
    ASSUME Base, LoneInv, NEW c \in Clients, RecordEvent(c)
    PROVE  LoneInv'
<1>1. /\ Moves(c, "record", "mirror") /\ job'[c] = job[c] /\ job[c].event \in Events
      /\ buffer' = Push(buffer, job[c].event)
      /\ UNCHANGED <<saved, flagged, rows, sent, resolves, crashes, acked>>
  BY RecordEffect
<1>2. IsFiniteSet(sent') /\ (Lone' => Lone)
  BY <1>1, LoneBefore DEF LoneInv
<1>3. /\ OneResolve => OneResolve' /\ (Waiting' <=> Waiting)
      /\ RowsMeet' <=> RowsMeet
      /\ Met(c)'
  BY <1>1, EventMoves DEF Late, RowsMeet, Met, Moves
<1>4. ASSUME Lone, Whole, Carried(c) PROVE Whole' /\ Carried(c)' /\ In(buffer) \subseteq In(buffer')
  <2>1. Recording' = Recording \ {c} /\ c \in Recording
    BY <1>1 DEF Recording, Moves
  <2>2. Cardinality(Recording') = Cardinality(Recording) - 1
    BY <2>1, Counted, FS_RemoveElement
  <2>3. Cardinality(Recording) # 0
    BY <2>1, Counted, FS_EmptySet
  <2>4. Len(buffer) < MaxEvents
    BY <1>4, <2>3, Counted DEF Whole, Lone
  <2>5. In(buffer') = In(buffer) \cup {job[c].event} /\ Len(buffer') = Len(buffer) + 1
    BY <1>1, <2>4, BaseIs, EntryFacts, PushIs
  <2>6. Whole'
    BY <1>1, <1>4, <2>2, <2>5, Counted, EntryFacts DEF Whole
  <2>7. Carried(c)'
    BY <1>1, <1>4, <2>5 DEF Carried, Moves
  <2> QED BY <2>5, <2>6, <2>7
<1> QED BY <1>1, <1>2, <1>3, <1>4, LoneOfMove DEF LoneInv

LEMMA LoneOfMirror ==
    ASSUME Base, LoneInv, NEW c \in Clients, MirrorEvent(c)
    PROVE  LoneInv'
<1>1. /\ Moves(c, "mirror", "idle")
      /\ saved'.events = Append(job[c].snap, job[c].event) /\ job[c].event \in Events
      /\ (acked' = acked \/ acked' = acked \cup {job[c].event})
      /\ UNCHANGED <<buffer, flagged, rows, sent, resolves, crashes>>
  BY MirrorEffect
<1>2. IsFiniteSet(sent') /\ (Lone' => Lone)
  BY <1>1, LoneBefore DEF LoneInv
<1>3. /\ OneResolve => OneResolve' /\ (Waiting' <=> Waiting)
      /\ RowsMeet' <=> RowsMeet
      /\ Met(c)'
  BY <1>1, EventMoves DEF Late, RowsMeet, Met, Moves
<1>4. ASSUME Whole, Carried(c) PROVE Whole' /\ Carried(c)'
  <2>1. Recording' = Recording
    BY <1>1 DEF Recording, Moves
  <2>2. In(saved'.events) = In(job[c].snap) \cup {job[c].event}
    BY <1>1, JobIs, InAppend
  <2>3. Marker \notin In(saved'.events) /\ acked' \subseteq In(buffer)
    BY <1>1, <1>4, <2>2, EntryFacts DEF Carried, Moves, Whole
  <2>4. Whole'
    BY <1>1, <1>4, <2>1, <2>3 DEF Whole
  <2> QED BY <1>1, <2>4 DEF Carried, Moves
<1> QED BY <1>1, <1>2, <1>3, <1>4, LoneOfMove DEF LoneInv

(* A live entry the merge leaves out has its time from a known one, so it  *)
(* is a twin of what every longer trace has.                               *)
LEMMA MergeMisses ==
    ASSUME NEW known \in Seq(Entries), NEW live \in Seq(Entries), NEW t \in Seq(Entries)
    PROVE  /\ In(known) \subseteq In(Merge(known, live))
           /\ In(Merge(known, live)) \subseteq In(known) \cup In(live)
           /\ In(live) \cap Events \subseteq In(Merge(known, live)) \cup Twins(Merge(known, live) \o t)
<1> DEFINE m == Merge(known, live)
<1>1. m \in Seq(Entries) /\ In(m) = In(known) \cup Newer(known, live)
  BY MergeIs
<1>2. In(m \o t) = In(m) \cup In(t)
  BY <1>1, InConcat
<1> HIDE DEF m
<1>3. Newer(known, live) \subseteq In(live)
  BY DEF Newer
<1>4. ASSUME NEW e \in In(live), e \in Events, e \notin In(m) PROVE e \in Twins(m \o t)
  <2>1. PICK d \in In(known) : Stamp[e] = Stamp[d]
    BY <1>1, <1>4 DEF Newer
  <2>2. d \in In(m \o t) /\ d # e
    BY <1>1, <1>2, <1>4, <2>1
  <2> QED BY <1>4, <2>1, <2>2 DEF Twins
<1> QED BY <1>1, <1>3, <1>4 DEF m

(* The merge puts what the recorder has before the marker. *)
LEMMA LoneOfMerge ==
    ASSUME Base, LoneInv, NEW c \in Clients, MergeAndMark(c)
    PROVE  LoneInv'
<1>1. /\ Moves(c, "merge", "store") /\ job'[c].owed = job[c].owed
      /\ job'[c].merged = IF flagged THEN Merge(job[c].snap, buffer)
                          ELSE Merge(Merge(job[c].snap, buffer), Push(buffer, Marker))
      /\ UNCHANGED <<saved, rows, sent, resolves, crashes, acked>>
  BY MergeEffect
<1>2. IsFiniteSet(sent') /\ (Lone' => Lone)
  BY <1>1, LoneBefore DEF LoneInv
<1>3. /\ OneResolve => OneResolve' /\ ~Waiting'
      /\ RowsMeet' <=> RowsMeet
  BY <1>1, ResolveMoves DEF Late, RowsMeet
<1>4. ASSUME Lone PROVE Met(c)'
  <2>1. Whole /\ Carried(c)
    BY <1>1, <1>4 DEF LoneInv, Waiting, Moves
  <2> DEFINE live == Merge(job[c].snap, buffer)
             marked == Push(buffer, Marker)
             v == Selected(marked, Newer(live, marked))
  <2>2. marked \in Seq(Entries) /\ buffer \in Seq(Entries) /\ job[c].snap \in Seq(Entries)
    BY BaseIs, JobIs, EntryFacts, PushIs
  <2>3. live \in Seq(Entries)
    BY <2>2, MergeIs
  <2>4. Merge(live, marked) = live \o v /\ v \in Seq(Entries)
    BY <2>2, <2>3, MergeIs
  <2>5. job'[c].merged = live \o v
    BY <1>1, <2>1, <2>4 DEF Whole
  <2> HIDE DEF v, marked
  <2>6. /\ In(live) \subseteq In(job[c].snap) \cup In(buffer)
        /\ In(buffer) \cap Events \subseteq In(live) \cup Twins(live \o v)
    BY <2>2, <2>4, MergeMisses
  <2> HIDE DEF live
  <2>7. Marker \notin In(live)
    BY <1>1, <2>1, <2>6 DEF Whole, Carried, Moves
  <2>8. In(live) \cap Deeds \subseteq Told(live \o v)
    BY <2>3, <2>4, <2>7, DeedsAreTold
  <2>9. job[c].owed \subseteq In(buffer) /\ Deeds \subseteq Events
    BY <1>1, <2>1 DEF Carried, Moves, Deeds
  <2>10. Meets(job'[c].merged, job'[c].owed)
    BY <1>1, <2>5, <2>6, <2>8, <2>9 DEF Meets
  <2> QED BY <2>10 DEF Met
<1> QED BY <1>1, <1>2, <1>3, <1>4, LoneOfMove DEF LoneInv

LEMMA LoneOfEnd ==
    ASSUME Base, LoneInv, NEW c \in Clients,
           StoreFix(c) \/ UpdateFinalized(c) \/ ClearRecorder(c)
    PROVE  LoneInv'
<1>1. PICK from, to :
          /\ Moves(c, from, to) /\ from \in {"store", "update", "clear"} /\ to \in {"update", "clear", "idle"}
          /\ UNCHANGED <<sent, resolves, crashes>>
  BY StoreEffect, UpdateEffect, ClearEffect
<1>2. IsFiniteSet(sent') /\ (Lone' => Lone)
  BY <1>1, LoneBefore DEF LoneInv
<1>3. (OneResolve => OneResolve' /\ ~Waiting') /\ Met(c)'
  BY <1>1, ResolveMoves DEF Late, Met, Moves
<1>4. ASSUME Lone PROVE RowsMeet'
  <2>1. RowsMeet /\ Met(c)
    BY <1>4 DEF LoneInv
  <2>2. CASE StoreFix(c)
    <3>1. pc[c] = "store" /\ (rows' = rows \/ rows' = Append(rows, Row(c)))
      BY <2>2, StoreEffect DEF Moves
    <3>2. CASE rows' = Append(rows, Row(c))
      BY <2>1, <3>1, <3>2, RowsAppended DEF RowsMeet, Met
    <3>3. CASE rows' = rows
      BY <2>1, <3>3 DEF RowsMeet
    <3> QED BY <3>1, <3>2, <3>3
  <2>3. CASE UpdateFinalized(c) \/ ClearRecorder(c)
    <3>1. rows' = rows
      BY <2>3, UpdateEffect, ClearEffect
    <3> QED BY <2>1, <3>1 DEF RowsMeet
  <2> QED BY <2>2, <2>3
<1> QED BY <1>1, <1>2, <1>3, <1>4, LoneOfMove DEF LoneInv

(* A request that dies takes nothing from the recorder. *)
LEMMA LoneOfDie ==
    ASSUME Base, LoneInv, NEW c \in Clients, Die(c)
    PROVE  LoneInv'
<1>1. /\ Moves(c, pc[c], "idle") /\ pc[c] # "idle"
      /\ UNCHANGED <<saved, buffer, flagged, rows, sent, resolves, crashes, acked>>
  BY DieEffect
<1>2. IsFiniteSet(sent') /\ (Lone' => Lone) /\ (RowsMeet' <=> RowsMeet) /\ Met(c)' /\ Carried(c)'
  BY <1>1, LoneBefore DEF LoneInv, RowsMeet, Met, Carried, Moves
<1>3. OneResolve => OneResolve' /\ (Waiting' => Waiting)
  BY <1>1, ResolveMoves, EventMoves DEF Late
<1>4. Whole => Whole'
  <2>1. Recording' \subseteq Recording
    BY <1>1 DEF Recording, Moves
  <2>2. Cardinality(Recording') \in Nat /\ Cardinality(Recording') <= Cardinality(Recording)
    BY <2>1, Counted, FS_Subset, FS_CardinalityType
  <2> QED BY <1>1, <2>2, Counted DEF Whole
<1> QED BY <1>1, <1>2, <1>3, <1>4, LoneOfMove DEF LoneInv

LEMMA LoneStep == Base /\ LoneInv /\ [Next]_vars => LoneInv'
<1> SUFFICES ASSUME Base, LoneInv, [Next]_vars PROVE LoneInv'
  OBVIOUS
<1>1. CASE UNCHANGED vars
  BY <1>1 DEF LoneInv, Lone, OneResolve, Waiting, Whole, Carried, Met, RowsMeet, Recording,
              vars, requests, bounds
<1>2. CASE EmitNewIssue
  <2>1. /\ saved'.events = << >> /\ acked' = {}
        /\ UNCHANGED <<buffer, flagged, rows, pc, job, sent, resolves, crashes>>
    BY <1>2, EmitEffect
  <2>2. (Lone' <=> Lone) /\ (OneResolve' <=> OneResolve) /\ (Waiting' <=> Waiting) /\ (RowsMeet' <=> RowsMeet)
    BY <2>1 DEF Lone, OneResolve, Waiting, RowsMeet
  <2>3. \A c \in Clients : (Carried(c)' <=> Carried(c)) /\ (Met(c)' <=> Met(c))
    BY <2>1 DEF Carried, Met
  <2>4. Whole => Whole'
    BY <2>1, InEmpty DEF Whole, Recording
  <2> QED BY <2>1, <2>2, <2>3, <2>4 DEF LoneInv
<1>3. CASE Crash
  <2>1. crashes' # 0 /\ sent' = sent
    BY <1>3, CrashEffect, BaseIs
  <2> QED BY <2>1 DEF LoneInv, Lone
<1> QED BY <1>1, <1>2, <1>3, LoneOfEvent, LoneOfResolve, LoneOfRecord, LoneOfMirror, LoneOfMerge,
           LoneOfEnd, LoneOfDie DEF Next, Handler

(* For any number of events in flight at once, of runs and of dead         *)
(* requests: one resolve and a recorder that is large enough make a fix    *)
(* that has every acknowledged deed though the checkpoint lost some, or    *)
(* has it behind a hook's resolution, or has another of the same time: the *)
(* merge tells entries apart by their times.                               *)
THEOREM LoneResolveStaysComplete == Spec => []LoneResolveIsComplete
<1>1. Base /\ LoneInv => LoneResolveIsComplete
  BY DEF LoneInv, Lone, RowsMeet, Meets, Told, LoneResolveIsComplete
<1> QED BY <1>1, BaseInit, BaseStep, LoneInit, LoneStep, PTL DEF Spec

=============================================================================
