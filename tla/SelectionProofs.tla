-------------------------- MODULE SelectionProofs ---------------------------
(***************************************************************************)
(* Induction over numbers and sequences, for a property given as the set   *)
(* of what has it, and what it shows of Selections.                        *)
(***************************************************************************)
EXTENDS Selections, WellFoundedInduction, TLAPS

NumberOrder == {ss \in Nat \X Nat : ss[1] < ss[2]}

(* A set of numbers that is not empty has a least one. *)
LEMMA LeastNumber ==
    ASSUME NEW S, S \subseteq Nat, S # {}
    PROVE  \E m \in S : \A n \in S : m <= n
<1>0. IsWellFoundedOn(NumberOrder, Nat)
  BY NatLessThanWellFounded DEF OpToRel, NumberOrder
<1>1. PICK m \in S : \A n \in S : ~(<<n, m>> \in NumberOrder)
  BY <1>0, WFMin
<1>2. \A n \in S : ~(n < m)
  BY <1>1 DEF NumberOrder
<1> QED BY <1>2

(* A set that has 0, and with n also n + 1, has every number. *)
LEMMA Induction ==
    ASSUME NEW S, 0 \in S, \A n \in Nat : n \in S => n + 1 \in S
    PROVE  \A n \in Nat : n \in S
<1> SUFFICES ASSUME Nat \ S # {} PROVE FALSE
  OBVIOUS
<1>1. PICK m \in Nat \ S : \A n \in Nat \ S : m <= n
  BY LeastNumber
<1>2. m # 0 /\ m - 1 \in Nat /\ ~(m <= m - 1)
  BY <1>1
<1>3. m - 1 \in S
  BY <1>1, <1>2
<1> QED BY <1>1, <1>2, <1>3

-----------------------------------------------------------------------------
(***************************************************************************)
(* The recursion is defined: a function that selects up to item n.         *)
(***************************************************************************)
IsSelection(f, s, S, n) ==
    f = [k \in 0 .. n |-> IF k = 0 THEN << >>
                          ELSE IF s[k] \in S THEN Append(f[k - 1], s[k])
                          ELSE f[k - 1]]

(* What such a function has at 0, and at k + 1. *)
LEMMA SelectionZero ==
    ASSUME NEW s, NEW S, NEW n \in Nat, NEW f, IsSelection(f, s, S, n)
    PROVE  f[0] = << >>
BY DEF IsSelection

LEMMA SelectionStep ==
    ASSUME NEW s, NEW S, NEW n \in Nat, NEW f, IsSelection(f, s, S, n), NEW k \in Nat, k + 1 <= n
    PROVE  f[k + 1] = IF s[k + 1] \in S THEN Append(f[k], s[k + 1]) ELSE f[k]
<1> DEFINE G(i) == IF i = 0 THEN << >> ELSE IF s[i] \in S THEN Append(f[i - 1], s[i]) ELSE f[i - 1]
<1>1. f = [i \in 0 .. n |-> G(i)]
  BY DEF IsSelection
<1>2. \A i \in 0 .. n : f[i] = G(i)
  <2> HIDE DEF G
  <2> QED BY <1>1
<1>3. k + 1 \in 0 .. n /\ k + 1 # 0 /\ (k + 1) - 1 = k
  OBVIOUS
<1> QED BY <1>2, <1>3

(* There is one, for any n. *)
LEMMA SelectionExists ==
    ASSUME NEW s, NEW S
    PROVE  \A n \in Nat : \E f : IsSelection(f, s, S, n)
<1> DEFINE Done == {n \in Nat : \E f : IsSelection(f, s, S, n)}
<1>1. 0 \in Done
  <2>1. IsSelection([k \in 0 .. 0 |-> << >>], s, S, 0)
    BY DEF IsSelection
  <2> QED BY <2>1
<1>2. ASSUME NEW n \in Nat, n \in Done PROVE n + 1 \in Done
  <2>1. PICK f : IsSelection(f, s, S, n)
    BY <1>2
  <2> DEFINE Next(k) == IF k = 0 THEN << >> ELSE IF s[k] \in S THEN Append(f[k - 1], s[k]) ELSE f[k - 1]
             g == [k \in 0 .. (n + 1) |-> Next(k)]
  <2>2. \A k \in 0 .. n : g[k] = f[k]
    <3>1. f[0] = << >>
      BY <2>1, SelectionZero
    <3>2. ASSUME NEW k \in 1 .. n PROVE f[k] = IF s[k] \in S THEN Append(f[k - 1], s[k]) ELSE f[k - 1]
      <4>1. PICK j \in Nat : k = j + 1
        <5>1. k - 1 \in Nat /\ k = (k - 1) + 1
          OBVIOUS
        <5> QED BY <5>1
      <4>2. j + 1 <= n /\ k - 1 = j
        BY <4>1
      <4>3. f[j + 1] = IF s[j + 1] \in S THEN Append(f[j], s[j + 1]) ELSE f[j]
        BY <2>1, <4>2, SelectionStep
      <4> QED BY <4>1, <4>2, <4>3
    <3> QED BY <3>1, <3>2
  <2>3. \A k \in 0 .. (n + 1) : k # 0 => k - 1 \in 0 .. n
    OBVIOUS
  <2>4. \A k \in 0 .. (n + 1) :
            Next(k) = IF k = 0 THEN << >> ELSE IF s[k] \in S THEN Append(g[k - 1], s[k]) ELSE g[k - 1]
    <3> HIDE DEF g
    <3> QED BY <2>2, <2>3
  <2>5. IsSelection(g, s, S, n + 1)
    <3>1. g = [k \in 0 .. (n + 1) |-> Next(k)]
      OBVIOUS
    <3> HIDE DEF g, Next
    <3> QED BY <2>4, <3>1, Zenon DEF IsSelection
  <2> QED BY <2>5
<1> HIDE DEF Done
<1>3. \A n \in Nat : n \in Done
  BY <1>1, <1>2, Induction
<1> QED BY <1>3 DEF Done

AgreeUpTo(s, t, n) == \A k \in 1 .. n : s[k] = t[k]

(* Two sequences that agree up to n have one selection up to there. *)
LEMMA SelectionIsUnique ==
    ASSUME NEW s, NEW t, NEW S, NEW n \in Nat, NEW m \in Nat, NEW f, NEW g,
           IsSelection(f, s, S, n), IsSelection(g, t, S, m), n <= m,
           AgreeUpTo(s, t, n)
    PROVE  f[n] = g[n]
<1> DEFINE Same == {k \in Nat : k <= n => f[k] = g[k]}
<1>1. f[0] = << >> /\ g[0] = << >>
  BY SelectionZero
<1>2. 0 \in Same
  BY <1>1
<1>3. ASSUME NEW k \in Nat, k \in Same PROVE k + 1 \in Same
  <2>1. ASSUME k + 1 <= n PROVE f[k + 1] = g[k + 1]
    <3>1. k + 1 \in 1 .. n /\ k + 1 <= m /\ k <= n
      BY <2>1
    <3>2. f[k] = g[k] /\ s[k + 1] = t[k + 1]
      BY <1>3, <3>1 DEF AgreeUpTo
    <3>3. f[k + 1] = IF s[k + 1] \in S THEN Append(f[k], s[k + 1]) ELSE f[k]
      BY <2>1, SelectionStep
    <3>4. g[k + 1] = IF t[k + 1] \in S THEN Append(g[k], t[k + 1]) ELSE g[k]
      BY <3>1, SelectionStep
    <3> QED BY <3>2, <3>3, <3>4
  <2> QED BY <2>1
<1> HIDE DEF Same
<1>4. \A k \in Nat : k \in Same
  BY <1>2, <1>3, Induction
<1> QED BY <1>4 DEF Same

(* Selected is what the recursion says of the last item. *)
LEMMA SelectedIs ==
    ASSUME NEW s, NEW S, Len(s) \in Nat
    PROVE  \E f : IsSelection(f, s, S, Len(s)) /\ Selected(s, S) = f[Len(s)]
<1> DEFINE f == CHOOSE f : IsSelection(f, s, S, Len(s))
<1>1. IsSelection(f, s, S, Len(s))
  BY SelectionExists
<1>2. Selected(s, S) = f[Len(s)]
  BY DEF Selected, IsSelection
<1> QED BY <1>1, <1>2

(* A selection, item by item. *)
LEMMA SelectedEmpty ==
    ASSUME NEW S
    PROVE  Selected(<< >>, S) = << >>
<1>1. PICK f : IsSelection(f, << >>, S, 0) /\ Selected(<< >>, S) = f[0]
  BY SelectedIs
<1>2. f[0] = << >>
  BY <1>1, SelectionZero
<1> QED BY <1>1, <1>2

LEMMA SelectedAppend ==
    ASSUME NEW T, NEW s \in Seq(T), NEW e \in T, NEW S
    PROVE  Selected(Append(s, e), S) = IF e \in S THEN Append(Selected(s, S), e) ELSE Selected(s, S)
<1> DEFINE t == Append(s, e)
<1>1. /\ Len(s) \in Nat /\ Len(t) = Len(s) + 1 /\ t[Len(s) + 1] = e
      /\ \A k \in 1 .. Len(s) : s[k] = t[k]
  OBVIOUS
<1> HIDE DEF t
<1>2. PICK f : IsSelection(f, s, S, Len(s)) /\ Selected(s, S) = f[Len(s)]
  BY <1>1, SelectedIs
<1>3. PICK g : IsSelection(g, t, S, Len(t)) /\ Selected(t, S) = g[Len(t)]
  BY <1>1, SelectedIs
<1>4. f[Len(s)] = g[Len(s)]
  <2>1. Len(t) \in Nat /\ Len(s) <= Len(t) /\ AgreeUpTo(s, t, Len(s))
    BY <1>1 DEF AgreeUpTo
  <2> QED BY <1>1, <1>2, <1>3, <2>1, SelectionIsUnique
<1>5. g[Len(s) + 1] = IF e \in S THEN Append(g[Len(s)], e) ELSE g[Len(s)]
  <2>1. Len(t) \in Nat /\ Len(s) + 1 <= Len(t)
    BY <1>1
  <2>2. g[Len(s) + 1] = IF t[Len(s) + 1] \in S THEN Append(g[Len(s)], t[Len(s) + 1]) ELSE g[Len(s)]
    BY <1>1, <1>3, <2>1, SelectionStep
  <2> QED BY <1>1, <2>2
<1> QED BY <1>1, <1>2, <1>3, <1>4, <1>5 DEF t

-----------------------------------------------------------------------------
(***************************************************************************)
(* Sequences.                                                              *)
(***************************************************************************)

(* What holds of the empty sequence, and of a longer one when it holds of  *)
(* what comes before the last item, holds of every sequence.               *)
LEMMA AppendInduction ==
    ASSUME NEW T, NEW P, << >> \in P, \A s \in Seq(T), e \in T : s \in P => Append(s, e) \in P
    PROVE  \A s \in Seq(T) : s \in P
<1> DEFINE N == {n \in Nat : \A s \in Seq(T) : Len(s) = n => s \in P}
<1>1. 0 \in N
  <2>1. \A s \in Seq(T) : Len(s) = 0 => s = << >>
    OBVIOUS
  <2> QED BY <2>1
<1>2. ASSUME NEW n \in Nat, n \in N PROVE n + 1 \in N
  <2>1. ASSUME NEW s \in Seq(T), Len(s) = n + 1 PROVE s \in P
    <3> DEFINE t == SubSeq(s, 1, n)
    <3>1. t \in Seq(T) /\ Len(t) = n /\ s[n + 1] \in T
      BY <2>1
    <3>2. s = Append(t, s[n + 1])
      BY <2>1
    <3>3. t \in P
      BY <1>2, <3>1
    <3> HIDE DEF t
    <3> QED BY <3>1, <3>2, <3>3
  <2> QED BY <2>1
<1> HIDE DEF N
<1>3. \A n \in Nat : n \in N
  BY <1>1, <1>2, Induction
<1> QED BY <1>3 DEF N

(* What is in a sequence. *)
LEMMA InAppend ==
    ASSUME NEW T, NEW s \in Seq(T), NEW e
    PROVE  In(Append(s, e)) = In(s) \cup {e}
<1>1. Len(Append(s, e)) = Len(s) + 1 /\ Len(s) \in Nat
  OBVIOUS
<1>2. \A k \in DOMAIN s : k \in DOMAIN Append(s, e) /\ Append(s, e)[k] = s[k]
  BY <1>1
<1>3. Len(s) + 1 \in DOMAIN Append(s, e) /\ Append(s, e)[Len(s) + 1] = e
  BY <1>1
<1>4. \A k \in DOMAIN Append(s, e) : k \in DOMAIN s \/ k = Len(s) + 1
  BY <1>1
<1> QED BY <1>2, <1>3, <1>4 DEF In

LEMMA InEmpty == In(<< >>) = {}
BY DEF In

LEMMA InConcat ==
    ASSUME NEW T, NEW s \in Seq(T), NEW t \in Seq(T)
    PROVE  In(s \o t) = In(s) \cup In(t)
<1>1. /\ Len(s \o t) = Len(s) + Len(t) /\ Len(s) \in Nat /\ Len(t) \in Nat
  OBVIOUS
<1>2. \A k \in DOMAIN s : k \in DOMAIN (s \o t) /\ (s \o t)[k] = s[k]
  BY <1>1
<1>3. \A k \in DOMAIN t : k + Len(s) \in DOMAIN (s \o t) /\ (s \o t)[k + Len(s)] = t[k]
  BY <1>1
<1>4. \A k \in DOMAIN (s \o t) : k \in DOMAIN s \/ \E j \in DOMAIN t : (s \o t)[k] = t[j]
  <2>1. \A k \in DOMAIN (s \o t) : k \in DOMAIN s \/ (k - Len(s) \in DOMAIN t /\ (s \o t)[k] = t[k - Len(s)])
    BY <1>1
  <2> QED BY <2>1
<1> DEFINE u == s \o t
<1>5. /\ \A k \in DOMAIN s : k \in DOMAIN u /\ u[k] = s[k]
      /\ \A j \in DOMAIN t : \E k \in DOMAIN u : u[k] = t[j]
      /\ \A k \in DOMAIN u : (k \in DOMAIN s /\ u[k] = s[k]) \/ \E j \in DOMAIN t : u[k] = t[j]
  BY <1>2, <1>3, <1>4
<1> HIDE DEF u
<1>6. In(u) = In(s) \cup In(t)
  BY <1>5 DEF In
<1> QED BY <1>6 DEF u

LEMMA InType ==
    ASSUME NEW T, NEW s \in Seq(T)
    PROVE  In(s) \subseteq T
BY DEF In

(* A selection keeps what is in S, and it is no longer. *)
LEMMA SelectedItems ==
    ASSUME NEW T, NEW S
    PROVE  \A s \in Seq(T) :
               /\ Selected(s, S) \in Seq(T \cap S)
               /\ Len(Selected(s, S)) <= Len(s)
               /\ In(Selected(s, S)) = In(s) \cap S
<1> DEFINE Good(s) == /\ Selected(s, S) \in Seq(T \cap S)
                      /\ Len(Selected(s, S)) <= Len(s)
                      /\ In(Selected(s, S)) = In(s) \cap S
           P == {s \in Seq(T) : Good(s)}
<1>1. << >> \in P
  <2>1. /\ << >> \in Seq(T) /\ << >> \in Seq(T \cap S) /\ Len(<< >>) <= Len(<< >>)
        /\ In(<< >>) = In(<< >>) \cap S
    BY InEmpty
  <2>2. Good(<< >>)
    BY <2>1, SelectedEmpty
  <2> QED BY <2>1, <2>2
<1>2. ASSUME NEW s \in Seq(T), NEW e \in T, s \in P PROVE Append(s, e) \in P
  <2> DEFINE u == Selected(s, S)
             t == Append(s, e)
  <2>1. Selected(t, S) = IF e \in S THEN Append(u, e) ELSE u
    BY SelectedAppend
  <2>2. u \in Seq(T \cap S) /\ Len(u) <= Len(s) /\ In(u) = In(s) \cap S
    BY <1>2
  <2>3. In(t) = In(s) \cup {e} /\ t \in Seq(T) /\ Len(t) = Len(s) + 1
    BY InAppend
  <2> HIDE DEF u, t
  <2>4. Len(u) \in Nat /\ Len(s) \in Nat
    BY <2>2
  <2>5. CASE e \in S
    <3>1. /\ Append(u, e) \in Seq(T \cap S) /\ Len(Append(u, e)) = Len(u) + 1
          /\ In(Append(u, e)) = In(u) \cup {e}
      BY <2>2, <2>5, InAppend
    <3>2. Good(t)
      BY <2>1, <2>2, <2>3, <2>4, <2>5, <3>1
    <3> QED BY <2>3, <3>2 DEF t
  <2>6. CASE e \notin S
    <3>1. Good(t)
      BY <2>1, <2>2, <2>3, <2>4, <2>6
    <3> QED BY <2>3, <3>1 DEF t
  <2> QED BY <2>5, <2>6
<1> HIDE DEF P
<1>3. \A s \in Seq(T) : s \in P
  BY <1>1, <1>2, AppendInduction
<1> QED BY <1>3 DEF P

(* A list can be selected from part by part. *)
LEMMA SelectedConcat ==
    ASSUME NEW T, NEW S, NEW s \in Seq(T)
    PROVE  \A t \in Seq(T) : Selected(s \o t, S) = Selected(s, S) \o Selected(t, S)
<1> DEFINE a == Selected(s, S)
           Good(t) == Selected(s \o t, S) = a \o Selected(t, S)
           P == {t \in Seq(T) : Good(t)}
<1>0. a \in Seq(T)
  <2>1. a \in Seq(T \cap S)
    BY SelectedItems
  <2> HIDE DEF a
  <2> QED BY <2>1
<1>1. << >> \in P
  <2>1. s \o << >> = s /\ a \o << >> = a
    <3> HIDE DEF a
    <3> QED BY <1>0
  <2>2. Selected(<< >>, S) = << >>
    BY SelectedEmpty
  <2>3. Good(<< >>)
    BY <2>1, <2>2
  <2>4. << >> \in Seq(T)
    OBVIOUS
  <2> HIDE DEF Good
  <2> QED BY <2>3, <2>4
<1>2. ASSUME NEW t \in Seq(T), NEW e \in T, t \in P PROVE Append(t, e) \in P
  <2> DEFINE b == Selected(t, S)
  <2>1. s \o Append(t, e) = Append(s \o t, e) /\ s \o t \in Seq(T) /\ Append(t, e) \in Seq(T)
    OBVIOUS
  <2>2. Selected(s \o t, S) = a \o b
    BY <1>2
  <2>3. Selected(Append(s \o t, e), S) =
            IF e \in S THEN Append(Selected(s \o t, S), e) ELSE Selected(s \o t, S)
    BY <2>1, SelectedAppend
  <2>4. Selected(Append(t, e), S) = IF e \in S THEN Append(b, e) ELSE b
    BY SelectedAppend
  <2>5. b \in Seq(T)
    <3>1. b \in Seq(T \cap S)
      BY SelectedItems
    <3> HIDE DEF b
    <3> QED BY <3>1
  <2> HIDE DEF a, b
  <2>6. a \o Append(b, e) = Append(a \o b, e)
    BY <1>0, <2>5
  <2>7. Good(Append(t, e))
    BY <2>1, <2>2, <2>3, <2>4, <2>6
  <2> HIDE DEF Good
  <2> QED BY <2>1, <2>7
<1> HIDE DEF P
<1>3. \A t \in Seq(T) : t \in P
  BY <1>1, <1>2, AppendInduction
<1> QED BY <1>3 DEF P

=============================================================================
