----------------------------- MODULE Retrieval ------------------------------
(***************************************************************************)
(* How similar fixes are found (retrieve_similar_bugs and, with the same   *)
(* calls one after the other, semantic_retrieve, rule_filter and           *)
(* rrf_rank): two searches, each cut to its limit, are fused by rank,      *)
(* weighted by age, cut to the best, and read back from the table.         *)
(*                                                                         *)
(* An age is counted in half-lives of the decay (180 days).  A score is a  *)
(* fraction <<a, b>>, compared exactly.                                    *)
(***************************************************************************)
EXTENDS Sequences, FiniteSets, Functions, Selections

CONSTANTS
    Fixes,        \* the fixes of the instance
    Profiles,     \* what the searches can see of a fix
    Smoothing,    \* k of reciprocal rank fusion
    TopN,         \* fixes shown
    Multiplier    \* candidate_multiplier

Limit == TopN * Multiplier

ASSUME FixesAssumption == IsFiniteSet(Fixes)

(* Ranks stay below the smoothing constant: 20 candidates of a leg, k = 60. *)
ASSUME RankingAssumption ==
    /\ TopN \in Nat \ {0} /\ Multiplier \in Nat \ {0} /\ Smoothing \in Nat
    /\ Limit <= Smoothing

(* sameType, sameService, sameEnvironment: like the ticket's; pattern: the *)
(* stack pattern, if one was asked for, is found; ruler: ten times its     *)
(* ruler score; indexed: Qdrant has its vector; kept: its row is still     *)
(* there when it is read back.                                             *)
ASSUME ProfileAssumption ==
    Profiles \subseteq [sameType: BOOLEAN, sameService: BOOLEAN, sameEnvironment: BOOLEAN,
                        pattern: BOOLEAN, age: Nat, ruler: 0 .. 10,
                        indexed: BOOLEAN, kept: BOOLEAN]

VARIABLES
    known,    \* known[f]: the profile of fix f, once a ticket asks
    legs,     \* the two result lists, best first
    shown     \* the similar bugs, best first

retrieval == <<known, legs, shown>>

Unsearched == [semantic |-> << >>, rules |-> << >>]

RetrievalInit ==
    /\ known = << >>
    /\ legs = Unsearched
    /\ shown = << >>

-----------------------------------------------------------------------------
(***************************************************************************)
(* The two searches.                                                       *)
(***************************************************************************)
Top(list, n) == IF Len(list) <= n THEN list ELSE SubSeq(list, 1, n)

(* Every order a search can return the fixes of S in, best score first;    *)
(* equals come in any order.                                               *)
Orders(S, score) ==
    {list \in Bijection(1 .. Cardinality(S), S) :
        \A i, j \in DOMAIN list : i < j => score[list[j]] <= score[list[i]]}

(* similarity_search: filtered by service and environment; how similar a   *)
(* fix is the model leaves open.                                           *)
SemanticLegs ==
    LET found == {f \in Fixes : known[f].indexed /\ known[f].sameService
                                                 /\ known[f].sameEnvironment}
        unknown == [f \in found |-> 0]
    IN {Top(list, Limit) : list \in Orders(found, unknown)}

Points(holds, n) == IF holds THEN n ELSE 0

(* The score of the query, in hundredths: exactness, recency, quality.     *)
(* What is younger than a half-life keeps some of its recency, never all.  *)
RulesScore(f) ==
    Points(known[f].sameType, 50) + Points(known[f].sameService, 20)
        + Points(known[f].sameEnvironment, 10) + Points(known[f].age = 0, 9) + known[f].ruler

(* max_age_days: 365 days are two half-lives. *)
RulesReach == 2

(* query_by_rules: the order of equals is open. *)
RulesLegs ==
    LET found == {f \in Fixes : /\ known[f].sameType \/ known[f].sameService
                                /\ known[f].age <= RulesReach
                                /\ known[f].pattern}
        score == [f \in found |-> RulesScore(f)]
    IN {Top(list, Limit) : list \in Orders(found, score)}

-----------------------------------------------------------------------------
(***************************************************************************)
(* The fusion.                                                             *)
(***************************************************************************)
(* Ranks count from 0. *)
Rank(list, f) == (CHOOSE i \in DOMAIN list : list[i] = f) - 1

RrfScore(rank) == <<1, Smoothing + rank>>

Plus(p, q) == <<p[1] * q[2] + q[1] * p[2], p[2] * q[2]>>

Less(p, q) == p[1] * q[2] < q[1] * p[2]

(* 2 ^ age, as a recursion that the theorems can speak of. *)
Doubled(age) ==
    LET doubled[n \in 0 .. age] == IF n = 0 THEN 1 ELSE 2 * doubled[n - 1]
    IN doubled[age]

StalenessMultiplier(age) == <<1, Doubled(age)>>

Times(p, q) == <<p[1] * q[1], p[2] * q[2]>>

Contribution(list, f) == IF f \in In(list) THEN RrfScore(Rank(list, f)) ELSE <<0, 1>>

\* Variation: the better of the two ranks counts, not both.
BestRankScore(searched, f) ==
    LET s == Contribution(searched.semantic, f)
        r == Contribution(searched.rules, f)
    IN Times(IF Less(s, r) THEN r ELSE s, StalenessMultiplier(known[f].age))

\* Variation: the decay is not applied.
UndecayedScore(searched, f) ==
    Plus(Contribution(searched.semantic, f), Contribution(searched.rules, f))

FusedScore(searched, f) ==
    Times(Plus(Contribution(searched.semantic, f), Contribution(searched.rules, f)),
          StalenessMultiplier(known[f].age))

(* The order in which by_id meets the fixes. *)
Met(searched) ==
    searched.semantic \o Selected(searched.rules, Fixes \ In(searched.semantic))

(* sorted(..., reverse=True) is stable: equals stay as they were met. *)
Sorted(list, searched) ==
    LET Score(i) == FusedScore(searched, list[i])
        Before(j, i) == Less(Score(i), Score(j)) \/ (j < i /\ ~Less(Score(j), Score(i)))
        Place(i) == 1 + Cardinality({j \in DOMAIN list : Before(j, i)})
    IN [p \in DOMAIN list |-> list[CHOOSE i \in DOMAIN list : Place(i) = p]]

FuseResults(searched) == Top(Sorted(Met(searched), searched), TopN)

(* get_by_id: a fix without a row is skipped, and the list is shorter. *)
Hydrated(list) == Selected(list, {f \in Fixes : known[f].kept})

-----------------------------------------------------------------------------
(* A ticket comes, and the memory is what it is. *)
Ask ==
    /\ known = << >>
    /\ known' \in [Fixes -> Profiles]
    /\ UNCHANGED <<legs, shown>>

Search ==
    /\ known # << >> /\ legs = Unsearched
    /\ \E semantic \in SemanticLegs, rules \in RulesLegs :
           legs' = [semantic |-> semantic, rules |-> rules]
    /\ UNCHANGED <<known, shown>>

RankFixes ==
    /\ legs # Unsearched /\ shown = << >>
    /\ shown' = Hydrated(FuseResults(legs))
    /\ UNCHANGED <<known, legs>>

RetrievalNext == Ask \/ Search \/ RankFixes

-----------------------------------------------------------------------------
InBoth(f) == f \in In(legs.semantic) /\ f \in In(legs.rules)

InOne(f) == f \in In(legs.semantic) \cup In(legs.rules) /\ ~InBoth(f)

(* Whenever g is shown, f is shown before it. *)
ShownBefore(f, g) ==
    g \in In(shown) => f \in In(shown) /\ Rank(shown, f) < Rank(shown, g)

(* A fix on which both searches agree stands before any fix that only one  *)
(* of them found and that is no younger, whatever their ranks: that is     *)
(* what the legs are over-fetched for.                                     *)
AgreementComesFirst ==
    \A f, g \in Fixes :
        InBoth(f) /\ InOne(g) /\ known[f].age <= known[g].age /\ known[f].kept
            => ShownBefore(f, g)

(* A fix two half-lives older than another one that was found too never    *)
(* stands before it, however well it ranked in both searches.              *)
StaleComesLast ==
    \A f, g \in Fixes :
        /\ f \in In(legs.semantic) \cup In(legs.rules)
        /\ known[g].age >= known[f].age + 2
        /\ known[f].kept
        => ShownBefore(f, g)

=============================================================================
