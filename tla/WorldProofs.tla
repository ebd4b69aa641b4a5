----------------------------- MODULE WorldProofs -----------------------------
(* What holds of the life in the world for all instances: the law of        *)
(* Exkordon, the gatekeeper's trials and the warped world, Mr. Jones's      *)
(* missions, the founders of clubs and the clubs' gold, what the merchants  *)
(* pay, where the items are, and all the money there is.                    *)
EXTENDS Missions, Clubs, Trials, CityLaw, Belongings,
        Shops, FiniteSetTheorems, WellFoundedInduction, TLAPS

-----------------------------------------------------------------------------
(* Sums: what a fold with + makes of a finite set.                          *)

\* A set of numbers has a least one.
LEMMA LeastNumber == ASSUME NEW T \in SUBSET Nat, T # {} PROVE \E x \in T : \A y \in T : x <= y
<1>1. PICK x \in T : \A y \in T : ~ (<<y, x>> \in OpToRel(<, Nat))
  BY NatLessThanWellFounded, WFMin
<1>2. ASSUME NEW y \in T PROVE x =< y
  <2>1. ~(y < x)
    BY <1>1 DEF OpToRel
  <2> QED
    BY <2>1
<1> QED
  BY <1>2

\* The element a fold takes from a set, and the sums it makes of the subsets.
Next1(s) == CHOOSE x \in s : TRUE
SumStep(g, f, s) == IF s = {} THEN 0 ELSE f[Next1(s)] + g[s \ {Next1(s)}]
IsSums(g, f, S) == g = [s \in SUBSET S |-> SumStep(g, f, s)]
Sums(f, S) == CHOOSE g : IsSums(g, f, S)

\* The sum the model uses, of a function over a set, is the value at that set
\* of the recursive function of partial sums.
LEMMA SumIsSums == ASSUME NEW f, NEW S PROVE SumFunctionOnSet(f, S) = Sums(f, S)[S]
BY DEF SumFunctionOnSet, FoldFunctionOnSet, MapThenFoldSet, Sums, IsSums, SumStep, Next1

\* What holds of the empty set and of a set when it holds of the set without
\* the element that is taken, holds of all subsets.
LEMMA SubsetInduction ==
    ASSUME NEW S, IsFiniteSet(S), NEW Good \in SUBSET SUBSET S, {} \in Good,
           \A s \in SUBSET S : s # {} /\ s \ {Next1(s)} \in Good => s \in Good
    PROVE  Good = SUBSET S
<1> SUFFICES ASSUME (SUBSET S) \ Good # {} PROVE FALSE
  OBVIOUS
<1>1. \A s \in SUBSET S : IsFiniteSet(s) /\ Cardinality(s) \in Nat
  BY FS_Subset, FS_CardinalityType
<1>2. PICK T : T = {Cardinality(s) : s \in (SUBSET S) \ Good}
  OBVIOUS
<1>3. T \in SUBSET Nat /\ T # {}
  BY <1>1, <1>2
<1>4. PICK n \in T : \A m \in T : n <= m
  BY <1>3, LeastNumber
<1>5. PICK s \in (SUBSET S) \ Good : Cardinality(s) = n
  BY <1>2, <1>4
<1>6. s # {}
  BY <1>5
<1>7. Next1(s) \in s
  BY <1>6 DEF Next1
<1>8. IsFiniteSet(s) /\ Cardinality(s \ {Next1(s)}) = n - 1 /\ n \in Nat
  BY <1>1, <1>3, <1>5, <1>7, FS_RemoveElement
<1>9. s \ {Next1(s)} \in (SUBSET S) \ Good
  BY <1>5, <1>6
<1>10. n - 1 \in T
  BY <1>2, <1>8, <1>9
<1> QED
  BY <1>4, <1>8, <1>10

\* The recursion of a fold defines the sums of all subsets of a finite set: level
\* by level, from the empty set on.
SumsUpTo(n, g, f, S) == \A s \in SUBSET S : Cardinality(s) <= n => g[s] = SumStep(g, f, s)

\* Over a finite set a function of partial sums exists: it is built from the
\* empty set upward, one cardinality after the other.
LEMMA SumsExist == ASSUME NEW S, IsFiniteSet(S), NEW f PROVE IsSums(Sums(f, S), f, S)
<1>1. /\ \A s \in SUBSET S : IsFiniteSet(s) /\ Cardinality(s) \in Nat
      /\ \A s \in SUBSET S : s # {} => Next1(s) \in s /\ s \ {Next1(s)} \in SUBSET S /\ Cardinality(s \ {Next1(s)}) = Cardinality(s) - 1
  <2>1. \A s \in SUBSET S : IsFiniteSet(s) /\ Cardinality(s) \in Nat
    BY FS_Subset, FS_CardinalityType
  <2>2. ASSUME NEW s \in SUBSET S, s # {}
        PROVE  Next1(s) \in s /\ s \ {Next1(s)} \in SUBSET S /\ Cardinality(s \ {Next1(s)}) = Cardinality(s) - 1
    <3>1. Next1(s) \in s
      BY <2>2 DEF Next1
    <3>2. Cardinality(s \ {Next1(s)}) = Cardinality(s) - 1
      BY <2>1, <3>1, FS_RemoveElement
    <3> QED
      BY <3>1, <3>2
  <2> QED
    BY <2>1, <2>2
<1>2. PICK Missing : Missing = {n \in Nat : ~ \E g : SumsUpTo(n, g, f, S)}
  OBVIOUS
<1>3. Missing = {}
  <2> SUFFICES ASSUME Missing # {} PROVE FALSE
    OBVIOUS
  <2>1. PICK n \in Missing : \A m \in Missing : n <= m
    BY <1>2, LeastNumber
  <2>2. n \in Nat /\ ~ \E g : SumsUpTo(n, g, f, S)
    BY <1>2, <2>1
  <2>3. CASE n = 0
    <3>1. PICK g : g = [s \in SUBSET S |-> 0]
      OBVIOUS
    <3>2. ASSUME NEW s \in SUBSET S, Cardinality(s) <= 0 PROVE g[s] = SumStep(g, f, s)
      <4>1. s = {}
        BY <1>1, <3>2, FS_EmptySet
      <4> QED
        BY <3>1, <4>1 DEF SumStep
    <3> QED
      BY <2>2, <2>3, <3>2 DEF SumsUpTo
  <2>4. CASE n # 0
    <3>1. n - 1 \in Nat /\ n - 1 \notin Missing
      BY <2>1, <2>2, <2>4
    <3>2. PICK g : SumsUpTo(n - 1, g, f, S)
      BY <1>2, <3>1
    <3>3. PICK h : h = [s \in SUBSET S |-> SumStep(g, f, s)]
      OBVIOUS
    <3>4. ASSUME NEW s \in SUBSET S, Cardinality(s) <= n PROVE h[s] = SumStep(h, f, s)
      <4>1. h[s] = SumStep(g, f, s)
        BY <3>3
      <4>2. CASE s = {}
        BY <4>1, <4>2 DEF SumStep
      <4>3. CASE s # {}
        <5>1. PICK r : r = s \ {Next1(s)}
          OBVIOUS
        <5>2. r \in SUBSET S /\ Cardinality(r) <= n - 1
          BY <1>1, <2>2, <3>4, <4>3, <5>1
        <5>3. g[r] = SumStep(g, f, r)
          BY <3>2, <5>2 DEF SumsUpTo
        <5>4. h[r] = SumStep(g, f, r)
          BY <3>3, <5>2
        <5> QED
          BY <4>1, <4>3, <5>1, <5>3, <5>4 DEF SumStep
      <4> QED
        BY <4>2, <4>3
    <3> QED
      BY <2>2, <3>4 DEF SumsUpTo
  <2> QED
    BY <2>3, <2>4
<1>4. PICK g : SumsUpTo(Cardinality(S), g, f, S)
  BY <1>1, <1>2, <1>3
<1>5. PICK h : h = [s \in SUBSET S |-> g[s]]
  OBVIOUS
<1>6. ASSUME NEW s \in SUBSET S PROVE h[s] = SumStep(h, f, s)
  <2>1. Cardinality(s) <= Cardinality(S)
    BY FS_Subset
  <2>2. g[s] = SumStep(g, f, s)
    BY <1>4, <2>1 DEF SumsUpTo
  <2> QED
    BY <1>1, <1>5, <2>2 DEF SumStep
<1>7. h = [s \in SUBSET S |-> SumStep(h, f, s)]
  BY <1>5, <1>6
<1>8. IsSums(h, f, S)
  BY <1>7 DEF IsSums
<1> QED
  BY <1>8 DEF Sums

\* The partial sum of no elements is 0; that of a set is the value at the
\* element taken and the partial sum of the rest.
LEMMA SumsUnfold ==
    ASSUME NEW S, IsFiniteSet(S), NEW f
    PROVE  /\ Sums(f, S)[{}] = 0
           /\ \A s \in SUBSET S : s # {} =>
                 /\ Next1(s) \in s /\ s \ {Next1(s)} \in SUBSET S
                 /\ Sums(f, S)[s] = f[Next1(s)] + Sums(f, S)[s \ {Next1(s)}]
<1>1. PICK g : g = Sums(f, S)
  OBVIOUS
<1>2. \A s \in SUBSET S : g[s] = SumStep(g, f, s)
  <2>1. IsSums(g, f, S)
    BY <1>1, SumsExist
  <2> QED
    BY <2>1 DEF IsSums
<1>3. g[{}] = 0
  BY <1>2 DEF SumStep
<1>4. ASSUME NEW s \in SUBSET S, s # {}
      PROVE  Next1(s) \in s /\ s \ {Next1(s)} \in SUBSET S /\ g[s] = f[Next1(s)] + g[s \ {Next1(s)}]
  <2>1. Next1(s) \in s
    BY <1>4 DEF Next1
  <2>2. g[s] = SumStep(g, f, s)
    BY <1>2
  <2> QED
    BY <1>4, <2>1, <2>2 DEF SumStep
<1> QED
  BY <1>1, <1>3, <1>4

\* Partial sums of integers are integers.
LEMMA SumsTyped ==
    ASSUME NEW S, IsFiniteSet(S), NEW f, \A x \in S : f[x] \in Int
    PROVE  \A s \in SUBSET S : Sums(f, S)[s] \in Int
<1>1. PICK Good : Good = {s \in SUBSET S : Sums(f, S)[s] \in Int}
  OBVIOUS
<1>2. {} \in Good
  BY <1>1, SumsUnfold
<1>3. ASSUME NEW s \in SUBSET S, s # {}, s \ {Next1(s)} \in Good PROVE s \in Good
  <2>1. PICK y : y = Next1(s)
    OBVIOUS
  <2>2. PICK r : r = s \ {y}
    OBVIOUS
  <2>3. y \in s /\ r \in SUBSET S /\ Sums(f, S)[s] = f[y] + Sums(f, S)[r]
    <3>1. /\ Next1(s) \in s /\ s \ {Next1(s)} \in SUBSET S
          /\ Sums(f, S)[s] = f[Next1(s)] + Sums(f, S)[s \ {Next1(s)}]
      BY <1>3, SumsUnfold, Zenon
    <3> QED
      BY <2>1, <2>2, <3>1
  <2>4. r \in Good
    BY <1>3, <2>1, <2>2
  <2>5. Sums(f, S)[r] \in Int
    BY <1>1, <2>4
  <2>6. f[y] \in Int
    BY <2>3
  <2> QED
    BY <1>1, <2>3, <2>5, <2>6
<1>4. Good = SUBSET S
  <2>1. Good \in SUBSET SUBSET S
    BY <1>1
  <2>2. \A s \in SUBSET S : s # {} /\ s \ {Next1(s)} \in Good => s \in Good
    BY <1>3
  <2> QED
    BY <1>2, <2>1, <2>2, SubsetInduction
<1> QED
  BY <1>1, <1>4

\* The sum of integers over a finite set is an integer.
LEMMA SumTyped ==
    ASSUME NEW S, IsFiniteSet(S), NEW f, \A x \in S : f[x] \in Int
    PROVE  SumFunctionOnSet(f, S) \in Int
BY SumsTyped, SumIsSums

\* When one summand changes the sum changes by as much.
LEMMA SumChanges ==
    ASSUME NEW S, IsFiniteSet(S), NEW f, NEW h, NEW x \in S, f[x] \in Int, h[x] \in Int,
           \A y \in S \ {x} : h[y] = f[y] /\ f[y] \in Int
    PROVE  SumFunctionOnSet(h, S) = SumFunctionOnSet(f, S) + h[x] - f[x]
<1>0. \A s \in SUBSET S : Sums(f, S)[s] \in Int /\ Sums(h, S)[s] \in Int
  BY SumsTyped
<1>1. PICK Good : Good = {s \in SUBSET S : Sums(h, S)[s] = Sums(f, S)[s] + (IF x \in s THEN h[x] - f[x] ELSE 0)}
  OBVIOUS
<1>2. {} \in Good
  BY <1>1, SumsUnfold
<1>3. ASSUME NEW s \in SUBSET S, s # {}, s \ {Next1(s)} \in Good PROVE s \in Good
  <2>1. PICK y : y = Next1(s)
    OBVIOUS
  <2>2. PICK r : r = s \ {y}
    OBVIOUS
  <2>3. /\ y \in s /\ r \in SUBSET S /\ r \in Good
        /\ Sums(f, S)[s] = f[y] + Sums(f, S)[r] /\ Sums(h, S)[s] = h[y] + Sums(h, S)[r]
    <3>1. y \in s /\ r \in SUBSET S /\ Sums(f, S)[s] = f[y] + Sums(f, S)[r]
      BY <1>3, <2>1, <2>2, SumsUnfold
    <3>2. Sums(h, S)[s] = h[y] + Sums(h, S)[r]
      BY <1>3, <2>1, <2>2, SumsUnfold
    <3> QED
      BY <1>3, <2>1, <2>2, <3>1, <3>2
  <2>4. Sums(h, S)[r] = Sums(f, S)[r] + (IF x \in r THEN h[x] - f[x] ELSE 0)
    BY <1>1, <2>3
  <2>5. CASE y = x
    BY <1>0, <1>1, <2>2, <2>3, <2>4, <2>5
  <2>6. CASE y # x
    BY <1>0, <1>1, <2>2, <2>3, <2>4, <2>6
  <2> QED
    BY <2>5, <2>6
<1>4. Good = SUBSET S
  <2>1. Good \in SUBSET SUBSET S
    BY <1>1
  <2>2. \A s \in SUBSET S : s # {} /\ s \ {Next1(s)} \in Good => s \in Good
    BY <1>3
  <2> QED
    BY <1>2, <2>1, <2>2, SubsetInduction
<1>5. Sums(h, S)[S] = Sums(f, S)[S] + (h[x] - f[x])
  BY <1>1, <1>4
<1> QED
  BY <1>0, <1>5, SumIsSums

\* Sums of the same summands are the same, of smaller ones smaller.
LEMMA SumGrows ==
    ASSUME NEW S, IsFiniteSet(S), NEW f, NEW h, \A x \in S : f[x] \in Int /\ h[x] \in Int /\ f[x] <= h[x]
    PROVE  SumFunctionOnSet(f, S) <= SumFunctionOnSet(h, S)
<1>0. \A s \in SUBSET S : Sums(f, S)[s] \in Int /\ Sums(h, S)[s] \in Int
  BY SumsTyped
<1>1. PICK Good : Good = {s \in SUBSET S : Sums(f, S)[s] <= Sums(h, S)[s]}
  OBVIOUS
<1>2. {} \in Good
  BY <1>1, SumsUnfold
<1>3. ASSUME NEW s \in SUBSET S, s # {}, s \ {Next1(s)} \in Good PROVE s \in Good
  <2>1. PICK y : y = Next1(s)
    OBVIOUS
  <2>2. PICK r : r = s \ {y}
    OBVIOUS
  <2>3. /\ y \in s /\ r \in SUBSET S /\ r \in Good
        /\ Sums(f, S)[s] = f[y] + Sums(f, S)[r] /\ Sums(h, S)[s] = h[y] + Sums(h, S)[r]
    <3>1. y \in s /\ r \in SUBSET S /\ Sums(f, S)[s] = f[y] + Sums(f, S)[r]
      BY <1>3, <2>1, <2>2, SumsUnfold
    <3>2. Sums(h, S)[s] = h[y] + Sums(h, S)[r]
      BY <1>3, <2>1, <2>2, SumsUnfold
    <3> QED
      BY <1>3, <2>1, <2>2, <3>1, <3>2
  <2>4. Sums(f, S)[r] <= Sums(h, S)[r]
    BY <1>1, <2>3
  <2> QED
    BY <1>0, <1>1, <2>3, <2>4
<1>4. Good = SUBSET S
  <2>1. Good \in SUBSET SUBSET S
    BY <1>1
  <2>2. \A s \in SUBSET S : s # {} /\ s \ {Next1(s)} \in Good => s \in Good
    BY <1>3
  <2> QED
    BY <1>2, <2>1, <2>2, SubsetInduction
<1> QED
  BY <1>1, <1>4, SumIsSums

\* The sum of a constant is the constant times the number of elements.
LEMMA SumConstant ==
    ASSUME NEW S, IsFiniteSet(S), NEW f, NEW c \in Int, \A x \in S : f[x] = c
    PROVE  SumFunctionOnSet(f, S) = c * Cardinality(S)
<1>0. \A s \in SUBSET S : IsFiniteSet(s) /\ Cardinality(s) \in Nat
  BY FS_Subset, FS_CardinalityType
<1>1. PICK Good : Good = {s \in SUBSET S : Sums(f, S)[s] = c * Cardinality(s)}
  OBVIOUS
<1>2. {} \in Good
  BY <1>1, SumsUnfold, FS_EmptySet
<1>3. ASSUME NEW s \in SUBSET S, s # {}, s \ {Next1(s)} \in Good PROVE s \in Good
  <2>1. PICK y : y = Next1(s)
    OBVIOUS
  <2>2. PICK r : r = s \ {y}
    OBVIOUS
  <2>3. y \in s /\ r \in SUBSET S /\ r \in Good /\ Sums(f, S)[s] = c + Sums(f, S)[r]
    <3>1. y \in s /\ Sums(f, S)[s] = f[y] + Sums(f, S)[r]
      BY ONLY <1>3, <2>1, <2>2, SumsUnfold, IsFiniteSet(S)
    <3>2. f[y] = c /\ r \in SUBSET S /\ r \in Good
      BY <1>3, <2>1, <2>2, <3>1
    <3> QED
      BY <3>1, <3>2
  <2>4. Cardinality(r) = Cardinality(s) - 1 /\ Cardinality(s) \in Nat
    BY <1>0, <2>2, <2>3, FS_RemoveElement
  <2>5. \A n \in Nat : c + c * (n - 1) = c * n
    OBVIOUS
  <2>6. Sums(f, S)[s] = c * Cardinality(s)
    BY <1>1, <2>3, <2>4, <2>5
  <2> QED
    BY <1>1, <2>6
<1>4. Good = SUBSET S
  <2>1. Good \in SUBSET SUBSET S
    BY <1>1
  <2>2. \A s \in SUBSET S : s # {} /\ s \ {Next1(s)} \in Good => s \in Good
    BY <1>3
  <2> QED
    BY <1>2, <2>1, <2>2, SubsetInduction
<1> QED
  BY <1>1, <1>4, SumIsSums

-----------------------------------------------------------------------------
(* The law of Exkordon.                                                     *)

CityTypes ==
    /\ status \in [Citizens -> {Enemy, Guest}]
    /\ legal \in [Citizens -> {"clean", "fine", "dead"}]
    /\ fine \in [Citizens -> 0 .. MaxFine]

CitySafe == CityTypes /\ GuestsBehave

\* Every crime, whoever notices it, keeps the books of the city straight.
LEMMA FinedSafe ==
    ASSUME NEW p \in Citizens, NEW crime \in DOMAIN FineFor, CitySafe, Fined(p, crime)
    PROVE  CitySafe'
<1>1. FineFor[crime] \in 1 .. 2
  BY DEF FineFor
<1>2. CASE legal[p] = "dead"
  BY <1>2 DEF Fined, CitySafe, CityTypes, GuestsBehave
<1>3. CASE legal[p] # "dead"
  BY <1>1, <1>3, CityAssumption DEF Fined, CitySafe, CityTypes, GuestsBehave, Enemy, Guest
<1> QED
  BY <1>2, <1>3

\* The book-keeping of the law holds across every step.
LEMMA CityStep == CitySafe /\ [CityNext]_cityVars => CitySafe'
<1> SUFFICES ASSUME CitySafe, [CityNext]_cityVars PROVE CitySafe'
  OBVIOUS
<1>1. CASE UNCHANGED <<status, legal, fine>>
  BY <1>1 DEF CitySafe, CityTypes, GuestsBehave
<1>2. ASSUME NEW p \in Citizens, servant_dead(p) PROVE CitySafe'
  BY <1>2 DEF servant_dead, CitySafe, CityTypes, GuestsBehave, Enemy, Guest
<1>3. ASSUME NEW p \in Citizens, barkeeper(p) PROVE CitySafe'
  BY <1>3, CityAssumption DEF barkeeper, CitySafe, CityTypes, GuestsBehave
<1>4. ASSUME NEW p \in Citizens, NEW g \in Guards, Pay(p, g) PROVE CitySafe'
  BY <1>4, CityAssumption DEF Pay, CitySafe, CityTypes, GuestsBehave
<1>5. ASSUME NEW p \in Citizens, NEW g \in Guards,
             HitGuard(p, g) \/ SeenHitting(p, g) \/ SeenPicking(p, g) \/ guard_dead(p, g)
      PROVE  CitySafe'
  <2>1. {"hit", "seen", "steal", "kill"} = DOMAIN FineFor
    BY DEF FineFor
  <2>2. UNCHANGED <<status, legal, fine>> \/ \E crime \in DOMAIN FineFor : Fined(p, crime)
    BY <1>5, <2>1 DEF HitGuard, SeenHitting, SeenPicking, guard_dead
  <2> QED
    BY <1>1, <2>2, FinedSafe
<1>6. ASSUME NEW p \in Citizens, NEW g \in Guards,
             GuardKills(g, p) \/ GuardSendsAway(g, p) \/ GuardCollects(g, p)
      PROVE  CitySafe'
  BY <1>1, <1>6 DEF GuardKills, GuardSendsAway, GuardCollects, GuardUrges
<1>7. ASSUME NEW p \in Citizens,
             \/ Lapse(p) \/ servant(p) \/ \E level \in {0, 1, 4} : Stroll(p, level)
             \/ ThiefGuardTalk(p) \/ ThiefGuardPaid(p) \/ ThiefGuardRepeat(p)
      PROVE  CitySafe'
  BY <1>1, <1>7 DEF Lapse, servant, Stroll, ThiefGuardTalk, ThiefGuardPaid, ThiefGuardRepeat
<1>8. ASSUME NEW g \in Guards, VictimGone(g) PROVE CitySafe'
  BY <1>1, <1>8 DEF VictimGone
<1> QED
  BY <1>1, <1>2, <1>3, <1>4, <1>5, <1>6, <1>7, <1>8 DEF CityNext, cityVars

(* A guard attacks only who is no guest, a fine is owed for a crime that is in the *)
(* books and goes when the citizen dies, for any number of citizens and guards.   *)
THEOREM GuestsAlwaysBehave == CitySpec => []GuestsBehave
<1>1. CityInit => CitySafe
  BY CityAssumption DEF CityInit, CitySafe, CityTypes, GuestsBehave, Enemy, Guest
<1>2. CitySafe => GuestsBehave
  BY DEF CitySafe
<1> QED
  BY <1>1, <1>2, CityStep, PTL DEF CitySpec

-----------------------------------------------------------------------------
(* The rooms of the gatekeeper, the duels of the warped world, the steps    *)
(* of a fighter.                                                            *)

\* A room and a duel have one player in them, the one they were made for.
RoomsSafe ==
    /\ room \in [Fighters -> GateRooms \cup {0}]
    /\ gate \in [GateRooms -> Fighters \cup {None}]
    /\ \A p \in Fighters : room[p] # 0 =>
          /\ gate[room[p]] \in {None, p}
          /\ \A q \in Fighters \ {p} : room[p] # room[q]

DuelsSafe ==
    /\ inDuel \in [Fighters -> Duels \cup {0}]
    /\ duel \in [Duels -> Fighters \cup {None}]
    /\ \A p \in Fighters : inDuel[p] # 0 =>
          /\ duel[inDuel[p]] \in {None, p}
          /\ \A q \in Fighters \ {p} : inDuel[p] # inDuel[q]

\* What a fighter has experience for is behind him: the sphere is used up on his
\* level, or he began the level again and gets no more.
StepsBehind ==
    /\ warp \in [Fighters -> [base : Nat, points : Nat, nostepexp : BOOLEAN]]
    /\ used \in [Fighters -> [Bonuses -> Nat]]
    /\ \A p \in Fighters, b \in Bonuses :
          /\ \A base \in Nat : <<p, b, base>> \in stepExp => base <= warp[p].base
          /\ <<p, b, warp[p].base>> \in stepExp => used[p][b] >= warp[p].base \/ warp[p].nostepexp

TrialsSafe == RoomsSafe /\ DuelsSafe /\ StepsBehind

\* A step of the gatekeeper keeps the rooms and leaves the warped world alone.
LEMMA GateStep == TrialsSafe /\ GateNext => TrialsSafe' /\ UNCHANGED warpVars
<1> SUFFICES ASSUME TrialsSafe, GateNext PROVE TrialsSafe' /\ UNCHANGED warpVars
  OBVIOUS
<1>1. UNCHANGED warpVars
  BY DEF GateNext, gate_fight_driver, SweepGate, enter_test, gate_fight_dead, LeaveGate, DropInGate
<1>2. ASSUME NEW r \in GateRooms, gate_fight_driver(r) \/ SweepGate(r) PROVE RoomsSafe'
  BY <1>2 DEF gate_fight_driver, SweepGate, TrialsSafe, RoomsSafe
<1>3. ASSUME NEW p \in Fighters, LeaveGate(p) \/ DropInGate(p) PROVE RoomsSafe'
  BY <1>3, TrialsAssumption DEF LeaveGate, DropInGate, TrialsSafe, RoomsSafe
<1>4. ASSUME NEW p \in Fighters, gate_fight_dead(p) PROVE RoomsSafe'
  <2> DEFINE r == room[p]
  <2>1. /\ r \in GateRooms /\ gate' = [gate EXCEPT ![r] = None]
        /\ room' \in {room, [room EXCEPT ![p] = 0]}
    BY <1>4 DEF gate_fight_dead, TrialsSafe, RoomsSafe
  <2> HIDE DEF r
  <2> QED
    BY <2>1, TrialsAssumption DEF TrialsSafe, RoomsSafe
<1>5. ASSUME NEW p \in Fighters, NEW class \in 5..8, enter_test(p, class) PROVE RoomsSafe'
  <2>1. CASE UNCHANGED <<gate, room>>
    BY <2>1 DEF TrialsSafe, RoomsSafe
  <2>2. CASE ~UNCHANGED <<gate, room>>
    <3>1. PICK r \in GateRooms :
            RoomFree(r) /\ gate' = [gate EXCEPT ![r] = p] /\ room' = [room EXCEPT ![p] = r]
      BY <1>5, <2>2 DEF enter_test
    <3>2. \A q \in Fighters : room[q] # r
      BY <3>1 DEF RoomFree
    <3> QED
      BY <3>1, <3>2, TrialsAssumption DEF TrialsSafe, RoomsSafe
  <2> QED
    BY <2>1, <2>2
<1>6. RoomsSafe'
  BY <1>2, <1>3, <1>4, <1>5 DEF GateNext
<1> QED
  BY <1>1, <1>6 DEF TrialsSafe, DuelsSafe, StepsBehind, warpVars

\* A step of the warped world keeps the duels and the bases of the fighters.
LEMMA WarpStep == TrialsSafe /\ WarpNext => TrialsSafe'
<1> SUFFICES ASSUME TrialsSafe, WarpNext PROVE TrialsSafe'
  OBVIOUS
<1>1. UNCHANGED gateVars
  BY DEF WarpNext, warpfighter, LeaveDuel, warpfighter_died, warpmaster, warptrialdoor_driver, warpbonus_driver
<1>2. ASSUME NEW p \in Fighters, NEW d \in Duels, warptrialdoor_driver(p, d)
      PROVE  DuelsSafe'
  BY <1>2, TrialsAssumption DEF warptrialdoor_driver, TrialsSafe, DuelsSafe
<1>3. ASSUME NEW d \in Duels, warpfighter(d) PROVE DuelsSafe'
  BY <1>3, TrialsAssumption DEF warpfighter, TrialsSafe, DuelsSafe
<1>4. ASSUME NEW p \in Fighters, LeaveDuel(p) PROVE DuelsSafe'
  BY <1>4, TrialsAssumption DEF LeaveDuel, TrialsSafe, DuelsSafe
<1>9. ASSUME NEW d \in Duels, warpfighter_died(d) PROVE DuelsSafe'
  <2>1. CASE UNCHANGED inDuel
    BY <1>9, <2>1, TrialsAssumption DEF warpfighter_died, TrialsSafe, DuelsSafe
  <2>2. CASE inDuel[duel[d]] = d /\ inDuel' = [inDuel EXCEPT ![duel[d]] = 0]
    BY <1>9, <2>2, TrialsAssumption DEF warpfighter_died, TrialsSafe, DuelsSafe
  <2> QED
    BY <1>9, <2>1, <2>2 DEF warpfighter_died
<1>5. ASSUME NEW p \in Fighters, warpmaster(p) PROVE StepsBehind'
  BY <1>5 DEF warpmaster, TrialsSafe, StepsBehind
<1>6. ASSUME NEW p \in Fighters, NEW b \in Bonuses, NEW key \in BOOLEAN, warpbonus_driver(p, b, key)
      PROVE  StepsBehind'
  <2> DEFINE base == warp[p].base
  <2>1. base \in Nat /\ warp[p].points \in Nat /\ warp[p].nostepexp \in BOOLEAN
    BY DEF TrialsSafe, StepsBehind
  <2>2. used' \in [Fighters -> [Bonuses -> Nat]] /\ used'[p][b] = base
        /\ \A q \in Fighters, c \in Bonuses : q # p \/ c # b => used'[q][c] = used[q][c]
    BY <1>6, <2>1 DEF warpbonus_driver, TrialsSafe, StepsBehind
  <2>3. CASE warp[p].points + 1 >= Steps(base)
    <3>1. /\ warp' \in [Fighters -> [base : Nat, points : Nat, nostepexp : BOOLEAN]]
          /\ warp'[p].base = base + 5 /\ \A q \in Fighters \ {p} : warp'[q] = warp[q]
          /\ stepExp' = stepExp
      <4>1. /\ warp' = [warp EXCEPT ![p] = [base |-> @.base + 5, points |-> 0, nostepexp |-> FALSE]]
            /\ stepExp' = stepExp
        BY <1>6, <2>3 DEF warpbonus_driver
      <4> QED
        BY <2>1, <4>1 DEF TrialsSafe, StepsBehind
    <3>2. ASSUME NEW q \in Fighters, NEW c \in Bonuses
          PROVE  /\ \A x \in Nat : <<q, c, x>> \in stepExp => x <= warp'[q].base
                 /\ <<q, c, warp'[q].base>> \in stepExp => used'[q][c] >= warp'[q].base \/ warp'[q].nostepexp
      <4>1. CASE q = p
        <5>1. \A x \in Nat : <<p, c, x>> \in stepExp => x <= base
          BY DEF TrialsSafe, StepsBehind
        <5>2. <<p, c, base + 5>> \notin stepExp
          BY <2>1, <5>1
        <5> QED
          BY <2>1, <3>1, <4>1, <5>1, <5>2
      <4>2. CASE q # p
        BY <2>1, <2>2, <3>1, <4>2 DEF TrialsSafe, StepsBehind
      <4> QED
        BY <4>1, <4>2
    <3> QED
      BY <2>2, <3>1, <3>2 DEF StepsBehind
  <2>4. CASE ~(warp[p].points + 1 >= Steps(base))
    <3>1. /\ warp' \in [Fighters -> [base : Nat, points : Nat, nostepexp : BOOLEAN]]
          /\ \A q \in Fighters : warp'[q].base = warp[q].base /\ warp'[q].nostepexp = warp[q].nostepexp
          /\ stepExp' \subseteq stepExp \cup {<<p, b, base>>}
      <4>1. /\ warp' = [warp EXCEPT ![p].points = @ + 1]
            /\ stepExp' \subseteq stepExp \cup {<<p, b, base>>}
        BY <1>6, <2>4 DEF warpbonus_driver
      <4> QED
        BY <2>1, <4>1 DEF TrialsSafe, StepsBehind
    <3>2. ASSUME NEW q \in Fighters, NEW c \in Bonuses
          PROVE  /\ \A x \in Nat : <<q, c, x>> \in stepExp' => x <= warp'[q].base
                 /\ <<q, c, warp'[q].base>> \in stepExp' => used'[q][c] >= warp'[q].base \/ warp'[q].nostepexp
      <4>1. \A x : <<q, c, x>> \in stepExp' => <<q, c, x>> \in stepExp \/ (q = p /\ c = b /\ x = base)
        BY <3>1
      <4>2. /\ \A x \in Nat : <<q, c, x>> \in stepExp => x <= warp[q].base
            /\ <<q, c, warp[q].base>> \in stepExp => used[q][c] >= warp[q].base \/ warp[q].nostepexp
        BY DEF TrialsSafe, StepsBehind
      <4>3. CASE q = p /\ c = b
        <5>1. used'[q][c] = base /\ warp'[q].base = base /\ base \in Nat
          BY <2>1, <2>2, <3>1, <4>3
        <5> QED
          BY <4>1, <4>2, <4>3, <5>1
      <4>4. CASE q # p \/ c # b
        <5>1. used'[q][c] = used[q][c] /\ warp'[q].base = warp[q].base /\ warp'[q].nostepexp = warp[q].nostepexp
          BY <2>2, <3>1, <4>4
        <5> QED
          BY <4>1, <4>2, <4>4, <5>1
      <4> QED
        BY <4>3, <4>4
    <3> QED
      BY <2>2, <3>1, <3>2 DEF StepsBehind
  <2> QED
    BY <2>3, <2>4
<1>7. /\ DuelsSafe' \/ UNCHANGED <<duel, inDuel>>
      /\ StepsBehind' \/ UNCHANGED <<warp, used, stepExp>>
  BY <1>2, <1>3, <1>4, <1>5, <1>6, <1>9
     DEF WarpNext, warpfighter, LeaveDuel, warpfighter_died, warpmaster, warptrialdoor_driver, warpbonus_driver
<1>8. DuelsSafe' /\ StepsBehind'
  BY <1>7 DEF TrialsSafe, DuelsSafe, StepsBehind
<1> QED
  BY <1>1, <1>8 DEF TrialsSafe, RoomsSafe, gateVars

\* Rooms, duels and bases hold across every step.
LEMMA TrialsStep == TrialsSafe /\ [GateNext \/ WarpNext]_trialVars => TrialsSafe'
<1>1. TrialsSafe /\ UNCHANGED trialVars => TrialsSafe'
  BY DEF TrialsSafe, RoomsSafe, DuelsSafe, StepsBehind, trialVars
<1> QED
  BY <1>1, GateStep, WarpStep

\* Who uses a bonus again after having been paid for its step gets no more.
LEMMA StepGivenOnce ==
    TrialsSafe /\ [GateNext \/ WarpNext]_trialVars =>
        \A p \in Fighters, b \in Bonuses :
            used'[p][b] > used[p][b] /\ <<p, b, warp[p].base>> \in stepExp => warp[p].nostepexp
<1> SUFFICES ASSUME TrialsSafe, [GateNext \/ WarpNext]_trialVars, NEW p \in Fighters, NEW b \in Bonuses,
                    used'[p][b] > used[p][b], <<p, b, warp[p].base>> \in stepExp
             PROVE  warp[p].nostepexp
  OBVIOUS
<1>1. used[p][b] \in Nat /\ used'[p][b] # used[p][b]
  BY DEF TrialsSafe, StepsBehind
<1>2. WarpNext
  BY <1>1, GateStep DEF warpVars, trialVars
<1>3. PICK q \in Fighters : warpmaster(q) \/ \E c \in Bonuses, key \in BOOLEAN : warpbonus_driver(q, c, key)
  BY <1>1, <1>2 DEF WarpNext, warpfighter, LeaveDuel, warpfighter_died, warptrialdoor_driver
<1>4. ~warpmaster(q)
  BY DEF warpmaster, TrialsSafe, StepsBehind
<1>5. used[p][b] < warp[p].base
  BY <1>1, <1>3, <1>4 DEF warpbonus_driver, TrialsSafe, StepsBehind
<1> QED
  BY <1>5 DEF TrialsSafe, StepsBehind

(* A room of the gatekeeper and a duel of the warped world are one player's, and *)
(* a sphere gives experience once per level, for any number of players and rooms.*)
THEOREM TrialsAlwaysSound == TrialsSpec => TrialsSound
<1>1. TrialsInit => TrialsSafe
  BY TrialsAssumption DEF TrialsInit, TrialsSafe, RoomsSafe, DuelsSafe, StepsBehind
<1>2. TrialsSafe => TestedAlone
  BY DEF TrialsSafe, RoomsSafe, DuelsSafe, TestedAlone
<1> QED
  BY <1>1, <1>2, TrialsStep, StepGivenOnce, PTL DEF TrialsSpec, TrialsSound, StepOnce

-----------------------------------------------------------------------------
(* The missions of Mr. Jones.                                               *)

MissionTypes ==
    /\ active \in [Agents -> Nat] /\ solved \in [Agents -> Nat]
    /\ left \in [Agents -> Nat]
    /\ inside \in [Agents -> Dens \cup {NotThere}]
    /\ foes \in [Dens -> Nat]

JobsSafe == MissionTypes /\ JobsKept

\* A mission that starts finds its den empty and fills it for this agent alone.
LEMMA JobStarts ==
    ASSUME NEW p \in Agents, NEW n \in Jobs, JobsSafe, start_mission(p, n)
    PROVE  JobsSafe'
<1>1. PICK s \in Dens, at \in Dens \cup {NotThere} :
        /\ ~Busy(s) /\ at \in {s, NotThere}
        /\ active' = [active EXCEPT ![p] = n]
        /\ foes' = [foes EXCEPT ![s] = Targets]
        /\ left' = [left EXCEPT ![p] = Targets]
        /\ inside' = [inside EXCEPT ![p] = at]
        /\ solved[p] = 0 /\ UNCHANGED solved
  BY DEF start_mission
<1>2. \A q \in Agents : inside[q] # s
  BY <1>1 DEF Busy
<1>3. MissionTypes'
  BY <1>1, MissionsAssumption DEF JobsSafe, MissionTypes, NotThere
<1>4. PartsApart'
  BY <1>1, <1>2 DEF JobsSafe, MissionTypes, JobsKept, PartsApart, Outside
<1>5. JobCanBeDone'
  <2>1. ASSUME NEW q \in Agents, q # p PROVE UNCHANGED <<active[q], inside[q], foes[inside[q]], left[q]>>
    BY <1>1, <1>2, <2>1 DEF JobsSafe, MissionTypes
  <2> QED
    BY <1>1, <2>1, MissionsAssumption DEF JobsSafe, MissionTypes, JobsKept, JobCanBeDone, Outside
<1>6. SolvedIsDone'
  BY <1>1 DEF JobsSafe, MissionTypes, JobsKept, SolvedIsDone
<1> QED
  BY <1>3, <1>4, <1>5, <1>6 DEF JobsSafe, JobsKept

\* A foe that dies counts for the agent who is in the den and for nobody else.
LEMMA FoeDies ==
    ASSUME NEW p \in Agents, JobsSafe, mission_fighter_dead(p)
    PROVE  JobsSafe'
<1> DEFINE n == IF left[p] > 0 THEN left[p] - 1 ELSE 0
           s == inside[p]
<1>1. /\ s \in Dens /\ s # NotThere /\ n \in Nat /\ left[p] \in Nat
      /\ foes[s] > 0 /\ foes[s] \in Nat
      /\ foes' = [foes EXCEPT ![s] = @ - 1]
      /\ left' = [left EXCEPT ![p] = n]
      /\ active' = IF n = 0 THEN [active EXCEPT ![p] = 0] ELSE active
      /\ solved' = IF n = 0 /\ active[p] # 0 THEN [solved EXCEPT ![p] = active[p]] ELSE solved
      /\ UNCHANGED inside
  BY DEF mission_fighter_dead, MissionDone, Outside, JobsSafe, MissionTypes
<1>2. \A q \in Agents \ {p} : inside[q] # s
  BY <1>1 DEF JobsSafe, JobsKept, PartsApart, Outside
<1>3. n = 0 \/ (left[p] > 0 /\ n = left[p] - 1)
  BY <1>1
<1>4. active[p] # 0 => foes[s] >= left[p] /\ left[p] > 0
  BY <1>1 DEF JobsSafe, JobsKept, JobCanBeDone, Outside
<1>5. solved[p] # 0 => n = 0 /\ active[p] = 0
  BY <1>1 DEF JobsSafe, JobsKept, SolvedIsDone
<1> HIDE DEF n, s
<1>6. MissionTypes'
  BY <1>1 DEF JobsSafe, MissionTypes
<1>7. PartsApart'
  BY <1>1 DEF JobsSafe, JobsKept, PartsApart, Outside
<1>8. JobCanBeDone'
  <2>1. ASSUME NEW q \in Agents, q # p PROVE UNCHANGED <<active[q], inside[q], foes[inside[q]], left[q]>>
    BY <1>1, <1>2, <2>1 DEF JobsSafe, MissionTypes
  <2>2. inside'[p] = s /\ left'[p] = n /\ foes'[s] = foes[s] - 1 /\ (active'[p] # 0 => n # 0 /\ active[p] # 0)
    BY <1>1 DEF JobsSafe, MissionTypes, s
  <2>3. active'[p] # 0 => foes'[s] >= left'[p] /\ left'[p] > 0
    BY <1>1, <1>3, <1>4, <2>2
  <2> QED
    BY <2>1, <2>2, <2>3 DEF JobsSafe, JobsKept, JobCanBeDone, Outside
<1>9. SolvedIsDone'
  <2>1. ASSUME NEW q \in Agents, q # p PROVE UNCHANGED <<active[q], solved[q], left[q]>>
    BY <1>1, <2>1 DEF JobsSafe, MissionTypes
  <2>2. solved'[p] # 0 => left'[p] = 0 /\ active'[p] = 0
    BY <1>1, <1>5 DEF JobsSafe, MissionTypes
  <2> QED
    BY <2>1, <2>2 DEF JobsSafe, JobsKept, SolvedIsDone
<1> QED
  BY <1>6, <1>7, <1>8, <1>9 DEF JobsSafe, JobsKept

\* The books of the missions hold across every step.
LEMMA MissionsStep == JobsSafe /\ [MissionsNext]_missionVars => JobsSafe'
<1> SUFFICES ASSUME JobsSafe, [MissionsNext]_missionVars PROVE JobsSafe'
  OBVIOUS
<1> USE DEF JobsSafe, JobsKept, MissionTypes, PartsApart, JobCanBeDone, SolvedIsDone, Outside
<1>1. CASE UNCHANGED <<active, solved, left, inside, foes>>
  BY <1>1
<1>2. ASSUME NEW p \in Agents, JonesSees(p) PROVE JobsSafe'
  BY <1>2 DEF JonesSees
<1>3. ASSUME NEW p \in Agents, LeaveMission(p) PROVE JobsSafe'
  BY <1>3 DEF LeaveMission
<1>4. ASSUME NEW p \in Agents, FailJob(p) PROVE JobsSafe'
  BY <1>4 DEF FailJob
<1>5. ASSUME NEW p \in Agents,
             \/ AskAgain(p) \/ mission_give_reward(p) \/ BuyPotion(p) \/ NameSkill(p) \/ BuySpecial(p)
             \/ \E n \in SkillCounts : ChooseCount(p, n)
      PROVE  UNCHANGED <<active, solved, left, inside, foes>>
  BY <1>5 DEF AskAgain, mission_give_reward, BuyPotion, NameSkill, BuySpecial, ChooseCount
<1> QED
  BY <1>1, <1>2, <1>3, <1>4, <1>5, JobStarts, FoeDies DEF MissionsNext, NewOffer, missionVars

(* Mr. Jones's jobs can be done and are done when they are paid, for any number *)
(* of players, parts of the area, jobs and targets.                             *)
THEOREM JobsAlwaysKept == MissionsSpec => []JobsKept
<1>1. MissionsInit => JobsSafe
  BY DEF MissionsInit, JobsSafe, JobsKept, MissionTypes, PartsApart, JobCanBeDone, SolvedIsDone, Outside
<1>2. JobsSafe => JobsKept
  BY DEF JobsSafe
<1> QED
  BY <1>1, <1>2, MissionsStep, PTL DEF MissionsSpec

-----------------------------------------------------------------------------
(* The founders of clubs.                                                   *)

ClubTypes ==
    /\ club \in [Places -> [named : BOOLEAN, serial : Nat, money : Nat, due : BOOLEAN]]
    /\ badge \in [Fellows -> [club : Places \cup {0}, serial : Nat, rank : 0 .. 2]]
    /\ accept = NoInvitation \/ accept.club \in Places

\* Serials are used once, also those of clubs that are gone and of badges that do
\* not count any more.
FoundersSafe ==
    /\ ClubTypes
    /\ \A p \in Fellows : badge[p].rank = 2 =>
          badge[p].club \in Places /\ Founded(p, badge[p].club, badge[p].serial)
    /\ \A p \in Fellows, n \in Places, k \in Nat : Founded(p, n, k) =>
          /\ k <= club[n].serial
          /\ \A q \in Fellows : Founded(q, n, k) => q = p

\* No new serial, no new founder, no badge of rank two but the old ones.
LEMMA FoundersStay ==
    ASSUME FoundersSafe, ClubTypes',
           \A n \in Places : club'[n].serial = club[n].serial,
           \A p \in Fellows, n \in Places, k \in Nat : Founded(p, n, k)' <=> Founded(p, n, k),
           \A p \in Fellows : badge'[p].rank = 2 => badge'[p] = badge[p]
    PROVE  FoundersSafe'
  BY DEF FoundersSafe, ClubTypes

\* What is done to badges, invitations and money.
LEMMA BadgesChange ==
    ASSUME FoundersSafe, NEW p \in Fellows,
           \/ Leave(p) \/ Look(p) \/ Join(p)
           \/ \E q \in Fellows : Fire(p, q) \/ \E rank \in 0 .. 1 : SetRank(p, q, rank)
    PROVE  FoundersSafe'
<1>1. UNCHANGED <<club, guests>> /\ accept' \in {accept, NoInvitation}
  BY DEF Leave, Look, Join, Fire, SetRank
<1>2. badge' \in [Fellows -> [club : Places \cup {0}, serial : Nat, rank : 0 .. 2]]
      /\ \A q \in Fellows : badge'[q].rank = 2 => badge'[q] = badge[q]
  <2>0. badge \in [Fellows -> [club : Places \cup {0}, serial : Nat, rank : 0 .. 2]]
        /\ NoBadge \in [club : Places \cup {0}, serial : Nat, rank : 0 .. 2] /\ NoBadge.rank = 0
    BY DEF FoundersSafe, ClubTypes, NoBadge
  <2>1. CASE Leave(p)
    BY <2>0, <2>1 DEF Leave
  <2>2. CASE Look(p)
    BY <2>0, <2>2 DEF Look, Looked
  <2>3. CASE Join(p)
    <3>1. accept.club \in Places /\ club[accept.club].serial \in Nat
      <4>1. accept # NoInvitation
        BY <2>3, ClubsAssumption DEF Join, NoInvitation
      <4> QED
        BY <4>1 DEF FoundersSafe, ClubTypes
    <3> QED
      BY <2>0, <2>3, <3>1 DEF Join
  <2>4. ASSUME NEW q \in Fellows, Fire(p, q)
        PROVE  <1>2!1 /\ <1>2!2
    BY <2>0, <2>4 DEF Fire
  <2>5. ASSUME NEW q \in Fellows, NEW rank \in 0 .. 1, SetRank(p, q, rank)
        PROVE  <1>2!1 /\ <1>2!2
    BY <2>0, <2>5 DEF SetRank
  <2> QED
    BY <2>1, <2>2, <2>3, <2>4, <2>5
<1> QED
  BY <1>1, <1>2, FoundersStay DEF FoundersSafe, ClubTypes, Founded

\* Money in and out of a club changes neither founders nor serials.
LEMMA SumPaid ==
    ASSUME FoundersSafe, NEW p \in Fellows, NEW sum \in Nat, Deposit(p, sum) \/ Withdraw(p, sum)
    PROVE  FoundersSafe'
<1>1. /\ UNCHANGED <<badge, accept, guests>> /\ get_char_club(p) # 0
      /\ \/ club' = [club EXCEPT ![get_char_club(p)].money = @ + sum]
         \/ /\ club[get_char_club(p)].money >= sum
            /\ club' = [club EXCEPT ![get_char_club(p)].money = @ - sum]
  <2>1. CASE Deposit(p, sum)
    BY <2>1 DEF Deposit
  <2>2. CASE Withdraw(p, sum)
    BY <2>2 DEF Withdraw
  <2> QED
    BY <2>1, <2>2
<1>2. PICK n : n = get_char_club(p)
  OBVIOUS
<1>3. club \in [Places -> [named : BOOLEAN, serial : Nat, money : Nat, due : BOOLEAN]] /\ n \in Places
  BY <1>1, <1>2 DEF get_char_club, Counts, FoundersSafe, ClubTypes
<1>4. club' \in [Places -> [named : BOOLEAN, serial : Nat, money : Nat, due : BOOLEAN]]
      /\ \A m \in Places : club'[m].serial = club[m].serial
  BY <1>1, <1>2, <1>3
<1> QED
  BY <1>1, <1>4, FoundersStay DEF FoundersSafe, ClubTypes, Founded

LEMMA MoneyChanges ==
    ASSUME FoundersSafe, NEW n \in Places, WeekPasses(n) \/ tick_club(n)
    PROVE  FoundersSafe'
<1>1. UNCHANGED <<badge, accept, guests>>
  BY DEF WeekPasses, tick_club
<1>2. club \in [Places -> [named : BOOLEAN, serial : Nat, money : Nat, due : BOOLEAN]] /\ ClubFee \in Nat
  BY ClubsAssumption DEF FoundersSafe, ClubTypes
<1>3. CASE WeekPasses(n)
  <2>1. club' \in [Places -> [named : BOOLEAN, serial : Nat, money : Nat, due : BOOLEAN]]
        /\ \A m \in Places : club'[m].serial = club[m].serial
    BY <1>2, <1>3 DEF WeekPasses
  <2> QED
    BY <1>1, <2>1, FoundersStay DEF FoundersSafe, ClubTypes, Founded
<1>4. CASE tick_club(n)
  <2>1. PICK money \in Nat, named \in BOOLEAN :
           club' = [club EXCEPT ![n].named = named, ![n].due = FALSE, ![n].money = money]
    <3>1. (IF club[n].money >= ClubFee THEN club[n].money - ClubFee ELSE club[n].money) \in Nat
      BY <1>2
    <3>2. (club[n].money >= ClubFee) \in BOOLEAN
      OBVIOUS
    <3> QED
      BY <1>4, <3>1, <3>2, Zenon DEF tick_club
  <2>2. club' \in [Places -> [named : BOOLEAN, serial : Nat, money : Nat, due : BOOLEAN]]
        /\ \A m \in Places : club'[m].serial = club[m].serial
    BY <1>2, <2>1
  <2> QED
    BY <1>1, <2>2, FoundersStay DEF FoundersSafe, ClubTypes, Founded
<1> QED
  BY <1>3, <1>4

\* Founding a club makes its one founder.
LEMMA ClubFounded ==
    ASSUME FoundersSafe, NEW p \in Fellows, create_club(p)
    PROVE  FoundersSafe'
<1>1. PICK n \in Places :
        LET k == club[n].serial + 1 IN
        /\ club' = [club EXCEPT ![n] = [named |-> TRUE, serial |-> k, money |-> 0, due |-> FALSE]]
        /\ badge' = [badge EXCEPT ![p] = [club |-> n, serial |-> k, rank |-> 2]]
        /\ guests' = guests \cup {[who |-> p, club |-> n, serial |-> k, by |-> p]}
  BY DEF create_club
<1> DEFINE k == club[n].serial + 1
<1>2. k \in Nat /\ club[n].serial \in Nat /\ k > club[n].serial /\ UNCHANGED accept
  BY DEF create_club, FoundersSafe, ClubTypes
<1>3. ClubTypes'
  BY <1>1, <1>2 DEF FoundersSafe, ClubTypes
<1>4. \A q \in Fellows, m \in Places, j \in Nat :
        Founded(q, m, j)' <=> Founded(q, m, j) \/ (q = p /\ m = n /\ j = k)
  BY <1>1 DEF Founded
<1>5. \A q \in Fellows : ~Founded(q, n, k)
  BY <1>2 DEF FoundersSafe
<1>6. /\ club'[n].serial = k /\ \A m \in Places \ {n} : club'[m].serial = club[m].serial
      /\ badge'[p].club = n /\ badge'[p].serial = k
      /\ \A q \in Fellows \ {p} : badge'[q] = badge[q]
  BY <1>1 DEF FoundersSafe, ClubTypes
<1> HIDE DEF k
<1>7. ASSUME NEW q \in Fellows, badge'[q].rank = 2
      PROVE  badge'[q].club \in Places /\ Founded(q, badge[q].club, badge[q].serial)'
  <2>1. CASE q = p
    BY <1>1, <1>2, <1>6, <2>1 DEF Founded, k
  <2>2. CASE q # p
    BY <1>1, <1>6, <1>7, <2>2 DEF FoundersSafe, Founded
  <2> QED
    BY <2>1, <2>2
<1>8. ASSUME NEW q \in Fellows, NEW m \in Places, NEW j \in Nat, Founded(q, m, j)'
      PROVE  j <= club'[m].serial /\ \A r \in Fellows : Founded(r, m, j)' => r = q
  <2>1. club[m].serial \in Nat
    BY DEF FoundersSafe, ClubTypes
  <2> QED
    BY <1>2, <1>4, <1>5, <1>6, <1>8, <2>1 DEF FoundersSafe
<1> QED
  BY <1>3, <1>7, <1>8 DEF FoundersSafe

\* The founders of clubs hold across every step.
LEMMA FoundersStep == FoundersSafe /\ [ClubsNext]_clubVars => FoundersSafe'
<1> SUFFICES ASSUME FoundersSafe, [ClubsNext]_clubVars PROVE FoundersSafe'
  OBVIOUS
<1>1. ASSUME UNCHANGED <<club, badge>>, accept' = accept \/ accept'.club \in Places,
             \A p \in Fellows, n \in Places, k \in Nat : Founded(p, n, k)' <=> Founded(p, n, k)
      PROVE  FoundersSafe'
  BY <1>1, FoundersStay DEF FoundersSafe, ClubTypes
<1>2. ASSUME NEW p \in Fellows, NEW q \in Fellows, Accept(p, q) PROVE FoundersSafe'
  <2>1. accept'.club \in Places
    BY <1>2 DEF Accept, get_char_club, Counts, FoundersSafe, ClubTypes
  <2>2. \A r \in Fellows, n \in Places, k \in Nat : Founded(r, n, k)' <=> Founded(r, n, k)
    BY <1>2, ClubsAssumption DEF Accept, Founded
  <2> QED
    BY <1>1, <1>2, <2>1, <2>2 DEF Accept
<1>3. ASSUME NEW p \in Fellows, ComeAndGo(p) PROVE FoundersSafe'
  BY <1>1, <1>3 DEF ComeAndGo, Founded
<1>4. CASE UNCHANGED clubVars
  BY <1>1, <1>4 DEF clubVars, Founded
<1>5. 1 .. Gold * Cardinality(Fellows) \subseteq Nat
  BY ClubsAssumption, FS_CardinalityType
<1> QED
  BY <1>2, <1>3, <1>4, <1>5, BadgesChange, SumPaid, MoneyChanges, ClubFounded DEF ClubsNext

(* The gold of a club is its founder's alone, whatever clubs had the place before, *)
(* for any number of players and clubs.                                            *)
THEOREM FoundersAlone == ClubsSpec => []FounderOnly
<1>1. ClubsInit => FoundersSafe
  BY DEF ClubsInit, FoundersSafe, ClubTypes, NoBadge, NoInvitation, Founded
<1>2. FoundersSafe => FounderOnly
  <2> SUFFICES ASSUME FoundersSafe, NEW p \in Fellows, Rank(p) = 2
               PROVE  /\ Founded(p, badge[p].club, badge[p].serial)
                      /\ \A q \in Fellows : Rank(q) = 2 /\ badge[q].club = badge[p].club => q = p
    BY DEF FounderOnly
  <2>1. \A q \in Fellows : Rank(q) = 2 => badge[q].rank = 2 /\ badge[q].serial = club[badge[q].club].serial
    BY DEF Rank, Counts
  <2> QED
    BY <2>1 DEF FoundersSafe, ClubTypes
<1> QED
  BY <1>1, <1>2, FoundersStep, PTL DEF ClubsSpec

-----------------------------------------------------------------------------
(* The gold of clubs and players.                                           *)

\* The gold in each place of a club: its money, and what clubs before it left.
ClubGold == [n \in Places |-> club[n].money + ruins[n]]

BooksSafe ==
    /\ FoundersSafe
    /\ purse \in [Fellows -> Nat] /\ feesPaid \in Nat /\ ruins \in [Places -> Nat]
    /\ \A n \in Places : club[n].named => club[n].serial > 0
    /\ ClubBooks

\* What a player's purse has more or less, all have.
LEMMA PurseChanges ==
    ASSUME NEW f \in [Fellows -> Nat], NEW h \in [Fellows -> Nat], NEW p \in Fellows, NEW x \in Int,
           h[p] - f[p] = x, \A q \in Fellows \ {p} : h[q] = f[q]
    PROVE  SumFunctionOnSet(h, Fellows) = SumFunctionOnSet(f, Fellows) + x
<1>1. \A q \in Fellows : f[q] \in Int /\ h[q] \in Int
  OBVIOUS
<1>2. IsFiniteSet(Fellows)
  BY ClubsAssumption
<1>3. SumFunctionOnSet(f, Fellows) \in Int
  BY <1>1, <1>2, SumTyped
<1>4. SumFunctionOnSet(h, Fellows) = SumFunctionOnSet(f, Fellows) + h[p] - f[p]
  BY <1>1, <1>2, SumChanges
<1> QED
  BY <1>1, <1>3, <1>4

\* The purses and one club change, by as much as the fees the other way.
LEMMA BooksChange ==
    ASSUME BooksSafe, FoundersSafe',
           NEW n \in Places, NEW x \in Int, NEW y \in Nat, NEW z \in Nat,
           purse' \in [Fellows -> Nat], SumFunctionOnSet(purse', Fellows) = SumFunctionOnSet(purse, Fellows) + x, feesPaid' = z,
           ruins' \in [Places -> Nat], club'[n].money + ruins'[n] = y,
           \A m \in Places \ {n} : club'[m] = club[m] /\ ruins'[m] = ruins[m],
           club'[n].named => club'[n].serial > 0, (Behind(n) <= (ClubFee - 1) * Closed(n))',
           x + y + z = club[n].money + ruins[n] + feesPaid
    PROVE  BooksSafe'
<1>1. /\ purse \in [Fellows -> Nat] /\ feesPaid \in Nat
      /\ \A m \in Places : club[m].money + ruins[m] \in Nat /\ club'[m].money + ruins'[m] \in Nat
  <2>1. \A m \in Places : club[m].money \in Nat /\ club'[m].money \in Nat /\ ruins[m] \in Nat /\ ruins'[m] \in Nat
    BY DEF BooksSafe, FoundersSafe, ClubTypes
  <2> QED
    BY <2>1 DEF BooksSafe
<1>2. IsFiniteSet(Fellows) /\ IsFiniteSet(Places)
  BY ClubsAssumption
<1>3. PICK f : f = ClubGold
  OBVIOUS
<1>4. PICK h : h = ClubGold'
  OBVIOUS
<1>5. /\ \A m \in Places : f[m] = club[m].money + ruins[m] /\ h[m] = club'[m].money + ruins'[m]
      /\ DOMAIN f = Places /\ DOMAIN h = Places
  BY <1>3, <1>4 DEF ClubGold
<1>6. PICK a : a = SumFunctionOnSet(purse, Fellows)
  OBVIOUS
<1>7. PICK b : b = SumFunctionOnSet(f, Places)
  OBVIOUS
<1>8. a \in Int /\ b \in Int
  BY <1>1, <1>2, <1>5, <1>6, <1>7, SumTyped
<1>9. SumFunctionOnSet(purse', Fellows) = a + x
  BY <1>6
<1>10. SumFunctionOnSet(h, Places) = b + y - f[n] /\ f[n] \in Nat
  BY <1>1, <1>2, <1>5, <1>7, SumChanges
<1>11. a + b + feesPaid = Gold * Cardinality(Fellows)
  BY <1>1, <1>3, <1>5, <1>6, <1>7 DEF BooksSafe, ClubBooks, ClubGold, SumFunction
<1>12. \A m \in Places : Behind(m)' <= (ClubFee - 1) * Closed(m)'
  <2>1. \A m \in Places \ {n} : Behind(m)' = Behind(m) /\ Closed(m)' = Closed(m)
    BY DEF Behind, Closed
  <2> QED
    BY <2>1 DEF BooksSafe, ClubBooks
<1>13. SumFunctionOnSet(purse', Fellows) + SumFunctionOnSet(h, Places) + z = Gold * Cardinality(Fellows)
  BY <1>1, <1>5, <1>8, <1>9, <1>10, <1>11
<1>14. ClubBooks'
  <2>1. DOMAIN purse' = Fellows
    BY <1>1
  <2> QED
    BY <1>4, <1>5, <1>12, <1>13, <2>1 DEF ClubBooks, ClubGold, SumFunction
<1>15. \A m \in Places : club'[m].named => club'[m].serial > 0
  BY DEF BooksSafe
<1> QED
  BY <1>1, <1>14, <1>15 DEF BooksSafe

\* Nobody's gold changes.
LEMMA BooksStay ==
    ASSUME BooksSafe, FoundersSafe', UNCHANGED <<purse, feesPaid, ruins>>,
           \A m \in Places : club'[m].money = club[m].money /\ club'[m].named = club[m].named /\ club'[m].serial = club[m].serial
    PROVE  BooksSafe'
<1>1. ClubGold' = ClubGold /\ \A m \in Places : Behind(m)' = Behind(m) /\ Closed(m)' = Closed(m)
  BY DEF ClubGold, Behind, Closed
<1>2. ClubBooks'
  BY <1>1 DEF BooksSafe, ClubBooks, ClubGold
<1> QED
  BY <1>2 DEF BooksSafe

\* What a founder pays goes to the fees, what the club before had to the ruins.
LEMMA BooksFounded == ASSUME BooksSafe, FoundersSafe', NEW p \in Fellows, create_club(p) PROVE BooksSafe'
<1>1. /\ purse \in [Fellows -> Nat] /\ feesPaid \in Nat /\ ruins \in [Places -> Nat]
      /\ club \in [Places -> [named : BOOLEAN, serial : Nat, money : Nat, due : BOOLEAN]]
      /\ ClubFee \in Nat \ {0}
  BY ClubsAssumption DEF BooksSafe, FoundersSafe, ClubTypes
<1>2. PICK n \in Places :
         /\ ~club[n].named
         /\ club' = [club EXCEPT ![n] = [named |-> TRUE, serial |-> club[n].serial + 1, money |-> 0, due |-> FALSE]]
         /\ ruins' = [ruins EXCEPT ![n] = @ + club[n].money]
  BY DEF create_club
<1>3. /\ purse[p] >= ClubFee /\ purse' = [purse EXCEPT ![p] = purse[p] - ClubFee] /\ feesPaid' = feesPaid + ClubFee
      /\ purse[p] - ClubFee \in Nat /\ feesPaid + ClubFee \in Nat
  BY <1>1 DEF create_club
<1>4. PICK k \in Nat : k = club[n].serial
  BY <1>1
<1>5. PICK wealth \in Nat : wealth = club[n].money
  BY <1>1
<1>6. PICK old \in Nat : old = ruins[n]
  BY <1>1
<1>7. /\ club'[n].money = 0 /\ club'[n].serial = k + 1 /\ club'[n].named /\ ruins'[n] = old + wealth
      /\ \A m \in Places \ {n} : club'[m] = club[m] /\ ruins'[m] = ruins[m]
      /\ ruins' \in [Places -> Nat]
  BY <1>1, <1>2, <1>4, <1>5, <1>6
<1>8. (Behind(n) <= (ClubFee - 1) * Closed(n))'
  <2>1. old + wealth <= (ClubFee - 1) * k
    BY <1>1, <1>2, <1>4, <1>5, <1>6 DEF BooksSafe, ClubBooks, Behind, Closed
  <2>2. Behind(n)' = old + wealth /\ Closed(n)' = k
    BY <1>7 DEF Behind, Closed
  <2> QED
    BY <2>1, <2>2
<1>9. purse' \in [Fellows -> Nat] /\ SumFunctionOnSet(purse', Fellows) = SumFunctionOnSet(purse, Fellows) + (0 - ClubFee)
  <2>1. purse' \in [Fellows -> Nat] /\ purse'[p] - purse[p] = 0 - ClubFee /\ \A q \in Fellows \ {p} : purse'[q] = purse[q]
    BY <1>1, <1>3
  <2>2. 0 - ClubFee \in Int
    BY <1>1
  <2> QED
    BY <1>1, <2>1, <2>2, PurseChanges
<1>10. /\ club'[n].money + ruins'[n] = old + wealth /\ old + wealth \in Nat /\ 0 - ClubFee \in Int
       /\ (0 - ClubFee) + (old + wealth) + (feesPaid + ClubFee) = club[n].money + ruins[n] + feesPaid
       /\ club'[n].serial > 0
  BY <1>1, <1>5, <1>6, <1>7
<1> QED
  BY <1>3, <1>7, <1>8, <1>9, <1>10, BooksChange

\* Any sum is paid in, or taken out by the founder.
LEMMA BooksPaidIn ==
    ASSUME BooksSafe, FoundersSafe', NEW p \in Fellows, NEW sum \in Nat, Deposit(p, sum) \/ Withdraw(p, sum)
    PROVE  BooksSafe'
<1>1. /\ purse \in [Fellows -> Nat] /\ feesPaid \in Nat /\ ruins \in [Places -> Nat]
      /\ club \in [Places -> [named : BOOLEAN, serial : Nat, money : Nat, due : BOOLEAN]]
      /\ badge \in [Fellows -> [club : Places \cup {0}, serial : Nat, rank : 0 .. 2]]
  BY DEF BooksSafe, FoundersSafe, ClubTypes
<1>2. PICK n : n = get_char_club(p)
  OBVIOUS
<1>3. n \in Places /\ club[n].named
  BY <1>1, <1>2 DEF Deposit, Withdraw, get_char_club, Counts
<1>4. PICK k \in Int : purse[p] - k \in Nat /\ club[n].money + k \in Nat
          /\ purse' = [purse EXCEPT ![p] = purse[p] - k] /\ club' = [club EXCEPT ![n].money = club[n].money + k]
  <2>1. CASE Deposit(p, sum)
    <3>1. purse[p] >= sum /\ purse' = [purse EXCEPT ![p] = purse[p] - sum] /\ club' = [club EXCEPT ![n].money = club[n].money + sum]
      BY <1>2, <2>1 DEF Deposit
    <3>2. purse[p] - sum \in Nat /\ club[n].money + sum \in Nat /\ sum \in Int
      BY <1>1, <1>3, <3>1
    <3> QED
      BY <3>1, <3>2
  <2>2. CASE Withdraw(p, sum)
    <3>1. /\ club[n].money >= sum /\ purse' = [purse EXCEPT ![p] = purse[p] + sum]
          /\ club' = [club EXCEPT ![n].money = club[n].money - sum]
      BY <1>2, <2>2 DEF Withdraw
    <3>2. /\ purse[p] - (0 - sum) = purse[p] + sum /\ club[n].money + (0 - sum) = club[n].money - sum
          /\ purse[p] + sum \in Nat /\ club[n].money - sum \in Nat /\ 0 - sum \in Int
      BY <1>1, <1>3, <3>1
    <3> QED
      BY <3>1, <3>2
  <2> QED
    BY <2>1, <2>2
<1>5. UNCHANGED <<feesPaid, ruins>>
  BY DEF Deposit, Withdraw
<1>6. /\ club'[n].money = club[n].money + k /\ club'[n].named /\ club'[n].serial = club[n].serial
      /\ \A m \in Places \ {n} : club'[m] = club[m]
  BY <1>1, <1>3, <1>4
<1>7. PICK wealth \in Nat : wealth = club[n].money + k /\ wealth - k = club[n].money
  BY <1>1, <1>3, <1>4
<1>8. PICK old \in Nat : old = ruins[n]
  BY <1>1, <1>3
<1>9. (Behind(n) <= (ClubFee - 1) * Closed(n))'
  <2>1. Behind(n)' = Behind(n) /\ Closed(n)' = Closed(n)
    BY <1>3, <1>5, <1>6 DEF Behind, Closed
  <2> QED
    BY <1>3, <2>1 DEF BooksSafe, ClubBooks
<1>10. purse' \in [Fellows -> Nat] /\ SumFunctionOnSet(purse', Fellows) = SumFunctionOnSet(purse, Fellows) + (0 - k)
  <2>1. purse' \in [Fellows -> Nat] /\ purse'[p] - purse[p] = 0 - k /\ \A q \in Fellows \ {p} : purse'[q] = purse[q]
    BY <1>1, <1>4
  <2>2. 0 - k \in Int
    OBVIOUS
  <2> QED
    BY <1>1, <2>1, <2>2, PurseChanges
<1>11. /\ club'[n].money + ruins'[n] = wealth + old /\ wealth + old \in Nat /\ 0 - k \in Int
       /\ (0 - k) + (wealth + old) + feesPaid = club[n].money + ruins[n] + feesPaid
  BY <1>1, <1>5, <1>6, <1>7, <1>8
<1>12. club'[n].serial > 0
  BY <1>3, <1>6 DEF BooksSafe
<1>13. /\ ruins' \in [Places -> Nat] /\ feesPaid' = feesPaid /\ feesPaid \in Nat
       /\ \A m \in Places \ {n} : club'[m] = club[m] /\ ruins'[m] = ruins[m]
  BY <1>1, <1>5, <1>6
<1> QED
  BY <1>3, <1>9, <1>10, <1>11, <1>12, <1>13, BooksChange

\* A club pays its fee, or is closed with what it has.
LEMMA BooksTicked == ASSUME BooksSafe, FoundersSafe', NEW n \in Places, tick_club(n) PROVE BooksSafe'
<1>1. /\ purse \in [Fellows -> Nat] /\ feesPaid \in Nat /\ ruins \in [Places -> Nat]
      /\ club \in [Places -> [named : BOOLEAN, serial : Nat, money : Nat, due : BOOLEAN]]
      /\ ClubFee \in Nat \ {0}
  BY ClubsAssumption DEF BooksSafe, FoundersSafe, ClubTypes
<1>2. UNCHANGED <<purse, ruins>> /\ club[n].named
  BY DEF tick_club
<1>3. PICK k \in Nat : k = club[n].serial
  BY <1>1
<1>4. PICK wealth \in Nat : wealth = club[n].money
  BY <1>1
<1>5. PICK old \in Nat : old = ruins[n]
  BY <1>1
<1>6. k > 0 /\ old <= (ClubFee - 1) * (k - 1)
  BY <1>2, <1>3, <1>5, <1>1 DEF BooksSafe, ClubBooks, Behind, Closed
<1>7. SumFunctionOnSet(purse', Fellows) = SumFunctionOnSet(purse, Fellows) + 0
  <2>1. SumFunctionOnSet(purse, Fellows) \in Int
    BY <1>1, ClubsAssumption, SumTyped
  <2> QED
    BY <1>2, <2>1
<1>8. CASE wealth >= ClubFee
  <2>1. club' = [club EXCEPT ![n].named = TRUE, ![n].due = FALSE, ![n].money = wealth - ClubFee] /\ feesPaid' = feesPaid + ClubFee
    BY <1>4, <1>8 DEF tick_club
  <2>2. /\ club'[n].money = wealth - ClubFee /\ club'[n].named /\ club'[n].serial = k
        /\ \A m \in Places \ {n} : club'[m] = club[m]
    BY <1>1, <1>3, <1>8, <2>1
  <2>3. (Behind(n) <= (ClubFee - 1) * Closed(n))'
    <3>1. Behind(n)' = old /\ Closed(n)' = k - 1
      BY <1>2, <1>5, <2>2 DEF Behind, Closed
    <3> QED
      BY <1>6, <3>1
  <2>4. /\ club'[n].money + ruins'[n] = wealth - ClubFee + old /\ wealth - ClubFee + old \in Nat /\ feesPaid + ClubFee \in Nat
        /\ 0 + (wealth - ClubFee + old) + (feesPaid + ClubFee) = club[n].money + ruins[n] + feesPaid
    BY <1>1, <1>2, <1>4, <1>5, <1>8, <2>2
  <2> QED
    BY <1>1, <1>2, <1>6, <1>7, <2>1, <2>2, <2>3, <2>4, BooksChange
<1>9. CASE ~(wealth >= ClubFee)
  <2>1. club' = [club EXCEPT ![n].named = FALSE, ![n].due = FALSE, ![n].money = wealth] /\ feesPaid' = feesPaid
    <3>1. (club[n].money >= ClubFee) = FALSE
      BY <1>4, <1>9
    <3> QED
      BY <1>4, <3>1, Zenon DEF tick_club
  <2>2. /\ club'[n].money = wealth /\ ~club'[n].named /\ club'[n].serial = k
        /\ \A m \in Places \ {n} : club'[m] = club[m]
    BY <1>1, <1>3, <2>1
  <2>3. (Behind(n) <= (ClubFee - 1) * Closed(n))'
    <3>1. Behind(n)' = old + wealth /\ Closed(n)' = k
      BY <1>2, <1>5, <2>2 DEF Behind, Closed
    <3>2. wealth <= ClubFee - 1
      BY <1>1, <1>9
    <3>3. (ClubFee - 1) * k = (ClubFee - 1) * (k - 1) + (ClubFee - 1)
      BY <1>1
    <3>4. PICK x \in Nat : x = (ClubFee - 1) * (k - 1)
      BY <1>1, <1>6
    <3> QED
      BY <1>1, <1>6, <3>1, <3>2, <3>3, <3>4
  <2>4. /\ club'[n].money + ruins'[n] = wealth + old /\ wealth + old \in Nat
        /\ 0 + (wealth + old) + feesPaid = club[n].money + ruins[n] + feesPaid
    BY <1>1, <1>2, <1>4, <1>5, <2>2
  <2> QED
    BY <1>1, <1>2, <1>7, <2>1, <2>2, <2>3, <2>4, BooksChange
<1> QED
  BY <1>1, <1>4, <1>8, <1>9

\* The books hold across every step.
LEMMA BooksStep == BooksSafe /\ [ClubsNext]_clubVars => BooksSafe'
<1> SUFFICES ASSUME BooksSafe, [ClubsNext]_clubVars PROVE BooksSafe'
  OBVIOUS
<1>1. FoundersSafe'
  BY FoundersStep DEF BooksSafe
<1>2. ASSUME UNCHANGED <<club, purse, feesPaid, ruins>> PROVE BooksSafe'
  BY <1>1, <1>2, BooksStay
<1>3. ASSUME NEW p \in Fellows, Join(p) \/ Leave(p) \/ Look(p) \/ ComeAndGo(p) PROVE BooksSafe'
  BY <1>2, <1>3 DEF Join, Leave, Look, ComeAndGo
<1>4. ASSUME NEW p \in Fellows, NEW q \in Fellows, NEW rank \in 0 .. 1, Accept(p, q) \/ Fire(p, q) \/ SetRank(p, q, rank)
      PROVE BooksSafe'
  BY <1>2, <1>4 DEF Accept, Fire, SetRank
<1>5. ASSUME UNCHANGED clubVars PROVE BooksSafe'
  BY <1>2, <1>5 DEF clubVars
<1>6. ASSUME NEW n \in Places, WeekPasses(n) PROVE BooksSafe'
  <2>1. \A m \in Places : club'[m].money = club[m].money /\ club'[m].named = club[m].named /\ club'[m].serial = club[m].serial
    BY <1>6 DEF WeekPasses, BooksSafe, FoundersSafe, ClubTypes
  <2> QED
    BY <1>1, <1>6, <2>1, BooksStay DEF WeekPasses
<1>7. 1 .. Gold * Cardinality(Fellows) \subseteq Nat /\ 0 \in 0 .. 1
  BY ClubsAssumption, FS_CardinalityType
<1> QED
  BY <1>1, <1>3, <1>4, <1>5, <1>6, <1>7, BooksFounded, BooksPaidIn, BooksTicked DEF ClubsNext

\* Gold only changes hands: whatever is founded, paid in, taken out and charged, the
\* purses, the clubs and the fees (club.c, clubmaster.c) are what there was.
THEOREM BooksBalance == ClubsSpec => []ClubBooks
<1>1. ClubsInit => BooksSafe
  <2> SUFFICES ASSUME ClubsInit PROVE BooksSafe
    OBVIOUS
  <2>1. FoundersSafe
    BY DEF ClubsInit, FoundersSafe, ClubTypes, NoBadge, NoInvitation, Founded
  <2>2. purse \in [Fellows -> Nat] /\ feesPaid = 0 /\ \A p \in Fellows : purse[p] = Gold
    BY ClubsAssumption DEF ClubsInit
  <2>3. DOMAIN ClubGold = Places /\ \A n \in Places : ClubGold[n] = 0
    BY DEF ClubsInit, ClubGold
  <2>9. \A n \in Places : ~club[n].named /\ Behind(n) = 0 /\ Closed(n) = 0
    BY DEF ClubsInit, Behind, Closed
  <2>8. IsFiniteSet(Fellows) /\ IsFiniteSet(Places) /\ Gold \in Int /\ 0 \in Int
    BY ClubsAssumption
  <2>4. SumFunctionOnSet(purse, Fellows) = Gold * Cardinality(Fellows)
    BY <2>2, <2>8, SumConstant
  <2>5. SumFunctionOnSet(ClubGold, Places) = 0 * Cardinality(Places)
    BY <2>3, <2>8, SumConstant
  <2>6. Cardinality(Places) \in Nat /\ Gold * Cardinality(Fellows) \in Int
    BY ClubsAssumption, FS_CardinalityType
  <2>7. ClubBooks
    <3>1. \A n \in Places : Behind(n) <= (ClubFee - 1) * Closed(n)
      BY <2>9, ClubsAssumption
    <3> QED
      BY <2>2, <2>3, <2>4, <2>5, <2>6, <3>1 DEF ClubBooks, ClubGold, SumFunction
  <2>10. ruins \in [Places -> Nat]
    BY DEF ClubsInit
  <2> QED
    BY <2>1, <2>2, <2>7, <2>9, <2>10 DEF BooksSafe
<1>2. BooksSafe => ClubBooks
  BY DEF BooksSafe
<1> QED
  BY <1>1, <1>2, BooksStep, PTL DEF ClubsSpec

-----------------------------------------------------------------------------
(* Merchants, the bank and depots.                                          *)

Sorts == Kinds \cup {Empty}

ShopTypes ==
    /\ gold \in Nat /\ account \in Nat /\ held \in Sorts
    /\ pack \in [Packs -> Sorts] /\ depot \in [Depots -> Sorts]
    /\ ware \in [Wares -> [kind : Sorts, cnt : Nat, always : BOOLEAN]]
    /\ \A n \in Wares : ware[n].cnt > 0 => ware[n].kind \in Kinds
    /\ barter \in Barters

\* The clamps: no merchant sells below one and a quarter of the value or pays
\* above four fifths.
LEMMA PricesClamped ==
    ASSUME barter \in Barters, NEW k \in Kinds
    PROVE  /\ salesprice(k) \in Nat /\ salesprice(k) >= Resale(k)
           /\ buyprice(k) \in Nat /\ buyprice(k) <= Resale(k)
<1>1. Value[k] \in Nat /\ barter + 100 \in Nat \ {0} /\ PriceMulti \in Nat /\ k # Empty
  BY ShopsAssumption
<1>2. PICK v : v = Value[k]
  OBVIOUS
<1>3. PICK d : d = (Value[k] * PriceMulti) \div (barter + 100)
  OBVIOUS
<1>4. PICK e : e = (Value[k] * (barter + 100)) \div 400
  OBVIOUS
<1>5. v \in Nat /\ d \in Nat /\ e \in Nat
  <2>1. \A a \in Nat, b \in Nat \ {0} : a \div b \in Nat
    OBVIOUS
  <2>2. ASSUME NEW a \in Nat, NEW b \in Nat PROVE a * b \in Nat
    OBVIOUS
  <2>3. Value[k] * PriceMulti \in Nat /\ Value[k] * (barter + 100) \in Nat
    BY <1>1, <2>2
  <2> QED
    BY <1>1, <1>2, <1>3, <1>4, <2>1, <2>3
<1>6. /\ (v * 5) \div 4 \in Nat /\ (v * 4) \div 5 \in Nat
      /\ (v * 5) \div 4 >= v /\ (v * 4) \div 5 <= v
  BY <1>5
<1>7. Resale(k) = IF k \in Coins THEN v ELSE (v * 4) \div 5
  BY <1>1, <1>2 DEF Resale
<1>8. salesprice(k) = AtLeast((v * 5) \div 4, d)
  BY <1>2, <1>3 DEF salesprice
<1>9. buyprice(k) = IF k \in Coins THEN v ELSE AtMost((v * 4) \div 5, e)
  BY <1>2, <1>4 DEF buyprice
<1>10. AtLeast((v * 5) \div 4, d) \in Nat /\ AtLeast((v * 5) \div 4, d) >= v
  BY <1>5, <1>6 DEF AtLeast
<1>11. AtMost((v * 4) \div 5, e) \in Nat /\ AtMost((v * 4) \div 5, e) <= (v * 4) \div 5
  BY <1>5, <1>6 DEF AtMost
<1> QED
  BY <1>5, <1>6, <1>7, <1>8, <1>9, <1>10, <1>11

\* What each thing brings is a number.
LEMMA ResaleType == \A k \in Sorts : Resale(k) \in Nat
  BY ShopsAssumption DEF Sorts, Resale

\* A set of places is worth a number.
LEMMA WorthType ==
    ASSUME NEW S, IsFiniteSet(S), NEW f \in [S -> Sorts]
    PROVE  Worth(f) \in Int
<1>1. PICK v : v = [n \in DOMAIN f |-> Resale(f[n])]
  OBVIOUS
<1>2. DOMAIN v = S /\ \A n \in S : v[n] \in Int
  BY <1>1, ResaleType
<1>3. SumFunctionOnSet(v, S) \in Int
  BY <1>2, SumTyped
<1> QED
  BY <1>1, <1>2, <1>3 DEF Worth, SumFunction

\* What is put into one place instead of what was there makes the difference.
LEMMA WorthChanges ==
    ASSUME NEW S, IsFiniteSet(S), NEW f \in [S -> Sorts], NEW h \in [S -> Sorts], NEW n \in S,
           \A m \in S \ {n} : h[m] = f[m]
    PROVE  Worth(h) = Worth(f) + Resale(h[n]) - Resale(f[n])
<1>1. PICK v : v = [m \in DOMAIN f |-> Resale(f[m])]
  OBVIOUS
<1>2. PICK w : w = [m \in DOMAIN h |-> Resale(h[m])]
  OBVIOUS
<1>3. /\ DOMAIN v = S /\ DOMAIN w = S
      /\ \A m \in S : v[m] = Resale(f[m]) /\ w[m] = Resale(h[m])
  BY <1>1, <1>2
<1>4. /\ \A m \in S : v[m] \in Int /\ w[m] \in Int
      /\ \A m \in S \ {n} : w[m] = v[m]
  BY <1>3, ResaleType
<1>5. SumFunctionOnSet(w, S) = SumFunctionOnSet(v, S) + w[n] - v[n]
  BY <1>4, SumChanges
<1>6. Worth(f) = SumFunctionOnSet(v, S) /\ Worth(h) = SumFunctionOnSet(w, S)
  BY <1>1, <1>2, <1>3 DEF Worth, SumFunction
<1> QED
  BY <1>3, <1>5, <1>6

\* Whatever is taken into the hand, and with it into the inventory or the purse,
\* is worth the same there.
LEMMA ExchangeWorth ==
    ASSUME ShopTypes, NEW n \in Packs, NEW h \in Sorts, NEW f, NEW g \in Nat, exchange(n, h, f, g)
    PROVE  /\ gold' \in Nat /\ held' \in Sorts /\ pack' \in [Packs -> Sorts]
           /\ gold' + Resale(held') + Worth(pack') = g + Resale(h) + Worth(pack)
<1>1. PICK put : put = IF h \in Coins THEN Empty ELSE h
  OBVIOUS
<1>2. PICK w : w = IF h \in Coins THEN Value[h] ELSE 0
  OBVIOUS
<1>3. /\ put \in Sorts /\ w \in Nat /\ w + Resale(put) = Resale(h)
  BY <1>1, <1>2, ShopsAssumption DEF Sorts, Resale
<1>4. held' = pack[n] /\ pack' = [pack EXCEPT ![n] = put] /\ gold' = g + w
  BY <1>1, <1>2 DEF exchange
<1>5. pack \in [Packs -> Sorts] /\ IsFiniteSet(Packs)
  BY ShopsAssumption DEF ShopTypes
<1>6. pack' \in [Packs -> Sorts] /\ pack'[n] = put /\ \A m \in Packs \ {n} : pack'[m] = pack[m]
  BY <1>3, <1>4, <1>5
<1>7. Worth(pack') = Worth(pack) + Resale(pack'[n]) - Resale(pack[n])
  BY <1>5, <1>6, WorthChanges
<1>8. Worth(pack) \in Int /\ Resale(put) \in Nat /\ Resale(pack[n]) \in Nat /\ Resale(h) \in Nat
  BY <1>3, <1>5, WorthType, ResaleType
<1>9. held' \in Sorts /\ Resale(held') = Resale(pack[n]) /\ Resale(pack'[n]) = Resale(put)
  BY <1>4, <1>5, <1>6
<1> QED
  <2>1. gold' = g + w
    BY <1>4
  <2> QED
    BY <1>3, <1>6, <1>7, <1>8, <1>9, <2>1

\* The same with what is taken from a store or a depot.
LEMMA TakenWorth ==
    ASSUME ShopTypes, NEW k \in Sorts, NEW fast, NEW f, NEW g \in Nat, Taken(k, fast, f, g)
    PROVE  /\ gold' \in Nat /\ held' \in Sorts /\ pack' \in [Packs -> Sorts]
           /\ gold' + Resale(held') + Worth(pack') = g + Resale(k) + Worth(pack)
<1>1. \/ \E n \in Packs : exchange(n, k, f, g)
      \/ held' = k /\ gold' = g /\ UNCHANGED pack
  BY DEF Taken
<1>2. CASE held' = k /\ gold' = g /\ UNCHANGED pack
  BY <1>2 DEF ShopTypes
<1> QED
  BY <1>1, <1>2, ExchangeWorth

\* The store's places hold what can be sold.
LEMMA StoreTypes ==
    ASSUME ShopTypes, NEW k \in Kinds, add_item_to_store(k)
    PROVE  ware' \in [Wares -> [kind : Sorts, cnt : Nat, always : BOOLEAN]]
           /\ \A n \in Wares : ware'[n].cnt > 0 => ware'[n].kind \in Kinds
<1>1. PICK n \in Wares :
         \/ ware[n].kind = k /\ ware' = [ware EXCEPT ![n].cnt = ware[n].cnt + 1]
         \/ ware' = [ware EXCEPT ![n].kind = k, ![n].cnt = 1]
  BY DEF add_item_to_store
<1>2. k \in Sorts
  BY DEF Sorts
<1>3. ASSUME ware[n].kind = k, ware' = [ware EXCEPT ![n].cnt = ware[n].cnt + 1]
      PROVE  /\ ware' \in [Wares -> [kind : Sorts, cnt : Nat, always : BOOLEAN]]
             /\ \A m \in Wares : ware'[m].cnt > 0 => ware'[m].kind \in Kinds
  BY <1>2, <1>3 DEF ShopTypes
<1>4. ASSUME ware' = [ware EXCEPT ![n].kind = k, ![n].cnt = 1]
      PROVE  /\ ware' \in [Wares -> [kind : Sorts, cnt : Nat, always : BOOLEAN]]
             /\ \A m \in Wares : ware'[m].cnt > 0 => ware'[m].kind \in Kinds
  BY <1>2, <1>4 DEF ShopTypes
<1> QED
  BY <1>1, <1>3, <1>4

\* One step of a player in town leaves him with no more.
LEMMA FortuneStep == ShopTypes /\ [ShopsNext]_shopVars => ShopTypes' /\ Fortune' <= Fortune
<1> SUFFICES ASSUME ShopTypes, [ShopsNext]_shopVars PROVE ShopTypes' /\ Fortune' <= Fortune
  OBVIOUS
<1>1. /\ Worth(pack) \in Int /\ Worth(depot) \in Int /\ Resale(held) \in Nat
      /\ gold \in Nat /\ account \in Nat /\ Empty \in Sorts /\ Resale(Empty) = 0
  BY WorthType, ResaleType, ShopsAssumption DEF ShopTypes, Sorts, Resale
<1>2. Fortune = gold + account + Resale(held) + Worth(pack) + Worth(depot)
  BY DEF Fortune
<1>3. Fortune' = gold' + account' + Resale(held') + Worth(pack') + Worth(depot')
  BY DEF Fortune
<1>4. ASSUME NEW n \in Wares, NEW fast \in BOOLEAN, sell(n, fast) PROVE ShopTypes' /\ Fortune' <= Fortune
  <2>1. PICK k : k = ware[n].kind
    OBVIOUS
  <2>2. k \in Kinds /\ held = Empty /\ gold >= salesprice(k) /\ UNCHANGED <<account, depot, barter>>
    BY <1>4, <2>1 DEF sell, ShopTypes
  <2>3. k \in Sorts /\ salesprice(k) \in Nat /\ salesprice(k) >= Resale(k) /\ Resale(k) \in Nat
    BY <2>2, PricesClamped, ResaleType DEF ShopTypes, Sorts
  <2>4. CASE ~can_carry(k)
    <3>1. UNCHANGED <<gold, held, pack, ware>>
      BY <1>4, <2>1, <2>4 DEF sell
    <3> QED
      BY <1>1, <1>2, <1>3, <2>2, <3>1 DEF ShopTypes
  <2>5. CASE can_carry(k)
    <3>1. /\ Taken(k, fast, free - 1, gold - salesprice(k))
          /\ ware' = IF ware[n].always THEN ware ELSE [ware EXCEPT ![n].cnt = @ - 1]
      BY <1>4, <2>1, <2>5 DEF sell
    <3>2. gold - salesprice(k) \in Nat
      BY <1>1, <2>2, <2>3
    <3>3. /\ gold' \in Nat /\ held' \in Sorts /\ pack' \in [Packs -> Sorts]
          /\ gold' + Resale(held') + Worth(pack') = (gold - salesprice(k)) + Resale(k) + Worth(pack)
      BY <2>3, <3>1, <3>2, TakenWorth
    <3>4. /\ ware' \in [Wares -> [kind : Sorts, cnt : Nat, always : BOOLEAN]]
          /\ \A m \in Wares : ware'[m].cnt > 0 => ware'[m].kind \in Kinds
      <4>1. ware[n].cnt - 1 \in Nat
        BY <1>4 DEF sell, ShopTypes
      <4>2. CASE ware[n].always
        BY <3>1, <4>2 DEF ShopTypes
      <4>3. CASE ~ware[n].always
        <5>1. ware' = [ware EXCEPT ![n].cnt = ware[n].cnt - 1]
          BY <3>1, <4>3
        <5> QED
          BY <4>1, <5>1, <2>1, <2>2 DEF ShopTypes
      <4> QED
        BY <4>2, <4>3
    <3>5. Worth(pack') \in Int /\ Resale(held') \in Nat
      BY <3>3, WorthType, ResaleType, ShopsAssumption
    <3>6. Fortune' <= Fortune
      <4>1. /\ Fortune = gold + account + 0 + Worth(pack) + Worth(depot)
            /\ Fortune' = gold' + account + Resale(held') + Worth(pack') + Worth(depot)
        BY <1>1, <1>2, <1>3, <2>2
      <4> QED
        BY <1>1, <2>3, <3>3, <3>5, <4>1
    <3> QED
      BY <2>2, <3>3, <3>4, <3>6 DEF ShopTypes
  <2> QED
    BY <2>4, <2>5
<1>5. ASSUME buy PROVE ShopTypes' /\ Fortune' <= Fortune
  <2>1. held \in Kinds /\ held' = Empty /\ gold' = gold + buyprice(held) /\ UNCHANGED <<account, pack, depot, barter>>
    BY <1>5 DEF buy, ShopTypes, Sorts
  <2>2. buyprice(held) \in Nat /\ buyprice(held) <= Resale(held)
    BY <2>1, PricesClamped DEF ShopTypes
  <2>3. /\ ware' \in [Wares -> [kind : Sorts, cnt : Nat, always : BOOLEAN]]
        /\ \A n \in Wares : ware'[n].cnt > 0 => ware'[n].kind \in Kinds
    <3>1. UNCHANGED ware \/ add_item_to_store(held)
      BY <1>5 DEF buy
    <3>2. CASE UNCHANGED ware
      BY <3>2 DEF ShopTypes
    <3> QED
      BY <2>1, <3>1, <3>2, StoreTypes
  <2>4. Fortune' = gold' + account + 0 + Worth(pack) + Worth(depot)
    BY <1>1, <1>3, <2>1
  <2> QED
    BY <1>1, <1>2, <2>1, <2>2, <2>3, <2>4 DEF ShopTypes
<1>6. ASSUME NEW n \in Depots, NEW fast \in BOOLEAN, swap_depot(n, fast) PROVE ShopTypes' /\ Fortune' <= Fortune
  <2>1. PICK k : k = depot[n]
    OBVIOUS
  <2>2. /\ k \in Sorts /\ held \in Sorts
        /\ UNCHANGED <<account, ware, barter>>
    BY <1>6, <2>1 DEF swap_depot, ShopTypes
  <2>3. PICK f : Taken(k, fast /\ held = Empty, f, gold)
    BY <1>6, <2>1 DEF swap_depot
  <2>4. /\ gold' \in Nat /\ held' \in Sorts /\ pack' \in [Packs -> Sorts]
        /\ gold' + Resale(held') + Worth(pack') = gold + Resale(k) + Worth(pack)
    BY <1>1, <2>2, <2>3, TakenWorth
  <2>5. depot \in [Depots -> Sorts] /\ depot' \in [Depots -> Sorts] /\ depot'[n] = held /\ \A m \in Depots \ {n} : depot'[m] = depot[m]
    BY <1>6, <2>2 DEF swap_depot, ShopTypes
  <2>6. Worth(depot') = Worth(depot) + Resale(depot'[n]) - Resale(depot[n])
    BY <2>5, WorthChanges, ShopsAssumption
  <2>7. Worth(depot') = Worth(depot) + Resale(held) - Resale(k)
    BY <2>1, <2>5, <2>6
  <2>8. Worth(pack') \in Int /\ Resale(held') \in Nat /\ Resale(k) \in Nat
    BY <2>2, <2>4, WorthType, ResaleType, ShopsAssumption
  <2>9. Fortune' = Fortune
    <3>1. account' = account
      BY <2>2
    <3> QED
      BY <1>1, <1>2, <1>3, <2>4, <2>7, <2>8, <3>1
  <2>10. Fortune \in Int
    BY <1>1, <1>2
  <2>11. ShopTypes'
    BY <2>2, <2>4, <2>5 DEF ShopTypes
  <2> QED
    BY <2>9, <2>10, <2>11
<1>7. ASSUME NEW n \in Packs, Swapped(n) PROVE ShopTypes' /\ Fortune' <= Fortune
  <2>1. exchange(n, held, free, gold) /\ UNCHANGED <<account, depot, ware, barter>> /\ held \in Sorts
    BY <1>7 DEF Swapped, ShopTypes
  <2>2. /\ gold' \in Nat /\ held' \in Sorts /\ pack' \in [Packs -> Sorts]
        /\ gold' + Resale(held') + Worth(pack') = gold + Resale(held) + Worth(pack)
    BY <1>1, <2>1, ExchangeWorth
  <2>3. Worth(pack') \in Int /\ Resale(held') \in Nat
    BY <2>2, WorthType, ResaleType, ShopsAssumption
  <2>4. ShopTypes'
    BY <2>1, <2>2 DEF ShopTypes
  <2> QED
    BY <1>1, <1>2, <1>3, <2>1, <2>2, <2>3, <2>4
<1>8. ASSUME NEW v, Deposits(v) \/ Withdraws(v) PROVE ShopTypes' /\ Fortune' <= Fortune
  <2>1. /\ gold' + account' = gold + account /\ gold' \in Nat /\ account' \in Nat
        /\ UNCHANGED <<held, pack, depot, ware, barter>>
    BY <1>1, <1>8 DEF Deposits, Withdraws
  <2>2. ShopTypes'
    BY <2>1 DEF ShopTypes
  <2>3. Fortune' = (gold' + account') + Resale(held) + Worth(pack) + Worth(depot)
    BY <1>3, <2>1
  <2>4. gold' + account' = gold + account
    BY <2>1
  <2>5. Fortune' = (gold + account) + Resale(held) + Worth(pack) + Worth(depot)
    BY <2>3, <2>4, Zenon
  <2>6. Fortune' <= Fortune
    BY <1>1, <1>2, <2>5
  <2> QED
    BY <2>2, <2>6
<1>9. ASSUME Sweeps \/ (\E b \in Barters : Dresses(b)) \/ UNCHANGED shopVars PROVE ShopTypes' /\ Fortune' <= Fortune
  <2>1. UNCHANGED <<gold, account, held, pack, depot, ware>> /\ barter' \in Barters
    BY <1>9 DEF Sweeps, Dresses, shopVars, ShopTypes
  <2> QED
    BY <1>1, <1>2, <1>3, <2>1 DEF ShopTypes
<1> QED
  BY <1>4, <1>5, <1>6, <1>7, <1>8, <1>9 DEF ShopsNext

\* Nobody gets richer by buying, selling, storing and dressing for it (store.c,
\* depot.c, bank.c): at the best price for each thing no step leaves a player with more.
THEOREM TradeGainsNothing == ShopsSpec => NoProfit
<1>1. ShopsInit => ShopTypes
  <2> SUFFICES ASSUME ShopsInit PROVE ShopTypes
    OBVIOUS
  <2>1. \A n \in Wares : ware[n] = [kind |-> Stock[n], cnt |-> IF Stock[n] = Empty THEN 0 ELSE 1, always |-> Stock[n] # Empty]
    BY DEF ShopsInit
  <2>2. /\ ware \in [Wares -> [kind : Sorts, cnt : Nat, always : BOOLEAN]]
        /\ \A n \in Wares : ware[n].cnt > 0 => ware[n].kind \in Kinds
    BY <2>1, ShopsAssumption DEF ShopsInit, Sorts
  <2> QED
    BY <2>2, ShopsAssumption DEF ShopsInit, ShopTypes, Sorts
<1> QED
  BY <1>1, FortuneStep, PTL DEF ShopsSpec, NoProfit

-----------------------------------------------------------------------------
(* Items and graves: tables in which every item is in one place and says so. *)

Bearers == Names \cup {Vacant}
CharType == [who : Bearers, hand : Items \cup {NoItem}, pack : Items \cup {NoItem}, gold : Int,
             action : {"idle", "take", "drop", "give", "die"}, act1 : Items \cup Slots \cup {0}, at : Ground \cup {0}]
ItemType == [kind : KitKinds \cup {"body"}, carried : Bearers, tile : Ground \cup {0},
             inside : Items \cup {NoItem}, value : Int, first : Bearers]
GraveType == [owner : Bearers, killer : Bearers, access : Bearers, items : SUBSET Items]
TableTypes(w) ==
    w \in [ch : [Slots -> CharType], it : [Items -> ItemType], con : [Items -> GraveType],
           ground : [Ground -> Items \cup {NoItem}]]

\* Whose a quest item is that a player got, or left in his grave.
Heir(n) == IF n \in Humans THEN n ELSE Vacant

\* What is carried, lies on the map and is in a grave says so.
OneEach(w) ==
    /\ \A r, s \in Slots : w.ch[r].who = w.ch[s].who /\ w.ch[r].who # Vacant => r = s
    /\ \A s \in Slots : w.ch[s].hand = w.ch[s].pack => w.ch[s].hand = NoItem
CarriedSafe(w) == \A s \in Slots, i \in Items :
    w.ch[s].hand = i \/ w.ch[s].pack = i =>
        /\ w.it[i].kind \notin {"none", "body"} /\ w.ch[s].who # Vacant
        /\ w.it[i].carried = w.ch[s].who /\ w.it[i].tile = 0 /\ w.it[i].inside = NoItem
        /\ w.it[i].kind = "relic" => w.it[i].first = Heir(w.ch[s].who)
LyingSafe(w) == \A t \in Ground, i \in Items :
    w.ground[t] = i => /\ w.it[i].kind \notin {"none", "relic"}
                       /\ w.it[i].carried = Vacant /\ w.it[i].tile = t /\ w.it[i].inside = NoItem
GravesSafe(w) == \A g, i \in Items :
    i \in w.con[g].items =>
        /\ w.it[g].kind = "body" /\ w.it[i].kind \notin {"none", "body"}
        /\ w.it[i].carried = Vacant /\ w.it[i].tile = 0 /\ w.it[i].inside = g
        /\ w.it[i].kind = "relic" => w.it[i].first = Heir(w.con[g].owner)
UnusedSafe(w) == \A i \in Items : w.it[i].kind = "none" => w.it[i] = Nowhere

\* x is in transit: an item that is nowhere at the moment (NoItem: there is none).
Somewhere(w, i) ==
    \/ \E s \in Slots : w.ch[s].hand = i \/ w.ch[s].pack = i
    \/ \E t \in Ground : w.ground[t] = i
    \/ \E g \in Items : i \in w.con[g].items
AllFound(w, x) == \A i \in Items \ {x} : w.it[i].kind # "none" => Somewhere(w, i)
InTransit(w, x) == x \in Items =>
    /\ w.it[x].kind \notin {"none", "body"} /\ w.it[x].tile = 0 /\ w.it[x].inside = NoItem
    /\ ~Somewhere(w, x)

\* What the characters are doing can be done.
ActsSafe(w) == \A s \in Slots :
    /\ w.ch[s].who = Vacant => w.ch[s].action = "idle"
    /\ w.ch[s].action \in {"take", "drop"} => w.ch[s].at \in Ground
    /\ w.ch[s].action = "give" => w.ch[s].act1 \in Slots \ {s}
    /\ w.ch[s].action = "die" => w.ch[s].act1 \in Slots \cup {0}

LinksSafe(w, x) == OneEach(w) /\ CarriedSafe(w) /\ LyingSafe(w) /\ GravesSafe(w) /\ UnusedSafe(w)
                   /\ AllFound(w, x) /\ InTransit(w, x)
Sound(w, x) == TableTypes(w) /\ ActsSafe(w) /\ LinksSafe(w, x)

KitSafe == kit \in [Names -> [hand : KitKinds, pack : KitKinds, gold : Int]]
BelongSafe == Sound(Tables, NoItem) /\ KitSafe

\* The types of one entry of each table.
LEMMA EntryTypes ==
    ASSUME NEW w, TableTypes(w)
    PROVE  /\ w.ch \in [Slots -> CharType] /\ w.it \in [Items -> ItemType]
           /\ w.con \in [Items -> GraveType] /\ w.ground \in [Ground -> Items \cup {NoItem}]
           /\ w = [ch |-> w.ch, it |-> w.it, con |-> w.con, ground |-> w.ground]
           /\ \A s \in Slots : w.ch[s] \in CharType
           /\ \A i \in Items : w.it[i] \in ItemType /\ w.con[i] \in GraveType
<1>1. /\ w.ch \in [Slots -> CharType] /\ w.it \in [Items -> ItemType]
      /\ w.con \in [Items -> GraveType] /\ w.ground \in [Ground -> Items \cup {NoItem}]
      /\ w = [ch |-> w.ch, it |-> w.it, con |-> w.con, ground |-> w.ground]
  BY DEF TableTypes
<1> QED
  BY <1>1

\* Tables with entries of their types are typed tables.
LEMMA TypesOfEntries ==
    ASSUME NEW w, w = [ch |-> w.ch, it |-> w.it, con |-> w.con, ground |-> w.ground],
           w.ch \in [Slots -> CharType], w.it \in [Items -> ItemType],
           w.con \in [Items -> GraveType], w.ground \in [Ground -> Items \cup {NoItem}]
    PROVE  TableTypes(w)
BY DEF TableTypes

\* What a change of hand or pack of s leaves alone.
SameFolk(w, v, s) ==
    /\ \A r \in Slots \ {s} : v.ch[r] = w.ch[r]
    /\ v.ch[s].who = w.ch[s].who /\ v.ch[s].action = w.ch[s].action
    /\ v.ch[s].act1 = w.ch[s].act1 /\ v.ch[s].at = w.ch[s].at
\* All but i are as they were, and i is the same thing.
SameThings(w, v, i) ==
    /\ \A j \in Items \ {i} : v.it[j] = w.it[j]
    /\ v.it[i].kind = w.it[i].kind /\ v.it[i].tile = w.it[i].tile /\ v.it[i].inside = w.it[i].inside

\* i, which was in transit, is carried by s.
Gains(w, v, s, i) ==
    /\ TableTypes(v) /\ SameFolk(w, v, s) /\ SameThings(w, v, i) /\ v.con = w.con /\ v.ground = w.ground
    /\ \/ w.ch[s].hand = NoItem /\ v.ch[s].hand = i /\ v.ch[s].pack = w.ch[s].pack
       \/ w.ch[s].pack = NoItem /\ v.ch[s].pack = i /\ v.ch[s].hand = w.ch[s].hand
    /\ v.it[i].carried = w.ch[s].who
    /\ w.it[i].kind = "relic" => v.it[i].first = Heir(w.ch[s].who)

\* Item 0 is never in the table.
LEMMA NoItemIsNone == NoItem \notin Items
BY BelongingsAssumption DEF NoItem

\* A character gets the item in transit.
LEMMA GainsSafe ==
    ASSUME NEW w, NEW v, NEW s \in Slots, NEW i \in Items, Sound(w, i), Gains(w, v, s, i), w.ch[s].who # Vacant
    PROVE  Sound(v, NoItem)
<1>0. TableTypes(w) /\ ActsSafe(w) /\ LinksSafe(w, i) /\ i # NoItem
  BY NoItemIsNone DEF Sound
<1>1. TableTypes(v)
  BY DEF Gains
<1>2. /\ \A r \in Slots : /\ v.ch[r].who = w.ch[r].who /\ v.ch[r].action = w.ch[r].action
                          /\ v.ch[r].act1 = w.ch[r].act1 /\ v.ch[r].at = w.ch[r].at
                          /\ r # s => v.ch[r].hand = w.ch[r].hand /\ v.ch[r].pack = w.ch[r].pack
      /\ \A j \in Items : /\ v.it[j].kind = w.it[j].kind /\ v.it[j].tile = w.it[j].tile /\ v.it[j].inside = w.it[j].inside
                          /\ j # i => v.it[j] = w.it[j]
      /\ v.con = w.con /\ v.ground = w.ground
  BY DEF Gains, SameFolk, SameThings
<1>3. /\ \/ w.ch[s].hand = NoItem /\ v.ch[s].hand = i /\ v.ch[s].pack = w.ch[s].pack
         \/ w.ch[s].pack = NoItem /\ v.ch[s].pack = i /\ v.ch[s].hand = w.ch[s].hand
      /\ v.it[i].carried = w.ch[s].who
      /\ w.it[i].kind = "relic" => v.it[i].first = Heir(w.ch[s].who)
  BY DEF Gains
<1>4. ActsSafe(v)
  BY <1>0, <1>2 DEF ActsSafe
<1>5. /\ w.it[i].kind \notin {"none", "body"} /\ w.it[i].tile = 0 /\ w.it[i].inside = NoItem
      /\ \A r \in Slots : w.ch[r].hand # i /\ w.ch[r].pack # i
      /\ \A t \in Ground : w.ground[t] # i
      /\ \A g \in Items : i \notin w.con[g].items
  BY <1>0 DEF LinksSafe, InTransit, Somewhere
<1>6. OneEach(v)
  BY <1>0, <1>2, <1>3, <1>5 DEF LinksSafe, OneEach
<1>7. CarriedSafe(v)
  BY <1>0, <1>2, <1>3, <1>5 DEF LinksSafe, CarriedSafe
<1>8. LyingSafe(v)
  BY <1>0, <1>2, <1>5 DEF LinksSafe, LyingSafe
<1>9. GravesSafe(v)
  BY <1>0, <1>2, <1>5 DEF LinksSafe, GravesSafe
<1>10. UnusedSafe(v)
  BY <1>0, <1>2, <1>5 DEF LinksSafe, UnusedSafe
<1>11. AllFound(v, NoItem)
  BY <1>0, <1>2, <1>3 DEF LinksSafe, AllFound, Somewhere
<1>12. InTransit(v, NoItem)
  BY NoItemIsNone DEF InTransit
<1> QED
  BY <1>1, <1>4, <1>6, <1>7, <1>8, <1>9, <1>10, <1>11, <1>12 DEF Sound, LinksSafe

\* An item in transit comes into an empty hand, or an empty pack.
LEMMA InHandSafe ==
    ASSUME NEW w, NEW s \in Slots, NEW i \in Items, Sound(w, i), w.ch[s].who # Vacant, w.ch[s].hand = NoItem,
           w.it[i].kind = "relic" => FirstOwner(w, s, i) = Heir(w.ch[s].who)
    PROVE  Sound(InHand(w, s, i), NoItem)
<1>0. PICK v : v = InHand(w, s, i)
  OBVIOUS
<1>1. PICK c : c = Carries(w, s, i)
  OBVIOUS
<1>2. PICK n : n = w.ch[s].who
  OBVIOUS
<1>3. PICK f : f = FirstOwner(w, s, i)
  OBVIOUS
<1>40. TableTypes(w)
  BY DEF Sound
<1>4. /\ TableTypes(w) /\ w.ch \in [Slots -> CharType] /\ w.it \in [Items -> ItemType]
      /\ w = [ch |-> w.ch, it |-> w.it, con |-> w.con, ground |-> w.ground]
  BY <1>40, EntryTypes
<1>5. n \in Bearers /\ f \in Bearers /\ i \in Items \cup {NoItem}
  BY <1>2, <1>3, <1>4, EntryTypes DEF CharType, ItemType, FirstOwner
<1>6. /\ c.it = [w.it EXCEPT ![i] = [w.it[i] EXCEPT !.carried = n, !.first = f]]
      /\ c.ch = w.ch /\ c.con = w.con /\ c.ground = w.ground
      /\ c = [ch |-> c.ch, it |-> c.it, con |-> c.con, ground |-> c.ground]
  BY <1>1, <1>2, <1>3, <1>4 DEF Carries
<1>7. v = [c EXCEPT !.ch[s].hand = i]
  BY <1>0, <1>1 DEF InHand
<1>8. /\ v.ch = [w.ch EXCEPT ![s] = [w.ch[s] EXCEPT !.hand = i]]
      /\ v.it = c.it /\ v.con = w.con /\ v.ground = w.ground
      /\ v = [ch |-> v.ch, it |-> v.it, con |-> v.con, ground |-> v.ground]
  BY <1>4, <1>6, <1>7
<1>9. [w.ch[s] EXCEPT !.hand = i] \in CharType /\ [w.it[i] EXCEPT !.carried = n, !.first = f] \in ItemType
  <2>1. w.ch[s] \in CharType /\ w.it[i] \in ItemType
    BY <1>4
  <2>2. [w.ch[s] EXCEPT !.hand = i] \in CharType
    BY <1>5, <2>1 DEF CharType
  <2>3. [w.it[i] EXCEPT !.carried = n, !.first = f] \in ItemType
    BY <1>5, <2>1 DEF ItemType
  <2> QED
    BY <2>2, <2>3
<1>10. TableTypes(v)
  BY <1>4, <1>6, <1>8, <1>9, EntryTypes, TypesOfEntries
<1>11. Gains(w, v, s, i)
  <2>1. SameFolk(w, v, s)
    BY <1>4, <1>8, EntryTypes DEF CharType, SameFolk
  <2>2. SameThings(w, v, i) /\ v.it[i].carried = n /\ v.it[i].first = f
    BY <1>4, <1>6, <1>8, EntryTypes DEF ItemType, SameThings
  <2>3. v.ch[s].hand = i /\ v.ch[s].pack = w.ch[s].pack
    BY <1>4, <1>8, EntryTypes DEF CharType
  <2> QED
    BY <1>2, <1>3, <1>8, <1>10, <2>1, <2>2, <2>3 DEF Gains
<1> QED
  BY <1>0, <1>11, GainsSafe

\* The item in transit is put into the inventory (item.c, give_char_item).
LEMMA InPackSafe ==
    ASSUME NEW w, NEW s \in Slots, NEW i \in Items, Sound(w, i), w.ch[s].who # Vacant, w.ch[s].pack = NoItem,
           w.it[i].kind = "relic" => FirstOwner(w, s, i) = Heir(w.ch[s].who)
    PROVE  Sound(InPack(w, s, i), NoItem)
<1>0. PICK v : v = InPack(w, s, i)
  OBVIOUS
<1>1. PICK c : c = Carries(w, s, i)
  OBVIOUS
<1>2. PICK n : n = w.ch[s].who
  OBVIOUS
<1>3. PICK f : f = FirstOwner(w, s, i)
  OBVIOUS
<1>40. TableTypes(w)
  BY DEF Sound
<1>4. /\ TableTypes(w) /\ w.ch \in [Slots -> CharType] /\ w.it \in [Items -> ItemType]
      /\ w = [ch |-> w.ch, it |-> w.it, con |-> w.con, ground |-> w.ground]
  BY <1>40, EntryTypes
<1>5. n \in Bearers /\ f \in Bearers /\ i \in Items \cup {NoItem}
  BY <1>2, <1>3, <1>4, EntryTypes DEF CharType, ItemType, FirstOwner
<1>6. /\ c.it = [w.it EXCEPT ![i] = [w.it[i] EXCEPT !.carried = n, !.first = f]]
      /\ c.ch = w.ch /\ c.con = w.con /\ c.ground = w.ground
      /\ c = [ch |-> c.ch, it |-> c.it, con |-> c.con, ground |-> c.ground]
  BY <1>1, <1>2, <1>3, <1>4 DEF Carries
<1>7. v = [c EXCEPT !.ch[s].pack = i]
  BY <1>0, <1>1 DEF InPack
<1>8. /\ v.ch = [w.ch EXCEPT ![s] = [w.ch[s] EXCEPT !.pack = i]]
      /\ v.it = c.it /\ v.con = w.con /\ v.ground = w.ground
      /\ v = [ch |-> v.ch, it |-> v.it, con |-> v.con, ground |-> v.ground]
  BY <1>4, <1>6, <1>7
<1>9. [w.ch[s] EXCEPT !.pack = i] \in CharType /\ [w.it[i] EXCEPT !.carried = n, !.first = f] \in ItemType
  <2>1. w.ch[s] \in CharType /\ w.it[i] \in ItemType
    BY <1>4
  <2>2. [w.ch[s] EXCEPT !.pack = i] \in CharType
    BY <1>5, <2>1 DEF CharType
  <2>3. [w.it[i] EXCEPT !.carried = n, !.first = f] \in ItemType
    BY <1>5, <2>1 DEF ItemType
  <2> QED
    BY <2>2, <2>3
<1>10. TableTypes(v)
  BY <1>4, <1>6, <1>8, <1>9, EntryTypes, TypesOfEntries
<1>11. Gains(w, v, s, i)
  <2>1. SameFolk(w, v, s)
    BY <1>4, <1>8, EntryTypes DEF CharType, SameFolk
  <2>2. SameThings(w, v, i) /\ v.it[i].carried = n /\ v.it[i].first = f
    BY <1>4, <1>6, <1>8, EntryTypes DEF ItemType, SameThings
  <2>3. v.ch[s].pack = i /\ v.ch[s].hand = w.ch[s].hand
    BY <1>4, <1>8, EntryTypes DEF CharType
  <2> QED
    BY <1>2, <1>3, <1>8, <1>10, <2>1, <2>2, <2>3 DEF Gains
<1> QED
  BY <1>0, <1>11, GainsSafe

\* s gives i out of his hands: i is in transit.
Loses(w, v, s, i) ==
    /\ TableTypes(v) /\ SameFolk(w, v, s) /\ SameThings(w, v, i) /\ v.con = w.con /\ v.ground = w.ground
    /\ \/ w.ch[s].hand = i /\ v.ch[s].hand = NoItem /\ v.ch[s].pack = w.ch[s].pack
       \/ w.ch[s].pack = i /\ v.ch[s].pack = NoItem /\ v.ch[s].hand = w.ch[s].hand

\* A character's item goes into transit.
LEMMA LosesSafe ==
    ASSUME NEW w, NEW v, NEW s \in Slots, NEW i \in Items, Sound(w, NoItem), Loses(w, v, s, i)
    PROVE  Sound(v, i)
<1>0. TableTypes(w) /\ ActsSafe(w) /\ LinksSafe(w, NoItem) /\ i # NoItem /\ NoItem \notin Items
  BY NoItemIsNone DEF Sound
<1>1. TableTypes(v)
  BY DEF Loses
<1>2. /\ \A r \in Slots : /\ v.ch[r].who = w.ch[r].who /\ v.ch[r].action = w.ch[r].action
                          /\ v.ch[r].act1 = w.ch[r].act1 /\ v.ch[r].at = w.ch[r].at
                          /\ r # s => v.ch[r].hand = w.ch[r].hand /\ v.ch[r].pack = w.ch[r].pack
      /\ \A j \in Items : /\ v.it[j].kind = w.it[j].kind /\ v.it[j].tile = w.it[j].tile /\ v.it[j].inside = w.it[j].inside
                          /\ j # i => v.it[j] = w.it[j]
      /\ v.con = w.con /\ v.ground = w.ground
  BY DEF Loses, SameFolk, SameThings
<1>3. \/ w.ch[s].hand = i /\ v.ch[s].hand = NoItem /\ v.ch[s].pack = w.ch[s].pack
      \/ w.ch[s].pack = i /\ v.ch[s].pack = NoItem /\ v.ch[s].hand = w.ch[s].hand
  BY DEF Loses
<1>4. ActsSafe(v)
  BY <1>0, <1>2 DEF ActsSafe
<1>5. /\ w.it[i].kind \notin {"none", "body"} /\ w.it[i].tile = 0 /\ w.it[i].inside = NoItem
      /\ w.it[i].carried = w.ch[s].who /\ w.ch[s].who # Vacant
  BY <1>0, <1>3 DEF LinksSafe, CarriedSafe
<1>6. /\ \A r \in Slots : v.ch[r].hand # i /\ v.ch[r].pack # i
      /\ \A t \in Ground : w.ground[t] # i
      /\ \A g \in Items : i \notin w.con[g].items
  <2>1. ASSUME NEW r \in Slots PROVE v.ch[r].hand # i /\ v.ch[r].pack # i
    <3>1. CASE r = s
      BY <1>0, <1>3, <3>1 DEF LinksSafe, OneEach
    <3>2. CASE r # s
      <4>1. w.ch[r].who # w.ch[s].who
        BY <1>0, <1>5, <3>2 DEF LinksSafe, OneEach
      <4>2. w.ch[r].hand # i /\ w.ch[r].pack # i
        BY <1>0, <1>5, <4>1 DEF LinksSafe, CarriedSafe
      <4> QED
        BY <1>2, <3>2, <4>2
    <3> QED
      BY <3>1, <3>2
  <2>2. \A t \in Ground : w.ground[t] # i
    BY <1>0, <1>5 DEF LinksSafe, LyingSafe
  <2>3. \A g \in Items : i \notin w.con[g].items
    BY <1>0, <1>5 DEF LinksSafe, GravesSafe
  <2> QED
    BY <2>1, <2>2, <2>3
<1>7. OneEach(v)
  BY <1>0, <1>2, <1>3 DEF LinksSafe, OneEach
<1>8. CarriedSafe(v)
  BY <1>0, <1>2, <1>3, <1>6 DEF LinksSafe, CarriedSafe
<1>9. LyingSafe(v)
  BY <1>0, <1>2, <1>6 DEF LinksSafe, LyingSafe
<1>10. GravesSafe(v)
  BY <1>0, <1>2, <1>6 DEF LinksSafe, GravesSafe
<1>11. UnusedSafe(v)
  BY <1>0, <1>2, <1>5 DEF LinksSafe, UnusedSafe
<1>12. AllFound(v, i)
  BY <1>0, <1>2, <1>3 DEF LinksSafe, AllFound, Somewhere
<1>13. InTransit(v, i)
  BY <1>2, <1>5, <1>6 DEF InTransit, Somewhere
<1> QED
  BY <1>1, <1>4, <1>7, <1>8, <1>9, <1>10, <1>11, <1>12, <1>13 DEF Sound, LinksSafe

\* Nothing of what anybody has changes.
SameHands(w, v) == \A r \in Slots :
    /\ v.ch[r].who = w.ch[r].who /\ v.ch[r].hand = w.ch[r].hand /\ v.ch[r].pack = w.ch[r].pack
    /\ v.ch[r].action = w.ch[r].action /\ v.ch[r].act1 = w.ch[r].act1 /\ v.ch[r].at = w.ch[r].at

\* i is destroyed.
Vanishes(w, v, i) ==
    /\ TableTypes(v) /\ SameHands(w, v) /\ v.ground = w.ground
    /\ \A j \in Items \ {i} : v.it[j] = w.it[j] /\ v.con[j] = w.con[j]
    /\ v.it[i] = Nowhere /\ v.con[i].items = {}

\* The item in transit is freed.
LEMMA VanishesSafe ==
    ASSUME NEW w, NEW v, NEW i \in Items, Sound(w, i), Vanishes(w, v, i)
    PROVE  Sound(v, NoItem)
<1>0. TableTypes(w) /\ ActsSafe(w) /\ LinksSafe(w, i) /\ i # NoItem /\ NoItem \notin Items
  BY NoItemIsNone DEF Sound
<1>1. TableTypes(v)
  BY DEF Vanishes
<1>2. /\ \A r \in Slots :
          /\ v.ch[r].who = w.ch[r].who /\ v.ch[r].hand = w.ch[r].hand /\ v.ch[r].pack = w.ch[r].pack
          /\ v.ch[r].action = w.ch[r].action /\ v.ch[r].act1 = w.ch[r].act1 /\ v.ch[r].at = w.ch[r].at
      /\ \A j \in Items : j # i => v.it[j] = w.it[j] /\ v.con[j] = w.con[j]
      /\ v.it[i] = Nowhere /\ v.con[i].items = {} /\ v.ground = w.ground
  BY DEF Vanishes, SameHands
<1>3. ActsSafe(v)
  BY <1>0, <1>2 DEF ActsSafe
<1>4. /\ w.it[i].kind \notin {"none", "body"}
      /\ \A r \in Slots : w.ch[r].hand # i /\ w.ch[r].pack # i
      /\ \A t \in Ground : w.ground[t] # i
      /\ \A g \in Items : i \notin w.con[g].items
  BY <1>0 DEF LinksSafe, InTransit, Somewhere
<1>5. w.con[i].items = {}
  <2>1. w.con[i].items \subseteq Items
    BY <1>0, EntryTypes DEF GraveType
  <2> QED
    BY <1>0, <1>4, <2>1 DEF LinksSafe, GravesSafe
<1>6. OneEach(v)
  BY <1>0, <1>2 DEF LinksSafe, OneEach
<1>7. CarriedSafe(v)
  BY <1>0, <1>2, <1>4 DEF LinksSafe, CarriedSafe
<1>8. LyingSafe(v)
  BY <1>0, <1>2, <1>4 DEF LinksSafe, LyingSafe
<1>9. GravesSafe(v)
  BY <1>0, <1>2, <1>4 DEF LinksSafe, GravesSafe
<1>10. UnusedSafe(v)
  BY <1>0, <1>2 DEF LinksSafe, UnusedSafe
<1>11. AllFound(v, NoItem)
  <2> SUFFICES ASSUME NEW j \in Items, v.it[j].kind # "none" PROVE Somewhere(v, j)
    BY DEF AllFound
  <2>1. j # i
    BY <1>2 DEF Nowhere
  <2>2. Somewhere(w, j)
    BY <1>0, <1>2, <2>1 DEF LinksSafe, AllFound
  <2> QED
    BY <1>2, <1>5, <2>2 DEF Somewhere
<1>12. InTransit(v, NoItem)
  BY <1>0 DEF InTransit
<1> QED
  BY <1>1, <1>3, <1>6, <1>7, <1>8, <1>9, <1>10, <1>11, <1>12 DEF Sound, LinksSafe

\* i is taken from tile t: it is in transit.
TakenUp(w, v, t, i) ==
    /\ TableTypes(v) /\ SameHands(w, v) /\ v.con = w.con
    /\ w.ground[t] = i /\ v.ground = [w.ground EXCEPT ![t] = NoItem]
    /\ \A j \in Items \ {i} : v.it[j] = w.it[j]
    /\ v.it[i].kind = w.it[i].kind /\ v.it[i].tile = 0 /\ v.it[i].inside = w.it[i].inside

\* An item is taken off the map into transit.
LEMMA TakenUpSafe ==
    ASSUME NEW w, NEW v, NEW t \in Ground, NEW i \in Items, Sound(w, NoItem), TakenUp(w, v, t, i), w.it[i].kind # "body"
    PROVE  Sound(v, i)
<1>0. TableTypes(w) /\ ActsSafe(w) /\ LinksSafe(w, NoItem) /\ i # NoItem /\ NoItem \notin Items
  BY NoItemIsNone DEF Sound
<1>1. TableTypes(v)
  BY DEF TakenUp
<1>2. /\ \A r \in Slots :
          /\ v.ch[r].who = w.ch[r].who /\ v.ch[r].hand = w.ch[r].hand /\ v.ch[r].pack = w.ch[r].pack
          /\ v.ch[r].action = w.ch[r].action /\ v.ch[r].act1 = w.ch[r].act1 /\ v.ch[r].at = w.ch[r].at
      /\ \A j \in Items : j # i => v.it[j] = w.it[j]
      /\ v.it[i].kind = w.it[i].kind /\ v.it[i].tile = 0 /\ v.it[i].inside = w.it[i].inside
      /\ v.con = w.con /\ w.ground[t] = i
  BY DEF TakenUp, SameHands
<1>3. v.ground[t] = NoItem /\ \A u \in Ground : u # t => v.ground[u] = w.ground[u]
  BY <1>0, EntryTypes DEF TakenUp
<1>4. ActsSafe(v)
  BY <1>0, <1>2 DEF ActsSafe
<1>5. w.it[i].kind \notin {"none", "relic"} /\ w.it[i].carried = Vacant /\ w.it[i].tile = t /\ w.it[i].inside = NoItem /\ t # 0
  BY <1>0, <1>2, BelongingsAssumption DEF LinksSafe, LyingSafe
<1>6. /\ \A r \in Slots : w.ch[r].hand # i /\ w.ch[r].pack # i
      /\ \A u \in Ground : u # t => w.ground[u] # i
      /\ \A g \in Items : i \notin w.con[g].items
  <2>1. \A r \in Slots : w.ch[r].hand # i /\ w.ch[r].pack # i
    BY <1>0, <1>5 DEF LinksSafe, CarriedSafe
  <2>2. \A u \in Ground : u # t => w.ground[u] # i
    BY <1>0, <1>5 DEF LinksSafe, LyingSafe
  <2>3. \A g \in Items : i \notin w.con[g].items
    BY <1>0, <1>5 DEF LinksSafe, GravesSafe
  <2> QED
    BY <2>1, <2>2, <2>3
<1>7. OneEach(v)
  BY <1>0, <1>2 DEF LinksSafe, OneEach
<1>8. CarriedSafe(v)
  BY <1>0, <1>2, <1>6 DEF LinksSafe, CarriedSafe
<1>9. LyingSafe(v)
  BY <1>0, <1>2, <1>3, <1>6 DEF LinksSafe, LyingSafe
<1>10. GravesSafe(v)
  BY <1>0, <1>2, <1>6 DEF LinksSafe, GravesSafe
<1>11. UnusedSafe(v)
  BY <1>0, <1>2, <1>5 DEF LinksSafe, UnusedSafe
<1>12. AllFound(v, i)
  <2> SUFFICES ASSUME NEW j \in Items \ {i}, v.it[j].kind # "none" PROVE Somewhere(v, j)
    BY DEF AllFound
  <2>1. Somewhere(w, j)
    BY <1>0, <1>2 DEF LinksSafe, AllFound
  <2> QED
    BY <1>2, <1>3, <2>1 DEF Somewhere
<1>13. InTransit(v, i)
  BY <1>0, <1>2, <1>3, <1>5, <1>6 DEF InTransit, Somewhere
<1> QED
  BY <1>1, <1>4, <1>7, <1>8, <1>9, <1>10, <1>11, <1>12, <1>13 DEF Sound, LinksSafe

\* i, which was in transit, is put on tile t.
LaidDown(w, v, t, i) ==
    /\ TableTypes(v) /\ SameHands(w, v) /\ v.con = w.con
    /\ w.ground[t] = NoItem /\ v.ground = [w.ground EXCEPT ![t] = i]
    /\ \A j \in Items \ {i} : v.it[j] = w.it[j]
    /\ v.it[i].kind = w.it[i].kind /\ v.it[i].tile = t /\ v.it[i].inside = NoItem /\ v.it[i].carried = Vacant

\* The item in transit is laid on the map.
LEMMA LaidDownSafe ==
    ASSUME NEW w, NEW v, NEW t \in Ground, NEW i \in Items, Sound(w, i), LaidDown(w, v, t, i), w.it[i].kind # "relic"
    PROVE  Sound(v, NoItem)
<1>0. TableTypes(w) /\ ActsSafe(w) /\ LinksSafe(w, i) /\ i # NoItem /\ NoItem \notin Items
  BY NoItemIsNone DEF Sound
<1>1. TableTypes(v)
  BY DEF LaidDown
<1>2. /\ \A r \in Slots :
          /\ v.ch[r].who = w.ch[r].who /\ v.ch[r].hand = w.ch[r].hand /\ v.ch[r].pack = w.ch[r].pack
          /\ v.ch[r].action = w.ch[r].action /\ v.ch[r].act1 = w.ch[r].act1 /\ v.ch[r].at = w.ch[r].at
      /\ \A j \in Items : j # i => v.it[j] = w.it[j]
      /\ v.it[i].kind = w.it[i].kind /\ v.it[i].tile = t /\ v.it[i].inside = NoItem /\ v.it[i].carried = Vacant
      /\ v.con = w.con /\ w.ground[t] = NoItem
  BY DEF LaidDown, SameHands
<1>3. v.ground[t] = i /\ \A u \in Ground : u # t => v.ground[u] = w.ground[u]
  BY <1>0, EntryTypes DEF LaidDown
<1>4. ActsSafe(v)
  BY <1>0, <1>2 DEF ActsSafe
<1>5. /\ w.it[i].kind \notin {"none", "body"}
      /\ \A r \in Slots : w.ch[r].hand # i /\ w.ch[r].pack # i
      /\ \A u \in Ground : w.ground[u] # i
      /\ \A g \in Items : i \notin w.con[g].items
  BY <1>0 DEF LinksSafe, InTransit, Somewhere
<1>6. OneEach(v)
  BY <1>0, <1>2 DEF LinksSafe, OneEach
<1>7. CarriedSafe(v)
  BY <1>0, <1>2, <1>5 DEF LinksSafe, CarriedSafe
<1>8. LyingSafe(v)
  BY <1>0, <1>2, <1>3, <1>5 DEF LinksSafe, LyingSafe
<1>9. GravesSafe(v)
  BY <1>0, <1>2, <1>5 DEF LinksSafe, GravesSafe
<1>10. UnusedSafe(v)
  BY <1>0, <1>2, <1>5 DEF LinksSafe, UnusedSafe
<1>11. AllFound(v, NoItem)
  <2> SUFFICES ASSUME NEW j \in Items, v.it[j].kind # "none" PROVE Somewhere(v, j)
    BY DEF AllFound
  <2>1. CASE j = i
    BY <1>3, <2>1 DEF Somewhere
  <2>2. CASE j # i
    <3>1. Somewhere(w, j)
      BY <1>0, <1>2, <2>2 DEF LinksSafe, AllFound
    <3> QED
      BY <1>0, <1>2, <1>3, <3>1 DEF Somewhere
  <2> QED
    BY <2>1, <2>2
<1>12. InTransit(v, NoItem)
  BY <1>0 DEF InTransit
<1> QED
  BY <1>1, <1>4, <1>6, <1>7, <1>8, <1>9, <1>10, <1>11, <1>12 DEF Sound, LinksSafe

\* Hand and pack of s change places.
Exchanged(w, v, s) ==
    /\ TableTypes(v) /\ SameFolk(w, v, s) /\ v.it = w.it /\ v.con = w.con /\ v.ground = w.ground
    /\ v.ch[s].hand = w.ch[s].pack /\ v.ch[s].pack = w.ch[s].hand

\* A character exchanges hand and inventory.
LEMMA ExchangedSafe ==
    ASSUME NEW w, NEW v, NEW s \in Slots, Sound(w, NoItem), Exchanged(w, v, s)
    PROVE  Sound(v, NoItem)
<1>0. TableTypes(w) /\ ActsSafe(w) /\ LinksSafe(w, NoItem) /\ NoItem \notin Items
  BY NoItemIsNone DEF Sound
<1>1. TableTypes(v)
  BY DEF Exchanged
<1>2. /\ \A r \in Slots : /\ v.ch[r].who = w.ch[r].who /\ v.ch[r].action = w.ch[r].action
                          /\ v.ch[r].act1 = w.ch[r].act1 /\ v.ch[r].at = w.ch[r].at
                          /\ r # s => v.ch[r].hand = w.ch[r].hand /\ v.ch[r].pack = w.ch[r].pack
      /\ v.it = w.it /\ v.con = w.con /\ v.ground = w.ground
      /\ v.ch[s].hand = w.ch[s].pack /\ v.ch[s].pack = w.ch[s].hand
  BY DEF Exchanged, SameFolk
<1>3. ActsSafe(v)
  BY <1>0, <1>2 DEF ActsSafe
<1>4. OneEach(v)
  BY <1>0, <1>2 DEF LinksSafe, OneEach
<1>5. CarriedSafe(v)
  <2>1. \A r \in Slots, i \in Items : v.ch[r].hand = i \/ v.ch[r].pack = i <=> w.ch[r].hand = i \/ w.ch[r].pack = i
    BY <1>2
  <2> QED
    BY <1>0, <1>2, <2>1 DEF LinksSafe, CarriedSafe
<1>6. LyingSafe(v) /\ GravesSafe(v) /\ UnusedSafe(v)
  BY <1>0, <1>2 DEF LinksSafe, LyingSafe, GravesSafe, UnusedSafe
<1>7. AllFound(v, NoItem)
  <2> SUFFICES ASSUME NEW j \in Items, v.it[j].kind # "none" PROVE Somewhere(v, j)
    BY DEF AllFound
  <2>1. Somewhere(w, j)
    BY <1>0, <1>2 DEF LinksSafe, AllFound
  <2>2. \A r \in Slots : w.ch[r].hand = j \/ w.ch[r].pack = j => v.ch[r].hand = j \/ v.ch[r].pack = j
    BY <1>2
  <2> QED
    BY <1>2, <2>1, <2>2 DEF Somewhere
<1>8. InTransit(v, NoItem)
  BY <1>0 DEF InTransit
<1> QED
  BY <1>1, <1>3, <1>4, <1>5, <1>6, <1>7, <1>8 DEF Sound, LinksSafe

\* Nothing changes but what s is doing.
LEMMA DoneSafe ==
    ASSUME NEW w, NEW s \in Slots, Sound(w, NoItem)
    PROVE  Sound(Done(w, s), NoItem)
<1>0. TableTypes(w) /\ ActsSafe(w) /\ LinksSafe(w, NoItem) /\ NoItem \notin Items
  BY NoItemIsNone DEF Sound
<1>1. /\ w.ch \in [Slots -> CharType] /\ w.it \in [Items -> ItemType]
      /\ w = [ch |-> w.ch, it |-> w.it, con |-> w.con, ground |-> w.ground]
  BY <1>0, EntryTypes
<1>2. PICK v : v = Done(w, s)
  OBVIOUS
<1>3. /\ v.ch = [w.ch EXCEPT ![s] = [w.ch[s] EXCEPT !.action = "idle", !.act1 = 0, !.at = 0]]
      /\ v.it = w.it /\ v.con = w.con /\ v.ground = w.ground
      /\ v = [ch |-> v.ch, it |-> v.it, con |-> v.con, ground |-> v.ground]
  BY <1>1, <1>2 DEF Done
<1>4. w.ch[s] \in CharType /\ [w.ch[s] EXCEPT !.action = "idle", !.act1 = 0, !.at = 0] \in CharType
  BY <1>1 DEF CharType
<1>5. v.ch \in [Slots -> CharType]
  BY <1>1, <1>3, <1>4
<1>6. TableTypes(v)
  BY <1>0, <1>1, <1>3, <1>5, EntryTypes, TypesOfEntries
<1>7. /\ \A r \in Slots : v.ch[r].who = w.ch[r].who /\ v.ch[r].hand = w.ch[r].hand /\ v.ch[r].pack = w.ch[r].pack
      /\ \A r \in Slots : r # s => v.ch[r] = w.ch[r]
      /\ v.ch[s].action = "idle"
  BY <1>1, <1>3, <1>4 DEF CharType
<1>8. ActsSafe(v)
  BY <1>0, <1>7 DEF ActsSafe
<1>9. LinksSafe(v, NoItem)
  <2>1. OneEach(v) /\ CarriedSafe(v)
    BY <1>0, <1>3, <1>7 DEF LinksSafe, OneEach, CarriedSafe
  <2>2. LyingSafe(v) /\ GravesSafe(v) /\ UnusedSafe(v) /\ InTransit(v, NoItem)
    BY <1>0, <1>3 DEF LinksSafe, LyingSafe, GravesSafe, UnusedSafe, InTransit
  <2>3. AllFound(v, NoItem)
    BY <1>0, <1>3, <1>7 DEF LinksSafe, AllFound, Somewhere
  <2> QED
    BY <2>1, <2>2, <2>3 DEF LinksSafe
<1> QED
  BY <1>2, <1>6, <1>8, <1>9 DEF Sound

\* pocket_money: an item in transit becomes gold.
LEMMA PocketSafe ==
    ASSUME NEW w, NEW s \in Slots, NEW i \in Items, Sound(w, i)
    PROVE  Sound(pocket_money(w, s, i), NoItem)
<1>0. TableTypes(w)
  BY DEF Sound
<1>1. /\ w.ch \in [Slots -> CharType] /\ w.it \in [Items -> ItemType] /\ w.con \in [Items -> GraveType]
      /\ w = [ch |-> w.ch, it |-> w.it, con |-> w.con, ground |-> w.ground]
  BY <1>0, EntryTypes
<1>2. PICK v : v = pocket_money(w, s, i)
  OBVIOUS
<1>3. PICK d : d = destroy_item(w, i)
  OBVIOUS
<1>4. /\ d.it = [j \in Items |-> IF j = i \/ j \in w.con[i].items THEN Nowhere ELSE w.it[j]]
      /\ d.con = [w.con EXCEPT ![i] = NoGrave] /\ d.ch = w.ch /\ d.ground = w.ground
      /\ d = [ch |-> d.ch, it |-> d.it, con |-> d.con, ground |-> d.ground]
  BY <1>1, <1>3 DEF destroy_item
<1>5. PICK cash : cash = w.ch[s].gold + w.it[i].value
  OBVIOUS
<1>6. v = [d EXCEPT !.ch[s].gold = @ + w.it[i].value]
  BY <1>2, <1>3 DEF pocket_money
<1>7. /\ v.ch = [w.ch EXCEPT ![s] = [w.ch[s] EXCEPT !.gold = cash]]
      /\ v.it = d.it /\ v.con = d.con /\ v.ground = w.ground
      /\ v = [ch |-> v.ch, it |-> v.it, con |-> v.con, ground |-> v.ground]
  BY <1>1, <1>4, <1>5, <1>6
<1>8. w.con[i].items = {}
  <2>1. w.it[i].kind # "body" /\ w.con[i].items \subseteq Items
    BY <1>0, EntryTypes DEF Sound, LinksSafe, InTransit, GraveType
  <2> QED
    BY <2>1 DEF Sound, LinksSafe, GravesSafe
<1>9. cash \in Int /\ w.ch[s] \in CharType /\ [w.ch[s] EXCEPT !.gold = cash] \in CharType
  <2>1. w.ch[s] \in CharType /\ w.it[i] \in ItemType
    BY <1>1
  <2>2. cash \in Int
    BY <1>5, <2>1 DEF CharType, ItemType
  <2>3. [w.ch[s] EXCEPT !.gold = cash] \in CharType
    BY <2>1, <2>2 DEF CharType
  <2> QED
    BY <2>1, <2>2, <2>3
<1>10. Nowhere \in ItemType /\ NoGrave \in GraveType
  BY DEF Nowhere, ItemType, NoGrave, GraveType, Bearers, KitKinds
<1>11. v.it = [j \in Items |-> IF j = i THEN Nowhere ELSE w.it[j]]
  BY <1>4, <1>7, <1>8
<1>12. v.ch \in [Slots -> CharType] /\ v.it \in [Items -> ItemType] /\ v.con \in [Items -> GraveType]
  BY <1>1, <1>4, <1>7, <1>9, <1>10, <1>11
<1>13. TableTypes(v)
  BY <1>0, <1>7, <1>12, EntryTypes, TypesOfEntries
<1>14. Vanishes(w, v, i)
  <2>1. SameHands(w, v)
    BY <1>1, <1>7, <1>9 DEF CharType, SameHands
  <2>2. /\ \A j \in Items \ {i} : v.it[j] = w.it[j] /\ v.con[j] = w.con[j]
        /\ v.it[i] = Nowhere /\ v.con[i] = NoGrave
    BY <1>1, <1>4, <1>7, <1>11
  <2> QED
    BY <1>7, <1>13, <2>1, <2>2 DEF Vanishes, NoGrave
<1> QED
  BY <1>2, <1>14, VanishesSafe

\* remove_item_char.
LEMMA RemovedSafe ==
    ASSUME NEW w, NEW s \in Slots, NEW i \in Items, Sound(w, NoItem), w.ch[s].hand = i \/ w.ch[s].pack = i
    PROVE  /\ Sound(remove_item_char(w, s, i), i)
           /\ SameThings(w, remove_item_char(w, s, i), i)
           /\ \A r \in Slots : remove_item_char(w, s, i).ch[r].who = w.ch[r].who
           /\ \A r \in Slots \ {s} : remove_item_char(w, s, i).ch[r] = w.ch[r]
<1>0. TableTypes(w)
  BY DEF Sound
<1>1. /\ w.ch \in [Slots -> CharType] /\ w.it \in [Items -> ItemType]
      /\ w = [ch |-> w.ch, it |-> w.it, con |-> w.con, ground |-> w.ground]
  BY <1>0, EntryTypes
<1>2. PICK v : v = remove_item_char(w, s, i)
  OBVIOUS
<1>3. PICK c : c = IF w.ch[s].hand = i THEN [w.ch[s] EXCEPT !.hand = NoItem]
                   ELSE IF w.ch[s].pack = i THEN [w.ch[s] EXCEPT !.pack = NoItem] ELSE w.ch[s]
  OBVIOUS
<1>4. /\ v.ch = [w.ch EXCEPT ![s] = c] /\ v.it = [w.it EXCEPT ![i] = [w.it[i] EXCEPT !.carried = Vacant]]
      /\ v.con = w.con /\ v.ground = w.ground
      /\ v = [ch |-> v.ch, it |-> v.it, con |-> v.con, ground |-> v.ground]
  BY <1>1, <1>2, <1>3 DEF remove_item_char
<1>5. w.ch[s] \in CharType /\ w.it[i] \in ItemType
  BY <1>1
<1>6. /\ c \in CharType /\ c.who = w.ch[s].who /\ c.action = w.ch[s].action /\ c.act1 = w.ch[s].act1 /\ c.at = w.ch[s].at
      /\ \/ w.ch[s].hand = i /\ c.hand = NoItem /\ c.pack = w.ch[s].pack
         \/ w.ch[s].pack = i /\ c.pack = NoItem /\ c.hand = w.ch[s].hand
  <2>1. CASE w.ch[s].hand = i
    BY <1>3, <1>5, <2>1 DEF CharType
  <2>2. CASE w.ch[s].hand # i
    BY <1>3, <1>5, <2>2 DEF CharType
  <2> QED
    BY <2>1, <2>2
<1>7. [w.it[i] EXCEPT !.carried = Vacant] \in ItemType
  BY <1>5 DEF ItemType, Bearers
<1>8. v.ch \in [Slots -> CharType] /\ v.it \in [Items -> ItemType]
  BY <1>1, <1>4, <1>6, <1>7
<1>9. TableTypes(v)
  BY <1>0, <1>4, <1>8, EntryTypes, TypesOfEntries
<1>10. SameFolk(w, v, s) /\ SameThings(w, v, i)
  <2>1. v.ch[s] = c /\ \A r \in Slots \ {s} : v.ch[r] = w.ch[r]
    BY <1>1, <1>4
  <2>2. SameThings(w, v, i)
    BY <1>1, <1>4, <1>5 DEF SameThings, ItemType
  <2> QED
    BY <1>6, <2>1, <2>2 DEF SameFolk
<1>11. Loses(w, v, s, i)
  <2>1. v.ch[s] = c
    BY <1>1, <1>4
  <2> QED
    BY <1>4, <1>6, <1>9, <1>10, <2>1 DEF Loses
<1>12. Sound(v, i)
  BY <1>11, LosesSafe
<1> QED
  BY <1>2, <1>10, <1>12 DEF SameFolk

\* What is in a hand goes out of it.
LEMMA HandEmptied ==
    ASSUME NEW w, NEW s \in Slots, NEW i \in Items, Sound(w, NoItem), w.ch[s].hand = i
    PROVE  /\ Sound([w EXCEPT !.ch[s].hand = NoItem], i)
           /\ [w EXCEPT !.ch[s].hand = NoItem].it = w.it
           /\ \A r \in Slots \ {s} : [w EXCEPT !.ch[s].hand = NoItem].ch[r] = w.ch[r]
<1>0. TableTypes(w)
  BY DEF Sound
<1>1. /\ w.ch \in [Slots -> CharType] /\ w.it \in [Items -> ItemType]
      /\ w = [ch |-> w.ch, it |-> w.it, con |-> w.con, ground |-> w.ground]
  BY <1>0, EntryTypes
<1>2. PICK v : v = [w EXCEPT !.ch[s].hand = NoItem]
  OBVIOUS
<1>3. /\ v.ch = [w.ch EXCEPT ![s] = [w.ch[s] EXCEPT !.hand = NoItem]]
      /\ v.it = w.it /\ v.con = w.con /\ v.ground = w.ground
      /\ v = [ch |-> v.ch, it |-> v.it, con |-> v.con, ground |-> v.ground]
  BY <1>1, <1>2
<1>4. w.ch[s] \in CharType /\ [w.ch[s] EXCEPT !.hand = NoItem] \in CharType
  BY <1>1 DEF CharType
<1>5. v.ch \in [Slots -> CharType]
  BY <1>1, <1>3, <1>4
<1>6. TableTypes(v)
  BY <1>0, <1>3, <1>5, EntryTypes, TypesOfEntries
<1>7. SameFolk(w, v, s) /\ v.ch[s].hand = NoItem /\ v.ch[s].pack = w.ch[s].pack
  BY <1>1, <1>3, <1>4 DEF SameFolk, CharType
<1>8. SameThings(w, v, i)
  BY <1>3 DEF SameThings
<1>9. Loses(w, v, s, i)
  BY <1>3, <1>6, <1>7, <1>8 DEF Loses
<1>10. Sound(v, i)
  BY <1>9, LosesSafe
<1> QED
  BY <1>2, <1>3, <1>7, <1>10 DEF SameFolk

\* remove_item_map.
LEMMA PickedUpSafe ==
    ASSUME NEW w, NEW t \in Ground, NEW i \in Items, Sound(w, NoItem), w.ground[t] = i, w.it[i].kind # "body"
    PROVE  /\ Sound(remove_item_map(w, i), i) /\ remove_item_map(w, i).it[i].kind = w.it[i].kind
           /\ remove_item_map(w, i).ch = w.ch
<1>0. TableTypes(w)
  BY DEF Sound
<1>1. /\ w.ch \in [Slots -> CharType] /\ w.it \in [Items -> ItemType] /\ w.ground \in [Ground -> Items \cup {NoItem}]
      /\ w = [ch |-> w.ch, it |-> w.it, con |-> w.con, ground |-> w.ground]
  BY <1>0, EntryTypes
<1>2. PICK v : v = remove_item_map(w, i)
  OBVIOUS
<1>3. w.it[i].tile = t
  BY DEF Sound, LinksSafe, LyingSafe
<1>4. /\ v.ground = [w.ground EXCEPT ![t] = NoItem] /\ v.it = [w.it EXCEPT ![i] = [w.it[i] EXCEPT !.tile = 0]]
      /\ v.ch = w.ch /\ v.con = w.con
      /\ v = [ch |-> v.ch, it |-> v.it, con |-> v.con, ground |-> v.ground]
  BY <1>1, <1>2, <1>3 DEF remove_item_map
<1>5. w.it[i] \in ItemType /\ [w.it[i] EXCEPT !.tile = 0] \in ItemType
  BY <1>1 DEF ItemType
<1>6. v.it \in [Items -> ItemType] /\ v.ground \in [Ground -> Items \cup {NoItem}]
  BY <1>1, <1>4, <1>5
<1>7. TableTypes(v)
  BY <1>0, <1>4, <1>6, EntryTypes, TypesOfEntries
<1>8. /\ \A j \in Items \ {i} : v.it[j] = w.it[j]
      /\ v.it[i].kind = w.it[i].kind /\ v.it[i].tile = 0 /\ v.it[i].inside = w.it[i].inside
  BY <1>1, <1>4, <1>5 DEF ItemType
<1>9. TakenUp(w, v, t, i)
  BY <1>4, <1>7, <1>8 DEF TakenUp, SameHands
<1> QED
  BY <1>2, <1>4, <1>8, <1>9, TakenUpSafe

\* set_item_map.
LEMMA PutDownSafe ==
    ASSUME NEW w, NEW t \in Ground, NEW i \in Items, Sound(w, i), w.ground[t] = NoItem, w.it[i].kind # "relic"
    PROVE  Sound(set_item_map(w, i, t), NoItem)
<1>0. TableTypes(w)
  BY DEF Sound
<1>1. /\ w.ch \in [Slots -> CharType] /\ w.it \in [Items -> ItemType] /\ w.ground \in [Ground -> Items \cup {NoItem}]
      /\ w = [ch |-> w.ch, it |-> w.it, con |-> w.con, ground |-> w.ground]
  BY <1>0, EntryTypes
<1>2. PICK v : v = set_item_map(w, i, t)
  OBVIOUS
<1>3. /\ v.ground = [w.ground EXCEPT ![t] = i]
      /\ v.it = [w.it EXCEPT ![i] = [w.it[i] EXCEPT !.tile = t, !.carried = Vacant, !.inside = NoItem]]
      /\ v.ch = w.ch /\ v.con = w.con
      /\ v = [ch |-> v.ch, it |-> v.it, con |-> v.con, ground |-> v.ground]
  BY <1>1, <1>2 DEF set_item_map
<1>4. w.it[i] \in ItemType /\ [w.it[i] EXCEPT !.tile = t, !.carried = Vacant, !.inside = NoItem] \in ItemType
  <2>1. w.it[i] \in ItemType
    BY <1>1
  <2>2. t \in Ground \cup {0} /\ Vacant \in Bearers /\ NoItem \in Items \cup {NoItem}
    BY DEF Bearers
  <2> QED
    BY <2>1, <2>2 DEF ItemType
<1>5. v.it \in [Items -> ItemType] /\ v.ground \in [Ground -> Items \cup {NoItem}]
  BY <1>1, <1>3, <1>4
<1>6. TableTypes(v)
  BY <1>0, <1>3, <1>5, EntryTypes, TypesOfEntries
<1>7. /\ \A j \in Items \ {i} : v.it[j] = w.it[j]
      /\ v.it[i].kind = w.it[i].kind /\ v.it[i].tile = t /\ v.it[i].inside = NoItem /\ v.it[i].carried = Vacant
  BY <1>1, <1>3, <1>4 DEF ItemType
<1>8. LaidDown(w, v, t, i)
  BY <1>3, <1>6, <1>7 DEF LaidDown, SameHands
<1> QED
  BY <1>2, <1>8, LaidDownSafe

\* A record of the four tables.
IsTables(w) == /\ w = [ch |-> w.ch, it |-> w.it, con |-> w.con, ground |-> w.ground]
               /\ w.ch = [x \in Slots |-> w.ch[x]] /\ w.it = [x \in Items |-> w.it[x]]

\* Typed tables are made of their four parts.
LEMMA TypedTables ==
    ASSUME NEW w, TableTypes(w)
    PROVE  IsTables(w)
<1>1. /\ w.ch \in [Slots -> CharType] /\ w.it \in [Items -> ItemType]
      /\ w = [ch |-> w.ch, it |-> w.it, con |-> w.con, ground |-> w.ground]
  BY EntryTypes
<1> QED
  BY <1>1 DEF IsTables

EmptyHanded(w, s) == [w EXCEPT !.ch[s].hand = NoItem]

\* What each operator on the tables makes of the four parts.
LEMMA EmptyHandedFields ==
    ASSUME NEW w, NEW s \in Slots, IsTables(w)
    PROVE  EmptyHanded(w, s) = [ch |-> [w.ch EXCEPT ![s] = [w.ch[s] EXCEPT !.hand = NoItem]],
                                it |-> w.it, con |-> w.con, ground |-> w.ground]
<1>1. PICK v : v = EmptyHanded(w, s)
  OBVIOUS
<1>2. /\ v.ch = [w.ch EXCEPT ![s] = [w.ch[s] EXCEPT !.hand = NoItem]]
      /\ v.it = w.it /\ v.con = w.con /\ v.ground = w.ground
      /\ v = [ch |-> v.ch, it |-> v.it, con |-> v.con, ground |-> v.ground]
  BY <1>1 DEF EmptyHanded, IsTables
<1> QED
  BY <1>1, <1>2

\* An item becomes a character's.
LEMMA CarriesFields ==
    ASSUME NEW w, NEW s \in Slots, NEW i \in Items, IsTables(w)
    PROVE  Carries(w, s, i) =
              [ch |-> w.ch, con |-> w.con, ground |-> w.ground,
               it |-> [w.it EXCEPT ![i] = [w.it[i] EXCEPT !.carried = w.ch[s].who, !.first = FirstOwner(w, s, i)]]]
<1>1. PICK c : c = Carries(w, s, i)
  OBVIOUS
<1>2. PICK n : n = w.ch[s].who
  OBVIOUS
<1>3. PICK f : f = FirstOwner(w, s, i)
  OBVIOUS
<1>4. /\ c.it = [w.it EXCEPT ![i] = [w.it[i] EXCEPT !.carried = n, !.first = f]]
      /\ c.ch = w.ch /\ c.con = w.con /\ c.ground = w.ground
      /\ c = [ch |-> c.ch, it |-> c.it, con |-> c.con, ground |-> c.ground]
  BY <1>1, <1>2, <1>3 DEF Carries, IsTables
<1> QED
  BY <1>1, <1>2, <1>3, <1>4

\* An item comes into a character's hand.
LEMMA InHandFields ==
    ASSUME NEW w, NEW s \in Slots, NEW i \in Items, IsTables(w)
    PROVE  InHand(w, s, i) =
              [ch |-> [w.ch EXCEPT ![s] = [w.ch[s] EXCEPT !.hand = i]], con |-> w.con, ground |-> w.ground,
               it |-> [w.it EXCEPT ![i] = [w.it[i] EXCEPT !.carried = w.ch[s].who, !.first = FirstOwner(w, s, i)]]]
<1>1. PICK c : c = Carries(w, s, i)
  OBVIOUS
<1>2. PICK things : things = [w.it EXCEPT ![i] = [w.it[i] EXCEPT !.carried = w.ch[s].who, !.first = FirstOwner(w, s, i)]]
  OBVIOUS
<1>3. c = [ch |-> w.ch, con |-> w.con, ground |-> w.ground, it |-> things]
  BY <1>1, <1>2, CarriesFields
<1>4. PICK v : v = [c EXCEPT !.ch[s].hand = i]
  OBVIOUS
<1>5. /\ v.ch = [w.ch EXCEPT ![s] = [w.ch[s] EXCEPT !.hand = i]] /\ v.it = things
      /\ v.con = w.con /\ v.ground = w.ground
      /\ v = [ch |-> v.ch, it |-> v.it, con |-> v.con, ground |-> v.ground]
  BY <1>3, <1>4 DEF IsTables
<1> QED
  BY <1>1, <1>2, <1>4, <1>5 DEF InHand

\* An item comes into a character's inventory.
LEMMA InPackFields ==
    ASSUME NEW w, NEW s \in Slots, NEW i \in Items, IsTables(w)
    PROVE  InPack(w, s, i) =
              [ch |-> [w.ch EXCEPT ![s] = [w.ch[s] EXCEPT !.pack = i]], con |-> w.con, ground |-> w.ground,
               it |-> [w.it EXCEPT ![i] = [w.it[i] EXCEPT !.carried = w.ch[s].who, !.first = FirstOwner(w, s, i)]]]
<1>1. PICK c : c = Carries(w, s, i)
  OBVIOUS
<1>2. PICK things : things = [w.it EXCEPT ![i] = [w.it[i] EXCEPT !.carried = w.ch[s].who, !.first = FirstOwner(w, s, i)]]
  OBVIOUS
<1>3. c = [ch |-> w.ch, con |-> w.con, ground |-> w.ground, it |-> things]
  BY <1>1, <1>2, CarriesFields
<1>4. PICK v : v = [c EXCEPT !.ch[s].pack = i]
  OBVIOUS
<1>5. /\ v.ch = [w.ch EXCEPT ![s] = [w.ch[s] EXCEPT !.pack = i]] /\ v.it = things
      /\ v.con = w.con /\ v.ground = w.ground
      /\ v = [ch |-> v.ch, it |-> v.it, con |-> v.con, ground |-> v.ground]
  BY <1>3, <1>4 DEF IsTables
<1> QED
  BY <1>1, <1>2, <1>4, <1>5 DEF InPack

\* Gold goes from the item into the purse.
LEMMA PocketFields ==
    ASSUME NEW w, NEW s \in Slots, NEW i \in Items, IsTables(w)
    PROVE  pocket_money(w, s, i) =
              [ch |-> [w.ch EXCEPT ![s] = [w.ch[s] EXCEPT !.gold = w.ch[s].gold + w.it[i].value]],
               it |-> [j \in Items |-> IF j = i \/ j \in w.con[i].items THEN Nowhere ELSE w.it[j]],
               con |-> [w.con EXCEPT ![i] = NoGrave], ground |-> w.ground]
<1>1. PICK d : d = destroy_item(w, i)
  OBVIOUS
<1>2. PICK things : things = [j \in Items |-> IF j = i \/ j \in w.con[i].items THEN Nowhere ELSE w.it[j]]
  OBVIOUS
<1>3. /\ d.ch = w.ch /\ d.it = things /\ d.con = [w.con EXCEPT ![i] = NoGrave] /\ d.ground = w.ground
      /\ d = [ch |-> d.ch, it |-> d.it, con |-> d.con, ground |-> d.ground]
  BY <1>1, <1>2 DEF destroy_item, IsTables
<1>4. PICK cash : cash = w.ch[s].gold + w.it[i].value
  OBVIOUS
<1>5. PICK v : v = [d EXCEPT !.ch[s].gold = @ + w.it[i].value]
  OBVIOUS
<1>6. /\ v.ch = [w.ch EXCEPT ![s] = [w.ch[s] EXCEPT !.gold = cash]] /\ v.it = things
      /\ v.con = d.con /\ v.ground = w.ground
      /\ v = [ch |-> v.ch, it |-> v.it, con |-> v.con, ground |-> v.ground]
  BY <1>3, <1>4, <1>5 DEF IsTables
<1> QED
  BY <1>1, <1>2, <1>3, <1>4, <1>5, <1>6 DEF pocket_money

\* What s gives comes to the other one before it leaves his hand; the outcome is the
\* same as the other way round.
LEMMA HandFirst ==
    ASSUME NEW w, NEW s \in Slots, NEW r \in Slots, r # s, NEW i \in Items, TableTypes(w)
    PROVE  /\ EmptyHanded(InHand(w, r, i), s) = InHand(EmptyHanded(w, s), r, i)
           /\ EmptyHanded(InPack(w, r, i), s) = InPack(EmptyHanded(w, s), r, i)
           /\ EmptyHanded(pocket_money(w, r, i), s) = pocket_money(EmptyHanded(w, s), r, i)
<1>1. IsTables(w)
  BY TypedTables
<1>2. PICK e : e = EmptyHanded(w, s)
  OBVIOUS
<1>3. e = [ch |-> [w.ch EXCEPT ![s] = [w.ch[s] EXCEPT !.hand = NoItem]],
           it |-> w.it, con |-> w.con, ground |-> w.ground]
  BY <1>1, <1>2, EmptyHandedFields
<1>4. IsTables(e) /\ e.ch[r] = w.ch[r] /\ FirstOwner(e, r, i) = FirstOwner(w, r, i)
      /\ e.it = w.it /\ e.con = w.con /\ e.ground = w.ground
  <2>1. IsTables(e)
    BY <1>1, <1>3 DEF IsTables
  <2>2. e.ch[r] = w.ch[r] /\ e.it = w.it /\ e.con = w.con /\ e.ground = w.ground
    BY <1>1, <1>3 DEF IsTables
  <2> QED
    BY <2>1, <2>2 DEF FirstOwner
<1>5. ASSUME NEW c, NEW things, NEW graves
      PROVE  EmptyHanded([ch |-> [w.ch EXCEPT ![r] = c], it |-> [x \in Items |-> things[x]], con |-> graves, ground |-> w.ground], s)
             = [ch |-> [e.ch EXCEPT ![r] = c], it |-> [x \in Items |-> things[x]], con |-> graves, ground |-> w.ground]
  <2>1. PICK v : v = [ch |-> [w.ch EXCEPT ![r] = c], it |-> [x \in Items |-> things[x]], con |-> graves, ground |-> w.ground]
    OBVIOUS
  <2>2. IsTables(v)
    BY <1>1, <2>1 DEF IsTables
  <2>3. EmptyHanded(v, s) = [ch |-> [v.ch EXCEPT ![s] = [v.ch[s] EXCEPT !.hand = NoItem]],
                             it |-> v.it, con |-> v.con, ground |-> v.ground]
    BY <2>2, EmptyHandedFields
  <2>4. v.ch[s] = w.ch[s]
    BY <1>1, <2>1 DEF IsTables
  <2>5. PICK h : h = [w.ch[s] EXCEPT !.hand = NoItem]
    OBVIOUS
  <2>6. [v.ch EXCEPT ![s] = h] = [e.ch EXCEPT ![r] = c]
    BY <1>1, <1>3, <2>1, <2>5 DEF IsTables
  <2> QED
    BY <2>1, <2>3, <2>4, <2>5, <2>6
<1>6. PICK things : things = [w.it EXCEPT ![i] = [w.it[i] EXCEPT !.carried = w.ch[r].who, !.first = FirstOwner(w, r, i)]]
  OBVIOUS
<1>7. things = [x \in Items |-> things[x]]
  BY <1>1, <1>6 DEF IsTables
<1>8. EmptyHanded(InHand(w, r, i), s) = InHand(e, r, i)
  <2>1. PICK c : c = [w.ch[r] EXCEPT !.hand = i]
    OBVIOUS
  <2>2. InHand(w, r, i) = [ch |-> [w.ch EXCEPT ![r] = c], it |-> things, con |-> w.con, ground |-> w.ground]
    <3>1. InHand(w, r, i) =
             [ch |-> [w.ch EXCEPT ![r] = [w.ch[r] EXCEPT !.hand = i]], con |-> w.con, ground |-> w.ground,
              it |-> [w.it EXCEPT ![i] = [w.it[i] EXCEPT !.carried = w.ch[r].who, !.first = FirstOwner(w, r, i)]]]
      BY <1>1, InHandFields
    <3> QED
      BY <1>6, <2>1, <3>1
  <2>3. InHand(e, r, i) = [ch |-> [e.ch EXCEPT ![r] = c], it |-> things, con |-> w.con, ground |-> w.ground]
    BY <1>4, <1>6, <2>1, InHandFields
  <2> QED
    BY <1>5, <1>7, <2>2, <2>3
<1>9. EmptyHanded(InPack(w, r, i), s) = InPack(e, r, i)
  <2>1. PICK c : c = [w.ch[r] EXCEPT !.pack = i]
    OBVIOUS
  <2>2. InPack(w, r, i) = [ch |-> [w.ch EXCEPT ![r] = c], it |-> things, con |-> w.con, ground |-> w.ground]
    <3>1. InPack(w, r, i) =
             [ch |-> [w.ch EXCEPT ![r] = [w.ch[r] EXCEPT !.pack = i]], con |-> w.con, ground |-> w.ground,
              it |-> [w.it EXCEPT ![i] = [w.it[i] EXCEPT !.carried = w.ch[r].who, !.first = FirstOwner(w, r, i)]]]
      BY <1>1, InPackFields
    <3> QED
      BY <1>6, <2>1, <3>1
  <2>3. InPack(e, r, i) = [ch |-> [e.ch EXCEPT ![r] = c], it |-> things, con |-> w.con, ground |-> w.ground]
    BY <1>4, <1>6, <2>1, InPackFields
  <2> QED
    BY <1>5, <1>7, <2>2, <2>3
<1>10. EmptyHanded(pocket_money(w, r, i), s) = pocket_money(e, r, i)
  <2>1. PICK c : c = [w.ch[r] EXCEPT !.gold = w.ch[r].gold + w.it[i].value]
    OBVIOUS
  <2>2. PICK rest : rest = [j \in Items |-> IF j = i \/ j \in w.con[i].items THEN Nowhere ELSE w.it[j]]
    OBVIOUS
  <2>3. PICK graves : graves = [w.con EXCEPT ![i] = NoGrave]
    OBVIOUS
  <2>4. pocket_money(w, r, i) = [ch |-> [w.ch EXCEPT ![r] = c], it |-> rest, con |-> graves, ground |-> w.ground]
    BY <1>1, <2>1, <2>2, <2>3, PocketFields
  <2>5. pocket_money(e, r, i) = [ch |-> [e.ch EXCEPT ![r] = c], it |-> rest, con |-> graves, ground |-> w.ground]
    BY <1>4, <2>1, <2>2, <2>3, PocketFields
  <2>6. rest = [x \in Items |-> rest[x]]
    BY <2>2
  <2> QED
    BY <1>5, <2>4, <2>5, <2>6
<1> QED
  BY <1>2, <1>8, <1>9, <1>10

\* An action that makes sound tables of the tables leaves them sound.
LEMMA BecomeSafe ==
    ASSUME NEW w, TablesBecome(w), Sound(w, NoItem)
    PROVE  Sound(Tables, NoItem)'
<1>0. /\ TableTypes(w) /\ ActsSafe(w) /\ OneEach(w) /\ CarriedSafe(w) /\ LyingSafe(w) /\ GravesSafe(w)
      /\ UnusedSafe(w) /\ AllFound(w, NoItem) /\ NoItem \notin Items
  BY NoItemIsNone DEF Sound, LinksSafe
<1>1. /\ w.ch \in [Slots -> CharType] /\ w.it \in [Items -> ItemType]
      /\ w.con \in [Items -> GraveType] /\ w.ground \in [Ground -> Items \cup {NoItem}]
  BY <1>0, EntryTypes
<1>2. ch' = w.ch /\ it' = w.it /\ con' = w.con /\ ground' = w.ground
  BY DEF TablesBecome
<1>3. TableTypes(Tables)'
  BY <1>1, <1>2 DEF TableTypes, Tables
<1>4. ActsSafe(Tables)'
  BY <1>0, <1>2 DEF ActsSafe, Tables
<1>5. OneEach(Tables)' /\ CarriedSafe(Tables)'
  BY <1>0, <1>2 DEF OneEach, CarriedSafe, Tables
<1>6. LyingSafe(Tables)' /\ GravesSafe(Tables)' /\ UnusedSafe(Tables)'
  BY <1>0, <1>2 DEF LyingSafe, GravesSafe, UnusedSafe, Tables
<1>7. AllFound(Tables, NoItem)' /\ InTransit(Tables, NoItem)'
  BY <1>0, <1>2 DEF AllFound, InTransit, Somewhere, Tables
<1> QED
  BY <1>3, <1>4, <1>5, <1>6, <1>7 DEF Sound, LinksSafe

\* Another action of s, and nothing else.
LEMMA ActingSafe ==
    ASSUME NEW w, NEW s \in Slots, NEW a, NEW arg, NEW t, Sound(w, NoItem),
           w.ch[s].who # Vacant,
           [w.ch[s] EXCEPT !.action = a, !.act1 = arg, !.at = t] \in CharType,
           a \in {"take", "drop"} => t \in Ground,
           a = "give" => arg \in Slots \ {s},
           a = "die" => arg \in Slots \cup {0}
    PROVE  Sound([w EXCEPT !.ch[s] = [w.ch[s] EXCEPT !.action = a, !.act1 = arg, !.at = t]], NoItem)
<1>0. TableTypes(w) /\ ActsSafe(w) /\ LinksSafe(w, NoItem) /\ NoItem \notin Items
  BY NoItemIsNone DEF Sound
<1>1. /\ w.ch \in [Slots -> CharType] /\ w.it \in [Items -> ItemType]
      /\ w = [ch |-> w.ch, it |-> w.it, con |-> w.con, ground |-> w.ground]
  BY <1>0, EntryTypes
<1>2. PICK c : c = [w.ch[s] EXCEPT !.action = a, !.act1 = arg, !.at = t]
  OBVIOUS
<1>3. PICK v : v = [w EXCEPT !.ch[s] = c]
  OBVIOUS
<1>4. /\ v.ch = [w.ch EXCEPT ![s] = c]
      /\ v.it = w.it /\ v.con = w.con /\ v.ground = w.ground
      /\ v = [ch |-> v.ch, it |-> v.it, con |-> v.con, ground |-> v.ground]
  BY <1>1, <1>3
<1>5. v.ch \in [Slots -> CharType]
  BY <1>1, <1>2, <1>4
<1>6. TableTypes(v)
  BY <1>0, <1>1, <1>4, <1>5, EntryTypes, TypesOfEntries
<1>7. c.who = w.ch[s].who /\ c.hand = w.ch[s].hand /\ c.pack = w.ch[s].pack /\ c.action = a /\ c.act1 = arg /\ c.at = t
  BY <1>1, <1>2 DEF CharType
<1>8. /\ \A r \in Slots : v.ch[r].who = w.ch[r].who /\ v.ch[r].hand = w.ch[r].hand /\ v.ch[r].pack = w.ch[r].pack
      /\ \A r \in Slots : r # s => v.ch[r] = w.ch[r]
      /\ v.ch[s].action = a /\ v.ch[s].act1 = arg /\ v.ch[s].at = t
  BY <1>1, <1>4, <1>7
<1>9. ActsSafe(v)
  BY <1>0, <1>8 DEF ActsSafe
<1>10. LinksSafe(v, NoItem)
  <2>1. OneEach(v) /\ CarriedSafe(v)
    BY <1>0, <1>4, <1>8 DEF LinksSafe, OneEach, CarriedSafe
  <2>2. LyingSafe(v) /\ GravesSafe(v) /\ UnusedSafe(v) /\ InTransit(v, NoItem)
    BY <1>0, <1>4 DEF LinksSafe, LyingSafe, GravesSafe, UnusedSafe, InTransit
  <2>3. AllFound(v, NoItem)
    BY <1>0, <1>4, <1>8 DEF LinksSafe, AllFound, Somewhere
  <2> QED
    BY <2>1, <2>2, <2>3 DEF LinksSafe
<1>11. Sound(v, NoItem)
  BY <1>6, <1>9, <1>10 DEF Sound
<1> QED
  BY <1>2, <1>3, <1>11

\* The types of the tables, and what is sound in them.
LEMMA TablesTyped ==
    ASSUME Sound(Tables, NoItem)
    PROVE  /\ ch \in [Slots -> CharType] /\ it \in [Items -> ItemType]
           /\ con \in [Items -> GraveType] /\ ground \in [Ground -> Items \cup {NoItem}]
BY DEF Sound, TableTypes, Tables

\* An action is begun.
LEMMA StartsSafe ==
    ASSUME NEW s \in Slots, NEW a \in {"take", "drop", "give"}, NEW arg \in Items \cup Slots, NEW t \in Ground \cup {0},
           Sound(Tables, NoItem), There(s), Starts(s, a, arg, t),
           a \in {"take", "drop"} => t \in Ground,
           a = "give" => arg \in Slots \ {s}
    PROVE  Sound(Tables, NoItem)'
<1>1. ch[s] \in CharType /\ ch \in [Slots -> CharType]
  BY TablesTyped
<1>2. [ch[s] EXCEPT !.action = a, !.act1 = arg, !.at = t] \in CharType
  BY <1>1 DEF CharType
<1>3. PICK c : c = [ch[s] EXCEPT !.action = a, !.act1 = arg, !.at = t]
  OBVIOUS
<1>4. PICK w : w = [Tables EXCEPT !.ch[s] = c]
  OBVIOUS
<1>5. w = [ch |-> [ch EXCEPT ![s] = c], it |-> it, con |-> con, ground |-> ground]
  BY <1>4 DEF Tables
<1>6. Tables.ch = ch
  BY DEF Tables
<1>7. Sound(w, NoItem)
  BY <1>2, <1>3, <1>4, <1>6, ActingSafe DEF There
<1>8. ch' = [ch EXCEPT ![s] = c]
  BY <1>1, <1>3 DEF Starts
<1>9. TablesBecome(w)
  BY <1>5, <1>8 DEF Starts, TablesBecome
<1> QED
  BY <1>7, <1>9, BecomeSafe

-----------------------------------------------------------------------------
(* The commands that move items: take, drop, give, steal and swap.          *)

\* A character starts to take, to drop or to give (do.c): nothing moves yet.
LEMMA TakeBegins ==
    ASSUME NEW s \in Slots, NEW t \in Ground, Sound(Tables, NoItem), do_take(s, t)
    PROVE  Sound(Tables, NoItem)'
<1>1. ground[t] \in Items /\ There(s) /\ Starts(s, "take", ground[t], t)
  BY TablesTyped DEF do_take, IsIdle
<1> QED
  BY <1>1, StartsSafe

\* The same for dropping.
LEMMA DropBegins ==
    ASSUME NEW s \in Slots, NEW t \in Ground, Sound(Tables, NoItem), do_drop(s, t)
    PROVE  Sound(Tables, NoItem)'
<1>1. ch[s].hand \in Items /\ There(s) /\ Starts(s, "drop", ch[s].hand, t)
  BY TablesTyped DEF do_drop, IsIdle, CharType
<1> QED
  BY <1>1, StartsSafe

\* The same for giving.
LEMMA GiveBegins ==
    ASSUME NEW s \in Slots, NEW r \in Slots, Sound(Tables, NoItem), do_give(s, r)
    PROVE  Sound(Tables, NoItem)'
<1>1. r # s /\ There(s) /\ Starts(s, "give", r, 0)
  BY DEF do_give, IsIdle
<1> QED
  BY <1>1, StartsSafe

\* Death: the killer's place is remembered.
LEMMA KilledSafe ==
    ASSUME NEW s \in Slots, NEW r \in {0} \cup Slots, Sound(Tables, NoItem), IsKilled(s, r)
    PROVE  Sound(Tables, NoItem)'
<1>1. ch[s] \in CharType /\ ch \in [Slots -> CharType]
  BY TablesTyped
<1>2. PICK t : t = ch[s].at
  OBVIOUS
<1>3. [ch[s] EXCEPT !.action = "die", !.act1 = r, !.at = t] \in CharType
  BY <1>1, <1>2 DEF CharType
<1>4. PICK c : c = [ch[s] EXCEPT !.action = "die", !.act1 = r, !.at = t]
  OBVIOUS
<1>5. c = [ch[s] EXCEPT !.action = "die", !.act1 = r]
  BY <1>1, <1>2, <1>4 DEF CharType
<1>6. PICK w : w = [Tables EXCEPT !.ch[s] = c]
  OBVIOUS
<1>7. w = [ch |-> [ch EXCEPT ![s] = c], it |-> it, con |-> con, ground |-> ground]
  BY <1>6 DEF Tables
<1>8. Tables.ch = ch
  BY DEF Tables
<1>9. r \in Slots \cup {0} /\ There(s)
  BY DEF IsKilled
<1>10. Sound(w, NoItem)
  BY <1>3, <1>4, <1>6, <1>8, <1>9, ActingSafe DEF There
<1>11. ch' = [ch EXCEPT ![s] = c]
  <2>1. ch' = [ch EXCEPT ![s].action = "die", ![s].act1 = r]
    BY DEF IsKilled
  <2> QED
    BY <1>1, <1>5, <2>1
<1>12. TablesBecome(w)
  BY <1>7, <1>11 DEF IsKilled, TablesBecome
<1> QED
  BY <1>10, <1>12, BecomeSafe

\* The end of an action.
LEMMA EndsSafe ==
    ASSUME NEW w, NEW s \in Slots, Sound(w, NoItem), Ends(w, s)
    PROVE  Sound(Tables, NoItem)'
<1>1. PICK v : v = Done(w, s)
  OBVIOUS
<1>2. Sound(v, NoItem) /\ TablesBecome(v)
  BY <1>1, DoneSafe DEF Ends
<1> QED
  BY <1>2, BecomeSafe

\* Who is doing something is there, and what he is doing can be done.
LEMMA BusyOnes ==
    ASSUME Sound(Tables, NoItem), NEW s \in Slots, ch[s].action # "idle"
    PROVE  /\ ch[s].who # Vacant
           /\ ch[s].action \in {"take", "drop"} => ch[s].at \in Ground
           /\ ch[s].action = "give" => ch[s].act1 \in Slots \ {s}
           /\ ch[s].action = "die" => ch[s].act1 \in Slots \cup {0}
BY DEF Sound, ActsSafe, Tables

\* What he takes passes from the map into the hand, the inventory or the purse (act.c).
LEMMA TakeSafe ==
    ASSUME NEW s \in Slots, Sound(Tables, NoItem), act_take(s)
    PROVE  Sound(Tables, NoItem)'
<1>1. PICK t : t = ch[s].at
  OBVIOUS
<1>2. t \in Ground /\ ch[s].who # Vacant
  BY <1>1, BusyOnes DEF act_take
<1>3. PICK i : i = ground[t]
  OBVIOUS
<1>4. PICK taken : taken = (ch[s].hand = NoItem /\ i # NoItem /\ i = ch[s].act1 /\ it[i].kind # "body")
  OBVIOUS
<1>5. PICK w : w = remove_item_map(Tables, i)
  OBVIOUS
<1>6. PICK z : z = IF ~taken THEN Tables
                   ELSE IF Pockets(s) /\ IsMoney(i) THEN pocket_money(w, s, i)
                   ELSE IF Pockets(s) /\ ch[s].pack = NoItem THEN InPack(w, s, i)
                   ELSE InHand(w, s, i)
  OBVIOUS
<1>7. Ends(z, s)
  BY <1>1, <1>3, <1>4, <1>5, <1>6 DEF act_take
<1>8. CASE ~taken
  BY <1>6, <1>7, <1>8, EndsSafe
<1>9. CASE taken
  <2>1. i \in Items /\ Tables.ground[t] = i /\ Tables.it[i].kind # "body" /\ ch[s].hand = NoItem
    BY <1>2, <1>3, <1>4, <1>9, TablesTyped DEF Tables
  <2>2. Tables.it[i].kind # "relic"
    BY <1>2, <2>1 DEF Sound, LinksSafe, LyingSafe
  <2>3. Sound(w, i) /\ w.it[i].kind # "relic" /\ w.ch = Tables.ch
    BY <1>2, <1>5, <2>1, <2>2, PickedUpSafe
  <2>4. w.ch[s].who # Vacant /\ w.ch[s].hand = NoItem /\ w.ch[s].pack = ch[s].pack
    BY <1>2, <2>1, <2>3 DEF Tables
  <2>5. CASE Pockets(s) /\ IsMoney(i)
    <3>1. z = pocket_money(w, s, i)
      BY <1>6, <1>9, <2>5
    <3> QED
      BY <1>7, <2>1, <2>3, <3>1, PocketSafe, EndsSafe
  <2>6. CASE ~(Pockets(s) /\ IsMoney(i)) /\ Pockets(s) /\ ch[s].pack = NoItem
    <3>1. z = InPack(w, s, i)
      BY <1>6, <1>9, <2>6
    <3>2. Sound(z, NoItem)
      BY <2>1, <2>3, <2>4, <2>6, <3>1, InPackSafe
    <3> QED
      BY <1>7, <3>2, EndsSafe
  <2>7. CASE ~(Pockets(s) /\ IsMoney(i)) /\ ~(Pockets(s) /\ ch[s].pack = NoItem)
    <3>1. z = InHand(w, s, i)
      BY <1>6, <1>9, <2>7
    <3>2. Sound(z, NoItem)
      BY <2>1, <2>3, <2>4, <3>1, InHandSafe
    <3> QED
      BY <1>7, <3>2, EndsSafe
  <2> QED
    BY <2>5, <2>6, <2>7
<1> QED
  BY <1>8, <1>9

\* An item is set on the map.
LEMMA SetMapFields ==
    ASSUME NEW w, NEW t \in Ground, NEW i \in Items, TableTypes(w)
    PROVE  set_item_map(w, i, t) =
              [ch |-> w.ch, con |-> w.con, ground |-> [w.ground EXCEPT ![t] = i],
               it |-> [w.it EXCEPT ![i] = [w.it[i] EXCEPT !.tile = t, !.carried = Vacant, !.inside = NoItem]]]
<1>1. /\ w.ch \in [Slots -> CharType] /\ w.it \in [Items -> ItemType] /\ w.ground \in [Ground -> Items \cup {NoItem}]
      /\ w = [ch |-> w.ch, it |-> w.it, con |-> w.con, ground |-> w.ground]
  BY EntryTypes
<1>2. PICK v : v = set_item_map(w, i, t)
  OBVIOUS
<1>3. /\ v.ground = [w.ground EXCEPT ![t] = i]
      /\ v.it = [w.it EXCEPT ![i] = [w.it[i] EXCEPT !.tile = t, !.carried = Vacant, !.inside = NoItem]]
      /\ v.ch = w.ch /\ v.con = w.con
      /\ v = [ch |-> v.ch, it |-> v.it, con |-> v.con, ground |-> v.ground]
  BY <1>1, <1>2 DEF set_item_map
<1> QED
  BY <1>2, <1>3

\* What is dropped is on the map before it leaves the hand.
LEMMA MapFirst ==
    ASSUME NEW w, NEW s \in Slots, NEW t \in Ground, NEW i \in Items, TableTypes(w), TableTypes(EmptyHanded(w, s))
    PROVE  EmptyHanded(set_item_map(w, i, t), s) = set_item_map(EmptyHanded(w, s), i, t)
<1>1. IsTables(w)
  BY TypedTables
<1>2. PICK e : e = EmptyHanded(w, s)
  OBVIOUS
<1>3. e = [ch |-> [w.ch EXCEPT ![s] = [w.ch[s] EXCEPT !.hand = NoItem]],
           it |-> w.it, con |-> w.con, ground |-> w.ground]
  BY <1>1, <1>2, EmptyHandedFields
<1>4. PICK things : things = [w.it EXCEPT ![i] = [w.it[i] EXCEPT !.tile = t, !.carried = Vacant, !.inside = NoItem]]
  OBVIOUS
<1>5. PICK v : v = set_item_map(w, i, t)
  OBVIOUS
<1>6. v = [ch |-> w.ch, con |-> w.con, ground |-> [w.ground EXCEPT ![t] = i], it |-> things]
  BY <1>4, <1>5, SetMapFields
<1>7. IsTables(v)
  BY <1>1, <1>4, <1>6 DEF IsTables
<1>8. EmptyHanded(v, s) = [ch |-> [v.ch EXCEPT ![s] = [v.ch[s] EXCEPT !.hand = NoItem]],
                           it |-> v.it, con |-> v.con, ground |-> v.ground]
  BY <1>7, EmptyHandedFields
<1>9. e.it = w.it /\ e.ground = w.ground /\ e.con = w.con
  BY <1>3
<1>10. set_item_map(e, i, t) = [ch |-> e.ch, con |-> w.con, ground |-> [w.ground EXCEPT ![t] = i], it |-> things]
  <2>1. set_item_map(e, i, t) =
              [ch |-> e.ch, con |-> e.con, ground |-> [e.ground EXCEPT ![t] = i],
               it |-> [e.it EXCEPT ![i] = [e.it[i] EXCEPT !.tile = t, !.carried = Vacant, !.inside = NoItem]]]
    BY <1>2, SetMapFields
  <2> QED
    BY <1>4, <1>9, <2>1
<1> QED
  BY <1>2, <1>3, <1>5, <1>6, <1>8, <1>10

\* What he drops passes from the hand onto the map, unless the tile got occupied.
LEMMA DropSafe ==
    ASSUME NEW s \in Slots, Sound(Tables, NoItem), act_drop(s)
    PROVE  Sound(Tables, NoItem)'
<1>1. PICK t : t = ch[s].at
  OBVIOUS
<1>2. t \in Ground /\ ch[s].who # Vacant
  BY <1>1, BusyOnes DEF act_drop
<1>3. PICK i : i = ch[s].hand
  OBVIOUS
<1>4. PICK dropped : dropped = (i # NoItem /\ i = ch[s].act1 /\ ground[t] = NoItem /\ ~IsQuest(i))
  OBVIOUS
<1>5. Ends(IF dropped THEN EmptyHanded(set_item_map(Tables, i, t), s) ELSE Tables, s)
  BY <1>1, <1>3, <1>4 DEF act_drop, EmptyHanded
<1>6. CASE ~dropped
  BY <1>5, <1>6, EndsSafe
<1>7. CASE dropped
  <2>1. i \in Items /\ Tables.ch[s].hand = i /\ Tables.ground[t] = NoItem /\ Tables.it[i].kind # "relic"
    BY <1>3, <1>4, <1>7, TablesTyped DEF CharType, Tables, IsQuest
  <2>2. PICK e : e = EmptyHanded(Tables, s)
    OBVIOUS
  <2>3. Sound(e, i) /\ e.it = Tables.it
    BY <2>1, <2>2, HandEmptied DEF EmptyHanded
  <2>4. TableTypes(Tables) /\ TableTypes(e)
    BY <2>3 DEF Sound
  <2>5. e.ground[t] = NoItem /\ e.it[i].kind # "relic"
    BY <2>1, <2>2, <2>3, <2>4, TypedTables, EmptyHandedFields
  <2>6. EmptyHanded(set_item_map(Tables, i, t), s) = set_item_map(e, i, t)
    BY <1>2, <2>1, <2>2, <2>4, MapFirst
  <2>7. Sound(set_item_map(e, i, t), NoItem)
    BY <1>2, <2>1, <2>3, <2>5, PutDownSafe
  <2> QED
    BY <1>5, <1>7, <2>6, <2>7, EndsSafe
<1> QED
  BY <1>6, <1>7

\* give_char_item finds a place for an item in transit.
LEMMA GivenSafe ==
    ASSUME NEW w, NEW s \in Slots, NEW i \in Items, Sound(w, i), w.ch[s].who # Vacant, RoomFor(w, s, i),
           w.it[i].kind # "relic"
    PROVE  Sound(give_char_item(w, s, i), NoItem)
<1>1. CASE Pockets(s) /\ w.it[i].kind = "money"
  <2>1. give_char_item(w, s, i) = pocket_money(w, s, i)
    BY <1>1 DEF give_char_item
  <2> QED
    BY <2>1, PocketSafe
<1>2. CASE ~(Pockets(s) /\ w.it[i].kind = "money") /\ w.ch[s].pack = NoItem /\ (Pockets(s) \/ w.ch[s].hand # NoItem)
  <2>1. give_char_item(w, s, i) = InPack(w, s, i)
    BY <1>2 DEF give_char_item
  <2> QED
    BY <1>2, <2>1, InPackSafe
<1>3. CASE ~(Pockets(s) /\ w.it[i].kind = "money") /\ ~(w.ch[s].pack = NoItem /\ (Pockets(s) \/ w.ch[s].hand # NoItem))
  <2>1. give_char_item(w, s, i) = InHand(w, s, i) /\ w.ch[s].hand = NoItem
    BY <1>3 DEF give_char_item, RoomFor
  <2> QED
    BY <2>1, InHandSafe
<1> QED
  BY <1>1, <1>2, <1>3

\* What he gives passes from his hand to the other one, who looked the same when it started.
LEMMA GiveSafe ==
    ASSUME NEW s \in Slots, NEW moved \in BOOLEAN, Sound(Tables, NoItem), act_give(s, moved)
    PROVE  Sound(Tables, NoItem)'
<1>1. PICK r : r = ch[s].act1
  OBVIOUS
<1>2. r \in Slots /\ r # s
  BY <1>1, BusyOnes DEF act_give
<1>3. PICK i : i = ch[s].hand
  OBVIOUS
<1>4. PICK given : given = /\ There(r) /\ ch[r].action # "die" /\ ~moved
                           /\ i # NoItem /\ ~IsQuest(i)
                           /\ IF Human(r) THEN RoomFor(Tables, r, i) ELSE ch[r].hand = NoItem
  OBVIOUS
<1>5. PICK w : w = IF Human(r) THEN give_char_item(Tables, r, i) ELSE InHand(Tables, r, i)
  OBVIOUS
<1>6. Ends(IF given THEN EmptyHanded(w, s) ELSE Tables, s)
  BY <1>1, <1>3, <1>4, <1>5 DEF act_give, EmptyHanded
<1>7. CASE ~given
  BY <1>6, <1>7, EndsSafe
<1>8. CASE given
  <2>1. i \in Items /\ Tables.ch[s].hand = i /\ Tables.it[i].kind # "relic" /\ Tables.ch[r].who # Vacant
    BY <1>3, <1>4, <1>8, TablesTyped DEF CharType, Tables, IsQuest, There
  <2>2. PICK e : e = EmptyHanded(Tables, s)
    OBVIOUS
  <2>3. Sound(e, i) /\ e.it = Tables.it /\ e.ch[r] = Tables.ch[r]
    BY <1>2, <2>1, <2>2, HandEmptied DEF EmptyHanded
  <2>4. TableTypes(Tables)
    BY DEF Sound
  <2>5. /\ EmptyHanded(InHand(Tables, r, i), s) = InHand(e, r, i)
        /\ EmptyHanded(InPack(Tables, r, i), s) = InPack(e, r, i)
        /\ EmptyHanded(pocket_money(Tables, r, i), s) = pocket_money(e, r, i)
    BY <1>2, <2>1, <2>2, <2>4, HandFirst
  <2>6. CASE Human(r)
    <3>1. EmptyHanded(w, s) = give_char_item(e, r, i)
      BY <1>5, <2>3, <2>5, <2>6 DEF give_char_item
    <3>2. RoomFor(e, r, i)
      BY <1>4, <1>8, <2>3, <2>6 DEF RoomFor
    <3>3. Sound(EmptyHanded(w, s), NoItem)
      BY <1>2, <2>1, <2>3, <3>1, <3>2, GivenSafe
    <3> QED
      BY <1>6, <1>8, <3>3, EndsSafe
  <2>7. CASE ~Human(r)
    <3>1. EmptyHanded(w, s) = InHand(e, r, i)
      BY <1>5, <2>5, <2>7
    <3>2. e.ch[r].hand = NoItem
      BY <1>4, <1>8, <2>3, <2>7 DEF Tables
    <3>3. Sound(EmptyHanded(w, s), NoItem)
      BY <1>2, <2>1, <2>3, <3>1, <3>2, InHandSafe
    <3> QED
      BY <1>6, <1>8, <3>3, EndsSafe
  <2> QED
    BY <2>6, <2>7
<1> QED
  BY <1>7, <1>8

\* A thief gets the item out of a player's inventory (prof.c), never a quest item.
LEMMA StealSafe ==
    ASSUME NEW s \in Slots, NEW r \in Slots, Sound(Tables, NoItem), Steals(s, r)
    PROVE  Sound(Tables, NoItem)'
<1>1. PICK i : i = ch[r].pack
  OBVIOUS
<1>2. i \in Items /\ Tables.ch[r].pack = i /\ Tables.it[i].kind # "relic" /\ r # s
  BY <1>1, TablesTyped DEF Steals, CharType, Tables, IsQuest
<1>3. PICK w : w = remove_item_char(Tables, r, i)
  OBVIOUS
<1>4. Sound(w, i) /\ SameThings(Tables, w, i) /\ w.ch[s] = Tables.ch[s]
  BY <1>2, <1>3, RemovedSafe
<1>5. w.ch[s].who # Vacant /\ RoomFor(w, s, i) /\ w.it[i].kind # "relic"
  BY <1>2, <1>4 DEF Steals, IsIdle, There, RoomFor, Tables, SameThings
<1>6. Sound(give_char_item(w, s, i), NoItem)
  BY <1>2, <1>4, <1>5, GivenSafe
<1>7. TablesBecome(give_char_item(w, s, i))
  BY <1>1, <1>3 DEF Steals
<1> QED
  BY <1>6, <1>7, BecomeSafe

\* swap: what was in the hand is in the pack, or gold.
LEMMA SwapSafe ==
    ASSUME NEW w, NEW s \in Slots, Sound(w, NoItem)
    PROVE  Sound(swap(w, s), NoItem)
<1>0. TableTypes(w) /\ IsTables(w)
  BY TypedTables DEF Sound
<1>1. /\ w.ch \in [Slots -> CharType] /\ w.ch[s] \in CharType
      /\ w = [ch |-> w.ch, it |-> w.it, con |-> w.con, ground |-> w.ground]
  BY <1>0, EntryTypes
<1>2. PICK i : i = w.ch[s].hand
  OBVIOUS
<1>3. PICK p : p = w.ch[s].pack
  OBVIOUS
<1>4. i \in Items \cup {NoItem} /\ p \in Items \cup {NoItem}
  BY <1>1, <1>2, <1>3 DEF CharType
<1>5. PICK v : v = [w EXCEPT !.ch[s].hand = p]
  OBVIOUS
<1>6. v = [ch |-> [w.ch EXCEPT ![s] = [w.ch[s] EXCEPT !.hand = p]], it |-> w.it, con |-> w.con, ground |-> w.ground]
  BY <1>1, <1>5
<1>7. PICK c : c = [w.ch[s] EXCEPT !.hand = p, !.pack = i]
  OBVIOUS
<1>8. c \in CharType /\ c.who = w.ch[s].who /\ c.action = w.ch[s].action /\ c.act1 = w.ch[s].act1 /\ c.at = w.ch[s].at
      /\ c.hand = p /\ c.pack = i
  BY <1>1, <1>4, <1>7 DEF CharType
<1>9. PICK x : x = [ch |-> [w.ch EXCEPT ![s] = c], it |-> w.it, con |-> w.con, ground |-> w.ground]
  OBVIOUS
<1>10. TableTypes(x)
  <2>1. x.ch \in [Slots -> CharType] /\ x.it = w.it /\ x.con = w.con /\ x.ground = w.ground
    BY <1>1, <1>8, <1>9
  <2>2. x = [ch |-> x.ch, it |-> x.it, con |-> x.con, ground |-> x.ground]
    BY <1>9
  <2> QED
    BY <1>0, <2>1, <2>2, EntryTypes, TypesOfEntries
<1>11. Exchanged(w, x, s)
  <2>1. x.ch[s] = c /\ \A r \in Slots \ {s} : x.ch[r] = w.ch[r]
    BY <1>1, <1>9
  <2>2. SameFolk(w, x, s)
    BY <1>8, <2>1 DEF SameFolk
  <2> QED
    BY <1>2, <1>3, <1>8, <1>9, <1>10, <2>1, <2>2 DEF Exchanged
<1>12. Sound(x, NoItem)
  BY <1>11, ExchangedSafe
<1>13. CASE ~(i # NoItem /\ w.it[i].kind = "money")
  <2>1. swap(w, s) = [v EXCEPT !.ch[s].pack = i]
    BY <1>2, <1>3, <1>5, <1>13 DEF swap
  <2>2. PICK z : z = [v EXCEPT !.ch[s].pack = i]
    OBVIOUS
  <2>3. z = [ch |-> [v.ch EXCEPT ![s] = [v.ch[s] EXCEPT !.pack = i]], it |-> w.it, con |-> w.con, ground |-> w.ground]
    BY <1>1, <1>6, <2>2
  <2>4. v.ch[s] = [w.ch[s] EXCEPT !.hand = p]
    BY <1>1, <1>6
  <2>5. [v.ch[s] EXCEPT !.pack = i] = c
    BY <1>1, <1>7, <2>4 DEF CharType
  <2>6. [v.ch EXCEPT ![s] = c] = [w.ch EXCEPT ![s] = c]
    BY <1>1, <1>6
  <2>7. z = x
    BY <1>9, <2>3, <2>5, <2>6
  <2> QED
    BY <1>12, <2>1, <2>2, <2>7
<1>14. CASE i # NoItem /\ w.it[i].kind = "money"
  <2>1. i \in Items
    BY <1>4, <1>14
  <2>2. PICK m : m = pocket_money(v, s, i)
    OBVIOUS
  <2>3. IsTables(v) /\ v.ch[s] = [w.ch[s] EXCEPT !.hand = p]
    BY <1>0, <1>1, <1>6 DEF IsTables
  <2>4. m = [ch |-> [v.ch EXCEPT ![s] = [v.ch[s] EXCEPT !.gold = v.ch[s].gold + v.it[i].value]],
             it |-> [j \in Items |-> IF j = i \/ j \in v.con[i].items THEN Nowhere ELSE v.it[j]],
             con |-> [v.con EXCEPT ![i] = NoGrave], ground |-> v.ground]
    BY <2>1, <2>2, <2>3, PocketFields
  <2>5. PICK cash : cash = v.ch[s].gold + v.it[i].value
    OBVIOUS
  <2>6. PICK z : z = [m EXCEPT !.ch[s].pack = NoItem]
    OBVIOUS
  <2>7. swap(w, s) = z
    BY <1>2, <1>3, <1>5, <1>14, <2>2, <2>6 DEF swap
  <2>8. PICK d : d = [w.ch[s] EXCEPT !.hand = p, !.pack = NoItem]
    OBVIOUS
  <2>9. d \in CharType /\ d.who = w.ch[s].who /\ d.action = w.ch[s].action /\ d.act1 = w.ch[s].act1 /\ d.at = w.ch[s].at
        /\ d.hand = p /\ d.pack = NoItem
    BY <1>1, <1>4, <2>8 DEF CharType
  <2>10. PICK y : y = [ch |-> [w.ch EXCEPT ![s] = d], it |-> w.it, con |-> w.con, ground |-> w.ground]
    OBVIOUS
  <2>11. TableTypes(y)
    <3>1. y.ch \in [Slots -> CharType] /\ y.it = w.it /\ y.con = w.con /\ y.ground = w.ground
      BY <1>1, <2>9, <2>10
    <3>2. y = [ch |-> y.ch, it |-> y.it, con |-> y.con, ground |-> y.ground]
      BY <2>10
    <3> QED
      BY <1>0, <3>1, <3>2, EntryTypes, TypesOfEntries
  <2>12. Loses(x, y, s, i)
    <3>1. y.ch[s] = d /\ x.ch[s] = c /\ \A r \in Slots \ {s} : y.ch[r] = x.ch[r]
      BY <1>1, <1>9, <2>10
    <3>2. SameFolk(x, y, s)
      BY <1>8, <2>9, <3>1 DEF SameFolk
    <3>3. SameThings(x, y, i) /\ y.con = x.con /\ y.ground = x.ground
      BY <1>9, <2>10 DEF SameThings
    <3> QED
      BY <1>8, <2>9, <2>11, <3>1, <3>2, <3>3 DEF Loses
  <2>13. Sound(y, i)
    BY <1>12, <2>1, <2>12, LosesSafe
  <2>14. cash \in Int
    <3>1. w.it[i] \in ItemType /\ v.it[i] = w.it[i] /\ v.ch[s].gold = w.ch[s].gold
      BY <1>0, <1>1, <1>6, <2>1, <2>3, EntryTypes DEF CharType
    <3> QED
      BY <1>1, <2>5, <3>1 DEF CharType, ItemType
  <2>15. PICK b : b = [d EXCEPT !.gold = cash]
    OBVIOUS
  <2>16. b \in CharType /\ b.who = d.who /\ b.action = d.action /\ b.act1 = d.act1 /\ b.at = d.at
         /\ b.hand = d.hand /\ b.pack = d.pack
    BY <2>9, <2>14, <2>15 DEF CharType
  <2>17. z.ch = [w.ch EXCEPT ![s] = b]
    <3>1. m.ch[s] = [v.ch[s] EXCEPT !.gold = cash] /\ m.ch = [v.ch EXCEPT ![s] = [v.ch[s] EXCEPT !.gold = cash]]
      BY <2>3, <2>4, <2>5 DEF IsTables
    <3>2. z.ch = [m.ch EXCEPT ![s] = [m.ch[s] EXCEPT !.pack = NoItem]]
      BY <2>4, <2>6, <3>1
    <3>3. [[v.ch[s] EXCEPT !.gold = cash] EXCEPT !.pack = NoItem] = b
      BY <1>1, <2>3, <2>8, <2>15 DEF CharType
    <3>4. z.ch = [m.ch EXCEPT ![s] = b]
      BY <3>1, <3>2, <3>3
    <3>5. [m.ch EXCEPT ![s] = b] = [w.ch EXCEPT ![s] = b]
      BY <1>1, <1>6, <3>1
    <3> QED
      BY <3>4, <3>5
  <2>18. /\ z.it = [j \in Items |-> IF j = i \/ j \in w.con[i].items THEN Nowhere ELSE w.it[j]]
         /\ z.con = [w.con EXCEPT ![i] = NoGrave] /\ z.ground = w.ground
         /\ z = [ch |-> z.ch, it |-> z.it, con |-> z.con, ground |-> z.ground]
    BY <1>6, <2>4, <2>6
  <2>19. w.con[i].items = {}
    <3>1. w.it[i].kind # "body" /\ w.con[i].items \subseteq Items
      BY <1>0, <1>14, <2>1, EntryTypes DEF GraveType
    <3> QED
      BY <2>1, <3>1 DEF Sound, LinksSafe, GravesSafe
  <2>20. z.it = [j \in Items |-> IF j = i THEN Nowhere ELSE w.it[j]]
    BY <2>18, <2>19
  <2>21. TableTypes(z)
    <3>1. Nowhere \in ItemType /\ NoGrave \in GraveType
      BY DEF Nowhere, ItemType, NoGrave, GraveType, Bearers, KitKinds
    <3>2. w.it \in [Items -> ItemType] /\ w.con \in [Items -> GraveType] /\ w.ground \in [Ground -> Items \cup {NoItem}]
      BY <1>0, EntryTypes
    <3>3. z.it \in [Items -> ItemType]
      BY <2>20, <3>1, <3>2
    <3>4. z.con \in [Items -> GraveType]
      BY <2>18, <3>1, <3>2
    <3>5. z.ch \in [Slots -> CharType]
      BY <1>1, <2>16, <2>17
    <3> QED
      BY <2>18, <3>2, <3>3, <3>4, <3>5, TypesOfEntries
  <2>22. Vanishes(y, z, i)
    <3>1. SameHands(y, z)
      <4>1. z.ch[s] = b /\ y.ch[s] = d /\ \A r \in Slots \ {s} : z.ch[r] = y.ch[r]
        BY <1>1, <2>10, <2>17
      <4> QED
        BY <2>16, <4>1 DEF SameHands
    <3>2. /\ \A j \in Items \ {i} : z.it[j] = y.it[j] /\ z.con[j] = y.con[j]
          /\ z.it[i] = Nowhere /\ z.con[i] = NoGrave /\ z.ground = y.ground
      <4>1. w.con \in [Items -> GraveType]
        BY <1>0, EntryTypes
      <4> QED
        BY <2>1, <2>10, <2>18, <2>20, <4>1
    <3> QED
      BY <2>21, <3>1, <3>2 DEF Vanishes, NoGrave
  <2> QED
    BY <2>1, <2>7, <2>13, <2>22, VanishesSafe
<1> QED
  BY <1>13, <1>14

\* The hand and the inventory are exchanged in one command.
LEMMA SwapsSafe ==
    ASSUME NEW s \in Slots, Sound(Tables, NoItem), Swaps(s)
    PROVE  Sound(Tables, NoItem)'
BY SwapSafe, BecomeSafe DEF Swaps

-----------------------------------------------------------------------------
(* Death: what the dead had is destroyed or goes into his grave.            *)

\* alloc_item finds a free item when there is one.
LEMMA Allocated ==
    ASSUME NEW w
    PROVE  \/ AllocIn(w) = NoItem /\ FreeIn(w) = {}
           \/ AllocIn(w) \in Items /\ w.it[AllocIn(w)].kind = "none"
<1>1. CASE FreeIn(w) = {}
  BY <1>1 DEF AllocIn
<1>2. CASE FreeIn(w) # {}
  <2>1. FreeIn(w) \in SUBSET Nat
    BY BelongingsAssumption DEF FreeIn
  <2>2. \E x \in FreeIn(w) : \A y \in FreeIn(w) : x <= y
    BY <1>2, <2>1, LeastNumber
  <2>3. AllocIn(w) \in FreeIn(w)
    BY <1>2, <2>2 DEF AllocIn
  <2> QED
    BY <2>3 DEF FreeIn
<1> QED
  BY <1>1, <1>2

\* An item that is not used is nowhere, and there is nothing in it.
LEMMA UnusedNowhere ==
    ASSUME NEW w, NEW i \in Items, NEW x, Sound(w, x), w.it[i].kind = "none"
    PROVE  ~Somewhere(w, i) /\ w.it[i] = Nowhere /\ w.con[i].items = {}
<1>1. TableTypes(w) /\ LinksSafe(w, x)
  BY DEF Sound
<1>2. w.con[i].items \subseteq Items
  BY <1>1, EntryTypes DEF GraveType
<1> QED
  BY <1>1, <1>2 DEF LinksSafe, CarriedSafe, LyingSafe, GravesSafe, UnusedSafe, Somewhere

\* A new grave g is put on tile t.
BodyLaid(w, v, t, g) ==
    /\ TableTypes(v) /\ SameHands(w, v)
    /\ w.it[g].kind = "none" /\ w.ground[t] = NoItem /\ v.ground = [w.ground EXCEPT ![t] = g]
    /\ \A j \in Items \ {g} : v.it[j] = w.it[j] /\ v.con[j] = w.con[j]
    /\ v.it[g].kind = "body" /\ v.it[g].tile = t /\ v.it[g].inside = NoItem /\ v.it[g].carried = Vacant
    /\ v.con[g].items = {}

\* A body with an empty grave is laid on the map.
LEMMA BodyLaidSafe ==
    ASSUME NEW w, NEW v, NEW t \in Ground, NEW g \in Items, Sound(w, NoItem), BodyLaid(w, v, t, g)
    PROVE  Sound(v, NoItem)
<1>0. TableTypes(w) /\ ActsSafe(w) /\ LinksSafe(w, NoItem) /\ g # NoItem /\ NoItem \notin Items
  BY NoItemIsNone DEF Sound
<1>1. TableTypes(v)
  BY DEF BodyLaid
<1>2. /\ \A r \in Slots :
          /\ v.ch[r].who = w.ch[r].who /\ v.ch[r].hand = w.ch[r].hand /\ v.ch[r].pack = w.ch[r].pack
          /\ v.ch[r].action = w.ch[r].action /\ v.ch[r].act1 = w.ch[r].act1 /\ v.ch[r].at = w.ch[r].at
      /\ \A j \in Items : j # g => v.it[j] = w.it[j] /\ v.con[j] = w.con[j]
      /\ v.it[g].kind = "body" /\ v.it[g].tile = t /\ v.it[g].inside = NoItem /\ v.it[g].carried = Vacant
      /\ v.con[g].items = {} /\ w.ground[t] = NoItem /\ w.it[g].kind = "none"
  BY DEF BodyLaid, SameHands
<1>3. v.ground[t] = g /\ \A u \in Ground : u # t => v.ground[u] = w.ground[u]
  BY <1>0, EntryTypes DEF BodyLaid
<1>4. ~Somewhere(w, g) /\ w.con[g].items = {}
  BY <1>2, UnusedNowhere
<1>5. ActsSafe(v)
  BY <1>0, <1>2 DEF ActsSafe
<1>6. OneEach(v)
  BY <1>0, <1>2 DEF LinksSafe, OneEach
<1>7. CarriedSafe(v)
  BY <1>0, <1>2, <1>4 DEF LinksSafe, CarriedSafe, Somewhere
<1>8. LyingSafe(v)
  BY <1>0, <1>2, <1>3, <1>4 DEF LinksSafe, LyingSafe, Somewhere
<1>9. GravesSafe(v)
  BY <1>0, <1>2, <1>4 DEF LinksSafe, GravesSafe, Somewhere
<1>10. UnusedSafe(v)
  BY <1>0, <1>2 DEF LinksSafe, UnusedSafe
<1>11. AllFound(v, NoItem)
  <2> SUFFICES ASSUME NEW j \in Items, v.it[j].kind # "none" PROVE Somewhere(v, j)
    BY DEF AllFound
  <2>1. CASE j = g
    BY <1>3, <2>1 DEF Somewhere
  <2>2. CASE j # g
    <3>1. Somewhere(w, j)
      BY <1>0, <1>2, <2>2 DEF LinksSafe, AllFound
    <3> QED
      BY <1>0, <1>2, <1>3, <1>4, <3>1 DEF Somewhere
  <2> QED
    BY <2>1, <2>2
<1>12. InTransit(v, NoItem)
  BY <1>0 DEF InTransit
<1> QED
  BY <1>1, <1>5, <1>6, <1>7, <1>8, <1>9, <1>10, <1>11, <1>12 DEF Sound, LinksSafe

\* All that s has is in grave g, his own, which was empty.
Entombed(w, v, s, g) ==
    /\ TableTypes(v) /\ SameFolk(w, v, s) /\ v.ground = w.ground
    /\ v.ch[s].hand = NoItem /\ v.ch[s].pack = NoItem
    /\ w.it[g].kind = "body" /\ w.con[g].items = {} /\ w.con[g].owner = w.ch[s].who
    /\ \A h \in Items \ {g} : v.con[h] = w.con[h]
    /\ v.con[g].owner = w.con[g].owner /\ v.con[g].items = {w.ch[s].hand, w.ch[s].pack} \ {NoItem}
    /\ \A i \in Items \ {w.ch[s].hand, w.ch[s].pack} : v.it[i] = w.it[i]
    /\ \A i \in Items \cap {w.ch[s].hand, w.ch[s].pack} :
          /\ v.it[i].kind = w.it[i].kind /\ v.it[i].tile = w.it[i].tile /\ v.it[i].first = w.it[i].first
          /\ v.it[i].carried = Vacant /\ v.it[i].inside = g

\* What the dead had passes into his grave.
LEMMA EntombedSafe ==
    ASSUME NEW w, NEW v, NEW s \in Slots, NEW g \in Items, Sound(w, NoItem), Entombed(w, v, s, g)
    PROVE  Sound(v, NoItem)
<1>0. TableTypes(w) /\ ActsSafe(w) /\ LinksSafe(w, NoItem) /\ g # NoItem /\ NoItem \notin Items
  BY NoItemIsNone DEF Sound
<1>1. TableTypes(v)
  BY DEF Entombed
<1>2. /\ \A r \in Slots : /\ v.ch[r].who = w.ch[r].who /\ v.ch[r].action = w.ch[r].action
                          /\ v.ch[r].act1 = w.ch[r].act1 /\ v.ch[r].at = w.ch[r].at
                          /\ r # s => v.ch[r].hand = w.ch[r].hand /\ v.ch[r].pack = w.ch[r].pack
      /\ v.ch[s].hand = NoItem /\ v.ch[s].pack = NoItem /\ v.ground = w.ground
  BY DEF Entombed, SameFolk
<1>3. PICK owned : owned = {w.ch[s].hand, w.ch[s].pack} \ {NoItem}
  OBVIOUS
<1>4. owned \subseteq Items /\ \A i \in Items : i \in owned <=> w.ch[s].hand = i \/ w.ch[s].pack = i
  BY <1>0, <1>3, EntryTypes DEF CharType
<1>5. /\ w.it[g].kind = "body" /\ w.con[g].items = {} /\ w.con[g].owner = w.ch[s].who
      /\ v.con[g].owner = w.ch[s].who /\ v.con[g].items = owned
      /\ \A h \in Items : h # g => v.con[h] = w.con[h]
  BY <1>3 DEF Entombed
<1>6. /\ \A i \in Items \ owned : v.it[i] = w.it[i]
      /\ \A i \in owned : /\ v.it[i].kind = w.it[i].kind /\ v.it[i].tile = w.it[i].tile /\ v.it[i].first = w.it[i].first
                          /\ v.it[i].carried = Vacant /\ v.it[i].inside = g
  BY <1>0, <1>3, <1>4 DEF Entombed
<1>7. \A i \in owned :
          /\ w.it[i].kind \notin {"none", "body"} /\ w.it[i].tile = 0 /\ w.it[i].inside = NoItem
          /\ w.it[i].kind = "relic" => w.it[i].first = Heir(w.ch[s].who)
          /\ w.it[i].carried = w.ch[s].who /\ w.ch[s].who # Vacant
  BY <1>0, <1>4 DEF LinksSafe, CarriedSafe
<1>8. g \notin owned
  BY <1>5, <1>7
<1>9. \A i \in owned : /\ \A r \in Slots : r # s => w.ch[r].hand # i /\ w.ch[r].pack # i
                       /\ \A t \in Ground : w.ground[t] # i
                       /\ \A h \in Items : i \notin w.con[h].items
  <2> SUFFICES ASSUME NEW i \in owned
               PROVE  /\ \A r \in Slots : r # s => w.ch[r].hand # i /\ w.ch[r].pack # i
                      /\ \A t \in Ground : w.ground[t] # i
                      /\ \A h \in Items : i \notin w.con[h].items
    OBVIOUS
  <2>1. i \in Items
    BY <1>4
  <2>2. ASSUME NEW r \in Slots, r # s PROVE w.ch[r].hand # i /\ w.ch[r].pack # i
    <3>1. w.ch[r].who # w.ch[s].who
      BY <1>0, <1>7, <2>2 DEF LinksSafe, OneEach
    <3> QED
      BY <1>0, <1>7, <2>1, <3>1 DEF LinksSafe, CarriedSafe
  <2>3. \A t \in Ground : w.ground[t] # i
    BY <1>0, <1>7, <2>1 DEF LinksSafe, LyingSafe
  <2>4. \A h \in Items : i \notin w.con[h].items
    BY <1>0, <1>7, <2>1 DEF LinksSafe, GravesSafe
  <2> QED
    BY <2>2, <2>3, <2>4
<1>10. ActsSafe(v)
  BY <1>0, <1>2 DEF ActsSafe
<1>11. OneEach(v)
  BY <1>0, <1>2 DEF LinksSafe, OneEach
<1>12. CarriedSafe(v)
  BY <1>0, <1>2, <1>4, <1>6, <1>9 DEF LinksSafe, CarriedSafe
<1>13. LyingSafe(v)
  BY <1>0, <1>2, <1>6, <1>9 DEF LinksSafe, LyingSafe
<1>14. GravesSafe(v)
  <2> SUFFICES ASSUME NEW h \in Items, NEW i \in Items, i \in v.con[h].items
               PROVE  /\ v.it[h].kind = "body" /\ v.it[i].kind \notin {"none", "body"}
                      /\ v.it[i].carried = Vacant /\ v.it[i].tile = 0 /\ v.it[i].inside = h
                      /\ v.it[i].kind = "relic" => v.it[i].first = Heir(v.con[h].owner)
    BY DEF GravesSafe
  <2>1. CASE h = g
    <3>1. i \in owned
      BY <1>5, <2>1
    <3> QED
      BY <1>5, <1>6, <1>7, <1>8, <2>1, <3>1
  <2>2. CASE h # g
    <3>1. i \in w.con[h].items /\ v.con[h] = w.con[h]
      BY <1>5, <2>2
    <3>2. h \notin owned /\ i \notin owned
      BY <1>0, <1>7, <1>9, <3>1 DEF LinksSafe, GravesSafe
    <3> QED
      BY <1>0, <1>6, <3>1, <3>2 DEF LinksSafe, GravesSafe
  <2> QED
    BY <2>1, <2>2
<1>15. UnusedSafe(v)
  BY <1>0, <1>6, <1>7 DEF LinksSafe, UnusedSafe
<1>16. AllFound(v, NoItem)
  <2> SUFFICES ASSUME NEW j \in Items, v.it[j].kind # "none" PROVE Somewhere(v, j)
    BY DEF AllFound
  <2>1. CASE j \in owned
    BY <1>5, <2>1 DEF Somewhere
  <2>2. CASE j \notin owned
    <3>1. Somewhere(w, j)
      BY <1>0, <1>6, <2>2 DEF LinksSafe, AllFound
    <3>2. CASE \E r \in Slots : w.ch[r].hand = j \/ w.ch[r].pack = j
      BY <1>2, <1>4, <2>2, <3>2 DEF Somewhere
    <3>3. CASE \E t \in Ground : w.ground[t] = j
      BY <1>2, <3>3 DEF Somewhere
    <3>4. CASE \E h \in Items : j \in w.con[h].items
      BY <1>5, <3>4 DEF Somewhere
    <3> QED
      BY <3>1, <3>2, <3>3, <3>4 DEF Somewhere
  <2> QED
    BY <2>1, <2>2
<1>17. InTransit(v, NoItem)
  BY <1>0 DEF InTransit
<1> QED
  BY <1>1, <1>10, <1>11, <1>12, <1>13, <1>14, <1>15, <1>16, <1>17 DEF Sound, LinksSafe

\* A new item m in grave g.
Enclosed(w, v, g, m) ==
    /\ TableTypes(v) /\ SameHands(w, v) /\ v.ground = w.ground
    /\ w.it[g].kind = "body" /\ w.it[m].kind = "none"
    /\ \A h \in Items \ {g} : v.con[h] = w.con[h]
    /\ v.con[g].owner = w.con[g].owner /\ v.con[g].items = w.con[g].items \cup {m}
    /\ \A j \in Items \ {m} : v.it[j] = w.it[j]
    /\ v.it[m].kind = "money" /\ v.it[m].carried = Vacant /\ v.it[m].tile = 0 /\ v.it[m].inside = g

\* The gold of the dead becomes an item in his grave.
LEMMA EnclosedSafe ==
    ASSUME NEW w, NEW v, NEW g \in Items, NEW m \in Items, Sound(w, NoItem), Enclosed(w, v, g, m)
    PROVE  Sound(v, NoItem)
<1>0. TableTypes(w) /\ ActsSafe(w) /\ LinksSafe(w, NoItem) /\ NoItem \notin Items
  BY NoItemIsNone DEF Sound
<1>1. TableTypes(v)
  BY DEF Enclosed
<1>2. /\ \A r \in Slots :
          /\ v.ch[r].who = w.ch[r].who /\ v.ch[r].hand = w.ch[r].hand /\ v.ch[r].pack = w.ch[r].pack
          /\ v.ch[r].action = w.ch[r].action /\ v.ch[r].act1 = w.ch[r].act1 /\ v.ch[r].at = w.ch[r].at
      /\ v.ground = w.ground
  BY DEF Enclosed, SameHands
<1>3. /\ w.it[g].kind = "body" /\ w.it[m].kind = "none" /\ g # m
      /\ \A h \in Items : h # g => v.con[h] = w.con[h]
      /\ v.con[g].owner = w.con[g].owner /\ v.con[g].items = w.con[g].items \cup {m}
      /\ \A j \in Items : j # m => v.it[j] = w.it[j]
      /\ v.it[m].kind = "money" /\ v.it[m].carried = Vacant /\ v.it[m].tile = 0 /\ v.it[m].inside = g
  BY DEF Enclosed
<1>4. ~Somewhere(w, m) /\ w.con[m].items = {}
  BY <1>3, UnusedNowhere
<1>5. ActsSafe(v)
  BY <1>0, <1>2 DEF ActsSafe
<1>6. OneEach(v)
  BY <1>0, <1>2 DEF LinksSafe, OneEach
<1>7. CarriedSafe(v)
  BY <1>0, <1>2, <1>3, <1>4 DEF LinksSafe, CarriedSafe, Somewhere
<1>8. LyingSafe(v)
  BY <1>0, <1>2, <1>3, <1>4 DEF LinksSafe, LyingSafe, Somewhere
<1>9. GravesSafe(v)
  <2> SUFFICES ASSUME NEW h \in Items, NEW i \in Items, i \in v.con[h].items
               PROVE  /\ v.it[h].kind = "body" /\ v.it[i].kind \notin {"none", "body"}
                      /\ v.it[i].carried = Vacant /\ v.it[i].tile = 0 /\ v.it[i].inside = h
                      /\ v.it[i].kind = "relic" => v.it[i].first = Heir(v.con[h].owner)
    BY DEF GravesSafe
  <2>1. CASE i = m
    <3>1. h = g
      BY <1>3, <1>4, <2>1 DEF Somewhere
    <3> QED
      BY <1>3, <2>1, <3>1
  <2>2. CASE i # m
    <3>1. i \in w.con[h].items /\ v.con[h].owner = w.con[h].owner
      BY <1>3, <2>2
    <3>2. h # m
      BY <1>4, <3>1
    <3> QED
      BY <1>0, <1>3, <2>2, <3>1, <3>2 DEF LinksSafe, GravesSafe
  <2> QED
    BY <2>1, <2>2
<1>10. UnusedSafe(v)
  BY <1>0, <1>3 DEF LinksSafe, UnusedSafe
<1>11. AllFound(v, NoItem)
  <2> SUFFICES ASSUME NEW j \in Items, v.it[j].kind # "none" PROVE Somewhere(v, j)
    BY DEF AllFound
  <2>1. CASE j = m
    BY <1>3, <2>1 DEF Somewhere
  <2>2. CASE j # m
    <3>1. Somewhere(w, j)
      BY <1>0, <1>3, <2>2 DEF LinksSafe, AllFound
    <3>2. \A h \in Items : j \in w.con[h].items => j \in v.con[h].items
      BY <1>3
    <3> QED
      BY <1>2, <3>1, <3>2 DEF Somewhere
  <2> QED
    BY <2>1, <2>2
<1>12. InTransit(v, NoItem)
  BY <1>0 DEF InTransit
<1> QED
  BY <1>1, <1>5, <1>6, <1>7, <1>8, <1>9, <1>10, <1>11, <1>12 DEF Sound, LinksSafe

\* What s has is gone, and perhaps s himself.
Stripped(w, v, s) ==
    /\ TableTypes(v) /\ v.con = w.con /\ v.ground = w.ground
    /\ \A r \in Slots \ {s} : v.ch[r] = w.ch[r]
    /\ v.ch[s].hand = NoItem /\ v.ch[s].pack = NoItem
    /\ \/ v.ch[s].who = Vacant /\ v.ch[s].action = "idle"
       \/ /\ v.ch[s].who = w.ch[s].who /\ v.ch[s].action = w.ch[s].action
          /\ v.ch[s].act1 = w.ch[s].act1 /\ v.ch[s].at = w.ch[s].at
    /\ v.it = [i \in Items |-> IF i \in {w.ch[s].hand, w.ch[s].pack} THEN Nowhere ELSE w.it[i]]

\* The dead is gone with all he had left.
LEMMA StrippedSafe ==
    ASSUME NEW w, NEW v, NEW s \in Slots, Sound(w, NoItem), Stripped(w, v, s)
    PROVE  Sound(v, NoItem)
<1>0. TableTypes(w) /\ ActsSafe(w) /\ LinksSafe(w, NoItem) /\ NoItem \notin Items
  BY NoItemIsNone DEF Sound
<1>1. TableTypes(v)
  BY DEF Stripped
<1>2. /\ \A r \in Slots : r # s => v.ch[r] = w.ch[r]
      /\ v.ch[s].hand = NoItem /\ v.ch[s].pack = NoItem /\ v.ground = w.ground /\ v.con = w.con
      /\ v.ch[s].who \in {Vacant, w.ch[s].who}
  BY DEF Stripped
<1>3. PICK owned : owned = {i \in Items : w.ch[s].hand = i \/ w.ch[s].pack = i}
  OBVIOUS
<1>4. \A i \in Items : v.it[i] = IF i \in owned THEN Nowhere ELSE w.it[i]
  BY <1>3 DEF Stripped
<1>5. \A i \in owned :
          /\ w.it[i].kind \notin {"none", "body"} /\ w.it[i].tile = 0 /\ w.it[i].inside = NoItem
          /\ w.it[i].carried = w.ch[s].who /\ w.ch[s].who # Vacant
  BY <1>0, <1>3 DEF LinksSafe, CarriedSafe
<1>6. \A i \in owned : /\ \A r \in Slots : r # s => w.ch[r].hand # i /\ w.ch[r].pack # i
                       /\ \A t \in Ground : w.ground[t] # i
                       /\ \A h \in Items : i \notin w.con[h].items
  <2> SUFFICES ASSUME NEW i \in owned
               PROVE  /\ \A r \in Slots : r # s => w.ch[r].hand # i /\ w.ch[r].pack # i
                      /\ \A t \in Ground : w.ground[t] # i
                      /\ \A h \in Items : i \notin w.con[h].items
    OBVIOUS
  <2>1. i \in Items
    BY <1>3
  <2>2. ASSUME NEW r \in Slots, r # s PROVE w.ch[r].hand # i /\ w.ch[r].pack # i
    <3>1. w.ch[r].who # w.ch[s].who
      BY <1>0, <1>5, <2>2 DEF LinksSafe, OneEach
    <3> QED
      BY <1>0, <1>5, <2>1, <3>1 DEF LinksSafe, CarriedSafe
  <2>3. \A t \in Ground : w.ground[t] # i
    BY <1>0, <1>5, <2>1 DEF LinksSafe, LyingSafe
  <2>4. \A h \in Items : i \notin w.con[h].items
    BY <1>0, <1>5, <2>1 DEF LinksSafe, GravesSafe
  <2> QED
    BY <2>2, <2>3, <2>4
<1>7. ActsSafe(v)
  BY <1>0, <1>2 DEF ActsSafe, Stripped
<1>8. OneEach(v)
  BY <1>0, <1>2 DEF LinksSafe, OneEach
<1>9. CarriedSafe(v)
  BY <1>0, <1>2, <1>4, <1>6 DEF LinksSafe, CarriedSafe
<1>10. LyingSafe(v)
  BY <1>0, <1>2, <1>4, <1>6 DEF LinksSafe, LyingSafe
<1>11. GravesSafe(v)
  <2> SUFFICES ASSUME NEW h \in Items, NEW i \in Items, i \in v.con[h].items
               PROVE  /\ v.it[h].kind = "body" /\ v.it[i].kind \notin {"none", "body"}
                      /\ v.it[i].carried = Vacant /\ v.it[i].tile = 0 /\ v.it[i].inside = h
                      /\ v.it[i].kind = "relic" => v.it[i].first = Heir(v.con[h].owner)
    BY DEF GravesSafe
  <2>1. i \in w.con[h].items /\ v.con[h] = w.con[h]
    BY <1>2
  <2>2. h \notin owned /\ i \notin owned
    BY <1>0, <1>5, <1>6, <2>1 DEF LinksSafe, GravesSafe
  <2> QED
    BY <1>0, <1>4, <2>1, <2>2 DEF LinksSafe, GravesSafe
<1>12. UnusedSafe(v)
  BY <1>0, <1>4 DEF LinksSafe, UnusedSafe
<1>13. AllFound(v, NoItem)
  <2> SUFFICES ASSUME NEW j \in Items, v.it[j].kind # "none" PROVE Somewhere(v, j)
    BY DEF AllFound
  <2>1. j \notin owned /\ w.it[j].kind # "none"
    BY <1>4 DEF Nowhere
  <2>2. Somewhere(w, j)
    BY <1>0, <2>1 DEF LinksSafe, AllFound
  <2>3. CASE \E r \in Slots : w.ch[r].hand = j \/ w.ch[r].pack = j
    BY <1>2, <1>3, <2>1, <2>3 DEF Somewhere
  <2>4. CASE (\E t \in Ground : w.ground[t] = j) \/ \E h \in Items : j \in w.con[h].items
    BY <1>2, <2>4 DEF Somewhere
  <2> QED
    BY <2>2, <2>3, <2>4 DEF Somewhere
<1>14. InTransit(v, NoItem)
  BY <1>0 DEF InTransit
<1> QED
  BY <1>1, <1>7, <1>8, <1>9, <1>10, <1>11, <1>12, <1>13, <1>14 DEF Sound, LinksSafe

\* An empty entry has its type.
LEMMA EmptyTyped == Nowhere \in ItemType /\ NoGrave \in GraveType /\ NoChar \in CharType
BY DEF Nowhere, ItemType, NoGrave, GraveType, NoChar, CharType, Bearers, KitKinds

\* Nothing was found to put into a grave.
LEMMA LostSafe ==
    ASSUME NEW w, NEW s \in Slots, Sound(w, NoItem)
    PROVE  Sound(Lost(w, s), NoItem)
<1>0. TableTypes(w)
  BY DEF Sound
<1>1. /\ w.ch \in [Slots -> CharType] /\ w.it \in [Items -> ItemType]
      /\ w = [ch |-> w.ch, it |-> w.it, con |-> w.con, ground |-> w.ground]
  BY <1>0, EntryTypes
<1>2. PICK c : c = [w.ch[s] EXCEPT !.hand = NoItem, !.pack = NoItem, !.gold = 0]
  OBVIOUS
<1>3. PICK v : v = Lost(w, s)
  OBVIOUS
<1>4. PICK things : things = [i \in Items |-> IF i \in {w.ch[s].hand, w.ch[s].pack} THEN Nowhere ELSE w.it[i]]
  OBVIOUS
<1>5. /\ v.ch = [w.ch EXCEPT ![s] = c] /\ v.it = things
      /\ v.con = w.con /\ v.ground = w.ground
      /\ v = [ch |-> v.ch, it |-> v.it, con |-> v.con, ground |-> v.ground]
  BY <1>1, <1>2, <1>3, <1>4 DEF Lost
<1>6. /\ c \in CharType /\ c.hand = NoItem /\ c.pack = NoItem
      /\ c.who = w.ch[s].who /\ c.action = w.ch[s].action /\ c.act1 = w.ch[s].act1 /\ c.at = w.ch[s].at
  <2>1. w.ch[s] \in CharType /\ NoItem \in Items \cup {NoItem} /\ 0 \in Int
    BY <1>1
  <2> QED
    BY <1>2, <2>1 DEF CharType
<1>7. things \in [Items -> ItemType]
  BY <1>1, <1>4, EmptyTyped
<1>8. v.ch \in [Slots -> CharType] /\ v.ch[s] = c /\ \A r \in Slots \ {s} : v.ch[r] = w.ch[r]
  BY <1>1, <1>5, <1>6
<1>9. TableTypes(v)
  BY <1>0, <1>5, <1>7, <1>8, EntryTypes, TypesOfEntries
<1>10. Stripped(w, v, s)
  BY <1>4, <1>5, <1>6, <1>8, <1>9 DEF Stripped
<1> QED
  BY <1>3, <1>10, StrippedSafe

\* destroy_char.
LEMMA DestroyedSafe ==
    ASSUME NEW w, NEW s \in Slots, Sound(w, NoItem)
    PROVE  Sound(destroy_char(w, s), NoItem)
<1>0. TableTypes(w)
  BY DEF Sound
<1>1. /\ w.ch \in [Slots -> CharType] /\ w.it \in [Items -> ItemType]
      /\ w = [ch |-> w.ch, it |-> w.it, con |-> w.con, ground |-> w.ground]
  BY <1>0, EntryTypes
<1>2. PICK v : v = destroy_char(w, s)
  OBVIOUS
<1>3. PICK things : things = [i \in Items |-> IF i \in {w.ch[s].hand, w.ch[s].pack} THEN Nowhere ELSE w.it[i]]
  OBVIOUS
<1>4. /\ v.ch = [w.ch EXCEPT ![s] = NoChar] /\ v.it = things
      /\ v.con = w.con /\ v.ground = w.ground
      /\ v = [ch |-> v.ch, it |-> v.it, con |-> v.con, ground |-> v.ground]
  BY <1>1, <1>2, <1>3 DEF destroy_char
<1>5. things \in [Items -> ItemType]
  BY <1>1, <1>3, EmptyTyped
<1>6. v.ch \in [Slots -> CharType] /\ v.ch[s] = NoChar /\ \A r \in Slots \ {s} : v.ch[r] = w.ch[r]
  BY <1>1, <1>4, EmptyTyped
<1>7. TableTypes(v)
  BY <1>0, <1>4, <1>5, <1>6, EntryTypes, TypesOfEntries
<1>8. Stripped(w, v, s)
  BY <1>3, <1>4, <1>6, <1>7 DEF Stripped, NoChar
<1> QED
  BY <1>2, <1>8, StrippedSafe

\* The gold and the money there was, and the gold of s as an item that was free.
SameCoins(w, v) ==
    /\ \A r \in Slots : v.ch[r].gold = w.ch[r].gold /\ v.ch[r].who = w.ch[r].who
    /\ \A i \in Items : v.it[i].kind = w.it[i].kind /\ v.it[i].value = w.it[i].value
CoinsBuried(w, v, s) == \E m \in Items :
    /\ w.it[m].kind = "none" /\ v.it[m].kind = "money"
    /\ v.it[m].value = w.ch[s].gold /\ w.ch[s].gold # 0 /\ v.ch[s].gold = 0 /\ v.ch[s].who = w.ch[s].who
    /\ \A r \in Slots \ {s} : v.ch[r] = w.ch[r]
    /\ \A i \in Items \ {m} : v.it[i].kind = w.it[i].kind /\ v.it[i].value = w.it[i].value

\* All s has goes into his grave.
LEMMA BuriedSafe ==
    ASSUME NEW w, NEW s \in Slots, NEW g \in Items, Sound(w, NoItem),
           w.it[g].kind = "body", w.con[g].items = {}, w.con[g].owner = w.ch[s].who
    PROVE  /\ Sound(Buried(w, s, g), NoItem)
           /\ SameCoins(w, Buried(w, s, g)) \/ CoinsBuried(w, Buried(w, s, g), s)
<1>0. TableTypes(w) /\ NoItem \notin Items
  BY NoItemIsNone DEF Sound
<1>1. /\ w.ch \in [Slots -> CharType] /\ w.it \in [Items -> ItemType] /\ w.con \in [Items -> GraveType]
      /\ w = [ch |-> w.ch, it |-> w.it, con |-> w.con, ground |-> w.ground]
  BY <1>0, EntryTypes
<1>2. PICK owned : owned = {w.ch[s].hand, w.ch[s].pack} \ {NoItem}
  OBVIOUS
<1>3. owned \subseteq Items
  BY <1>1, <1>2 DEF CharType
<1>4. PICK things : things = [i \in Items |-> IF i \in owned THEN [w.it[i] EXCEPT !.carried = Vacant, !.inside = g] ELSE w.it[i]]
  OBVIOUS
<1>5. PICK grave : grave = [w.con[g] EXCEPT !.items = owned]
  OBVIOUS
<1>6. PICK c : c = [w.ch[s] EXCEPT !.hand = NoItem, !.pack = NoItem]
  OBVIOUS
<1>7. PICK v : v = [w EXCEPT !.con[g].items = owned, !.it = things,
                             !.ch[s].hand = NoItem, !.ch[s].pack = NoItem]
  OBVIOUS
<1>8. /\ v.ch = [w.ch EXCEPT ![s] = c] /\ v.it = things
      /\ v.con = [w.con EXCEPT ![g] = grave] /\ v.ground = w.ground
      /\ v = [ch |-> v.ch, it |-> v.it, con |-> v.con, ground |-> v.ground]
  <2>1. v.ch = [[w.ch EXCEPT ![s].hand = NoItem] EXCEPT ![s].pack = NoItem]
    BY <1>1, <1>7
  <2>2. [[w.ch EXCEPT ![s].hand = NoItem] EXCEPT ![s].pack = NoItem] = [w.ch EXCEPT ![s] = c]
    BY <1>1, <1>6
  <2>3. v.it = things /\ v.con = [w.con EXCEPT ![g] = grave] /\ v.ground = w.ground
        /\ v = [ch |-> v.ch, it |-> v.it, con |-> v.con, ground |-> v.ground]
    BY <1>1, <1>5, <1>7
  <2> QED
    BY <2>1, <2>2, <2>3
<1>9. /\ c \in CharType /\ c.hand = NoItem /\ c.pack = NoItem /\ c.gold = w.ch[s].gold
      /\ c.who = w.ch[s].who /\ c.action = w.ch[s].action /\ c.act1 = w.ch[s].act1 /\ c.at = w.ch[s].at
  <2>1. w.ch[s] \in CharType
    BY <1>1
  <2> QED
    BY <1>6, <2>1 DEF CharType
<1>10. grave \in GraveType /\ grave.owner = w.con[g].owner /\ grave.items = owned
  BY <1>1, <1>3, <1>5 DEF GraveType
<1>11. ASSUME NEW i \in Items
       PROVE  /\ [w.it[i] EXCEPT !.carried = Vacant, !.inside = g] \in ItemType
              /\ [w.it[i] EXCEPT !.carried = Vacant, !.inside = g].value = w.it[i].value
              /\ [w.it[i] EXCEPT !.carried = Vacant, !.inside = g].kind = w.it[i].kind
              /\ [w.it[i] EXCEPT !.carried = Vacant, !.inside = g].tile = w.it[i].tile
              /\ [w.it[i] EXCEPT !.carried = Vacant, !.inside = g].first = w.it[i].first
              /\ [w.it[i] EXCEPT !.carried = Vacant, !.inside = g].carried = Vacant
              /\ [w.it[i] EXCEPT !.carried = Vacant, !.inside = g].inside = g
  <2>1. w.it[i] \in ItemType /\ Vacant \in Bearers /\ g \in Items \cup {NoItem}
    BY <1>1 DEF Bearers
  <2> QED
    BY <2>1 DEF ItemType
<1>12. things \in [Items -> ItemType]
  BY <1>1, <1>4, <1>11
<1>13. /\ v.ch \in [Slots -> CharType] /\ v.ch[s] = c /\ \A r \in Slots \ {s} : v.ch[r] = w.ch[r]
       /\ v.con \in [Items -> GraveType] /\ v.con[g] = grave /\ \A h \in Items \ {g} : v.con[h] = w.con[h]
  BY <1>1, <1>8, <1>9, <1>10
<1>14. TableTypes(v)
  BY <1>0, <1>8, <1>12, <1>13, EntryTypes, TypesOfEntries
<1>15. Entombed(w, v, s, g)
  <2>1. SameFolk(w, v, s) /\ v.ch[s].hand = NoItem /\ v.ch[s].pack = NoItem
    BY <1>9, <1>13 DEF SameFolk
  <2>2. /\ \A i \in Items \ {w.ch[s].hand, w.ch[s].pack} : v.it[i] = w.it[i]
        /\ \A i \in Items \cap {w.ch[s].hand, w.ch[s].pack} :
              /\ v.it[i].kind = w.it[i].kind /\ v.it[i].tile = w.it[i].tile /\ v.it[i].first = w.it[i].first
              /\ v.it[i].carried = Vacant /\ v.it[i].inside = g
    <3>1. \A i \in Items \ {w.ch[s].hand, w.ch[s].pack} : v.it[i] = w.it[i]
      BY <1>2, <1>4, <1>8
    <3>2. ASSUME NEW i \in Items, i \in {w.ch[s].hand, w.ch[s].pack}
          PROVE  v.it[i] = [w.it[i] EXCEPT !.carried = Vacant, !.inside = g]
      <4>1. i \in owned
        BY <1>0, <1>2, <3>2
      <4>2. things[i] = [w.it[i] EXCEPT !.carried = Vacant, !.inside = g]
        BY <1>4, <4>1, Zenon
      <4> QED
        BY <1>8, <4>2
    <3> QED
      BY <1>11, <3>1, <3>2
  <2> QED
    BY <1>2, <1>8, <1>10, <1>13, <1>14, <2>1, <2>2 DEF Entombed
<1>16. Sound(v, NoItem)
  BY <1>15, EntombedSafe
<1>160. SameCoins(w, v)
  <2>1. \A i \in Items : v.it[i] = w.it[i] \/ v.it[i] = [w.it[i] EXCEPT !.carried = Vacant, !.inside = g]
    BY <1>4, <1>8
  <2>2. \A i \in Items : v.it[i].kind = w.it[i].kind /\ v.it[i].value = w.it[i].value
    BY <1>11, <2>1
  <2> QED
    BY <1>9, <1>13, <2>2 DEF SameCoins
<1>17. PICK m : m = AllocIn(v)
  OBVIOUS
<1>18. PICK z : z = [Created(v, m, "money", w.ch[s].gold) EXCEPT
                       !.it[m].inside = g, !.con[g].items = @ \cup {m}, !.ch[s].gold = 0]
  OBVIOUS
<1>19. Buried(w, s, g) = IF w.ch[s].gold = 0 \/ m = NoItem THEN v ELSE z
  <2>1. ThingsBuried(w, s, g) = v
    <3> DEFINE all == {w.ch[s].hand, w.ch[s].pack} \ {NoItem}
               moved == [i \in Items |-> IF i \in all THEN [w.it[i] EXCEPT !.carried = Vacant, !.inside = g] ELSE w.it[i]]
               after == [w EXCEPT !.con[g].items = all, !.it = moved, !.ch[s].hand = NoItem, !.ch[s].pack = NoItem]
    <3>1. ThingsBuried(w, s, g) = after
      BY DEF ThingsBuried
    <3>2. all = owned
      BY <1>2
    <3> HIDE DEF all
    <3>3. moved = things
      BY <1>4, <3>2
    <3> HIDE DEF moved
    <3>4. after = v
      BY <1>7, <3>2, <3>3
    <3> HIDE DEF after
    <3> QED
      BY <3>1, <3>4
  <2>2. GoldBuried(v, s, g, m, w.ch[s].gold) = z
    BY <1>18 DEF GoldBuried
  <2> QED
    BY <1>17, <2>1, <2>2 DEF Buried
<1>20. CASE w.ch[s].gold = 0 \/ m = NoItem
  BY <1>16, <1>160, <1>19, <1>20
<1>21. CASE ~(w.ch[s].gold = 0 \/ m = NoItem)
  <2>1. m \in Items /\ v.it[m].kind = "none"
    BY <1>17, <1>21, Allocated
  <2>2. PICK cash : cash = w.ch[s].gold
    OBVIOUS
  <2>3. cash \in Int
    BY <1>1, <2>2 DEF CharType
  <2>4. PICK n : n = [Nowhere EXCEPT !.kind = "money", !.value = cash]
    OBVIOUS
  <2>5. PICK u : u = Created(v, m, "money", cash)
    OBVIOUS
  <2>6. u = [ch |-> v.ch, it |-> [v.it EXCEPT ![m] = n], con |-> v.con, ground |-> v.ground]
    BY <1>8, <2>4, <2>5 DEF Created
  <2>7. PICK p : p = [n EXCEPT !.inside = g]
    OBVIOUS
  <2>8. p \in ItemType /\ p.kind = "money" /\ p.value = cash /\ p.carried = Vacant /\ p.tile = 0 /\ p.inside = g
    BY <2>3, <2>4, <2>7 DEF Nowhere, ItemType, Bearers, KitKinds
  <2>9. PICK body : body = [v.con[g] EXCEPT !.items = v.con[g].items \cup {m}]
    OBVIOUS
  <2>10. body \in GraveType /\ body.owner = v.con[g].owner /\ body.items = v.con[g].items \cup {m}
    BY <1>13, <2>1, <2>9 DEF GraveType
  <2>11. PICK d : d = [v.ch[s] EXCEPT !.gold = 0]
    OBVIOUS
  <2>12. /\ d \in CharType /\ d.gold = 0 /\ d.hand = v.ch[s].hand /\ d.pack = v.ch[s].pack
         /\ d.who = v.ch[s].who /\ d.action = v.ch[s].action /\ d.act1 = v.ch[s].act1 /\ d.at = v.ch[s].at
    BY <1>13, <2>11 DEF CharType
  <2>13. z = [u EXCEPT !.it[m].inside = g, !.con[g].items = @ \cup {m}, !.ch[s].gold = 0]
    BY <1>18, <2>2, <2>5
  <2>14. /\ z.ch = [v.ch EXCEPT ![s] = d] /\ z.it = [v.it EXCEPT ![m] = p]
         /\ z.con = [v.con EXCEPT ![g] = body] /\ z.ground = v.ground
         /\ z = [ch |-> z.ch, it |-> z.it, con |-> z.con, ground |-> z.ground]
    <3>1. z.ch = [u.ch EXCEPT ![s].gold = 0] /\ z.it = [u.it EXCEPT ![m].inside = g]
          /\ z.con = [u.con EXCEPT ![g].items = u.con[g].items \cup {m}] /\ z.ground = u.ground
          /\ z = [ch |-> z.ch, it |-> z.it, con |-> z.con, ground |-> z.ground]
      BY <2>6, <2>13
    <3>2. z.ch = [v.ch EXCEPT ![s] = d]
      BY <2>6, <2>11, <3>1
    <3>3. z.con = [v.con EXCEPT ![g] = body]
      BY <2>6, <2>9, <3>1
    <3>4. z.it = [[v.it EXCEPT ![m] = n] EXCEPT ![m].inside = g]
      BY <2>6, <3>1
    <3>5. [[v.it EXCEPT ![m] = n] EXCEPT ![m].inside = g] = [v.it EXCEPT ![m] = p]
      BY <1>8, <1>12, <2>1, <2>7
    <3> QED
      BY <2>6, <3>1, <3>2, <3>3, <3>4, <3>5
  <2>15. /\ z.ch \in [Slots -> CharType] /\ z.ch[s] = d /\ \A r \in Slots \ {s} : z.ch[r] = v.ch[r]
         /\ z.con \in [Items -> GraveType] /\ z.con[g] = body /\ \A h \in Items \ {g} : z.con[h] = v.con[h]
         /\ z.it \in [Items -> ItemType] /\ z.it[m] = p /\ \A j \in Items \ {m} : z.it[j] = v.it[j]
    BY <1>8, <1>12, <1>13, <2>1, <2>8, <2>10, <2>12, <2>14
  <2>16. TableTypes(z)
    BY <1>14, <2>14, <2>15, EntryTypes, TypesOfEntries
  <2>17. v.it[g].kind = "body"
    <3>1. g \notin owned
      <4>1. w.it[g].kind = "body" => w.ch[s].hand # g /\ w.ch[s].pack # g
        BY DEF Sound, LinksSafe, CarriedSafe
      <4> QED
        BY <1>2, <4>1
    <3> QED
      BY <1>4, <1>8, <3>1
  <2>18. SameHands(v, z)
    BY <2>12, <2>15 DEF SameHands
  <2>19. Enclosed(v, z, g, m)
    BY <2>1, <2>8, <2>10, <2>14, <2>15, <2>16, <2>17, <2>18 DEF Enclosed
  <2>20. Sound(z, NoItem)
    BY <1>16, <2>1, <2>19, EnclosedSafe
  <2>21. CoinsBuried(w, z, s)
    <3>1. /\ w.it[m].kind = "none" /\ z.it[m].kind = "money" /\ z.it[m].value = w.ch[s].gold
          /\ z.ch[s].gold = 0 /\ z.ch[s].who = w.ch[s].who
      BY <1>160, <2>1, <2>2, <2>8, <2>12, <2>15 DEF SameCoins
    <3>2. \A r \in Slots \ {s} : z.ch[r] = w.ch[r]
      BY <1>13, <2>15
    <3>3. \A i \in Items \ {m} : z.it[i].kind = w.it[i].kind /\ z.it[i].value = w.it[i].value
      BY <1>160, <2>15 DEF SameCoins
    <3> QED
      BY <1>21, <2>1, <3>1, <3>2, <3>3 DEF CoinsBuried
  <2> QED
    BY <1>19, <1>21, <2>20, <2>21
<1> QED
  BY <1>20, <1>21

\* The tables with a grave for s on tile t.
WithGrave(s, g, t, killer) ==
    [set_item_map(Created(Tables, g, "body", 0), g, t) EXCEPT
        !.con[g] = [owner |-> ch[s].who, access |-> Vacant, items |-> {}, killer |-> killer]]

\* The grave of s is made and put on a free tile.
LEMMA GraveMade ==
    ASSUME NEW s \in Slots, NEW g \in Items, NEW t \in Ground, NEW killer \in Bearers, Sound(Tables, NoItem),
           it[g].kind = "none", ground[t] = NoItem,
           NEW v, v = WithGrave(s, g, t, killer)
    PROVE  Sound(v, NoItem) /\ v.it[g].kind = "body" /\ v.con[g].items = {} /\ v.con[g].owner = v.ch[s].who
           /\ v.ch = ch /\ v.it[g].value = 0 /\ \A j \in Items \ {g} : v.it[j] = it[j]
<1>1. /\ ch \in [Slots -> CharType] /\ it \in [Items -> ItemType]
      /\ con \in [Items -> GraveType] /\ ground \in [Ground -> Items \cup {NoItem}]
  BY TablesTyped
<1>2. PICK n : n = [Nowhere EXCEPT !.kind = "body", !.value = 0]
  OBVIOUS
<1>3. n \in ItemType /\ n.kind = "body" /\ n.inside = NoItem /\ n.value = 0
  <2>1. Nowhere \in ItemType /\ "body" \in KitKinds \cup {"body"} /\ 0 \in Int /\ Nowhere.inside = NoItem
    BY EmptyTyped DEF Nowhere
  <2> QED
    BY <1>2, <2>1 DEF ItemType
<1>4. PICK u : u = Created(Tables, g, "body", 0)
  OBVIOUS
<1>5. u = [ch |-> ch, it |-> [it EXCEPT ![g] = n], con |-> con, ground |-> ground]
  BY <1>2, <1>4 DEF Created, Tables
<1>6. TableTypes(u) /\ u.it[g] = n
  <2>1. [it EXCEPT ![g] = n] \in [Items -> ItemType]
    BY <1>1, <1>3
  <2>2. u.ch = ch /\ u.it = [it EXCEPT ![g] = n] /\ u.con = con /\ u.ground = ground
    BY <1>5
  <2> QED
    BY <1>1, <1>5, <2>1, <2>2, TypesOfEntries
<1>7. PICK p : p = [n EXCEPT !.tile = t, !.carried = Vacant, !.inside = NoItem]
  OBVIOUS
<1>8. p \in ItemType /\ p.kind = "body" /\ p.tile = t /\ p.inside = NoItem /\ p.carried = Vacant /\ p.value = 0
  <2>1. t \in Ground \cup {0} /\ Vacant \in Bearers /\ NoItem \in Items \cup {NoItem}
    BY DEF Bearers
  <2> QED
    BY <1>3, <1>7, <2>1 DEF ItemType
<1>9. PICK w : w = set_item_map(u, g, t)
  OBVIOUS
<1>10. w = [ch |-> ch, con |-> con, ground |-> [ground EXCEPT ![t] = g], it |-> [[it EXCEPT ![g] = n] EXCEPT ![g] = p]]
  <2>1. w = [ch |-> u.ch, con |-> u.con, ground |-> [u.ground EXCEPT ![t] = g],
             it |-> [u.it EXCEPT ![g] = [u.it[g] EXCEPT !.tile = t, !.carried = Vacant, !.inside = NoItem]]]
    BY <1>6, <1>9, SetMapFields
  <2>2. u.ch = ch /\ u.it = [it EXCEPT ![g] = n] /\ u.con = con /\ u.ground = ground
    BY <1>5
  <2> QED
    BY <1>6, <1>7, <2>1, <2>2
<1>11. PICK grave : grave = [owner |-> ch[s].who, access |-> Vacant, items |-> {}, killer |-> killer]
  OBVIOUS
<1>12. grave \in GraveType /\ grave.items = {} /\ grave.owner = ch[s].who
  BY <1>1, <1>11 DEF GraveType, CharType, Bearers
<1>13. v = [w EXCEPT !.con[g] = grave]
  BY <1>4, <1>9, <1>11 DEF WithGrave
<1>14. /\ v.ch = ch /\ v.con = [con EXCEPT ![g] = grave] /\ v.ground = [ground EXCEPT ![t] = g]
       /\ v.it = [[it EXCEPT ![g] = n] EXCEPT ![g] = p]
       /\ v = [ch |-> v.ch, it |-> v.it, con |-> v.con, ground |-> v.ground]
  BY <1>10, <1>13
<1>15. /\ v.con \in [Items -> GraveType] /\ v.con[g] = grave /\ \A j \in Items \ {g} : v.con[j] = con[j]
       /\ v.it \in [Items -> ItemType] /\ v.it[g] = p /\ \A j \in Items \ {g} : v.it[j] = it[j]
       /\ v.ground \in [Ground -> Items \cup {NoItem}]
  <2>1. v.con \in [Items -> GraveType] /\ v.con[g] = grave /\ \A j \in Items \ {g} : v.con[j] = con[j]
    BY <1>1, <1>12, <1>14
  <2>2. PICK first : first = [it EXCEPT ![g] = n]
    OBVIOUS
  <2>3. first \in [Items -> ItemType] /\ \A j \in Items \ {g} : first[j] = it[j]
    BY <1>1, <1>3, <2>2
  <2>4. v.it = [first EXCEPT ![g] = p]
    BY <1>14, <2>2
  <2>5. v.it \in [Items -> ItemType] /\ v.it[g] = p /\ \A j \in Items \ {g} : v.it[j] = it[j]
    BY <1>8, <2>3, <2>4
  <2>6. v.ground \in [Ground -> Items \cup {NoItem}]
    BY <1>1, <1>14
  <2> QED
    BY <2>1, <2>5, <2>6
<1>16. TableTypes(v)
  BY <1>1, <1>14, <1>15, TypesOfEntries
<1>17. BodyLaid(Tables, v, t, g)
  <2>1. Tables.ch = ch /\ Tables.it = it /\ Tables.con = con /\ Tables.ground = ground
    BY DEF Tables
  <2>2. SameHands(Tables, v)
    BY <1>14, <2>1 DEF SameHands
  <2> QED
    BY <1>8, <1>12, <1>14, <1>15, <1>16, <2>1, <2>2 DEF BodyLaid
<1>18. Sound(v, NoItem)
  BY <1>17, BodyLaidSafe
<1> QED
  BY <1>8, <1>12, <1>14, <1>15, <1>18

\* A character dies: all he had is destroyed, kept or in his grave (death.c).
LEMMA DieSafe ==
    ASSUME NEW s \in Slots, Sound(Tables, NoItem), Dies(s)
    PROVE  Sound(Tables, NoItem)'
<1>1. PICK g : g = AllocIn(Tables)
  OBVIOUS
<1>2. PICK t : t = CHOOSE x \in FreeTiles : \A y \in FreeTiles : x <= y
  OBVIOUS
<1>3. PICK r : r = ch[s].act1
  OBVIOUS
<1>4. PICK killer : killer = IF r = 0 THEN Vacant ELSE ch[r].who
  OBVIOUS
<1>5. PICK v : v = WithGrave(s, g, t, killer)
  OBVIOUS
<1>6. PICK dead : dead = IF g = NoItem \/ FreeTiles = {} THEN Lost(Tables, s) ELSE Buried(v, s, g)
  OBVIOUS
<1>7. Ends(IF Human(s) THEN dead ELSE destroy_char(dead, s), s)
  BY <1>1, <1>2, <1>3, <1>4, <1>5, <1>6 DEF Dies, WithGrave
<1>8. Sound(dead, NoItem)
  <2>1. CASE g = NoItem \/ FreeTiles = {}
    BY <1>6, <2>1, LostSafe
  <2>2. CASE ~(g = NoItem \/ FreeTiles = {})
    <3>1. g \in Items /\ it[g].kind = "none"
      BY <1>1, <2>2, Allocated DEF Tables
    <3>2. t \in Ground /\ ground[t] = NoItem
      <4>1. FreeTiles \in SUBSET Nat
        BY BelongingsAssumption DEF FreeTiles
      <4>2. \E x \in FreeTiles : \A y \in FreeTiles : x <= y
        BY <2>2, <4>1, LeastNumber
      <4>3. t \in FreeTiles
        BY <1>2, <4>2
      <4> QED
        BY <4>3 DEF FreeTiles
    <3>3. killer \in Bearers
      <4>1. r \in Slots \cup {0}
        BY <1>3, BusyOnes DEF Dies
      <4> QED
        BY <1>4, <4>1, TablesTyped DEF CharType, Bearers
    <3>4. Sound(v, NoItem) /\ v.it[g].kind = "body" /\ v.con[g].items = {} /\ v.con[g].owner = v.ch[s].who
      BY <1>5, <3>1, <3>2, <3>3, GraveMade
    <3>5. Sound(Buried(v, s, g), NoItem)
      BY <3>1, <3>4, BuriedSafe
    <3> QED
      BY <1>6, <2>2, <3>5
  <2> QED
    BY <2>1, <2>2
<1>9. Sound(destroy_char(dead, s), NoItem)
  BY <1>8, DestroyedSafe
<1> QED
  BY <1>7, <1>8, <1>9, EndsSafe

\* Who leaves is saved with what he has; a grave is not among it.
LEMMA QuitSafe ==
    ASSUME NEW s \in Slots, BelongSafe, Quits(s)
    PROVE  BelongSafe'
<1>1. Sound(Tables, NoItem) /\ KitSafe
  BY DEF BelongSafe
<1>2. Sound(Tables, NoItem)'
  BY <1>1, DestroyedSafe, BecomeSafe DEF Quits
<1>3. KitSafe'
  <2>1. ch[s] \in CharType /\ it \in [Items -> ItemType]
    BY <1>1, TablesTyped
  <2>2. ASSUME NEW i \in Items \cup {NoItem}, ch[s].hand = i \/ ch[s].pack = i PROVE KindOf(i) \in KitKinds
    <3>1. CASE i = NoItem
      BY <3>1 DEF KindOf, KitKinds
    <3>2. CASE i # NoItem
      <4>1. it[i].kind # "body" /\ i \in Items
        BY <1>1, <2>2, <3>2 DEF Sound, LinksSafe, CarriedSafe, Tables
      <4> QED
        BY <2>1, <3>2, <4>1 DEF KindOf, ItemType
    <3> QED
      BY <3>1, <3>2
  <2>3. KindOf(ch[s].hand) \in KitKinds /\ KindOf(ch[s].pack) \in KitKinds /\ ch[s].gold \in Int
    BY <2>1, <2>2 DEF CharType
  <2>4. [hand |-> KindOf(ch[s].hand), pack |-> KindOf(ch[s].pack), gold |-> ch[s].gold]
        \in [hand : KitKinds, pack : KitKinds, gold : Int]
    BY <2>3
  <2> QED
    BY <1>1, <2>4 DEF Quits, KitSafe
<1> QED
  BY <1>2, <1>3 DEF BelongSafe

\* The owner of graves lets somebody at them.
LEMMA AllowSafe ==
    ASSUME NEW n \in Humans, NEW m \in Humans, Sound(Tables, NoItem), Allows(n, m)
    PROVE  Sound(Tables, NoItem)'
<1>1. /\ ch \in [Slots -> CharType] /\ it \in [Items -> ItemType]
      /\ con \in [Items -> GraveType] /\ ground \in [Ground -> Items \cup {NoItem}]
  BY TablesTyped
<1>2. PICK graves : graves = [i \in Items |-> IF con[i].owner = n THEN [con[i] EXCEPT !.access = m] ELSE con[i]]
  OBVIOUS
<1>3. \A i \in Items : graves[i] \in GraveType /\ graves[i].owner = con[i].owner /\ graves[i].items = con[i].items
  <2>1. m \in Bearers
    BY DEF Bearers, Names
  <2> QED
    BY <1>1, <1>2, <2>1 DEF GraveType
<1>4. PICK v : v = [ch |-> ch, it |-> it, con |-> graves, ground |-> ground]
  OBVIOUS
<1>5. TableTypes(v)
  BY <1>1, <1>2, <1>3, <1>4 DEF TableTypes
<1>6. ActsSafe(v)
  BY <1>4 DEF Sound, ActsSafe, Tables
<1>7. OneEach(v) /\ CarriedSafe(v) /\ LyingSafe(v) /\ UnusedSafe(v) /\ InTransit(v, NoItem)
  BY <1>4, NoItemIsNone DEF Sound, LinksSafe, OneEach, CarriedSafe, LyingSafe, UnusedSafe, InTransit, Tables
<1>8. GravesSafe(v)
  BY <1>3, <1>4 DEF Sound, LinksSafe, GravesSafe, Tables
<1>9. AllFound(v, NoItem)
  BY <1>3, <1>4 DEF Sound, LinksSafe, AllFound, Somewhere, Tables
<1>10. Sound(v, NoItem)
  BY <1>5, <1>6, <1>7, <1>8, <1>9 DEF Sound, LinksSafe
<1>11. TablesBecome(v)
  BY <1>2, <1>4 DEF Allows, TablesBecome
<1> QED
  BY <1>10, <1>11, BecomeSafe

\* What lay on tile t is gone, with what was in it.
Rotted(w, v, t, i) ==
    /\ TableTypes(v) /\ v.ch = w.ch /\ w.ground[t] = i /\ v.ground = [w.ground EXCEPT ![t] = NoItem]
    /\ v.it[i] = Nowhere /\ v.con[i].items = {}
    /\ \A j \in Items \ {i} : v.con[j] = w.con[j]
    /\ \A j \in Items \ {i} : v.it[j] = IF j \in w.con[i].items THEN Nowhere ELSE w.it[j]

-----------------------------------------------------------------------------
(* Bodies that decay, and the graves others open.                           *)

\* A body and all that is in the grave are destroyed.
LEMMA RottedSafe ==
    ASSUME NEW w, NEW v, NEW t \in Ground, NEW i \in Items, Sound(w, NoItem), Rotted(w, v, t, i)
    PROVE  Sound(v, NoItem)
<1>0. TableTypes(w) /\ ActsSafe(w) /\ LinksSafe(w, NoItem) /\ i # NoItem /\ NoItem \notin Items
  BY NoItemIsNone DEF Sound
<1>1. TableTypes(v)
  BY DEF Rotted
<1>2. v.ground[t] = NoItem /\ (\A u \in Ground : u # t => v.ground[u] = w.ground[u]) /\ w.ground[t] = i
  BY <1>0, EntryTypes DEF Rotted
<1>3. PICK gone : gone = {i} \cup w.con[i].items
  OBVIOUS
<1>4. gone \subseteq Items /\ i \in gone
  BY <1>0, <1>3, EntryTypes DEF GraveType
<1>5. /\ \A j \in Items : v.it[j] = IF j \in gone THEN Nowhere ELSE w.it[j]
      /\ \A j \in Items : j # i => v.con[j] = w.con[j]
      /\ v.con[i].items = {} /\ v.ch = w.ch
  BY <1>3 DEF Rotted
<1>6. \A j \in gone : w.it[j].kind # "none" /\ w.it[j].carried = Vacant
  BY <1>0, <1>2, <1>3, <1>4 DEF LinksSafe, LyingSafe, GravesSafe
<1>7. \A j \in gone : /\ \A r \in Slots : w.ch[r].hand # j /\ w.ch[r].pack # j
                      /\ \A u \in Ground : u # t => w.ground[u] # j
                      /\ \A h \in Items : h # i => j \notin w.con[h].items
  <2> SUFFICES ASSUME NEW j \in gone
               PROVE  /\ \A r \in Slots : w.ch[r].hand # j /\ w.ch[r].pack # j
                      /\ \A u \in Ground : u # t => w.ground[u] # j
                      /\ \A h \in Items : h # i => j \notin w.con[h].items
    OBVIOUS
  <2>1. j \in Items
    BY <1>4
  <2>2. \A r \in Slots : w.ch[r].hand # j /\ w.ch[r].pack # j
    BY <1>0, <1>6, <2>1 DEF LinksSafe, CarriedSafe
  <2>3. CASE j = i
    <3>1. w.it[j].tile = t /\ w.it[j].inside = NoItem /\ t # 0
      BY <1>0, <1>2, <2>1, <2>3, BelongingsAssumption DEF LinksSafe, LyingSafe
    <3> QED
      BY <1>0, <2>1, <2>2, <3>1 DEF LinksSafe, LyingSafe, GravesSafe
  <2>4. CASE j \in w.con[i].items
    <3>1. w.it[j].tile = 0 /\ w.it[j].inside = i
      BY <1>0, <2>1, <2>4 DEF LinksSafe, GravesSafe
    <3>2. \A u \in Ground : w.ground[u] # j
      BY <1>0, <2>1, <3>1 DEF LinksSafe, LyingSafe
    <3>3. \A h \in Items : h # i => j \notin w.con[h].items
      BY <1>0, <2>1, <3>1 DEF LinksSafe, GravesSafe
    <3> QED
      BY <2>2, <3>2, <3>3
  <2> QED
    BY <1>3, <2>3, <2>4
<1>8. \A j \in gone : \A h \in Items : v.con[h].items \cap {j} = {}
  BY <1>5, <1>7
<1>9. \A h \in Items : v.con[h].items # {} => h \notin gone
  <2> SUFFICES ASSUME NEW h \in Items, v.con[h].items # {}, h \in gone PROVE FALSE
    OBVIOUS
  <2>1. h # i /\ v.con[h] = w.con[h] /\ h \in w.con[i].items
    BY <1>3, <1>5
  <2>2. w.con[h].items \subseteq Items
    BY <1>0, EntryTypes DEF GraveType
  <2>3. w.it[h].kind = "body"
    BY <1>0, <2>1, <2>2 DEF LinksSafe, GravesSafe
  <2>4. w.it[h].kind # "body"
    BY <1>0, <2>1 DEF LinksSafe, GravesSafe
  <2> QED
    BY <2>3, <2>4
<1>10. ActsSafe(v) /\ OneEach(v)
  BY <1>0, <1>5 DEF LinksSafe, ActsSafe, OneEach
<1>11. CarriedSafe(v)
  BY <1>0, <1>5, <1>7 DEF LinksSafe, CarriedSafe
<1>12. LyingSafe(v)
  BY <1>0, <1>2, <1>5, <1>7 DEF LinksSafe, LyingSafe
<1>13. GravesSafe(v)
  <2> SUFFICES ASSUME NEW h \in Items, NEW j \in Items, j \in v.con[h].items
               PROVE  /\ v.it[h].kind = "body" /\ v.it[j].kind \notin {"none", "body"}
                      /\ v.it[j].carried = Vacant /\ v.it[j].tile = 0 /\ v.it[j].inside = h
                      /\ v.it[j].kind = "relic" => v.it[j].first = Heir(v.con[h].owner)
    BY DEF GravesSafe
  <2>1. h \notin gone /\ j \notin gone
    BY <1>8, <1>9
  <2>2. v.con[h] = w.con[h] /\ v.it[h] = w.it[h] /\ v.it[j] = w.it[j]
    BY <1>4, <1>5, <2>1
  <2> QED
    BY <1>0, <2>2 DEF LinksSafe, GravesSafe
<1>14. UnusedSafe(v)
  BY <1>0, <1>5 DEF LinksSafe, UnusedSafe
<1>15. AllFound(v, NoItem)
  <2> SUFFICES ASSUME NEW j \in Items, v.it[j].kind # "none" PROVE Somewhere(v, j)
    BY DEF AllFound
  <2>1. j \notin gone /\ w.it[j].kind # "none"
    BY <1>5 DEF Nowhere
  <2>2. Somewhere(w, j)
    BY <1>0, <2>1 DEF LinksSafe, AllFound
  <2>3. CASE \E r \in Slots : w.ch[r].hand = j \/ w.ch[r].pack = j
    BY <1>5, <2>3 DEF Somewhere
  <2>4. CASE \E u \in Ground : w.ground[u] = j
    BY <1>2, <1>4, <2>1, <2>4 DEF Somewhere
  <2>5. CASE \E h \in Items : j \in w.con[h].items
    BY <1>3, <1>5, <2>1, <2>5 DEF Somewhere
  <2> QED
    BY <2>2, <2>3, <2>4, <2>5 DEF Somewhere
<1>16. InTransit(v, NoItem)
  BY <1>0 DEF InTransit
<1> QED
  BY <1>1, <1>10, <1>11, <1>12, <1>13, <1>14, <1>15, <1>16 DEF Sound, LinksSafe

\* An item lies where it says.
LEMMA LiesThere ==
    ASSUME Sound(Tables, NoItem), NEW i \in Items, it[i].tile # 0
    PROVE  it[i].tile \in Ground /\ ground[it[i].tile] = i
<1>1. it[i] \in ItemType
  BY TablesTyped
<1>2. it[i].kind # "none"
  BY DEF Sound, LinksSafe, UnusedSafe, Tables, Nowhere
<1>3. Somewhere(Tables, i)
  BY <1>2, NoItemIsNone DEF Sound, LinksSafe, AllFound, Tables
<1>4. \E t \in Ground : ground[t] = i
  BY <1>3 DEF Sound, LinksSafe, CarriedSafe, GravesSafe, Somewhere, Tables
<1>5. PICK t \in Ground : ground[t] = i
  BY <1>4
<1>6. it[i].tile = t
  BY <1>5 DEF Sound, LinksSafe, LyingSafe, Tables
<1> QED
  BY <1>5, <1>6

\* An item on the map expires (expire.c).
LEMMA ExpireSafe ==
    ASSUME NEW i \in Items, Sound(Tables, NoItem), Expires(i)
    PROVE  Sound(Tables, NoItem)'
<1>1. /\ ch \in [Slots -> CharType] /\ it \in [Items -> ItemType]
      /\ con \in [Items -> GraveType] /\ ground \in [Ground -> Items \cup {NoItem}]
  BY TablesTyped
<1>2. PICK t : t = it[i].tile
  OBVIOUS
<1>3. t \in Ground /\ ground[t] = i
  BY <1>2, LiesThere DEF Expires
<1>4. PICK u : u = remove_item_map(Tables, i)
  OBVIOUS
<1>5. PICK n : n = [it[i] EXCEPT !.tile = 0]
  OBVIOUS
<1>60. PICK kept : kept = [it EXCEPT ![i] = n]
  OBVIOUS
<1>6. u = [ch |-> ch, it |-> kept, con |-> con, ground |-> [ground EXCEPT ![t] = NoItem]]
  BY <1>2, <1>4, <1>5, <1>60 DEF remove_item_map, Tables
<1>7. PICK v : v = destroy_item(u, i)
  OBVIOUS
<1>8. /\ v.ch = ch /\ v.con = [con EXCEPT ![i] = NoGrave] /\ v.ground = [ground EXCEPT ![t] = NoItem]
      /\ v.it = [j \in Items |-> IF j = i \/ j \in con[i].items THEN Nowhere ELSE kept[j]]
      /\ v = [ch |-> v.ch, it |-> v.it, con |-> v.con, ground |-> v.ground]
  <2>1. PICK rest : rest = [j \in Items |-> IF j = i \/ j \in con[i].items THEN Nowhere ELSE kept[j]]
    OBVIOUS
  <2>2. u.con = con /\ u.it = kept /\ u.ch = ch
    BY <1>6
  <2>3. rest = [j \in Items |-> IF j = i \/ j \in u.con[i].items THEN Nowhere ELSE u.it[j]]
    BY <2>1, <2>2
  <2>4. v = [u EXCEPT !.it = rest, !.con[i] = NoGrave]
    BY <1>7, <2>3 DEF destroy_item
  <2> QED
    BY <1>6, <2>1, <2>4
<1>9. v.it = [j \in Items |-> IF j = i \/ j \in con[i].items THEN Nowhere ELSE it[j]]
  <2>1. \A j \in Items : j # i => kept[j] = it[j]
    BY <1>1, <1>60
  <2> QED
    BY <1>8, <2>1
<1>10. TableTypes(v)
  <2>1. v.it \in [Items -> ItemType] /\ v.con \in [Items -> GraveType] /\ v.ground \in [Ground -> Items \cup {NoItem}]
    BY <1>1, <1>8, <1>9, EmptyTyped
  <2> QED
    BY <1>1, <1>8, <2>1, TypesOfEntries
<1>11. Rotted(Tables, v, t, i)
  <2>1. Tables.ch = ch /\ Tables.it = it /\ Tables.con = con /\ Tables.ground = ground
    BY DEF Tables
  <2>2. v.con[i] = NoGrave /\ \A j \in Items \ {i} : v.con[j] = con[j]
    BY <1>1, <1>8
  <2>3. v.it[i] = Nowhere /\ \A j \in Items \ {i} : v.it[j] = IF j \in con[i].items THEN Nowhere ELSE it[j]
    BY <1>9
  <2> QED
    BY <1>3, <1>8, <1>10, <2>1, <2>2, <2>3 DEF Rotted, NoGrave
<1>12. Sound(v, NoItem)
  BY <1>3, <1>11, RottedSafe
<1> QED
  BY <1>4, <1>7, <1>12, BecomeSafe DEF Expires

\* What s holds, and in, which is in grave g, change places.
Opened(w, v, s, g, in, out) ==
    /\ TableTypes(v) /\ SameFolk(w, v, s) /\ v.ground = w.ground
    /\ out = w.ch[s].hand /\ in \in w.con[g].items \cup {NoItem} /\ w.it[g].kind = "body"
    /\ v.ch[s].hand = in /\ v.ch[s].pack = w.ch[s].pack
    /\ \A h \in Items \ {g} : v.con[h] = w.con[h]
    /\ v.con[g].owner = w.con[g].owner /\ v.con[g].items = (w.con[g].items \ {in}) \cup ({out} \ {NoItem})
    /\ \A i \in Items \ {in, out} : v.it[i] = w.it[i]
    /\ in # NoItem => /\ v.it[in].kind = w.it[in].kind /\ v.it[in].tile = w.it[in].tile
                      /\ v.it[in].carried = w.ch[s].who /\ v.it[in].inside = NoItem
                      /\ w.it[in].kind = "relic" => v.it[in].first = Heir(w.ch[s].who)
    /\ out # NoItem => /\ v.it[out].kind = w.it[out].kind /\ v.it[out].tile = w.it[out].tile
                       /\ v.it[out].carried = Vacant /\ v.it[out].inside = g
                       /\ w.it[out].kind # "relic"

\* An item goes out of a grave into the hand, and what was there into the grave.
LEMMA OpenedSafe ==
    ASSUME NEW w, NEW v, NEW s \in Slots, NEW g \in Items, NEW in, NEW out,
           Sound(w, NoItem), Opened(w, v, s, g, in, out), w.ch[s].who # Vacant
    PROVE  Sound(v, NoItem)
<1>0. TableTypes(w) /\ ActsSafe(w) /\ LinksSafe(w, NoItem) /\ NoItem \notin Items
  BY NoItemIsNone DEF Sound
<1>1. TableTypes(v)
  BY DEF Opened
<1>2. /\ \A r \in Slots : /\ v.ch[r].who = w.ch[r].who /\ v.ch[r].action = w.ch[r].action
                          /\ v.ch[r].act1 = w.ch[r].act1 /\ v.ch[r].at = w.ch[r].at
                          /\ r # s => v.ch[r].hand = w.ch[r].hand /\ v.ch[r].pack = w.ch[r].pack
      /\ v.ch[s].hand = in /\ v.ch[s].pack = w.ch[s].pack /\ v.ground = w.ground
      /\ out = w.ch[s].hand /\ w.it[g].kind = "body"
  BY DEF Opened, SameFolk
<1>3. in \in Items \cup {NoItem} /\ out \in Items \cup {NoItem} /\ w.con[g].items \subseteq Items
  BY <1>0, <1>2, EntryTypes DEF GraveType, CharType, Opened
<1>4. /\ \A h \in Items : h # g => v.con[h] = w.con[h]
      /\ v.con[g].owner = w.con[g].owner
      /\ \A i \in Items : i \in v.con[g].items <=> (i \in w.con[g].items /\ i # in) \/ i = out
  BY <1>0, <1>3 DEF Opened
<1>5. \A i \in Items : i # in /\ i # out => v.it[i] = w.it[i]
  BY DEF Opened
<1>6. ASSUME in # NoItem
      PROVE  /\ in \in w.con[g].items /\ in \in Items
             /\ w.it[in].kind \notin {"none", "body"} /\ w.it[in].tile = 0 /\ w.it[in].inside = g /\ w.it[in].carried = Vacant
             /\ v.it[in].kind = w.it[in].kind /\ v.it[in].tile = 0
             /\ v.it[in].carried = w.ch[s].who /\ v.it[in].inside = NoItem
             /\ v.it[in].kind = "relic" => v.it[in].first = Heir(w.ch[s].who)
  <2>1. in \in w.con[g].items /\ in \in Items
    BY <1>3, <1>6 DEF Opened
  <2>2. w.it[in].kind \notin {"none", "body"} /\ w.it[in].tile = 0 /\ w.it[in].inside = g /\ w.it[in].carried = Vacant
    BY <1>0, <2>1 DEF LinksSafe, GravesSafe
  <2> QED
    BY <1>6, <2>1, <2>2 DEF Opened
<1>7. ASSUME out # NoItem
      PROVE  /\ out \in Items
             /\ w.it[out].kind \notin {"none", "body"} /\ w.it[out].tile = 0 /\ w.it[out].inside = NoItem
             /\ w.it[out].carried = w.ch[s].who
             /\ v.it[out].kind = w.it[out].kind /\ v.it[out].tile = 0
             /\ v.it[out].carried = Vacant /\ v.it[out].inside = g /\ v.it[out].kind # "relic"
  <2>1. out \in Items
    BY <1>3, <1>7
  <2>2. w.it[out].kind \notin {"none", "body"} /\ w.it[out].tile = 0 /\ w.it[out].inside = NoItem
        /\ w.it[out].carried = w.ch[s].who
    BY <1>0, <1>2, <2>1 DEF LinksSafe, CarriedSafe
  <2> QED
    BY <1>7, <2>1, <2>2 DEF Opened
<1>8. in # NoItem =>
         /\ \A r \in Slots : w.ch[r].hand # in /\ w.ch[r].pack # in
         /\ \A t \in Ground : w.ground[t] # in
         /\ \A h \in Items : h # g => in \notin w.con[h].items
  <2> SUFFICES ASSUME in # NoItem
               PROVE  /\ \A r \in Slots : w.ch[r].hand # in /\ w.ch[r].pack # in
                      /\ \A t \in Ground : w.ground[t] # in
                      /\ \A h \in Items : h # g => in \notin w.con[h].items
    OBVIOUS
  <2>1. \A r \in Slots : w.ch[r].hand # in /\ w.ch[r].pack # in
    BY <1>0, <1>6 DEF LinksSafe, CarriedSafe
  <2>2. \A t \in Ground : w.ground[t] # in
    BY <1>0, <1>6 DEF LinksSafe, LyingSafe
  <2>3. \A h \in Items : h # g => in \notin w.con[h].items
    BY <1>0, <1>6 DEF LinksSafe, GravesSafe
  <2> QED
    BY <2>1, <2>2, <2>3
<1>9. out # NoItem =>
         /\ \A r \in Slots : r # s => w.ch[r].hand # out /\ w.ch[r].pack # out
         /\ w.ch[s].pack # out
         /\ \A t \in Ground : w.ground[t] # out
         /\ \A h \in Items : out \notin w.con[h].items
  <2> SUFFICES ASSUME out # NoItem
               PROVE  /\ \A r \in Slots : r # s => w.ch[r].hand # out /\ w.ch[r].pack # out
                      /\ w.ch[s].pack # out
                      /\ \A t \in Ground : w.ground[t] # out
                      /\ \A h \in Items : out \notin w.con[h].items
    OBVIOUS
  <2>1. ASSUME NEW r \in Slots, r # s PROVE w.ch[r].hand # out /\ w.ch[r].pack # out
    <3>1. w.ch[r].who # w.ch[s].who
      BY <1>0, <2>1 DEF LinksSafe, OneEach
    <3> QED
      BY <1>0, <1>7, <3>1 DEF LinksSafe, CarriedSafe
  <2>2. w.ch[s].pack # out
    BY <1>0, <1>2 DEF LinksSafe, OneEach
  <2>3. \A t \in Ground : w.ground[t] # out
    BY <1>0, <1>7 DEF LinksSafe, LyingSafe
  <2>4. \A h \in Items : out \notin w.con[h].items
    BY <1>0, <1>7 DEF LinksSafe, GravesSafe
  <2> QED
    BY <2>1, <2>2, <2>3, <2>4
<1>10. ActsSafe(v)
  BY <1>0, <1>2 DEF ActsSafe
<1>11. OneEach(v)
  BY <1>0, <1>2, <1>8 DEF LinksSafe, OneEach
<1>12. CarriedSafe(v)
  <2> SUFFICES ASSUME NEW r \in Slots, NEW i \in Items, v.ch[r].hand = i \/ v.ch[r].pack = i
               PROVE  /\ v.it[i].kind \notin {"none", "body"} /\ v.ch[r].who # Vacant
                      /\ v.it[i].carried = v.ch[r].who /\ v.it[i].tile = 0 /\ v.it[i].inside = NoItem
                      /\ v.it[i].kind = "relic" => v.it[i].first = Heir(v.ch[r].who)
    BY DEF CarriedSafe
  <2>1. CASE i = in
    <3>1. r = s
      BY <1>0, <1>2, <1>8, <2>1
    <3> QED
      BY <1>0, <1>2, <1>6, <2>1, <3>1
  <2>2. CASE i # in
    <3>1. i # out /\ (w.ch[r].hand = i \/ w.ch[r].pack = i)
      BY <1>0, <1>2, <1>9, <2>2
    <3> QED
      BY <1>0, <1>2, <1>5, <2>2, <3>1 DEF LinksSafe, CarriedSafe
  <2> QED
    BY <2>1, <2>2
<1>13. LyingSafe(v)
  <2> SUFFICES ASSUME NEW t \in Ground, NEW i \in Items, v.ground[t] = i
               PROVE  /\ v.it[i].kind \notin {"none", "relic"}
                      /\ v.it[i].carried = Vacant /\ v.it[i].tile = t /\ v.it[i].inside = NoItem
    BY DEF LyingSafe
  <2>1. i # in /\ i # out /\ w.ground[t] = i
    BY <1>0, <1>2, <1>8, <1>9
  <2> QED
    BY <1>0, <1>5, <2>1 DEF LinksSafe, LyingSafe
<1>14. GravesSafe(v)
  <2> SUFFICES ASSUME NEW h \in Items, NEW i \in Items, i \in v.con[h].items
               PROVE  /\ v.it[h].kind = "body" /\ v.it[i].kind \notin {"none", "body"}
                      /\ v.it[i].carried = Vacant /\ v.it[i].tile = 0 /\ v.it[i].inside = h
                      /\ v.it[i].kind = "relic" => v.it[i].first = Heir(v.con[h].owner)
    BY DEF GravesSafe
  <2>1. CASE i = out
    <3>1. h = g
      BY <1>0, <1>4, <1>9, <2>1
    <3>2. v.it[g] = w.it[g]
      BY <1>2, <1>5, <1>6, <1>7, NoItemIsNone
    <3> QED
      BY <1>0, <1>2, <1>7, <2>1, <3>1, <3>2
  <2>2. CASE i # out
    <3>1. i \in w.con[h].items /\ i # in /\ v.con[h].owner = w.con[h].owner
      BY <1>0, <1>4, <1>8, <2>2
    <3>2. w.it[h].kind = "body"
      BY <1>0, <3>1 DEF LinksSafe, GravesSafe
    <3>3. v.it[h] = w.it[h] /\ v.it[i] = w.it[i]
      BY <1>5, <1>6, <1>7, <2>2, <3>1, <3>2, NoItemIsNone
    <3> QED
      BY <1>0, <3>1, <3>3 DEF LinksSafe, GravesSafe
  <2> QED
    BY <2>1, <2>2
<1>15. UnusedSafe(v)
  <2> SUFFICES ASSUME NEW i \in Items, v.it[i].kind = "none" PROVE v.it[i] = Nowhere
    BY DEF UnusedSafe
  <2>1. i # in /\ i # out
    BY <1>0, <1>6, <1>7
  <2> QED
    BY <1>0, <1>5, <2>1 DEF LinksSafe, UnusedSafe
<1>16. AllFound(v, NoItem)
  <2> SUFFICES ASSUME NEW j \in Items, v.it[j].kind # "none" PROVE Somewhere(v, j)
    BY DEF AllFound
  <2>1. CASE j = in
    BY <1>2, <2>1 DEF Somewhere
  <2>2. CASE j = out
    BY <1>4, <2>2 DEF Somewhere
  <2>3. CASE j # in /\ j # out
    <3>1. Somewhere(w, j)
      BY <1>0, <1>5, <2>3 DEF LinksSafe, AllFound
    <3>2. CASE \E r \in Slots : w.ch[r].hand = j \/ w.ch[r].pack = j
      BY <1>2, <2>3, <3>2 DEF Somewhere
    <3>3. CASE \E u \in Ground : w.ground[u] = j
      BY <1>2, <3>3 DEF Somewhere
    <3>4. CASE \E h \in Items : j \in w.con[h].items
      BY <1>4, <2>3, <3>4 DEF Somewhere
    <3> QED
      BY <3>1, <3>2, <3>3, <3>4 DEF Somewhere
  <2> QED
    BY <2>1, <2>2, <2>3
<1>17. InTransit(v, NoItem)
  BY <1>0 DEF InTransit
<1> QED
  BY <1>1, <1>10, <1>11, <1>12, <1>13, <1>14, <1>15, <1>16, <1>17 DEF Sound, LinksSafe

\* An item taken out of a grave, one put into it, and all items as container() leaves them.
TakenOut(s, i) == [it[i] EXCEPT !.carried = ch[s].who, !.inside = NoItem, !.first = FirstOwner(Tables, s, i)]
PutIn(g, i) == [it[i] EXCEPT !.carried = Vacant, !.inside = g]
Mixed(s, g, in) ==
    [i \in Items |->
        CASE i = in -> TakenOut(s, i)
          [] i = ch[s].hand -> PutIn(g, i)
          [] OTHER -> it[i]]

\* The entries of the items container() moves.
LEMMA MixedEntries ==
    ASSUME NEW s \in Slots, NEW g \in Items, NEW in \in {NoItem} \cup Items
    PROVE  /\ \A i \in Items :
              /\ i = in /\ i # ch[s].hand => Mixed(s, g, in)[i] = TakenOut(s, i)
              /\ i # in /\ i = ch[s].hand => Mixed(s, g, in)[i] = PutIn(g, i)
              /\ i # in /\ i # ch[s].hand => Mixed(s, g, in)[i] = it[i]
           /\ Mixed(s, g, in) = [j \in Items |-> Mixed(s, g, in)[j]]
<1>1. Mixed(s, g, in) = [j \in Items |-> CASE j = in -> TakenOut(s, j) [] j = ch[s].hand -> PutIn(g, j) [] OTHER -> it[j]]
  BY Zenon DEF Mixed
<1>2. ASSUME NEW i \in Items
      PROVE  /\ i = in /\ i # ch[s].hand => Mixed(s, g, in)[i] = TakenOut(s, i)
             /\ i # in /\ i = ch[s].hand => Mixed(s, g, in)[i] = PutIn(g, i)
             /\ i # in /\ i # ch[s].hand => Mixed(s, g, in)[i] = it[i]
  <2>1. Mixed(s, g, in)[i] = CASE i = in -> TakenOut(s, i) [] i = ch[s].hand -> PutIn(g, i) [] OTHER -> it[i]
    BY <1>1
  <2>2. CASE i = in /\ i # ch[s].hand
    BY <2>1, <2>2
  <2>3. CASE i # in /\ i = ch[s].hand
    BY <2>1, <2>3
  <2>4. CASE i # in /\ i # ch[s].hand
    BY <2>1, <2>4
  <2> QED
    BY <2>2, <2>3, <2>4
<1>3. Mixed(s, g, in) = [j \in Items |-> Mixed(s, g, in)[j]]
  BY <1>1, Zenon
<1> QED
  BY <1>2, <1>3

\* A quest item goes out of a grave only to its owner, or from a monster to who killed it.
LEMMA ContainerLeaves ==
    ASSUME NEW s \in Slots, NEW g \in Items, NEW in \in {NoItem} \cup Items, NEW fast \in BOOLEAN,
           Sound(Tables, NoItem), container(s, g, in, fast)
    PROVE  \E v :
              /\ Sound(v, NoItem)
              /\ \A r \in Slots : v.ch[r].gold = ch[r].gold /\ v.ch[r].who = ch[r].who
              /\ \A i \in Items : v.it[i].kind = it[i].kind /\ v.it[i].value = it[i].value
              /\ TablesBecome(v) \/ TablesBecome(store_citem(v, s))
<1>1. /\ ch \in [Slots -> CharType] /\ it \in [Items -> ItemType]
      /\ con \in [Items -> GraveType] /\ ground \in [Ground -> Items \cup {NoItem}]
  BY TablesTyped
<1>2. PICK out : out = ch[s].hand
  OBVIOUS
<1>3. PICK n : n = ch[s].who
  OBVIOUS
<1>4. /\ n \in Humans /\ n # Vacant /\ it[g].kind = "body" /\ MayOpen(n, g)
      /\ in \in con[g].items \cup {NoItem} /\ ~IsQuest(out) /\ ~(NoQuest(n, g) /\ IsQuest(in))
  BY <1>2, <1>3, BelongingsAssumption DEF container, Human, Names
<1>5. ch[s] \in CharType /\ out \in Items \cup {NoItem} /\ con[g] \in GraveType /\ NoItem \notin Items
  BY <1>1, <1>2, NoItemIsNone DEF CharType
<1>6. PICK things : things = Mixed(s, g, in)
  OBVIOUS
<1>7. PICK v : v = [Tables EXCEPT !.ch[s].hand = in,
                         !.con[g].items = (@ \ {in}) \cup ({out} \ {NoItem}), !.it = things]
  OBVIOUS
<1>8. TablesBecome(IF fast \/ (Pockets(s) /\ out = NoItem) THEN store_citem(v, s) ELSE v)
  <2> DEFINE after == [Tables EXCEPT !.ch[s].hand = in,
                            !.con[g].items = (@ \ {in}) \cup ({ch[s].hand} \ {NoItem}), !.it = Mixed(s, g, in)]
  <2>1. TablesBecome(IF fast \/ (Pockets(s) /\ ch[s].hand = NoItem) THEN store_citem(after, s) ELSE after)
    BY DEF container, Mixed, TakenOut, PutIn
  <2>2. after = v
    BY <1>2, <1>6, <1>7
  <2> HIDE DEF after
  <2> QED
    BY <1>2, <2>1, <2>2
<1>9. PICK c : c = [ch[s] EXCEPT !.hand = in]
  OBVIOUS
<1>10. PICK grave : grave = [con[g] EXCEPT !.items = (con[g].items \ {in}) \cup ({out} \ {NoItem})]
  OBVIOUS
<1>11. /\ v.ch = [ch EXCEPT ![s] = c] /\ v.it = things /\ v.con = [con EXCEPT ![g] = grave] /\ v.ground = ground
       /\ v = [ch |-> v.ch, it |-> v.it, con |-> v.con, ground |-> v.ground]
  BY <1>7, <1>9, <1>10 DEF Tables
<1>12. /\ c \in CharType /\ c.hand = in /\ c.pack = ch[s].pack /\ c.who = n /\ c.gold = ch[s].gold
       /\ c.action = ch[s].action /\ c.act1 = ch[s].act1 /\ c.at = ch[s].at
  BY <1>3, <1>5, <1>9 DEF CharType
<1>13. /\ grave \in GraveType /\ grave.owner = con[g].owner
       /\ grave.items = (con[g].items \ {in}) \cup ({out} \ {NoItem})
  <2>1. (con[g].items \ {in}) \cup ({out} \ {NoItem}) \in SUBSET Items
    BY <1>5 DEF GraveType
  <2> QED
    BY <1>5, <1>10, <2>1 DEF GraveType
<1>130. in # out \/ in = NoItem
  <2>1. in # NoItem => in \in Items /\ it[in].carried = Vacant
    BY <1>4 DEF Sound, LinksSafe, GravesSafe, Tables
  <2>2. in # NoItem /\ in = out => it[in].carried = n
    BY <1>2, <1>3, <2>1 DEF Sound, LinksSafe, CarriedSafe, Tables
  <2> QED
    BY <1>4, <2>1, <2>2
<1>14. ASSUME NEW i \in Items, i = in
       PROVE  /\ things[i] \in ItemType /\ things[i].kind = it[i].kind /\ things[i].tile = it[i].tile
              /\ things[i].value = it[i].value
              /\ things[i].carried = n /\ things[i].inside = NoItem /\ things[i].first = FirstOwner(Tables, s, i)
  <2>1. PICK f : f = FirstOwner(Tables, s, i)
    OBVIOUS
  <2>2. it[i] \in ItemType /\ n \in Bearers /\ NoItem \in Items \cup {NoItem} /\ f \in Bearers
    BY <1>1, <1>3, <1>5, <2>1 DEF FirstOwner, Tables, CharType, ItemType
  <2>3. things[i] = [it[i] EXCEPT !.carried = n, !.inside = NoItem, !.first = f]
    <3>1. i # ch[s].hand
      BY <1>2, <1>5, <1>14, <1>130
    <3>2. things[i] = TakenOut(s, i)
      BY <1>6, <1>14, <3>1, MixedEntries
    <3> QED
      BY <1>3, <2>1, <3>2 DEF TakenOut
  <2> QED
    BY <2>1, <2>2, <2>3 DEF ItemType
<1>15. ASSUME NEW i \in Items, i # in, i = out
       PROVE  /\ things[i] \in ItemType /\ things[i].kind = it[i].kind /\ things[i].tile = it[i].tile
              /\ things[i].value = it[i].value
              /\ things[i].carried = Vacant /\ things[i].inside = g
  <2>1. it[i] \in ItemType /\ Vacant \in Bearers /\ g \in Items \cup {NoItem}
    BY <1>1 DEF Bearers
  <2>2. things[i] = [it[i] EXCEPT !.carried = Vacant, !.inside = g]
    <3>1. things[i] = PutIn(g, i)
      BY <1>2, <1>6, <1>15, MixedEntries
    <3> QED
      BY <3>1 DEF PutIn
  <2> QED
    BY <2>1, <2>2 DEF ItemType
<1>16. \A i \in Items : i # in /\ i # out => things[i] = it[i] /\ things[i] \in ItemType
  BY <1>1, <1>2, <1>6, MixedEntries
<1>17. /\ v.ch \in [Slots -> CharType] /\ v.ch[s] = c /\ \A r \in Slots \ {s} : v.ch[r] = ch[r]
       /\ v.con \in [Items -> GraveType] /\ v.con[g] = grave /\ \A h \in Items \ {g} : v.con[h] = con[h]
  BY <1>1, <1>11, <1>12, <1>13
<1>18. v.it \in [Items -> ItemType]
  <2>1. \A i \in Items : things[i] \in ItemType
    BY <1>14, <1>15, <1>16
  <2>2. things = [i \in Items |-> things[i]]
    BY <1>6, MixedEntries
  <2> QED
    BY <1>11, <2>1, <2>2
<1>19. TableTypes(v)
  BY <1>1, <1>11, <1>17, <1>18, TypesOfEntries
<1>21. in # NoItem /\ it[in].kind = "relic" => things[in].first = Heir(n)
  <2> SUFFICES ASSUME in # NoItem, it[in].kind = "relic" PROVE things[in].first = Heir(n)
    OBVIOUS
  <2>1. in \in Items /\ in \in con[g].items
    BY <1>4
  <2>2. it[in].first = Heir(con[g].owner)
    BY <2>1 DEF Sound, LinksSafe, GravesSafe, Tables
  <2>3. ~NoQuest(n, g)
    BY <1>4 DEF IsQuest
  <2>4. n = con[g].owner \/ con[g].owner \notin Humans
    BY <2>3 DEF NoQuest, PlayerBody
  <2>5. things[in].first = FirstOwner(Tables, s, in)
    BY <1>14, <2>1
  <2>6. FirstOwner(Tables, s, in) = IF it[in].first = Vacant THEN n ELSE it[in].first
    BY <1>3, <1>4 DEF FirstOwner, Tables
  <2> QED
    BY <1>4, <2>2, <2>4, <2>5, <2>6 DEF Heir
<1>22. Opened(Tables, v, s, g, in, out)
  <2>1. Tables.ch = ch /\ Tables.it = it /\ Tables.con = con /\ Tables.ground = ground
    BY DEF Tables
  <2>2. SameFolk(Tables, v, s) /\ v.ch[s].hand = in /\ v.ch[s].pack = ch[s].pack
    BY <1>3, <1>12, <1>17, <2>1 DEF SameFolk
  <2>3. \A i \in Items \ {in, out} : v.it[i] = it[i]
    BY <1>11, <1>16
  <2>4. in # NoItem => /\ v.it[in].kind = it[in].kind /\ v.it[in].tile = it[in].tile
                       /\ v.it[in].carried = n /\ v.it[in].inside = NoItem
                       /\ it[in].kind = "relic" => v.it[in].first = Heir(n)
    BY <1>11, <1>14, <1>21
  <2>5. out # NoItem => /\ v.it[out].kind = it[out].kind /\ v.it[out].tile = it[out].tile
                        /\ v.it[out].carried = Vacant /\ v.it[out].inside = g
                        /\ it[out].kind # "relic"
    BY <1>4, <1>5, <1>11, <1>15, <1>130 DEF IsQuest
  <2> QED
    BY <1>2, <1>3, <1>4, <1>11, <1>13, <1>17, <1>19, <2>1, <2>2, <2>3, <2>4, <2>5 DEF Opened
<1>23. Sound(v, NoItem)
  <2>1. Tables.ch[s].who # Vacant
    BY <1>3, <1>4 DEF Tables
  <2> QED
    BY <1>22, <2>1, OpenedSafe
<1>24. \A r \in Slots : v.ch[r].gold = ch[r].gold /\ v.ch[r].who = ch[r].who
  BY <1>3, <1>12, <1>17
<1>25. \A i \in Items : v.it[i].kind = it[i].kind /\ v.it[i].value = it[i].value
  BY <1>11, <1>14, <1>15, <1>16
<1>26. TablesBecome(v) \/ TablesBecome(store_citem(v, s))
  BY <1>8
<1> QED
  BY <1>23, <1>24, <1>25, <1>26

\* So the tables stay sound.
LEMMA ContainerSafe ==
    ASSUME NEW s \in Slots, NEW g \in Items, NEW in \in {NoItem} \cup Items, NEW fast \in BOOLEAN,
           Sound(Tables, NoItem), container(s, g, in, fast)
    PROVE  Sound(Tables, NoItem)'
<1>1. PICK v : Sound(v, NoItem) /\ (TablesBecome(v) \/ TablesBecome(store_citem(v, s)))
  BY ContainerLeaves
<1>2. Sound(store_citem(v, s), NoItem)
  BY <1>1, SwapSafe DEF store_citem
<1> QED
  BY <1>1, <1>2, BecomeSafe

\* A monster's things have no first owner.
Entry(w, n, i) == IF n \in Beasts /\ w.it[i].carried = n THEN [w.it[i] EXCEPT !.first = Vacant] ELSE w.it[i]
Unmarked(w, n) == [w EXCEPT !.it = [i \in Items |-> Entry(w, n, i)]]

-----------------------------------------------------------------------------
(* Characters who enter with the things they were saved with.               *)

\* The tables without a first owner who comes with his own things.
LEMMA UnmarkedFields ==
    ASSUME NEW w, NEW n \in Names, TableTypes(w)
    PROVE  /\ Unmarked(w, n) = [ch |-> w.ch, it |-> [i \in Items |-> Entry(w, n, i)], con |-> w.con, ground |-> w.ground]
           /\ TableTypes(Unmarked(w, n))
           /\ \A i \in Items : Entry(w, n, i) \in ItemType /\ Entry(w, n, i).kind = w.it[i].kind
<1>1. /\ w.it \in [Items -> ItemType]
      /\ w = [ch |-> w.ch, it |-> w.it, con |-> w.con, ground |-> w.ground]
  BY EntryTypes
<1>2. ASSUME NEW i \in Items PROVE Entry(w, n, i) \in ItemType /\ Entry(w, n, i).kind = w.it[i].kind
  <2>1. w.it[i] \in ItemType /\ Vacant \in Bearers
    BY <1>1 DEF Bearers
  <2>2. [w.it[i] EXCEPT !.first = Vacant] \in ItemType /\ [w.it[i] EXCEPT !.first = Vacant].kind = w.it[i].kind
    BY <2>1 DEF ItemType
  <2> QED
    BY <2>1, <2>2 DEF Entry
<1>3. PICK things : things = [i \in Items |-> Entry(w, n, i)]
  OBVIOUS
<1>4. things \in [Items -> ItemType]
  BY <1>2, <1>3
<1>5. PICK v : v = Unmarked(w, n)
  OBVIOUS
<1>6. v = [ch |-> w.ch, it |-> things, con |-> w.con, ground |-> w.ground]
  BY <1>1, <1>3, <1>5 DEF Unmarked
<1>7. TableTypes(v)
  BY <1>4, <1>6, EntryTypes, TypesOfEntries
<1> QED
  BY <1>2, <1>3, <1>5, <1>6, <1>7

\* A new item, which is nowhere yet.
Made(w, v, i) ==
    /\ TableTypes(v) /\ v.ch = w.ch /\ v.con = w.con /\ v.ground = w.ground
    /\ w.it[i].kind = "none" /\ \A j \in Items \ {i} : v.it[j] = w.it[j]
    /\ v.it[i].kind \notin {"none", "body"} /\ v.it[i].tile = 0 /\ v.it[i].inside = NoItem

\* An item that did not exist is in transit.
LEMMA MadeSafe ==
    ASSUME NEW w, NEW v, NEW i \in Items, Sound(w, NoItem), Made(w, v, i)
    PROVE  Sound(v, i)
<1>0. TableTypes(w) /\ ActsSafe(w) /\ LinksSafe(w, NoItem) /\ i # NoItem /\ NoItem \notin Items
  BY NoItemIsNone DEF Sound
<1>1. /\ TableTypes(v) /\ v.ch = w.ch /\ v.con = w.con /\ v.ground = w.ground
      /\ w.it[i].kind = "none" /\ \A j \in Items : j # i => v.it[j] = w.it[j]
      /\ v.it[i].kind \notin {"none", "body"} /\ v.it[i].tile = 0 /\ v.it[i].inside = NoItem
  BY DEF Made
<1>2. ~Somewhere(w, i) /\ w.con[i].items = {}
  BY <1>1, UnusedNowhere
<1>3. ActsSafe(v) /\ OneEach(v)
  BY <1>0, <1>1 DEF LinksSafe, ActsSafe, OneEach
<1>4. CarriedSafe(v)
  BY <1>0, <1>1, <1>2 DEF LinksSafe, CarriedSafe, Somewhere
<1>5. LyingSafe(v)
  BY <1>0, <1>1, <1>2 DEF LinksSafe, LyingSafe, Somewhere
<1>6. GravesSafe(v)
  BY <1>0, <1>1, <1>2 DEF LinksSafe, GravesSafe, Somewhere
<1>7. UnusedSafe(v)
  BY <1>0, <1>1 DEF LinksSafe, UnusedSafe
<1>8. AllFound(v, i)
  BY <1>0, <1>1 DEF LinksSafe, AllFound, Somewhere
<1>9. InTransit(v, i)
  BY <1>1, <1>2 DEF InTransit, Somewhere
<1> QED
  BY <1>1, <1>3, <1>4, <1>5, <1>6, <1>7, <1>8, <1>9 DEF Sound, LinksSafe

\* The item that is made of a saved one.
NewItem(what, who) ==
    [Nowhere EXCEPT !.kind = what, !.value = IF what = "money" THEN 1 ELSE 0, !.carried = who, !.first = who]

\* An item that is made has its type.
LEMMA NewItemTyped ==
    ASSUME NEW what \in KitKinds, NEW who \in Bearers
    PROVE  /\ NewItem(what, who) \in ItemType /\ NewItem(what, who).kind = what
           /\ NewItem(what, who).carried = who /\ NewItem(what, who).first = who
           /\ NewItem(what, who).tile = 0 /\ NewItem(what, who).inside = NoItem
           /\ NewItem(what, who).value = IF what = "money" THEN 1 ELSE 0
<1>1. PICK price : price = IF what = "money" THEN 1 ELSE 0
  OBVIOUS
<1>2. price \in Int /\ what \in KitKinds \cup {"body"} /\ Nowhere \in ItemType /\ Nowhere.tile = 0 /\ Nowhere.inside = NoItem
  BY <1>1, EmptyTyped DEF Nowhere
<1>3. NewItem(what, who) = [Nowhere EXCEPT !.kind = what, !.value = price, !.carried = who, !.first = who]
  BY <1>1 DEF NewItem
<1>4. NewItem(what, who).value = price
  BY <1>2, <1>3 DEF ItemType
<1> QED
  BY <1>1, <1>2, <1>3, <1>4 DEF ItemType

\* An item of the saved character, if there is one, is made and carried.
LEMMA RestoredCases ==
    ASSUME NEW w, NEW s, NEW place, NEW what
    PROVE  Restored(w, s, place, what) =
              IF what = "none" THEN w
              ELSE IF place = "hand" THEN [Linking(w, s, AllocIn(w), what) EXCEPT !.ch[s].hand = AllocIn(w)]
              ELSE [Linking(w, s, AllocIn(w), what) EXCEPT !.ch[s].pack = AllocIn(w)]
BY DEF Restored

\* What restoring an item makes of the four parts.
LEMMA RestoredFields ==
    ASSUME NEW w, NEW s \in Slots, NEW place \in {"hand", "pack"}, NEW what, what # "none",
           NEW i \in Items, i = AllocIn(w), TableTypes(w)
    PROVE  Restored(w, s, place, what) =
              [ch |-> [w.ch EXCEPT ![s] = IF place = "hand" THEN [w.ch[s] EXCEPT !.hand = i] ELSE [w.ch[s] EXCEPT !.pack = i]],
               it |-> [w.it EXCEPT ![i] = NewItem(what, w.ch[s].who)], con |-> w.con, ground |-> w.ground]
<1>1. /\ w.ch \in [Slots -> CharType] /\ w.it \in [Items -> ItemType]
      /\ w = [ch |-> w.ch, it |-> w.it, con |-> w.con, ground |-> w.ground]
  BY EntryTypes
<1>2. PICK price : price = IF what = "money" THEN 1 ELSE 0
  OBVIOUS
<1>3. PICK n : n = w.ch[s].who
  OBVIOUS
<1>4. PICK e : e = [Nowhere EXCEPT !.kind = what, !.value = price]
  OBVIOUS
<1>5. PICK u : u = Created(w, i, what, price)
  OBVIOUS
<1>6. u = [ch |-> w.ch, it |-> [w.it EXCEPT ![i] = e], con |-> w.con, ground |-> w.ground]
  BY <1>1, <1>4, <1>5 DEF Created
<1>7. PICK v : v = [u EXCEPT !.it[i].carried = n, !.it[i].first = n]
  OBVIOUS
<1>8. v = [ch |-> w.ch, it |-> [w.it EXCEPT ![i] = NewItem(what, n)], con |-> w.con, ground |-> w.ground]
  <2>1. v = [ch |-> w.ch, it |-> [[u.it EXCEPT ![i].carried = n] EXCEPT ![i].first = n], con |-> w.con, ground |-> w.ground]
    BY <1>6, <1>7
  <2>2. PICK made : made = [e EXCEPT !.carried = n, !.first = n]
    OBVIOUS
  <2>3. [[u.it EXCEPT ![i].carried = n] EXCEPT ![i].first = n] = [w.it EXCEPT ![i] = made]
    <3>1. u.it = [w.it EXCEPT ![i] = e]
      BY <1>6
    <3> QED
      BY <1>1, <2>2, <3>1
  <2>4. made = NewItem(what, n)
    BY <1>2, <1>4, <2>2 DEF NewItem
  <2> QED
    BY <2>1, <2>3, <2>4
<1>9. Restored(w, s, place, what) = IF place = "hand" THEN [v EXCEPT !.ch[s].hand = i] ELSE [v EXCEPT !.ch[s].pack = i]
  <2>1. Linking(w, s, i, what) = v
    BY <1>2, <1>3, <1>5, <1>7 DEF Linking
  <2> QED
    BY <2>1, RestoredCases
<1>10. PICK things : things = [w.it EXCEPT ![i] = NewItem(what, n)]
  OBVIOUS
<1>11. v = [ch |-> w.ch, it |-> things, con |-> w.con, ground |-> w.ground]
  BY <1>8, <1>10
<1>12. CASE place = "hand"
  <2>1. PICK z : z = [v EXCEPT !.ch[s].hand = i]
    OBVIOUS
  <2>2. z = [ch |-> [w.ch EXCEPT ![s] = [w.ch[s] EXCEPT !.hand = i]], it |-> things, con |-> w.con, ground |-> w.ground]
    BY <1>11, <2>1
  <2> QED
    BY <1>3, <1>9, <1>10, <1>12, <2>1, <2>2
<1>13. CASE place # "hand"
  <2>1. PICK z : z = [v EXCEPT !.ch[s].pack = i]
    OBVIOUS
  <2>2. z = [ch |-> [w.ch EXCEPT ![s] = [w.ch[s] EXCEPT !.pack = i]], it |-> things, con |-> w.con, ground |-> w.ground]
    BY <1>11, <2>1
  <2> QED
    BY <1>3, <1>9, <1>10, <1>13, <2>1, <2>2
<1> QED
  BY <1>12, <1>13

\* A saved item comes back to who has just entered.
LEMMA RestoredSafe ==
    ASSUME NEW w, NEW s \in Slots, NEW n \in Names, NEW place \in {"hand", "pack"}, NEW what \in KitKinds,
           TableTypes(w), Sound(Unmarked(w, n), NoItem), w.ch[s].who = n,
           what # "none" => FreeIn(w) # {},
           place = "hand" => w.ch[s].hand = NoItem,
           place = "pack" => w.ch[s].pack = NoItem
    PROVE  /\ TableTypes(Restored(w, s, place, what))
           /\ Sound(Unmarked(Restored(w, s, place, what), n), NoItem)
           /\ Restored(w, s, place, what).ch[s].who = n
           /\ place = "hand" => Restored(w, s, place, what).ch[s].pack = w.ch[s].pack
           /\ what # "none" => \E i \in FreeIn(w) : FreeIn(Restored(w, s, place, what)) = FreeIn(w) \ {i}
<1>0. CASE what = "none"
  <2>1. Restored(w, s, place, what) = w
    BY <1>0, RestoredCases
  <2> QED
    BY <1>0, <2>1
<1>1. CASE what # "none"
  <2>1. PICK i \in Items : i = AllocIn(w) /\ w.it[i].kind = "none"
    BY <1>1, Allocated
  <2>2. /\ w.ch \in [Slots -> CharType] /\ w.it \in [Items -> ItemType] /\ w.con \in [Items -> GraveType]
        /\ w.ground \in [Ground -> Items \cup {NoItem}]
        /\ w = [ch |-> w.ch, it |-> w.it, con |-> w.con, ground |-> w.ground]
    BY EntryTypes
  <2>3. PICK e : e = NewItem(what, n)
    OBVIOUS
  <2>4. n \in Bearers /\ n # Vacant
    BY BelongingsAssumption DEF Bearers
  <2>5. /\ e \in ItemType /\ e.kind = what /\ e.carried = n /\ e.first = n /\ e.tile = 0 /\ e.inside = NoItem
    BY <2>3, <2>4, NewItemTyped
  <2>6. PICK c : c = IF place = "hand" THEN [w.ch[s] EXCEPT !.hand = i] ELSE [w.ch[s] EXCEPT !.pack = i]
    OBVIOUS
  <2>7. /\ c \in CharType /\ c.who = n
        /\ c.action = w.ch[s].action /\ c.act1 = w.ch[s].act1 /\ c.at = w.ch[s].at
        /\ \/ place = "hand" /\ c.hand = i /\ c.pack = w.ch[s].pack
           \/ place = "pack" /\ c.pack = i /\ c.hand = w.ch[s].hand
    <3>1. w.ch[s] \in CharType /\ i \in Items \cup {NoItem}
      BY <2>2
    <3>2. CASE place = "hand"
      BY <2>6, <3>1, <3>2 DEF CharType
    <3>3. CASE place = "pack"
      BY <2>6, <3>1, <3>3 DEF CharType
    <3> QED
      BY <3>2, <3>3
  <2>8. PICK v : v = Restored(w, s, place, what)
    OBVIOUS
  <2>9. v = [ch |-> [w.ch EXCEPT ![s] = c], it |-> [w.it EXCEPT ![i] = e], con |-> w.con, ground |-> w.ground]
    BY <1>1, <2>1, <2>3, <2>6, <2>8, RestoredFields
  <2>10. /\ v.ch \in [Slots -> CharType] /\ v.ch[s] = c /\ \A r \in Slots \ {s} : v.ch[r] = w.ch[r]
         /\ v.it \in [Items -> ItemType] /\ v.it[i] = e /\ \A j \in Items \ {i} : v.it[j] = w.it[j]
         /\ v.con = w.con /\ v.ground = w.ground
    BY <2>2, <2>5, <2>7, <2>9
  <2>11. TableTypes(v)
    BY <2>2, <2>9, <2>10, TypesOfEntries
  <2>12. \E j \in FreeIn(w) : FreeIn(v) = FreeIn(w) \ {j}
    <3>1. i \in FreeIn(w) /\ i \notin FreeIn(v)
      BY <1>1, <2>1, <2>5, <2>10 DEF FreeIn
    <3>2. \A j \in Items \ {i} : j \in FreeIn(v) <=> j \in FreeIn(w)
      BY <2>10 DEF FreeIn
    <3>3. FreeIn(v) = FreeIn(w) \ {i}
      BY <3>1, <3>2 DEF FreeIn
    <3> QED
      BY <3>1, <3>3
  <2>13. PICK x : x = Unmarked(w, n)
    OBVIOUS
  <2>14. /\ x = [ch |-> w.ch, it |-> [j \in Items |-> Entry(w, n, j)], con |-> w.con, ground |-> w.ground]
         /\ TableTypes(x) /\ \A j \in Items : x.it[j].kind = w.it[j].kind
    <3>1. x = [ch |-> w.ch, it |-> [j \in Items |-> Entry(w, n, j)], con |-> w.con, ground |-> w.ground]
      BY <2>13, UnmarkedFields
    <3> QED
      BY <2>13, <3>1, UnmarkedFields
  <2>15. PICK z : z = Unmarked(v, n)
    OBVIOUS
  <2>16. z = [ch |-> v.ch, it |-> [j \in Items |-> Entry(v, n, j)], con |-> v.con, ground |-> v.ground] /\ TableTypes(z)
    BY <2>11, <2>15, UnmarkedFields
  <2>17. PICK f : f = Entry(v, n, i)
    OBVIOUS
  <2>18. f \in ItemType /\ f.kind = what /\ f.carried = n /\ f.tile = 0 /\ f.inside = NoItem /\ f.first = Heir(n)
    <3>1. CASE n \in Beasts
      <4>1. f = [e EXCEPT !.first = Vacant] /\ Vacant \in Bearers /\ n \notin Humans
        BY <2>5, <2>10, <2>17, <3>1, BelongingsAssumption DEF Entry, Bearers
      <4> QED
        BY <2>5, <4>1 DEF ItemType, Heir
    <3>2. CASE n \notin Beasts
      <4>1. f = e /\ n \in Humans
        BY <2>10, <2>17, <3>2 DEF Entry, Names
      <4> QED
        BY <2>5, <4>1 DEF Heir
    <3> QED
      BY <3>1, <3>2
  <2>19. \A j \in Items \ {i} : z.it[j] = x.it[j]
    BY <2>10, <2>14, <2>16 DEF Entry
  <2>20. z.it[i] = f
    BY <2>16, <2>17
  <2>21. PICK y : y = [ch |-> w.ch, it |-> z.it, con |-> w.con, ground |-> w.ground]
    OBVIOUS
  <2>22. TableTypes(y)
    <3>1. z.it \in [Items -> ItemType]
      BY <2>16, EntryTypes
    <3> QED
      BY <2>2, <2>21, <3>1, TypesOfEntries
  <2>23. Made(x, y, i)
    BY <1>1, <2>1, <2>14, <2>18, <2>19, <2>20, <2>21, <2>22 DEF Made, KitKinds
  <2>24. Sound(y, i)
    BY <2>13, <2>23, MadeSafe
  <2>25. Gains(y, z, s, i)
    <3>1. z.ch = v.ch /\ z.con = y.con /\ z.ground = y.ground /\ z.it = y.it /\ y.ch = w.ch
      BY <2>10, <2>16, <2>21
    <3>2. SameFolk(y, z, s)
      BY <2>7, <2>10, <3>1 DEF SameFolk
    <3>3. SameThings(y, z, i)
      BY <3>1 DEF SameThings
    <3> QED
      BY <2>7, <2>10, <2>16, <2>18, <2>20, <3>1, <3>2, <3>3 DEF Gains
  <2>26. Sound(z, NoItem)
    <3>1. y.ch[s].who # Vacant
      BY <2>4, <2>21
    <3> QED
      BY <2>24, <2>25, <3>1, GainsSafe
  <2> QED
    BY <1>1, <2>7, <2>8, <2>10, <2>11, <2>12, <2>15, <2>26
<1> QED
  BY <1>0, <1>1

\* Nobody who is not in the game has anything.
LEMMA NothingOfAbsent ==
    ASSUME NEW n \in Names, Sound(Tables, NoItem), \A r \in Slots : ch[r].who # n
    PROVE  \A i \in Items : it[i].carried # n
<1> SUFFICES ASSUME NEW i \in Items, it[i].carried = n PROVE FALSE
  OBVIOUS
<1>1. n # Vacant
  BY BelongingsAssumption
<1>2. it[i].kind # "none"
  BY <1>1 DEF Sound, LinksSafe, UnusedSafe, Tables, Nowhere
<1>3. Somewhere(Tables, i)
  BY <1>2, NoItemIsNone DEF Sound, LinksSafe, AllFound, Tables
<1>4. CASE \E s \in Slots : ch[s].hand = i \/ ch[s].pack = i
  BY <1>4 DEF Sound, LinksSafe, CarriedSafe, Tables
<1>5. CASE \E t \in Ground : ground[t] = i
  BY <1>1, <1>5 DEF Sound, LinksSafe, LyingSafe, Tables
<1>6. CASE \E g \in Items : i \in con[g].items
  BY <1>1, <1>6 DEF Sound, LinksSafe, GravesSafe, Tables
<1> QED
  BY <1>3, <1>4, <1>5, <1>6 DEF Somewhere, Tables

\* The tables with n at place s, empty-handed.
Entered(s, n, cash) == [Tables EXCEPT !.ch[s] = [NoChar EXCEPT !.who = n, !.gold = cash]]

\* A character who enters the area, before his things are made.
LEMMA NewcomerSafe ==
    ASSUME NEW s \in Slots, NEW n \in Names, NEW cash \in Int, Sound(Tables, NoItem), ~There(s), \A r \in Slots : ch[r].who # n,
           NEW v, v = Entered(s, n, cash)
    PROVE  /\ TableTypes(v) /\ Sound(Unmarked(v, n), NoItem)
           /\ v.ch[s].who = n /\ v.ch[s].hand = NoItem /\ v.ch[s].pack = NoItem
           /\ FreeIn(v) = FreeIn(Tables)
<1>1. /\ ch \in [Slots -> CharType] /\ it \in [Items -> ItemType]
      /\ con \in [Items -> GraveType] /\ ground \in [Ground -> Items \cup {NoItem}]
  BY TablesTyped
<1>2. PICK c : c = [NoChar EXCEPT !.who = n, !.gold = cash]
  OBVIOUS
<1>3. c \in CharType /\ c.who = n /\ c.hand = NoItem /\ c.pack = NoItem /\ c.action = "idle"
  <2>1. n \in Bearers /\ NoChar \in CharType /\ NoChar.hand = NoItem /\ NoChar.pack = NoItem /\ NoChar.action = "idle"
    BY EmptyTyped DEF NoChar, Bearers
  <2> QED
    BY <1>2, <2>1 DEF CharType
<1>4. v = [ch |-> [ch EXCEPT ![s] = c], it |-> it, con |-> con, ground |-> ground]
  BY <1>2 DEF Entered, Tables
<1>5. v.ch \in [Slots -> CharType] /\ v.ch[s] = c /\ \A r \in Slots \ {s} : v.ch[r] = ch[r]
  BY <1>1, <1>3, <1>4
<1>6. TableTypes(v)
  BY <1>1, <1>4, <1>5, TypesOfEntries
<1>7. /\ TableTypes(Tables) /\ ActsSafe(Tables) /\ OneEach(Tables) /\ CarriedSafe(Tables) /\ LyingSafe(Tables)
      /\ GravesSafe(Tables) /\ UnusedSafe(Tables) /\ AllFound(Tables, NoItem)
      /\ Tables.ch = ch /\ Tables.it = it /\ Tables.con = con /\ Tables.ground = ground
  BY DEF Sound, LinksSafe, Tables
<1>8. n # Vacant /\ NoItem \notin Items
  BY BelongingsAssumption, NoItemIsNone
<1>9. ch[s].hand = NoItem /\ ch[s].pack = NoItem
  <2>1. ch[s].hand \in Items \cup {NoItem} /\ ch[s].pack \in Items \cup {NoItem}
    BY <1>1 DEF CharType
  <2>2. \A i \in Items : ch[s].hand # i /\ ch[s].pack # i
    BY <1>7 DEF CarriedSafe, There
  <2> QED
    BY <2>1, <2>2
<1>10. ActsSafe(v)
  BY <1>3, <1>4, <1>5, <1>7, <1>8 DEF ActsSafe
<1>11. OneEach(v)
  <2>1. ASSUME NEW p \in Slots, NEW r \in Slots, v.ch[p].who = v.ch[r].who, v.ch[p].who # Vacant PROVE p = r
    <3>1. CASE p = s \/ r = s
      BY <1>3, <1>5, <2>1, <3>1
    <3>2. CASE p # s /\ r # s
      BY <1>5, <1>7, <2>1, <3>2 DEF OneEach
    <3> QED
      BY <3>1, <3>2
  <2>2. \A r \in Slots : v.ch[r].hand = v.ch[r].pack => v.ch[r].hand = NoItem
    BY <1>3, <1>5, <1>7 DEF OneEach
  <2> QED
    BY <2>1, <2>2 DEF OneEach
<1>12. CarriedSafe(v)
  BY <1>3, <1>4, <1>5, <1>7, <1>8 DEF CarriedSafe
<1>13. LyingSafe(v) /\ GravesSafe(v) /\ UnusedSafe(v)
  BY <1>4, <1>7 DEF LyingSafe, GravesSafe, UnusedSafe
<1>14. AllFound(v, NoItem)
  <2> SUFFICES ASSUME NEW j \in Items, v.it[j].kind # "none" PROVE Somewhere(v, j)
    BY DEF AllFound
  <2>1. Somewhere(Tables, j)
    BY <1>4, <1>7, <1>8 DEF AllFound
  <2>2. CASE \E r \in Slots : ch[r].hand = j \/ ch[r].pack = j
    BY <1>5, <1>8, <1>9, <2>2 DEF Somewhere
  <2>3. CASE (\E t \in Ground : ground[t] = j) \/ \E h \in Items : j \in con[h].items
    BY <1>4, <2>3 DEF Somewhere
  <2> QED
    BY <1>7, <2>1, <2>2, <2>3 DEF Somewhere
<1>15. Sound(v, NoItem)
  BY <1>6, <1>8, <1>10, <1>11, <1>12, <1>13, <1>14 DEF Sound, LinksSafe, InTransit
<1>16. Unmarked(v, n) = v
  <2>1. \A i \in Items : Entry(v, n, i) = it[i]
    BY <1>4, NothingOfAbsent DEF Entry
  <2>2. [i \in Items |-> Entry(v, n, i)] = it
    BY <1>1, <2>1
  <2>3. Unmarked(v, n) = [ch |-> v.ch, it |-> [i \in Items |-> Entry(v, n, i)], con |-> v.con, ground |-> v.ground]
    BY <1>6, UnmarkedFields
  <2>4. v = [ch |-> v.ch, it |-> it, con |-> v.con, ground |-> v.ground]
    BY <1>4
  <2> QED
    BY <2>2, <2>3, <2>4
<1>17. FreeIn(v) = FreeIn(Tables)
  BY <1>4, <1>7 DEF FreeIn
<1> QED
  BY <1>3, <1>5, <1>6, <1>15, <1>16, <1>17

\* There are enough free items for what he brings.
LEMMA EnoughRoom ==
    ASSUME NEW k, NEW F, IsFiniteSet(F),
           Cardinality({p \in {"hand", "pack"} : k[p] # "none"}) <= Cardinality(F)
    PROVE  /\ k["hand"] # "none" \/ k["pack"] # "none" => F # {}
           /\ k["hand"] # "none" /\ k["pack"] # "none" => \A i \in F : F \ {i} # {}
<1>1. PICK S : S = {p \in {"hand", "pack"} : k[p] # "none"}
  OBVIOUS
<1>2. IsFiniteSet({"hand"}) /\ IsFiniteSet({"hand"} \cup {"pack"}) /\ Cardinality({"hand"} \cup {"pack"}) = 2
  <2>1. IsFiniteSet({"hand"}) /\ Cardinality({"hand"}) = 1
    BY FS_Singleton
  <2> QED
    BY <2>1, FS_AddElement
<1>3. IsFiniteSet(S)
  <2>1. S \in SUBSET ({"hand"} \cup {"pack"})
    BY <1>1
  <2> QED
    BY <1>2, <2>1, FS_Subset
<1>4. Cardinality(S) \in Nat /\ Cardinality(F) \in Nat
  BY <1>3, FS_CardinalityType
<1>5. Cardinality(S) <= Cardinality(F)
  BY <1>1
<1>6. ASSUME k["hand"] # "none" \/ k["pack"] # "none" PROVE F # {}
  <2>1. S # {}
    BY <1>1, <1>6
  <2>2. Cardinality(S) # 0
    BY <1>3, <2>1, FS_EmptySet
  <2> QED
    BY <1>4, <1>5, <2>2, FS_EmptySet
<1>7. ASSUME k["hand"] # "none" /\ k["pack"] # "none", NEW i \in F, F \ {i} = {} PROVE FALSE
  <2>1. S = {"hand"} \cup {"pack"}
    BY <1>1, <1>7
  <2>2. F = {i}
    BY <1>7
  <2>3. Cardinality(F) = 1
    BY <2>2, FS_Singleton
  <2> QED
    BY <1>2, <1>5, <2>1, <2>3
<1> QED
  BY <1>6, <1>7

\* A character enters the area with what he was saved with.
LEMMA JoinedTables ==
    ASSUME NEW s \in Slots, NEW n \in Names, BelongSafe, Joins(s, n)
    PROVE  /\ kit[n] \in [hand : KitKinds, pack : KitKinds, gold : Int]
           /\ TableTypes(Entered(s, n, kit[n].gold))
           /\ kit[n].hand # "none" => FreeIn(Entered(s, n, kit[n].gold)) # {}
           /\ LET u == Restored(Entered(s, n, kit[n].gold), s, "hand", kit[n].hand)
                  v == Restored(u, s, "pack", kit[n].pack)
              IN /\ TableTypes(u) /\ (kit[n].pack # "none" => FreeIn(u) # {})
                 /\ TableTypes(v) /\ Sound(Unmarked(v, n), NoItem) /\ TablesBecome(Unmarked(v, n))
<1>1. Sound(Tables, NoItem) /\ KitSafe
  BY DEF BelongSafe
<1>2. PICK k : k = kit[n]
  OBVIOUS
<1>3. k \in [hand : KitKinds, pack : KitKinds, gold : Int]
  BY <1>1, <1>2 DEF KitSafe
<1>4. PICK w : w = Entered(s, n, k.gold)
  OBVIOUS
<1>5. /\ TableTypes(w) /\ Sound(Unmarked(w, n), NoItem)
      /\ w.ch[s].who = n /\ w.ch[s].hand = NoItem /\ w.ch[s].pack = NoItem
      /\ FreeIn(w) = FreeIn(Tables)
  <2>1. PICK cash : cash = k.gold
    OBVIOUS
  <2>2. cash \in Int /\ w = Entered(s, n, cash)
    BY <1>3, <1>4, <2>1
  <2>3. ~There(s) /\ \A r \in Slots : ch[r].who # n
    BY DEF Joins
  <2> QED
    BY <1>1, <2>2, <2>3, NewcomerSafe
<1>6. PICK F : F = FreeIn(w)
  OBVIOUS
<1>7. IsFiniteSet(F)
  <2>1. F \in SUBSET Items
    BY <1>6 DEF FreeIn
  <2> QED
    BY <2>1, BelongingsAssumption, FS_Subset
<1>8. /\ k["hand"] # "none" \/ k["pack"] # "none" => F # {}
      /\ k["hand"] # "none" /\ k["pack"] # "none" => \A i \in F : F \ {i} # {}
  <2>1. Cardinality({p \in {"hand", "pack"} : kit[n][p] # "none"}) <= Cardinality(FreeIn(Tables))
    BY DEF Joins
  <2>2. Cardinality({p \in {"hand", "pack"} : k[p] # "none"}) <= Cardinality(F)
    BY <1>2, <1>5, <1>6, <2>1
  <2> QED
    BY <1>7, <2>2, EnoughRoom
<1>9. PICK u : u = Restored(w, s, "hand", k.hand)
  OBVIOUS
<1>10. k.hand \in KitKinds /\ k.pack \in KitKinds /\ k.hand = k["hand"] /\ k.pack = k["pack"]
  BY <1>3
<1>11. /\ TableTypes(u) /\ Sound(Unmarked(u, n), NoItem)
       /\ u.ch[s].who = n /\ u.ch[s].pack = NoItem
       /\ k.hand # "none" => \E i \in F : FreeIn(u) = F \ {i}
  <2>1. k.hand # "none" => FreeIn(w) # {}
    BY <1>6, <1>8, <1>10
  <2> QED
    BY <1>5, <1>6, <1>9, <1>10, <2>1, RestoredSafe
<1>12. k.pack # "none" => FreeIn(u) # {}
  <2>1. CASE k.hand = "none"
    <3>1. u = w
      BY <1>9, <2>1, RestoredCases
    <3> QED
      BY <1>6, <1>8, <1>10, <3>1
  <2>2. CASE k.hand # "none"
    BY <1>8, <1>10, <1>11, <2>2
  <2> QED
    BY <2>1, <2>2
<1>13. PICK v : v = Restored(u, s, "pack", k.pack)
  OBVIOUS
<1>14. TableTypes(v) /\ Sound(Unmarked(v, n), NoItem)
  BY <1>10, <1>11, <1>12, <1>13, RestoredSafe
<1>15. TablesBecome(Unmarked(v, n))
  <2> DEFINE last == Restored(Restored(Entered(s, n, kit[n].gold), s, "hand", kit[n].hand), s, "pack", kit[n].pack)
  <2>1. TablesBecome([last EXCEPT !.it = [i \in Items |-> IF n \in Beasts /\ last.it[i].carried = n
                                            THEN [last.it[i] EXCEPT !.first = Vacant] ELSE last.it[i]]])
    BY Zenon DEF Joins, Entered
  <2>2. last = v
    BY <1>2, <1>4, <1>9, <1>13
  <2> HIDE DEF last
  <2>3. TablesBecome(Unmarked(last, n))
    BY <2>1 DEF Unmarked, Entry
  <2> QED
    BY <2>2, <2>3
<1>16. kit[n].hand # "none" => FreeIn(Entered(s, n, kit[n].gold)) # {}
  BY <1>2, <1>4, <1>6, <1>8, <1>10
<1> QED
  BY <1>2, <1>3, <1>4, <1>5, <1>9, <1>11, <1>12, <1>13, <1>14, <1>15, <1>16

\* So the tables stay sound.
LEMMA JoinSafe ==
    ASSUME NEW s \in Slots, NEW n \in Names, BelongSafe, Joins(s, n)
    PROVE  BelongSafe'
<1>1. PICK u : u = Restored(Entered(s, n, kit[n].gold), s, "hand", kit[n].hand)
  OBVIOUS
<1>2. PICK v : v = Unmarked(Restored(u, s, "pack", kit[n].pack), n)
  OBVIOUS
<1>3. Sound(v, NoItem) /\ TablesBecome(v)
  BY <1>1, <1>2, JoinedTables
<1>4. KitSafe'
  BY DEF Joins, KitSafe, BelongSafe
<1> QED
  BY <1>3, <1>4, BecomeSafe DEF BelongSafe

\* The area starts without an item in use.
LEMMA BelongStarts == BelongInit => BelongSafe
<1> SUFFICES ASSUME BelongInit PROVE BelongSafe
  OBVIOUS
<1>1. /\ ch = [s \in Slots |-> NoChar] /\ it = [i \in Items |-> Nowhere] /\ con = [i \in Items |-> NoGrave]
      /\ ground = [t \in Ground |-> NoItem] /\ kit = StartingKit
  BY DEF BelongInit
<1>2. /\ Tables.ch = ch /\ Tables.it = it /\ Tables.con = con /\ Tables.ground = ground
      /\ Tables = [ch |-> Tables.ch, it |-> Tables.it, con |-> Tables.con, ground |-> Tables.ground]
  BY DEF Tables
<1>3. /\ \A s \in Slots : ch[s] = NoChar
      /\ \A i \in Items : it[i] = Nowhere /\ con[i] = NoGrave
      /\ \A t \in Ground : ground[t] = NoItem
      /\ NoItem \notin Items
  BY <1>1, NoItemIsNone
<1>4. TableTypes(Tables)
  <2>1. /\ ch \in [Slots -> CharType] /\ it \in [Items -> ItemType]
        /\ con \in [Items -> GraveType] /\ ground \in [Ground -> Items \cup {NoItem}]
    BY <1>1, EmptyTyped
  <2> QED
    BY <1>2, <2>1, TypesOfEntries
<1>5. ActsSafe(Tables) /\ OneEach(Tables)
  BY <1>2, <1>3 DEF ActsSafe, OneEach, NoChar
<1>6. CarriedSafe(Tables) /\ LyingSafe(Tables)
  BY <1>2, <1>3 DEF CarriedSafe, LyingSafe, NoChar
<1>7. GravesSafe(Tables) /\ UnusedSafe(Tables) /\ AllFound(Tables, NoItem) /\ InTransit(Tables, NoItem)
  BY <1>2, <1>3 DEF GravesSafe, UnusedSafe, AllFound, InTransit, NoGrave, Nowhere
<1>8. KitSafe
  <2>1. \A n \in Names : StartingKit[n] \in [hand : KitKinds, pack : KitKinds, gold : Int]
    BY BelongingsAssumption
  <2>2. StartingKit = [n \in Names |-> StartingKit[n]]
    BY BelongingsAssumption
  <2> QED
    BY <1>1, <2>1, <2>2 DEF KitSafe
<1> QED
  BY <1>4, <1>5, <1>6, <1>7, <1>8 DEF BelongSafe, Sound, LinksSafe

\* Every step of the area keeps the tables sound.
LEMMA BelongStep == BelongSafe /\ [BelongNext]_belongVars => BelongSafe'
<1> SUFFICES ASSUME BelongSafe, [BelongNext]_belongVars PROVE BelongSafe'
  OBVIOUS
<1>1. Sound(Tables, NoItem) /\ KitSafe
  BY DEF BelongSafe
<1>2. ASSUME UNCHANGED kit, Sound(Tables, NoItem)' PROVE BelongSafe'
  BY <1>1, <1>2 DEF BelongSafe, KitSafe
<1>3. CASE UNCHANGED belongVars
  BY <1>1, <1>3 DEF belongVars, BelongSafe, KitSafe, Sound, LinksSafe, TableTypes, ActsSafe, OneEach, CarriedSafe, LyingSafe,
     GravesSafe, UnusedSafe, AllFound, InTransit, Somewhere, Tables
<1>4. ASSUME NEW s \in Slots, NEW n \in Names, Joins(s, n) PROVE BelongSafe'
  BY <1>4, JoinSafe
<1>5. ASSUME NEW s \in Slots, Quits(s) PROVE BelongSafe'
  BY <1>5, QuitSafe
<1>6. ASSUME NEW s \in Slots, act_take(s) PROVE BelongSafe'
  BY <1>1, <1>2, <1>6, TakeSafe DEF act_take, Ends
<1>7. ASSUME NEW s \in Slots, act_drop(s) PROVE BelongSafe'
  BY <1>1, <1>2, <1>7, DropSafe DEF act_drop, Ends
<1>8. ASSUME NEW s \in Slots, Swaps(s) PROVE BelongSafe'
  BY <1>1, <1>2, <1>8, SwapsSafe DEF Swaps
<1>9. ASSUME NEW s \in Slots, Dies(s) PROVE BelongSafe'
  BY <1>1, <1>2, <1>9, DieSafe DEF Dies, Ends
<1>10. ASSUME NEW s \in Slots, NEW moved \in BOOLEAN, act_give(s, moved) PROVE BelongSafe'
  BY <1>1, <1>2, <1>10, GiveSafe DEF act_give, Ends
<1>11. ASSUME NEW s \in Slots, NEW t \in Ground, do_take(s, t) PROVE BelongSafe'
  BY <1>1, <1>2, <1>11, TakeBegins DEF do_take, Starts
<1>12. ASSUME NEW s \in Slots, NEW t \in Ground, do_drop(s, t) PROVE BelongSafe'
  BY <1>1, <1>2, <1>12, DropBegins DEF do_drop, Starts
<1>13. ASSUME NEW s \in Slots, NEW r \in Slots, do_give(s, r) PROVE BelongSafe'
  BY <1>1, <1>2, <1>13, GiveBegins DEF do_give, Starts
<1>14. ASSUME NEW s \in Slots, NEW r \in Slots, Steals(s, r) PROVE BelongSafe'
  BY <1>1, <1>2, <1>14, StealSafe DEF Steals
<1>15. ASSUME NEW s \in Slots, NEW r \in {0} \cup Slots, IsKilled(s, r) PROVE BelongSafe'
  BY <1>1, <1>2, <1>15, KilledSafe DEF IsKilled
<1>16. ASSUME NEW s \in Slots, NEW g \in Items, NEW i \in {NoItem} \cup Items, NEW fast \in BOOLEAN, container(s, g, i, fast)
       PROVE BelongSafe'
  BY <1>1, <1>2, <1>16, ContainerSafe DEF container
<1>17. ASSUME NEW i \in Items, Expires(i) PROVE BelongSafe'
  BY <1>1, <1>2, <1>17, ExpireSafe DEF Expires
<1>18. ASSUME NEW n \in Humans, NEW m \in Humans, Allows(n, m) PROVE BelongSafe'
  BY <1>1, <1>2, <1>18, AllowSafe DEF Allows
<1> QED
  BY <1>3, <1>4, <1>5, <1>6, <1>7, <1>8, <1>9, <1>10, <1>11, <1>12, <1>13, <1>14, <1>15, <1>16, <1>17, <1>18 DEF BelongNext

-----------------------------------------------------------------------------
(* Sound tables have each item in one place.                                *)

\* Where an item is, place by place.
LEMMA PlacesAre ==
    ASSUME NEW i \in Items
    PROVE  /\ \A p \in PlacesOf(i) :
                 \/ \E s \in Slots : p = <<"hand", s>> /\ ch[s].hand = i
                 \/ \E s \in Slots : p = <<"pack", s>> /\ ch[s].pack = i
                 \/ \E t \in Ground : p = <<"tile", t>> /\ ground[t] = i
                 \/ \E g \in Items : p = <<"grave", g>> /\ i \in con[g].items
           /\ Somewhere(Tables, i) <=> PlacesOf(i) # {}
<1>1. \A p : p \in PlacesOf(i) <=>
                 \/ \E s \in Slots : p = <<"hand", s>> /\ ch[s].hand = i
                 \/ \E s \in Slots : p = <<"pack", s>> /\ ch[s].pack = i
                 \/ \E t \in Ground : p = <<"tile", t>> /\ ground[t] = i
                 \/ \E g \in Items : p = <<"grave", g>> /\ i \in con[g].items
  BY DEF PlacesOf
<1>2. Somewhere(Tables, i) => PlacesOf(i) # {}
  <2>1. ASSUME NEW s \in Slots, ch[s].hand = i PROVE <<"hand", s>> \in PlacesOf(i)
    BY <1>1, <2>1
  <2>2. ASSUME NEW s \in Slots, ch[s].pack = i PROVE <<"pack", s>> \in PlacesOf(i)
    BY <1>1, <2>2
  <2>3. ASSUME NEW t \in Ground, ground[t] = i PROVE <<"tile", t>> \in PlacesOf(i)
    BY <1>1, <2>3
  <2>4. ASSUME NEW g \in Items, i \in con[g].items PROVE <<"grave", g>> \in PlacesOf(i)
    BY <1>1, <2>4
  <2> QED
    BY <2>1, <2>2, <2>3, <2>4 DEF Somewhere, Tables
<1>3. PlacesOf(i) # {} => Somewhere(Tables, i)
  BY <1>1 DEF Somewhere, Tables
<1> QED
  BY <1>1, <1>2, <1>3

\* An item is in one place only.
LEMMA OnePlace ==
    ASSUME Sound(Tables, NoItem), NEW i \in Items, NEW p \in PlacesOf(i), NEW q \in PlacesOf(i)
    PROVE  p = q
<1>1. /\ OneEach(Tables) /\ CarriedSafe(Tables) /\ LyingSafe(Tables) /\ GravesSafe(Tables) /\ NoItem \notin Items
      /\ Tables.ch = ch /\ Tables.it = it /\ Tables.con = con /\ Tables.ground = ground
  BY NoItemIsNone DEF Sound, LinksSafe, Tables
<1>2. /\ \A s \in Slots : ch[s].hand = i \/ ch[s].pack = i =>
            it[i].carried = ch[s].who /\ ch[s].who # Vacant /\ it[i].tile = 0 /\ it[i].inside = NoItem
      /\ \A t \in Ground : ground[t] = i => it[i].carried = Vacant /\ it[i].tile = t /\ it[i].inside = NoItem
      /\ \A g \in Items : i \in con[g].items => it[i].carried = Vacant /\ it[i].tile = 0 /\ it[i].inside = g
  BY <1>1 DEF CarriedSafe, LyingSafe, GravesSafe
<1>3. /\ \A r, s \in Slots : ch[r].who = ch[s].who /\ ch[r].who # Vacant => r = s
      /\ \A s \in Slots : ~(ch[s].hand = i /\ ch[s].pack = i)
  BY <1>1 DEF OneEach
<1>4. 0 \notin Ground
  BY BelongingsAssumption
<1>5. CASE \E s \in Slots : p = <<"hand", s>> /\ ch[s].hand = i
  BY <1>1, <1>2, <1>3, <1>4, <1>5, PlacesAre
<1>6. CASE \E s \in Slots : p = <<"pack", s>> /\ ch[s].pack = i
  BY <1>1, <1>2, <1>3, <1>4, <1>6, PlacesAre
<1>7. CASE \E t \in Ground : p = <<"tile", t>> /\ ground[t] = i
  BY <1>1, <1>2, <1>3, <1>4, <1>7, PlacesAre
<1>8. CASE \E g \in Items : p = <<"grave", g>> /\ i \in con[g].items
  BY <1>1, <1>2, <1>3, <1>4, <1>8, PlacesAre
<1> QED
  BY <1>5, <1>6, <1>7, <1>8, PlacesAre

\* An item says where it is.
LEMMA SaysSo ==
    ASSUME Sound(Tables, NoItem), NEW i \in Items, NEW p \in PlacesOf(i)
    PROVE  Says(i, p)
<1>1. it[i] \in ItemType
  BY TablesTyped
<1>2. /\ CarriedSafe(Tables) /\ LyingSafe(Tables) /\ GravesSafe(Tables)
      /\ Tables.ch = ch /\ Tables.it = it /\ Tables.con = con /\ Tables.ground = ground
  BY DEF Sound, LinksSafe, Tables
<1>3. ASSUME NEW n, NEW t, NEW g, it[i].carried = n, it[i].tile = t, it[i].inside = g
      PROVE  it[i] = [it[i] EXCEPT !.carried = n, !.tile = t, !.inside = g]
  BY <1>1, <1>3 DEF ItemType
<1>4. ASSUME NEW s \in Slots, ch[s].hand = i \/ ch[s].pack = i, p[1] \in {"hand", "pack"}, p[2] = s PROVE Says(i, p)
  <2>1. it[i].carried = ch[s].who /\ it[i].tile = 0 /\ it[i].inside = NoItem
    BY <1>2, <1>4 DEF CarriedSafe
  <2>2. it[i] = [it[i] EXCEPT !.carried = ch[p[2]].who, !.tile = 0, !.inside = NoItem]
    <3>1. it[i] = [it[i] EXCEPT !.carried = ch[s].who, !.tile = 0, !.inside = NoItem]
      BY <1>3, <2>1
    <3> QED
      BY <1>4, <3>1
  <2> DEFINE A == it[i] = [it[i] EXCEPT !.carried = ch[p[2]].who, !.tile = 0, !.inside = NoItem]
             B == it[i] = [it[i] EXCEPT !.carried = Vacant, !.tile = p[2], !.inside = NoItem]
             C == it[i] = [it[i] EXCEPT !.carried = Vacant, !.tile = 0, !.inside = p[2]]
  <2>3. Says(i, p) = CASE p[1] \in {"hand", "pack"} -> A [] p[1] = "tile" -> B [] OTHER -> C
    BY Zenon DEF Says
  <2>4. A /\ A \in BOOLEAN
    BY <2>2
  <2> HIDE DEF A, B, C
  <2>5. p[1] \in {"hand", "pack"} /\ ~(p[1] = "tile")
    BY <1>4
  <2>6. (CASE p[1] \in {"hand", "pack"} -> A [] p[1] = "tile" -> B [] OTHER -> C) = A
    BY <2>5
  <2> QED
    BY <2>3, <2>4, <2>6
<1>5. ASSUME NEW t \in Ground, ground[t] = i, p[1] = "tile", p[2] = t PROVE Says(i, p)
  <2>1. it[i].carried = Vacant /\ it[i].tile = t /\ it[i].inside = NoItem
    BY <1>2, <1>5 DEF LyingSafe
  <2>2. it[i] = [it[i] EXCEPT !.carried = Vacant, !.tile = p[2], !.inside = NoItem]
    <3>1. it[i] = [it[i] EXCEPT !.carried = Vacant, !.tile = t, !.inside = NoItem]
      BY <1>3, <2>1
    <3> QED
      BY <1>5, <3>1
  <2>3. p[1] \notin {"hand", "pack"}
    BY <1>5
  <2> QED
    BY <1>5, <2>2, <2>3, Zenon DEF Says
<1>6. ASSUME NEW g \in Items, i \in con[g].items, p[1] = "grave", p[2] = g PROVE Says(i, p)
  <2>1. it[i].carried = Vacant /\ it[i].tile = 0 /\ it[i].inside = g
    BY <1>2, <1>6 DEF GravesSafe
  <2>2. it[i] = [it[i] EXCEPT !.carried = Vacant, !.tile = 0, !.inside = p[2]]
    <3>1. it[i] = [it[i] EXCEPT !.carried = Vacant, !.tile = 0, !.inside = g]
      BY <1>3, <2>1
    <3> QED
      BY <1>6, <3>1
  <2>3. p[1] \notin {"hand", "pack"} /\ p[1] # "tile"
    BY <1>6
  <2> QED
    BY <2>2, <2>3, Zenon DEF Says
<1>7. CASE \E s \in Slots : p = <<"hand", s>> /\ ch[s].hand = i
  <2>1. PICK s \in Slots : p = <<"hand", s>> /\ ch[s].hand = i
    BY <1>7
  <2>2. p[1] \in {"hand", "pack"} /\ p[2] = s
    BY <2>1
  <2> QED
    BY <1>4, <2>1, <2>2
<1>8. CASE \E s \in Slots : p = <<"pack", s>> /\ ch[s].pack = i
  <2>1. PICK s \in Slots : p = <<"pack", s>> /\ ch[s].pack = i
    BY <1>8
  <2>2. p[1] \in {"hand", "pack"} /\ p[2] = s
    BY <2>1
  <2> QED
    BY <1>4, <2>1, <2>2
<1>9. CASE \E t \in Ground : p = <<"tile", t>> /\ ground[t] = i
  <2>1. PICK t \in Ground : p = <<"tile", t>> /\ ground[t] = i
    BY <1>9
  <2>2. p[1] = "tile" /\ p[2] = t
    BY <2>1
  <2> QED
    BY <1>5, <2>1, <2>2
<1>10. CASE \E g \in Items : p = <<"grave", g>> /\ i \in con[g].items
  <2>1. PICK g \in Items : p = <<"grave", g>> /\ i \in con[g].items
    BY <1>10
  <2>2. p[1] = "grave" /\ p[2] = g
    BY <2>1
  <2> QED
    BY <1>6, <2>1, <2>2
<1> QED
  BY <1>7, <1>8, <1>9, <1>10, PlacesAre

\* Sound tables are linked from both sides.
LEMMA BelongingsLinked == BelongSafe => Linked
<1> SUFFICES ASSUME BelongSafe, NEW i \in Items
             PROVE  /\ Cardinality(PlacesOf(i)) = (IF Used(i) THEN 1 ELSE 0)
                    /\ \A p \in PlacesOf(i) : Says(i, p)
                    /\ con[i].items # {} => it[i].kind = "body"
  BY DEF Linked
<1>1. Sound(Tables, NoItem) /\ i # NoItem
  BY NoItemIsNone DEF BelongSafe
<1>2. ASSUME Used(i) PROVE Cardinality(PlacesOf(i)) = 1
  <2>1. Somewhere(Tables, i)
    BY <1>1, <1>2 DEF Sound, LinksSafe, AllFound, Used, Tables
  <2>2. PICK p : p \in PlacesOf(i)
    BY <2>1, PlacesAre
  <2>3. \A q \in PlacesOf(i) : p = q
    BY <1>1, <2>2, OnePlace
  <2>4. PlacesOf(i) = {p}
    BY <2>2, <2>3
  <2>5. Cardinality({p}) = 1
    BY FS_Singleton
  <2> QED
    BY <2>4, <2>5
<1>3. ASSUME ~Used(i) PROVE Cardinality(PlacesOf(i)) = 0
  <2>1. ~Somewhere(Tables, i)
    <3>1. Tables.it[i].kind = "none"
      BY <1>3 DEF Used, Tables
    <3> QED
      BY <1>1, <3>1, UnusedNowhere
  <2>2. PlacesOf(i) = {}
    BY <2>1, PlacesAre
  <2>3. Cardinality({}) = 0
    BY FS_EmptySet
  <2> QED
    BY <2>2, <2>3
<1>4. con[i].items # {} => it[i].kind = "body"
  <2>1. con[i].items \subseteq Items
    BY <1>1, TablesTyped DEF GraveType
  <2> QED
    BY <1>1, <2>1 DEF Sound, LinksSafe, GravesSafe, Tables
<1>5. \A p \in PlacesOf(i) : Says(i, p)
  BY <1>1, SaysSo
<1>6. Cardinality(PlacesOf(i)) = (IF Used(i) THEN 1 ELSE 0)
  BY <1>2, <1>3
<1> QED
  BY <1>4, <1>5, <1>6

\* In sound tables nobody carries another player's quest item.
LEMMA QuestItemsKept == BelongSafe => QuestKept
<1> SUFFICES ASSUME BelongSafe, NEW i \in Items, NEW s \in Slots, IsQuest(i), Human(s), i \in {ch[s].hand, ch[s].pack}
             PROVE  it[i].first = ch[s].who
  BY DEF QuestKept
<1>1. CarriedSafe(Tables)
  BY DEF BelongSafe, Sound, LinksSafe
<1> QED
  BY <1>1 DEF CarriedSafe, IsQuest, Human, Heir, Tables

\* Every item in use is in one place, and says so; a quest item stays with the first player who had it.
THEOREM ItemsAlwaysKept == BelongSpec => []ItemsKept
<1>1. BelongInit => BelongSafe
  BY BelongStarts
<1>2. BelongSafe /\ [BelongNext]_belongVars => BelongSafe'
  BY BelongStep
<1>3. BelongSafe => ItemsKept
  BY BelongingsLinked, QuestItemsKept DEF ItemsKept
<1> QED
  BY <1>1, <1>2, <1>3, PTL DEF BelongSpec

-----------------------------------------------------------------------------
(* Money: what is in the purses and lies in the items.                      *)

Typed(w) == IsTables(w) /\ (\A r \in Slots : w.ch[r] \in CharType) /\ (\A i \in Items : w.it[i] \in ItemType)

\* What is in the purses and lies in the items.
Golds(w) == [s \in Slots |-> w.ch[s].gold]
Values(w) == [i \in Items |-> w.it[i].value]
Coffers(w) == Total(Golds(w), Slots) + Total(Values(w), Items)

\* Nobody has debts, and an item that is money is worth something.
Moneyed(w) ==
    /\ Typed(w)
    /\ \A r \in Slots : w.ch[r].gold \in Nat
    /\ \A i \in Items : w.it[i].value \in Nat /\ (w.it[i].kind = "money" => w.it[i].value >= 1)

SameMoney(w, v) ==
    /\ Typed(v)
    /\ \A r \in Slots : v.ch[r].gold = w.ch[r].gold /\ v.ch[r].who = w.ch[r].who
    /\ \A i \in Items : v.it[i].kind = w.it[i].kind /\ v.it[i].value = w.it[i].value

\* Everybody stays who he is; monsters may go.
SameWho(w, v) == \A r \in Slots : v.ch[r].who = w.ch[r].who \/ (w.ch[r].who \in Beasts /\ v.ch[r].who = Vacant)
Frugal(w, v) == Moneyed(v) /\ Coffers(v) <= Coffers(w) /\ SameWho(w, v)

\* Finitely many purses and items, and 0 is no item.
LEMMA TablesFinite == IsFiniteSet(Slots) /\ IsFiniteSet(Items) /\ IsFiniteSet(Names) /\ NoItem \notin Items
BY BelongingsAssumption, NoItemIsNone

\* What all have is a number.
LEMMA CoffersType ==
    ASSUME NEW w, Moneyed(w)
    PROVE  /\ \A r \in Slots : Golds(w)[r] = w.ch[r].gold /\ Golds(w)[r] \in Int
           /\ \A i \in Items : Values(w)[i] = w.it[i].value /\ Values(w)[i] \in Int
           /\ Total(Golds(w), Slots) \in Int /\ Total(Values(w), Items) \in Int /\ Coffers(w) \in Int
<1>1. /\ \A r \in Slots : Golds(w)[r] = w.ch[r].gold /\ Golds(w)[r] \in Int
      /\ \A i \in Items : Values(w)[i] = w.it[i].value /\ Values(w)[i] \in Int
  BY DEF Moneyed, Golds, Values
<1>2. Total(Golds(w), Slots) \in Int
  BY <1>1, TablesFinite, SumTyped DEF Total
<1>3. Total(Values(w), Items) \in Int
  BY <1>1, TablesFinite, SumTyped DEF Total
<1> QED
  BY <1>1, <1>2, <1>3 DEF Coffers

\* Who has less everywhere has less.
LEMMA LessMoney ==
    ASSUME NEW w, NEW v, Moneyed(w), Moneyed(v),
           \A r \in Slots : v.ch[r].gold <= w.ch[r].gold,
           \A i \in Items : v.it[i].value <= w.it[i].value
    PROVE  Coffers(v) <= Coffers(w)
<1>1. Total(Golds(v), Slots) <= Total(Golds(w), Slots)
  <2>1. \A r \in Slots : Golds(v)[r] \in Int /\ Golds(w)[r] \in Int /\ Golds(v)[r] <= Golds(w)[r]
    BY CoffersType
  <2> QED
    BY <2>1, TablesFinite, SumGrows DEF Total
<1>2. Total(Values(v), Items) <= Total(Values(w), Items)
  <2>1. \A i \in Items : Values(v)[i] \in Int /\ Values(w)[i] \in Int /\ Values(v)[i] <= Values(w)[i]
    BY CoffersType
  <2> QED
    BY <2>1, TablesFinite, SumGrows DEF Total
<1> QED
  BY <1>1, <1>2, CoffersType DEF Coffers

\* A sum in which one summand changes and the others do not grow.
LEMMA SumMoves ==
    ASSUME NEW S, IsFiniteSet(S), NEW f, NEW h, NEW x \in S, \A y \in S : f[y] \in Int /\ h[y] \in Int,
           \A y \in S \ {x} : h[y] <= f[y]
    PROVE  SumFunctionOnSet(h, S) <= SumFunctionOnSet(f, S) + (h[x] - f[x])
<1>1. ASSUME NEW k, k[x] = h[x], \A y \in S \ {x} : k[y] = f[y]
      PROVE  SumFunctionOnSet(h, S) <= SumFunctionOnSet(f, S) + (h[x] - f[x])
  <2>1. /\ \A y \in S : f[y] \in Int /\ k[y] \in Int
        /\ \A y \in S \ {x} : k[y] = f[y]
    BY <1>1
  <2>2. SumFunctionOnSet(k, S) = SumFunctionOnSet(f, S) + k[x] - f[x]
    BY ONLY <2>1, SumChanges, IsFiniteSet(S), x \in S
  <2>3. \A y \in S : h[y] \in Int /\ k[y] \in Int /\ h[y] <= k[y]
    BY <1>1
  <2>4. SumFunctionOnSet(h, S) <= SumFunctionOnSet(k, S)
    BY <2>3, SumGrows
  <2>5. SumFunctionOnSet(k, S) \in Int /\ SumFunctionOnSet(f, S) \in Int /\ SumFunctionOnSet(h, S) \in Int
    BY <2>3, SumTyped
  <2> QED
    BY <1>1, <2>2, <2>4, <2>5
<1>2. PICK k : k = [y \in S |-> IF y = x THEN h[x] ELSE f[y]]
  OBVIOUS
<1>3. k[x] = h[x] /\ \A y \in S \ {x} : k[y] = f[y]
  BY <1>2
<1> QED
  BY <1>1, <1>3

\* One purse and one item are d richer together, nobody else is.
LEMMA MoneyMoves ==
    ASSUME NEW w, NEW v, Moneyed(w), Moneyed(v), NEW s \in Slots, NEW i \in Items, NEW d \in Int,
           \A r \in Slots \ {s} : v.ch[r].gold <= w.ch[r].gold,
           \A j \in Items \ {i} : v.it[j].value <= w.it[j].value,
           v.ch[s].gold + v.it[i].value <= w.ch[s].gold + w.it[i].value + d
    PROVE  Coffers(v) <= Coffers(w) + d
<1>1. /\ \A r \in Slots : Golds(v)[r] \in Int /\ Golds(w)[r] \in Int
      /\ \A r \in Slots \ {s} : Golds(v)[r] <= Golds(w)[r]
  BY CoffersType
<1>2. /\ \A j \in Items : Values(v)[j] \in Int /\ Values(w)[j] \in Int
      /\ \A j \in Items \ {i} : Values(v)[j] <= Values(w)[j]
  BY CoffersType
<1>3. Total(Golds(v), Slots) <= Total(Golds(w), Slots) + (Golds(v)[s] - Golds(w)[s])
  BY <1>1, TablesFinite, SumMoves DEF Total
<1>4. Total(Values(v), Items) <= Total(Values(w), Items) + (Values(v)[i] - Values(w)[i])
  BY <1>2, TablesFinite, SumMoves DEF Total
<1>5. /\ Golds(v)[s] = v.ch[s].gold /\ Golds(w)[s] = w.ch[s].gold
      /\ Values(v)[i] = v.it[i].value /\ Values(w)[i] = w.it[i].value
      /\ v.ch[s].gold \in Int /\ w.ch[s].gold \in Int /\ v.it[i].value \in Int /\ w.it[i].value \in Int
      /\ Total(Golds(v), Slots) \in Int /\ Total(Golds(w), Slots) \in Int
      /\ Total(Values(v), Items) \in Int /\ Total(Values(w), Items) \in Int
  BY CoffersType
<1> QED
  BY <1>3, <1>4, <1>5 DEF Coffers

\* Where purses and items stay the same, nobody gets richer.
LEMMA SameFrugal ==
    ASSUME NEW w, NEW v, Moneyed(w), SameMoney(w, v)
    PROVE  Frugal(w, v)
<1>1. Moneyed(v)
  BY DEF Moneyed, SameMoney
<1>2. Coffers(v) <= Coffers(w)
  <2>1. /\ \A r \in Slots : v.ch[r].gold <= w.ch[r].gold
        /\ \A i \in Items : v.it[i].value <= w.it[i].value
    BY DEF Moneyed, SameMoney
  <2> QED
    BY <1>1, <2>1, LessMoney
<1> QED
  BY <1>1, <1>2 DEF Frugal, SameWho, SameMoney

\* One after the other.
LEMMA FrugalTrans ==
    ASSUME NEW w, NEW v, NEW u, Moneyed(w), Frugal(w, v), Frugal(v, u)
    PROVE  Frugal(w, u)
<1>1. Coffers(w) \in Int /\ Coffers(v) \in Int /\ Coffers(u) \in Int
  BY CoffersType DEF Frugal
<1>2. Coffers(u) <= Coffers(w)
  BY <1>1 DEF Frugal
<1> QED
  BY <1>2 DEF Frugal, SameWho

\* One change of the same money after the other.
LEMMA SameTrans ==
    ASSUME NEW w, NEW v, NEW u, SameMoney(w, v), SameMoney(v, u)
    PROVE  SameMoney(w, u)
BY DEF SameMoney

\* A character's new entry with the same money.
LEMMA CharSame ==
    ASSUME NEW w, Typed(w), NEW v, NEW s \in Slots, NEW c \in CharType,
           v = [ch |-> [w.ch EXCEPT ![s] = c], it |-> w.it, con |-> v.con, ground |-> v.ground],
           c.gold = w.ch[s].gold, c.who = w.ch[s].who
    PROVE  SameMoney(w, v)
<1>1. v.ch = [w.ch EXCEPT ![s] = c] /\ v.it = w.it /\ w.ch = [x \in Slots |-> w.ch[x]] /\ w.it = [x \in Items |-> w.it[x]]
      /\ v = [ch |-> v.ch, it |-> v.it, con |-> v.con, ground |-> v.ground]
  BY DEF Typed, IsTables
<1>2. v.ch = [x \in Slots |-> v.ch[x]] /\ v.ch[s] = c /\ \A r \in Slots \ {s} : v.ch[r] = w.ch[r]
  BY <1>1
<1> QED
  BY <1>1, <1>2 DEF SameMoney, Typed, IsTables

\* An item's new entry with the same money.
LEMMA ItemSame ==
    ASSUME NEW w, Typed(w), NEW v, NEW i \in Items, NEW e \in ItemType,
           v = [ch |-> w.ch, it |-> [w.it EXCEPT ![i] = e], con |-> v.con, ground |-> v.ground],
           e.kind = w.it[i].kind, e.value = w.it[i].value
    PROVE  SameMoney(w, v)
<1>1. v.it = [w.it EXCEPT ![i] = e] /\ v.ch = w.ch /\ w.ch = [x \in Slots |-> w.ch[x]] /\ w.it = [x \in Items |-> w.it[x]]
      /\ v = [ch |-> v.ch, it |-> v.it, con |-> v.con, ground |-> v.ground]
  BY DEF Typed, IsTables
<1>2. v.it = [x \in Items |-> v.it[x]] /\ v.it[i] = e /\ \A j \in Items \ {i} : v.it[j] = w.it[j]
  BY <1>1
<1> QED
  BY <1>1, <1>2 DEF SameMoney, Typed, IsTables

\* An item passes into a hand, a pack, and out of a hand.
LEMMA CarriesSame ==
    ASSUME NEW w, Typed(w), NEW s \in Slots, NEW i \in Items
    PROVE  SameMoney(w, Carries(w, s, i))
<1>1. PICK v : v = Carries(w, s, i)
  OBVIOUS
<1>2. PICK e : e = [w.it[i] EXCEPT !.carried = w.ch[s].who, !.first = FirstOwner(w, s, i)]
  OBVIOUS
<1>3. v = [ch |-> w.ch, it |-> [w.it EXCEPT ![i] = e], con |-> v.con, ground |-> v.ground]
  <2>1. PICK n : n = w.ch[s].who
    OBVIOUS
  <2>2. PICK f : f = FirstOwner(w, s, i)
    OBVIOUS
  <2>3. e = [w.it[i] EXCEPT !.carried = n, !.first = f]
    BY <1>2, <2>1, <2>2
  <2>4. /\ v.ch = w.ch /\ v.it = [w.it EXCEPT ![i] = [w.it[i] EXCEPT !.carried = n, !.first = f]]
        /\ v = [ch |-> v.ch, it |-> v.it, con |-> v.con, ground |-> v.ground]
    BY <1>1, <2>1, <2>2 DEF Carries, Typed, IsTables
  <2> QED
    BY <2>3, <2>4
<1>4. e \in ItemType /\ e.kind = w.it[i].kind /\ e.value = w.it[i].value
  <2>1. PICK f : f = FirstOwner(w, s, i)
    OBVIOUS
  <2>2. w.it[i] \in ItemType /\ w.ch[s].who \in Bearers /\ f \in Bearers
    BY <2>1 DEF Typed, CharType, ItemType, FirstOwner
  <2>3. PICK n : n = w.ch[s].who
    OBVIOUS
  <2>4. e = [w.it[i] EXCEPT !.carried = n, !.first = f] /\ n \in Bearers
    BY <1>2, <2>1, <2>2, <2>3
  <2> QED
    BY <2>2, <2>4 DEF ItemType
<1> QED
  BY <1>1, <1>3, <1>4, ItemSame

\* Something else, or nothing, in the hand or the pack.
LEMMA HandSame ==
    ASSUME NEW w, Typed(w), NEW s \in Slots, NEW x \in Items \cup {NoItem}
    PROVE  SameMoney(w, [w EXCEPT !.ch[s].hand = x]) /\ SameMoney(w, [w EXCEPT !.ch[s].pack = x])
<1>1. w = [ch |-> w.ch, it |-> w.it, con |-> w.con, ground |-> w.ground] /\ w.ch[s] \in CharType
  BY DEF Typed, IsTables
<1>2. ASSUME NEW v, v = [w EXCEPT !.ch[s].hand = x] PROVE SameMoney(w, v)
  <2>1. PICK c : c = [w.ch[s] EXCEPT !.hand = x]
    OBVIOUS
  <2>2. c \in CharType /\ c.gold = w.ch[s].gold /\ c.who = w.ch[s].who
    BY <1>1, <2>1 DEF CharType
  <2>3. v = [ch |-> [w.ch EXCEPT ![s] = c], it |-> w.it, con |-> v.con, ground |-> v.ground]
    BY <1>1, <1>2, <2>1
  <2> QED
    BY <2>2, <2>3, CharSame
<1>3. ASSUME NEW v, v = [w EXCEPT !.ch[s].pack = x] PROVE SameMoney(w, v)
  <2>1. PICK c : c = [w.ch[s] EXCEPT !.pack = x]
    OBVIOUS
  <2>2. c \in CharType /\ c.gold = w.ch[s].gold /\ c.who = w.ch[s].who
    BY <1>1, <2>1 DEF CharType
  <2>3. v = [ch |-> [w.ch EXCEPT ![s] = c], it |-> w.it, con |-> v.con, ground |-> v.ground]
    BY <1>1, <1>3, <2>1
  <2> QED
    BY <2>2, <2>3, CharSame
<1> QED
  BY <1>2, <1>3

\* An item comes to a character.
LEMMA ReceivedSame ==
    ASSUME NEW w, Typed(w), NEW s \in Slots, NEW i \in Items
    PROVE  SameMoney(w, InHand(w, s, i)) /\ SameMoney(w, InPack(w, s, i))
<1>1. PICK c : c = Carries(w, s, i)
  OBVIOUS
<1>2. SameMoney(w, c) /\ Typed(c)
  BY <1>1, CarriesSame DEF SameMoney
<1>3. SameMoney(c, [c EXCEPT !.ch[s].hand = i]) /\ SameMoney(c, [c EXCEPT !.ch[s].pack = i])
  BY <1>2, HandSame
<1>4. InHand(w, s, i) = [c EXCEPT !.ch[s].hand = i] /\ InPack(w, s, i) = [c EXCEPT !.ch[s].pack = i]
  BY <1>1 DEF InHand, InPack
<1> QED
  BY <1>2, <1>3, <1>4, SameTrans

\* Whatever he is doing.
LEMMA DoneSame ==
    ASSUME NEW w, Typed(w), NEW s \in Slots
    PROVE  SameMoney(w, Done(w, s))
<1>1. w = [ch |-> w.ch, it |-> w.it, con |-> w.con, ground |-> w.ground] /\ w.ch[s] \in CharType
      /\ w.ch = [x \in Slots |-> w.ch[x]]
  BY DEF Typed, IsTables
<1>2. PICK v : v = Done(w, s)
  OBVIOUS
<1>3. PICK c : c = [w.ch[s] EXCEPT !.action = "idle", !.act1 = 0, !.at = 0]
  OBVIOUS
<1>4. c \in CharType /\ c.gold = w.ch[s].gold /\ c.who = w.ch[s].who
  BY <1>1, <1>3 DEF CharType
<1>5. v = [ch |-> [w.ch EXCEPT ![s] = c], it |-> w.it, con |-> v.con, ground |-> v.ground]
  BY <1>1, <1>2, <1>3 DEF Done
<1> QED
  BY <1>2, <1>4, <1>5, CharSame

\* An item is set on the map, or taken off it, or off a character.
LEMMA MapSame ==
    ASSUME NEW w, Typed(w), NEW i \in Items, NEW t \in Ground
    PROVE  SameMoney(w, set_item_map(w, i, t)) /\ SameMoney(w, remove_item_map(w, i))
<1>1. w = [ch |-> w.ch, it |-> w.it, con |-> w.con, ground |-> w.ground] /\ w.it[i] \in ItemType
      /\ t \in Ground \cup {0} /\ Vacant \in Bearers /\ NoItem \in Items \cup {NoItem}
  BY DEF Typed, IsTables, Bearers
<1>2. ASSUME NEW v, v = set_item_map(w, i, t) PROVE SameMoney(w, v)
  <2>1. PICK e : e = [w.it[i] EXCEPT !.tile = t, !.carried = Vacant, !.inside = NoItem]
    OBVIOUS
  <2>2. e \in ItemType /\ e.kind = w.it[i].kind /\ e.value = w.it[i].value
    BY <1>1, <2>1 DEF ItemType
  <2>3. v = [ch |-> w.ch, it |-> [w.it EXCEPT ![i] = e], con |-> v.con, ground |-> v.ground]
    <3>1. w.it = [x \in Items |-> w.it[x]]
      BY DEF Typed, IsTables
    <3> QED
      BY <1>1, <1>2, <2>1, <3>1 DEF set_item_map
  <2> QED
    BY <2>2, <2>3, ItemSame
<1>3. ASSUME NEW v, v = remove_item_map(w, i) PROVE SameMoney(w, v)
  <2>1. PICK e : e = [w.it[i] EXCEPT !.tile = 0]
    OBVIOUS
  <2>2. e \in ItemType /\ e.kind = w.it[i].kind /\ e.value = w.it[i].value
    BY <1>1, <2>1 DEF ItemType
  <2>3. v = [ch |-> w.ch, it |-> [w.it EXCEPT ![i] = e], con |-> v.con, ground |-> v.ground]
    BY <1>1, <1>3, <2>1 DEF remove_item_map
  <2> QED
    BY <2>2, <2>3, ItemSame
<1> QED
  BY <1>2, <1>3

\* remove_item_char: gone from his hand or pack.
LEMMA RemovedSame ==
    ASSUME NEW w, Typed(w), NEW s \in Slots, NEW i \in Items
    PROVE  SameMoney(w, remove_item_char(w, s, i))
<1>1. w = [ch |-> w.ch, it |-> w.it, con |-> w.con, ground |-> w.ground] /\ w.it[i] \in ItemType /\ w.ch[s] \in CharType
      /\ Vacant \in Bearers /\ NoItem \in Items \cup {NoItem}
  BY DEF Typed, IsTables, Bearers
<1>2. PICK c : c = IF w.ch[s].hand = i THEN [w.ch[s] EXCEPT !.hand = NoItem]
                   ELSE IF w.ch[s].pack = i THEN [w.ch[s] EXCEPT !.pack = NoItem] ELSE w.ch[s]
  OBVIOUS
<1>3. c \in CharType /\ c.gold = w.ch[s].gold /\ c.who = w.ch[s].who
  <2>1. /\ [w.ch[s] EXCEPT !.hand = NoItem] \in CharType
        /\ [w.ch[s] EXCEPT !.hand = NoItem].gold = w.ch[s].gold /\ [w.ch[s] EXCEPT !.hand = NoItem].who = w.ch[s].who
    BY <1>1 DEF CharType
  <2>2. /\ [w.ch[s] EXCEPT !.pack = NoItem] \in CharType
        /\ [w.ch[s] EXCEPT !.pack = NoItem].gold = w.ch[s].gold /\ [w.ch[s] EXCEPT !.pack = NoItem].who = w.ch[s].who
    BY <1>1 DEF CharType
  <2> QED
    BY <1>1, <1>2, <2>1, <2>2
<1>4. PICK e : e = [w.it[i] EXCEPT !.carried = Vacant]
  OBVIOUS
<1>5. e \in ItemType /\ e.kind = w.it[i].kind /\ e.value = w.it[i].value
  BY <1>1, <1>4 DEF ItemType
<1>6. PICK u : u = [w EXCEPT !.ch[s] = c]
  OBVIOUS
<1>7. u = [ch |-> [w.ch EXCEPT ![s] = c], it |-> w.it, con |-> u.con, ground |-> u.ground]
  BY <1>1, <1>6
<1>8. PICK v : v = remove_item_char(w, s, i)
  OBVIOUS
<1>9. v = [ch |-> u.ch, it |-> [w.it EXCEPT ![i] = e], con |-> v.con, ground |-> v.ground] /\ u.it = w.it
  <2>1. /\ v.ch = [w.ch EXCEPT ![s] = c] /\ v.it = [w.it EXCEPT ![i] = e]
        /\ v = [ch |-> v.ch, it |-> v.it, con |-> v.con, ground |-> v.ground]
    BY <1>1, <1>2, <1>4, <1>8 DEF remove_item_char
  <2> QED
    BY <1>7, <2>1
<1>10. SameMoney(w, u) /\ Typed(u)
  BY <1>3, <1>7, CharSame DEF SameMoney
<1>11. SameMoney(u, v)
  BY <1>5, <1>9, <1>10, ItemSame
<1> QED
  BY <1>8, <1>10, <1>11, SameTrans

\* An unused item is of its type.
LEMMA NothingTyped == Nowhere \in ItemType /\ Nowhere.kind = "none" /\ Nowhere.value = 0
BY DEF Nowhere, ItemType, Bearers, KitKinds

\* What is destroyed is worth nothing any more, what was in it neither.
LEMMA DestroyedFrugal ==
    ASSUME NEW w, Moneyed(w), NEW i \in Items
    PROVE  Frugal(w, destroy_item(w, i))
<1>1. PICK v : v = destroy_item(w, i)
  OBVIOUS
<1>2. /\ v.ch = w.ch /\ v = [ch |-> v.ch, it |-> v.it, con |-> v.con, ground |-> v.ground]
      /\ v.it = [j \in Items |-> IF j = i \/ j \in w.con[i].items THEN Nowhere ELSE w.it[j]]
      /\ w.ch = [x \in Slots |-> w.ch[x]]
  BY <1>1 DEF destroy_item, Moneyed, Typed, IsTables
<1>3. \A j \in Items : v.it[j] = Nowhere \/ v.it[j] = w.it[j]
  BY <1>2
<1>4. Typed(v)
  <2>1. v.it = [x \in Items |-> v.it[x]]
    BY <1>2
  <2> QED
    BY <1>2, <1>3, <2>1, NothingTyped DEF Moneyed, Typed, IsTables
<1>5. \A j \in Items : v.it[j].value \in Nat /\ v.it[j].value <= w.it[j].value
                       /\ (v.it[j].kind = "money" => v.it[j].value >= 1)
  BY <1>3, NothingTyped DEF Moneyed
<1>6. Moneyed(v) /\ \A r \in Slots : v.ch[r].gold <= w.ch[r].gold
  BY <1>2, <1>4, <1>5 DEF Moneyed
<1>7. Coffers(v) <= Coffers(w)
  BY <1>5, <1>6, LessMoney
<1> QED
  BY <1>1, <1>2, <1>6, <1>7 DEF Frugal, SameWho

\* pocket_money: the value of the item is in the purse.
LEMMA PocketFrugal ==
    ASSUME NEW w, Moneyed(w), NEW s \in Slots, NEW i \in Items
    PROVE  Frugal(w, pocket_money(w, s, i))
<1>0. IsTables(w) /\ w.ch[s] \in CharType /\ w.ch = [x \in Slots |-> w.ch[x]]
  BY DEF Moneyed, Typed, IsTables
<1>1. PICK v : v = pocket_money(w, s, i)
  OBVIOUS
<1>2. PICK c : c = [w.ch[s] EXCEPT !.gold = w.ch[s].gold + w.it[i].value]
  OBVIOUS
<1>3. /\ v.ch = [w.ch EXCEPT ![s] = c] /\ v = [ch |-> v.ch, it |-> v.it, con |-> v.con, ground |-> v.ground]
      /\ v.it = [j \in Items |-> IF j = i \/ j \in w.con[i].items THEN Nowhere ELSE w.it[j]]
  <2>1. PICK graves : graves = [w.con EXCEPT ![i] = NoGrave]
    OBVIOUS
  <2>2. PICK things : things = [j \in Items |-> IF j = i \/ j \in w.con[i].items THEN Nowhere ELSE w.it[j]]
    OBVIOUS
  <2>3. v = [ch |-> [w.ch EXCEPT ![s] = c], it |-> things, con |-> graves, ground |-> w.ground]
    BY <1>0, <1>1, <1>2, <2>1, <2>2, PocketFields
  <2> QED
    BY <2>2, <2>3
<1>4. /\ v.ch[s] = c /\ \A r \in Slots \ {s} : v.ch[r] = w.ch[r]
      /\ v.ch = [x \in Slots |-> v.ch[x]]
  BY <1>0, <1>3
<1>5. /\ w.ch[s].gold \in Nat /\ w.it[i].value \in Nat
      /\ c.gold = w.ch[s].gold + w.it[i].value /\ c.who = w.ch[s].who /\ c \in CharType
  <2>1. PICK cash : cash = w.ch[s].gold + w.it[i].value
    OBVIOUS
  <2>2. w.ch[s].gold \in Nat /\ w.it[i].value \in Nat /\ cash \in Int
    BY <2>1 DEF Moneyed
  <2>3. c = [w.ch[s] EXCEPT !.gold = cash]
    BY <1>2, <2>1
  <2> QED
    BY <1>0, <2>1, <2>2, <2>3 DEF CharType
<1>6. v.it[i] = Nowhere /\ \A j \in Items : v.it[j] = Nowhere \/ v.it[j] = w.it[j]
  BY <1>3
<1>7. Typed(v)
  <2>1. v.it = [x \in Items |-> v.it[x]]
    BY <1>3
  <2>2. /\ \A r \in Slots : v.ch[r] \in CharType
        /\ \A j \in Items : v.it[j] \in ItemType
    BY <1>4, <1>5, <1>6, NothingTyped DEF Moneyed, Typed
  <2> QED
    BY <1>3, <1>4, <2>1, <2>2 DEF Typed, IsTables
<1>8. \A j \in Items : v.it[j].value \in Nat /\ v.it[j].value <= w.it[j].value
                       /\ (v.it[j].kind = "money" => v.it[j].value >= 1)
  BY <1>6, NothingTyped DEF Moneyed
<1>9. \A r \in Slots : v.ch[r].gold \in Nat
  BY <1>4, <1>5 DEF Moneyed
<1>10. Moneyed(v)
  BY <1>7, <1>8, <1>9 DEF Moneyed
<1>11. Coffers(v) <= Coffers(w) + 0
  <2>1. v.ch[s].gold + v.it[i].value <= w.ch[s].gold + w.it[i].value + 0
    BY <1>4, <1>5, <1>6, NothingTyped
  <2>2. \A r \in Slots \ {s} : v.ch[r].gold <= w.ch[r].gold
    BY <1>4 DEF Moneyed
  <2>3. \A j \in Items \ {i} : v.it[j].value <= w.it[j].value
    BY <1>8
  <2>4. 0 \in Int
    OBVIOUS
  <2> QED
    BY <1>10, <2>1, <2>2, <2>3, <2>4, MoneyMoves
<1>12. Coffers(v) <= Coffers(w)
  BY <1>10, <1>11, CoffersType
<1>13. SameWho(w, v)
  BY <1>4, <1>5 DEF SameWho
<1> QED
  BY <1>1, <1>10, <1>12, <1>13 DEF Frugal

\* The same money, then nothing more.
LEMMA SameThen ==
    ASSUME NEW w, NEW v, NEW u, Moneyed(w), SameMoney(w, v), Moneyed(v) => Frugal(v, u)
    PROVE  Frugal(w, u)
<1>1. Frugal(w, v)
  BY SameFrugal
<1> QED
  BY <1>1, FrugalTrans DEF Frugal

\* Nothing more, then the same money.
LEMMA ThenSame ==
    ASSUME NEW w, NEW v, NEW u, Moneyed(w), Frugal(w, v), Typed(v) => SameMoney(v, u)
    PROVE  Frugal(w, u)
<1>1. Moneyed(v) /\ SameMoney(v, u)
  BY DEF Frugal, Moneyed
<1> QED
  BY <1>1, SameFrugal, FrugalTrans

\* swap: the money in the hand is gold then.
LEMMA SwapFrugal ==
    ASSUME NEW w, Moneyed(w), NEW s \in Slots
    PROVE  Frugal(w, swap(w, s))
<1>1. Typed(w) /\ w.ch[s].hand \in Items \cup {NoItem} /\ w.ch[s].pack \in Items \cup {NoItem}
  BY DEF Moneyed, Typed, CharType
<1>2. PICK i : i = w.ch[s].hand
  OBVIOUS
<1>3. PICK v : v = [w EXCEPT !.ch[s].hand = w.ch[s].pack]
  OBVIOUS
<1>4. SameMoney(w, v)
  BY <1>1, <1>3, HandSame
<1>5. CASE i # NoItem /\ w.it[i].kind = "money"
  <2>1. PICK m : m = pocket_money(v, s, i)
    OBVIOUS
  <2>2. Frugal(w, m)
    BY <1>1, <1>2, <1>4, <1>5, <2>1, PocketFrugal, SameThen
  <2>3. Frugal(w, [m EXCEPT !.ch[s].pack = NoItem])
    BY <2>2, HandSame, ThenSame
  <2>4. swap(w, s) = [m EXCEPT !.ch[s].pack = NoItem]
    BY <1>2, <1>3, <1>5, <2>1 DEF swap
  <2> QED
    BY <2>3, <2>4
<1>6. CASE ~(i # NoItem /\ w.it[i].kind = "money")
  <2>1. SameMoney(v, [v EXCEPT !.ch[s].pack = i])
    <3>1. Typed(v) /\ i \in Items \cup {NoItem}
      BY <1>1, <1>2, <1>4 DEF SameMoney
    <3> QED
      BY <3>1, HandSame
  <2>2. swap(w, s) = [v EXCEPT !.ch[s].pack = i]
    BY <1>2, <1>3, <1>6 DEF swap
  <2> QED
    BY <1>4, <2>1, <2>2, SameTrans, SameFrugal
<1> QED
  BY <1>5, <1>6

\* Nothing happens.
LEMMA NothingFrugal ==
    ASSUME NEW w, Moneyed(w)
    PROVE  Frugal(w, w)
<1>1. SameMoney(w, w)
  BY DEF Moneyed, SameMoney
<1> QED
  BY <1>1, SameFrugal

\* store_citem is a swap, or nothing.
LEMMA StoreFrugal ==
    ASSUME NEW w, Moneyed(w), NEW s \in Slots
    PROVE  Frugal(w, store_citem(w, s))
<1>1. CASE w.ch[s].pack = NoItem
  BY <1>1, SwapFrugal DEF store_citem
<1>2. CASE w.ch[s].pack # NoItem
  BY <1>2, NothingFrugal DEF store_citem
<1> QED
  BY <1>1, <1>2

\* give_char_item gives an item, or its value.
LEMMA GivenFrugal ==
    ASSUME NEW w, Moneyed(w), NEW s \in Slots, NEW i \in Items
    PROVE  Frugal(w, give_char_item(w, s, i))
<1>1. Typed(w)
  BY DEF Moneyed
<1>2. Frugal(w, InHand(w, s, i)) /\ Frugal(w, InPack(w, s, i))
  BY <1>1, ReceivedSame, SameFrugal
<1>3. give_char_item(w, s, i) \in {pocket_money(w, s, i), InPack(w, s, i), InHand(w, s, i)}
  BY Zenon DEF give_char_item
<1> QED
  BY <1>2, <1>3, PocketFrugal

\* An action makes no money out of the purses and items there are.
Thrift ==
    /\ Moneyed(Tables)' /\ Coffers(Tables)' <= Coffers(Tables)
    /\ \A r \in Slots : ch'[r].who = ch[r].who \/ (ch[r].who \in Beasts /\ ch'[r].who = Vacant)

\* So it is when it leaves no more money.
LEMMA ThriftyChange ==
    ASSUME NEW w, Frugal(Tables, w), TablesBecome(w)
    PROVE  Thrift
<1>1. w = [ch |-> w.ch, it |-> w.it, con |-> w.con, ground |-> w.ground]
  BY DEF Frugal, Moneyed, Typed, IsTables
<1>2. Tables' = w
  BY <1>1 DEF TablesBecome, Tables
<1>3. Moneyed(Tables)' /\ Coffers(Tables)' <= Coffers(Tables)
  BY <1>2 DEF Frugal
<1>4. \A r \in Slots : ch'[r].who = ch[r].who \/ (ch[r].who \in Beasts /\ ch'[r].who = Vacant)
  BY DEF Frugal, SameWho, TablesBecome, Tables
<1> QED
  BY <1>3, <1>4 DEF Thrift

\* An action that ends with no more money.
LEMMA ThriftyEnd ==
    ASSUME NEW w, Moneyed(Tables), Frugal(Tables, w), NEW s \in Slots, Ends(w, s)
    PROVE  Thrift
<1>1. PICK v : v = Done(w, s)
  OBVIOUS
<1>2. Frugal(Tables, v)
  BY <1>1, DoneSame, ThenSame
<1>3. TablesBecome(v)
  BY <1>1 DEF Ends
<1> QED
  BY <1>2, <1>3, ThriftyChange

\* What he takes keeps its value, in his hand, his pack or his purse (act.c).
LEMMA TakeThrift ==
    ASSUME NEW s \in Slots, Sound(Tables, NoItem), Moneyed(Tables), act_take(s)
    PROVE  Thrift
<1>1. PICK t : t = ch[s].at
  OBVIOUS
<1>2. t \in Ground /\ Typed(Tables)
  BY <1>1, BusyOnes DEF act_take, Moneyed
<1>3. PICK i : i = ground[t]
  OBVIOUS
<1>4. PICK taken : taken = (ch[s].hand = NoItem /\ i # NoItem /\ i = ch[s].act1 /\ it[i].kind # "body")
  OBVIOUS
<1>5. PICK w : w = remove_item_map(Tables, i)
  OBVIOUS
<1>6. PICK z : z = IF ~taken THEN Tables
                   ELSE IF Pockets(s) /\ IsMoney(i) THEN pocket_money(w, s, i)
                   ELSE IF Pockets(s) /\ ch[s].pack = NoItem THEN InPack(w, s, i)
                   ELSE InHand(w, s, i)
  OBVIOUS
<1>7. Ends(z, s)
  BY <1>1, <1>3, <1>4, <1>5, <1>6 DEF act_take
<1>8. CASE ~taken
  BY <1>6, <1>7, <1>8, NothingFrugal, ThriftyEnd
<1>9. CASE taken
  <2>1. i \in Items
    BY <1>2, <1>3, <1>4, <1>9, TablesTyped
  <2>2. SameMoney(Tables, w) /\ Frugal(Tables, w)
    BY <1>2, <1>5, <2>1, MapSame, SameFrugal
  <2>3. Typed(w) /\ Moneyed(w)
    BY <2>2 DEF SameMoney, Frugal
  <2>4. Frugal(w, pocket_money(w, s, i)) /\ Frugal(w, InPack(w, s, i)) /\ Frugal(w, InHand(w, s, i))
    BY <2>1, <2>3, PocketFrugal, ReceivedSame, SameFrugal
  <2>5. z \in {pocket_money(w, s, i), InPack(w, s, i), InHand(w, s, i)}
    BY <1>6, <1>9, Zenon
  <2>6. Frugal(Tables, z)
    BY <2>2, <2>4, <2>5, FrugalTrans
  <2> QED
    BY <1>7, <2>6, ThriftyEnd
<1> QED
  BY <1>8, <1>9

\* So does what he drops.
LEMMA DropThrift ==
    ASSUME NEW s \in Slots, Sound(Tables, NoItem), Moneyed(Tables), act_drop(s)
    PROVE  Thrift
<1>1. PICK t : t = ch[s].at
  OBVIOUS
<1>2. t \in Ground /\ Typed(Tables)
  BY <1>1, BusyOnes DEF act_drop, Moneyed
<1>3. PICK i : i = ch[s].hand
  OBVIOUS
<1>4. PICK dropped : dropped = (i # NoItem /\ i = ch[s].act1 /\ ground[t] = NoItem /\ ~IsQuest(i))
  OBVIOUS
<1>5. Ends(IF dropped THEN EmptyHanded(set_item_map(Tables, i, t), s) ELSE Tables, s)
  BY <1>1, <1>3, <1>4 DEF act_drop, EmptyHanded
<1>6. CASE ~dropped
  BY <1>5, <1>6, NothingFrugal, ThriftyEnd
<1>7. CASE dropped
  <2>1. i \in Items
    BY <1>3, <1>4, <1>7, TablesTyped DEF CharType
  <2>2. PICK w : w = set_item_map(Tables, i, t)
    OBVIOUS
  <2>3. SameMoney(Tables, w) /\ Typed(w)
    BY <1>2, <2>1, <2>2, MapSame DEF SameMoney
  <2>4. SameMoney(w, EmptyHanded(w, s))
    BY <2>3, HandSame DEF EmptyHanded
  <2>5. Frugal(Tables, EmptyHanded(w, s))
    BY <2>3, <2>4, SameTrans, SameFrugal
  <2> QED
    BY <1>5, <1>7, <2>2, <2>5, ThriftyEnd
<1> QED
  BY <1>6, <1>7

\* And what he gives.
LEMMA GiveThrift ==
    ASSUME NEW s \in Slots, NEW moved \in BOOLEAN, Sound(Tables, NoItem), Moneyed(Tables), act_give(s, moved)
    PROVE  Thrift
<1>1. PICK r : r = ch[s].act1
  OBVIOUS
<1>2. r \in Slots /\ Typed(Tables)
  BY <1>1, BusyOnes DEF act_give, Moneyed
<1>3. PICK i : i = ch[s].hand
  OBVIOUS
<1>4. PICK given : given = /\ There(r) /\ ch[r].action # "die" /\ ~moved
                           /\ i # NoItem /\ ~IsQuest(i)
                           /\ IF Human(r) THEN RoomFor(Tables, r, i) ELSE ch[r].hand = NoItem
  OBVIOUS
<1>5. PICK w : w = IF Human(r) THEN give_char_item(Tables, r, i) ELSE InHand(Tables, r, i)
  OBVIOUS
<1>6. Ends(IF given THEN EmptyHanded(w, s) ELSE Tables, s)
  BY <1>1, <1>3, <1>4, <1>5 DEF act_give, EmptyHanded
<1>7. CASE ~given
  BY <1>6, <1>7, NothingFrugal, ThriftyEnd
<1>8. CASE given
  <2>1. i \in Items
    BY <1>3, <1>4, <1>8, TablesTyped DEF CharType
  <2>2. Frugal(Tables, give_char_item(Tables, r, i)) /\ Frugal(Tables, InHand(Tables, r, i))
    BY <1>2, <2>1, GivenFrugal, ReceivedSame, SameFrugal
  <2>3. Frugal(Tables, w)
    BY <1>5, <2>2
  <2>4. Typed(w) => SameMoney(w, EmptyHanded(w, s))
    BY HandSame DEF EmptyHanded
  <2>5. Frugal(Tables, EmptyHanded(w, s))
    BY <2>3, <2>4, ThenSame
  <2> QED
    BY <1>6, <1>8, <2>5, ThriftyEnd
<1> QED
  BY <1>7, <1>8

\* A thief gets what the other one loses (prof.c).
LEMMA StealThrift ==
    ASSUME NEW s \in Slots, NEW r \in Slots, Sound(Tables, NoItem), Moneyed(Tables), Steals(s, r)
    PROVE  Thrift
<1>1. PICK i : i = ch[r].pack
  OBVIOUS
<1>2. i \in Items /\ Typed(Tables)
  BY <1>1, TablesTyped DEF Steals, CharType, Moneyed
<1>3. PICK w : w = remove_item_char(Tables, r, i)
  OBVIOUS
<1>4. SameMoney(Tables, w)
  BY <1>2, <1>3, RemovedSame
<1>5. Frugal(Tables, give_char_item(w, s, i))
  BY <1>2, <1>4, GivenFrugal, SameThen
<1>6. TablesBecome(give_char_item(w, s, i))
  BY <1>1, <1>3 DEF Steals
<1> QED
  BY <1>5, <1>6, ThriftyChange

\* What lies around too long is lost.
LEMMA ExpireThrift ==
    ASSUME NEW i \in Items, Sound(Tables, NoItem), Moneyed(Tables), Expires(i)
    PROVE  Thrift
<1>1. PICK w : w = remove_item_map(Tables, i)
  OBVIOUS
<1>2. Typed(Tables) /\ it[i].tile \in Ground
  BY TablesTyped DEF Moneyed, Expires, ItemType
<1>3. SameMoney(Tables, w)
  BY <1>1, <1>2, MapSame
<1>4. Frugal(Tables, destroy_item(w, i))
  BY <1>3, DestroyedFrugal, SameThen
<1>5. TablesBecome(destroy_item(w, i))
  BY <1>1 DEF Expires
<1> QED
  BY <1>4, <1>5, ThriftyChange

\* Nobody has more money when purses and items stay as they are.
LEMMA QuietThrift ==
    ASSUME Sound(Tables, NoItem), Moneyed(Tables), Sound(Tables, NoItem)', it' = it,
           \A r \in Slots : ch'[r].gold = ch[r].gold /\ ch'[r].who = ch[r].who
    PROVE  Thrift
<1>1. PICK w : w = Tables'
  OBVIOUS
<1>2. TablesBecome(w) /\ w.it = it /\ w.ch = ch'
  BY <1>1 DEF TablesBecome, Tables
<1>3. Typed(w)
  BY <1>1, TypedTables, EntryTypes DEF Typed, Sound
<1>4. SameMoney(Tables, w)
  BY <1>2, <1>3 DEF SameMoney, Tables
<1> QED
  BY <1>2, <1>4, SameFrugal, ThriftyChange

\* Starting something, being killed and letting others at one's graves.
LEMMA StartsThrift ==
    ASSUME NEW s \in Slots, NEW action, NEW arg, NEW t, Sound(Tables, NoItem), Moneyed(Tables),
           Sound(Tables, NoItem)', Starts(s, action, arg, t)
    PROVE  Thrift
<1>1. ch \in [Slots -> CharType]
  BY TablesTyped
<1>2. ch' = [ch EXCEPT ![s].action = action, ![s].act1 = arg, ![s].at = t] /\ it' = it
  BY DEF Starts
<1>3. \A r \in Slots : ch'[r].gold = ch[r].gold /\ ch'[r].who = ch[r].who
  BY <1>1, <1>2 DEF CharType
<1> QED
  BY <1>2, <1>3, QuietThrift

\* The same for being killed.
LEMMA KilledThrift ==
    ASSUME NEW s \in Slots, NEW r \in {0} \cup Slots, Sound(Tables, NoItem), Moneyed(Tables),
           Sound(Tables, NoItem)', IsKilled(s, r)
    PROVE  Thrift
<1>1. ch \in [Slots -> CharType]
  BY TablesTyped
<1>2. ch' = [ch EXCEPT ![s].action = "die", ![s].act1 = r] /\ it' = it
  BY DEF IsKilled
<1>3. \A x \in Slots : ch'[x].gold = ch[x].gold /\ ch'[x].who = ch[x].who
  BY <1>1, <1>2 DEF CharType
<1> QED
  BY <1>2, <1>3, QuietThrift

\* A player changes hands and pack.
LEMMA SwapsThrift ==
    ASSUME NEW s \in Slots, Moneyed(Tables), Swaps(s)
    PROVE  Thrift
BY SwapFrugal, ThriftyChange DEF Swaps

\* What comes out of a grave and goes into it keeps its value (container.c).
LEMMA ContainerThrift ==
    ASSUME NEW s \in Slots, NEW g \in Items, NEW in \in {NoItem} \cup Items, NEW fast \in BOOLEAN,
           Sound(Tables, NoItem), Moneyed(Tables), container(s, g, in, fast)
    PROVE  Thrift
<1>1. PICK v :
         /\ Sound(v, NoItem)
         /\ \A r \in Slots : v.ch[r].gold = ch[r].gold /\ v.ch[r].who = ch[r].who
         /\ \A i \in Items : v.it[i].kind = it[i].kind /\ v.it[i].value = it[i].value
         /\ TablesBecome(v) \/ TablesBecome(store_citem(v, s))
  BY ContainerLeaves
<1>2. Typed(v)
  BY <1>1, TypedTables, EntryTypes DEF Typed, Sound
<1>3. SameMoney(Tables, v)
  BY <1>1, <1>2 DEF SameMoney, Tables
<1>4. Frugal(Tables, v) /\ Frugal(Tables, store_citem(v, s))
  BY <1>3, SameFrugal, StoreFrugal, SameThen
<1> QED
  BY <1>1, <1>4, ThriftyChange

\* Who loses all he has, and who is gone with it.
LEMMA StrippedFrugal ==
    ASSUME NEW w, Moneyed(w), NEW v, NEW s \in Slots, Typed(v),
           \A r \in Slots \ {s} : v.ch[r] = w.ch[r],
           v.ch[s].gold \in Nat, v.ch[s].gold <= w.ch[s].gold,
           v.ch[s].who = w.ch[s].who \/ (w.ch[s].who \in Beasts /\ v.ch[s].who = Vacant),
           \A i \in Items : v.it[i] = Nowhere \/ v.it[i] = w.it[i]
    PROVE  Frugal(w, v)
<1>1. \A r \in Slots : v.ch[r].gold \in Nat /\ v.ch[r].gold <= w.ch[r].gold
  BY DEF Moneyed
<1>2. \A j \in Items : v.it[j].value \in Nat /\ v.it[j].value <= w.it[j].value
                       /\ (v.it[j].kind = "money" => v.it[j].value >= 1)
  BY NothingTyped DEF Moneyed
<1>3. Moneyed(v)
  BY <1>1, <1>2 DEF Moneyed
<1>4. Coffers(v) <= Coffers(w)
  BY <1>1, <1>2, <1>3, LessMoney
<1> QED
  BY <1>3, <1>4 DEF Frugal, SameWho

\* What nobody buries is lost.
LEMMA LostFrugal ==
    ASSUME NEW w, NEW s \in Slots, Sound(w, NoItem), Moneyed(w)
    PROVE  Frugal(w, Lost(w, s))
<1>1. /\ w.ch \in [Slots -> CharType] /\ w = [ch |-> w.ch, it |-> w.it, con |-> w.con, ground |-> w.ground]
  BY EntryTypes DEF Sound
<1>2. PICK v : v = Lost(w, s)
  OBVIOUS
<1>3. PICK c : c = [w.ch[s] EXCEPT !.hand = NoItem, !.pack = NoItem, !.gold = 0]
  OBVIOUS
<1>4. c.gold = 0 /\ c.who = w.ch[s].who
  BY <1>1, <1>3 DEF CharType
<1>5. /\ v.ch = [w.ch EXCEPT ![s] = c]
      /\ v.it = [i \in Items |-> IF i \in {w.ch[s].hand, w.ch[s].pack} THEN Nowhere ELSE w.it[i]]
  BY <1>1, <1>2, <1>3 DEF Lost
<1>6. v.ch[s] = c /\ \A r \in Slots \ {s} : v.ch[r] = w.ch[r]
  BY <1>1, <1>5
<1>7. \A i \in Items : v.it[i] = Nowhere \/ v.it[i] = w.it[i]
  BY <1>5
<1>8. Typed(v)
  <2>1. Sound(v, NoItem)
    BY <1>2, LostSafe
  <2> QED
    BY <2>1, TypedTables, EntryTypes DEF Typed, Sound
<1>9. v.ch[s].gold \in Nat /\ v.ch[s].gold <= w.ch[s].gold
  BY <1>4, <1>6 DEF Moneyed
<1> QED
  BY <1>2, <1>4, <1>6, <1>7, <1>8, <1>9, StrippedFrugal

\* A monster is gone with all it has.
LEMMA GoneFrugal ==
    ASSUME NEW w, NEW s \in Slots, Sound(w, NoItem), Moneyed(w), w.ch[s].who \in Beasts \cup {Vacant}
    PROVE  Frugal(w, destroy_char(w, s))
<1>1. /\ w.ch \in [Slots -> CharType] /\ w = [ch |-> w.ch, it |-> w.it, con |-> w.con, ground |-> w.ground]
  BY EntryTypes DEF Sound
<1>2. PICK v : v = destroy_char(w, s)
  OBVIOUS
<1>3. /\ v.ch = [w.ch EXCEPT ![s] = NoChar]
      /\ v.it = [i \in Items |-> IF i \in {w.ch[s].hand, w.ch[s].pack} THEN Nowhere ELSE w.it[i]]
  BY <1>1, <1>2 DEF destroy_char
<1>4. v.ch[s] = NoChar /\ \A r \in Slots \ {s} : v.ch[r] = w.ch[r]
  BY <1>1, <1>3
<1>5. \A i \in Items : v.it[i] = Nowhere \/ v.it[i] = w.it[i]
  BY <1>3
<1>6. Typed(v)
  <2>1. Sound(v, NoItem)
    BY <1>2, DestroyedSafe
  <2> QED
    BY <2>1, TypedTables, EntryTypes DEF Typed, Sound
<1>7. v.ch[s].gold \in Nat /\ v.ch[s].gold <= w.ch[s].gold /\ v.ch[s].who = Vacant
  BY <1>4 DEF Moneyed, NoChar
<1> QED
  BY <1>2, <1>4, <1>5, <1>6, <1>7, StrippedFrugal

\* A new body is worth nothing.
LEMMA BodyFrugal ==
    ASSUME NEW v, NEW g \in Items, Sound(Tables, NoItem), Moneyed(Tables), Sound(v, NoItem), it[g].kind = "none",
           v.ch = ch, v.it[g].kind = "body", v.it[g].value = 0, \A j \in Items \ {g} : v.it[j] = it[j]
    PROVE  Frugal(Tables, v)
<1>1. Typed(v) /\ it[g] = Nowhere /\ Tables.ch = ch /\ Tables.it = it
  BY TypedTables, EntryTypes DEF Typed, Sound, LinksSafe, UnusedSafe, Tables
<1>2. /\ \A r \in Slots : v.ch[r].gold \in Nat /\ v.ch[r].gold <= Tables.ch[r].gold
      /\ \A j \in Items : v.it[j].value \in Nat /\ v.it[j].value <= Tables.it[j].value
                          /\ (v.it[j].kind = "money" => v.it[j].value >= 1)
  BY <1>1, NothingTyped DEF Moneyed
<1>3. Moneyed(v)
  BY <1>1, <1>2 DEF Moneyed
<1> QED
  BY <1>1, <1>2, <1>3, LessMoney DEF Frugal, SameWho

\* The gold of the dead is worth as much in his grave.
LEMMA BuriedFrugal ==
    ASSUME NEW w, NEW s \in Slots, NEW g \in Items, Sound(w, NoItem), Moneyed(w),
           w.it[g].kind = "body", w.con[g].items = {}, w.con[g].owner = w.ch[s].who
    PROVE  Frugal(w, Buried(w, s, g))
<1>1. PICK v : v = Buried(w, s, g)
  OBVIOUS
<1>2. Sound(v, NoItem) /\ (SameCoins(w, v) \/ CoinsBuried(w, v, s))
  BY <1>1, BuriedSafe
<1>3. Typed(v)
  BY <1>2, TypedTables, EntryTypes DEF Typed, Sound
<1>4. CASE SameCoins(w, v)
  <2>1. SameMoney(w, v)
    BY <1>3, <1>4 DEF SameCoins, SameMoney
  <2> QED
    BY <1>1, <2>1, SameFrugal
<1>5. CASE CoinsBuried(w, v, s)
  <2>1. PICK m \in Items :
          /\ w.it[m].kind = "none" /\ v.it[m].kind = "money"
          /\ v.it[m].value = w.ch[s].gold /\ w.ch[s].gold # 0 /\ v.ch[s].gold = 0 /\ v.ch[s].who = w.ch[s].who
          /\ \A r \in Slots \ {s} : v.ch[r] = w.ch[r]
          /\ \A i \in Items \ {m} : v.it[i].kind = w.it[i].kind /\ v.it[i].value = w.it[i].value
    BY <1>5 DEF CoinsBuried
  <2>2. w.it[m].value = 0 /\ w.ch[s].gold \in Nat
    <3>1. w.it[m] = Nowhere
      BY <2>1 DEF Sound, LinksSafe, UnusedSafe
    <3> QED
      BY <3>1, NothingTyped DEF Moneyed
  <2>3. /\ \A r \in Slots : v.ch[r].gold \in Nat
        /\ \A i \in Items : v.it[i].value \in Nat /\ (v.it[i].kind = "money" => v.it[i].value >= 1)
    BY <2>1, <2>2 DEF Moneyed
  <2>4. Moneyed(v)
    BY <1>3, <2>3 DEF Moneyed
  <2>5. Coffers(v) <= Coffers(w) + 0
    <3>1. /\ \A r \in Slots \ {s} : v.ch[r].gold <= w.ch[r].gold
          /\ \A i \in Items \ {m} : v.it[i].value <= w.it[i].value
          /\ v.ch[s].gold + v.it[m].value <= w.ch[s].gold + w.it[m].value + 0
      BY <2>1, <2>2 DEF Moneyed
    <3>2. 0 \in Int
      OBVIOUS
    <3> QED
      BY <2>4, <3>1, <3>2, MoneyMoves
  <2>6. Coffers(v) <= Coffers(w)
    BY <2>4, <2>5, CoffersType
  <2> QED
    BY <1>1, <2>1, <2>4, <2>6 DEF Frugal, SameWho
<1> QED
  BY <1>2, <1>4, <1>5

\* Death makes no money: it is in the grave, or lost (death.c).
LEMMA DieThrift ==
    ASSUME NEW s \in Slots, Sound(Tables, NoItem), Moneyed(Tables), Dies(s)
    PROVE  Thrift
<1>1. PICK g : g = AllocIn(Tables)
  OBVIOUS
<1>2. PICK t : t = CHOOSE x \in FreeTiles : \A y \in FreeTiles : x <= y
  OBVIOUS
<1>3. PICK r : r = ch[s].act1
  OBVIOUS
<1>4. PICK killer : killer = IF r = 0 THEN Vacant ELSE ch[r].who
  OBVIOUS
<1>5. PICK v : v = WithGrave(s, g, t, killer)
  OBVIOUS
<1>6. PICK dead : dead = IF g = NoItem \/ FreeTiles = {} THEN Lost(Tables, s) ELSE Buried(v, s, g)
  OBVIOUS
<1>7. Ends(IF Human(s) THEN dead ELSE destroy_char(dead, s), s)
  BY <1>1, <1>2, <1>3, <1>4, <1>5, <1>6 DEF Dies, WithGrave
<1>8. Sound(dead, NoItem) /\ Frugal(Tables, dead)
  <2>1. CASE g = NoItem \/ FreeTiles = {}
    BY <1>6, <2>1, LostSafe, LostFrugal
  <2>2. CASE ~(g = NoItem \/ FreeTiles = {})
    <3>1. g \in Items /\ it[g].kind = "none"
      BY <1>1, <2>2, Allocated DEF Tables
    <3>2. t \in Ground /\ ground[t] = NoItem
      <4>1. FreeTiles \in SUBSET Nat
        BY BelongingsAssumption DEF FreeTiles
      <4>2. \E x \in FreeTiles : \A y \in FreeTiles : x <= y
        BY <2>2, <4>1, LeastNumber
      <4>3. t \in FreeTiles
        BY <1>2, <4>2
      <4> QED
        BY <4>3 DEF FreeTiles
    <3>3. killer \in Bearers
      <4>1. r \in Slots \cup {0}
        BY <1>3, BusyOnes DEF Dies
      <4> QED
        BY <1>4, <4>1, TablesTyped DEF CharType, Bearers
    <3>4. Sound(v, NoItem) /\ v.it[g].kind = "body" /\ v.con[g].items = {} /\ v.con[g].owner = v.ch[s].who
          /\ v.ch = ch /\ v.it[g].value = 0 /\ \A j \in Items \ {g} : v.it[j] = it[j]
      BY <1>5, <3>1, <3>2, <3>3, GraveMade
    <3>5. Frugal(Tables, v)
      BY <3>1, <3>4, BodyFrugal
    <3>6. Sound(Buried(v, s, g), NoItem) /\ Frugal(v, Buried(v, s, g))
      BY <3>1, <3>4, <3>5, BuriedSafe, BuriedFrugal DEF Frugal
    <3> QED
      BY <1>6, <2>2, <3>5, <3>6, FrugalTrans
  <2> QED
    BY <2>1, <2>2
<1>9. CASE Human(s)
  BY <1>7, <1>8, <1>9, ThriftyEnd
<1>10. CASE ~Human(s)
  <2>1. ch[s].who \in Beasts
    BY <1>10, BusyOnes, TablesTyped DEF Dies, Human, CharType, Bearers, Names
  <2>2. dead.ch[s].who \in Beasts \cup {Vacant} /\ Moneyed(dead)
    BY <1>8, <2>1 DEF Frugal, SameWho, Tables
  <2>3. Frugal(Tables, destroy_char(dead, s))
    BY <1>8, <2>2, GoneFrugal, FrugalTrans
  <2> QED
    BY <1>7, <1>10, <2>3, ThriftyEnd
<1> QED
  BY <1>9, <1>10

-----------------------------------------------------------------------------
(* What is saved, and all there is.                                         *)

Purses == [hand : KitKinds, pack : KitKinds, gold : Nat]
Coin(what) == IF what = "money" THEN 1 ELSE 0
Saved == [n \in Names |-> IF In(n) \/ n \in Beasts THEN 0 ELSE KitMoney(kit[n])]
MoneySafe == BelongSafe /\ Moneyed(Tables) /\ \A n \in Names : kit[n] \in Purses

\* Saved money: the gold and up to two items.
LEMMA KitCounts ==
    ASSUME NEW k \in Purses
    PROVE  KitMoney(k) = k.gold + Coin(k.hand) + Coin(k.pack) /\ KitMoney(k) \in Nat
<1>1. PICK S : S = {p \in {"hand", "pack"} : k[p] = "money"}
  OBVIOUS
<1>2. KitMoney(k) = k.gold + Cardinality(S) /\ k.gold \in Nat /\ k["hand"] = k.hand /\ k["pack"] = k.pack
  BY <1>1 DEF KitMoney, Purses
<1>3. /\ Cardinality({}) = 0 /\ Cardinality({"hand"}) = 1 /\ Cardinality({"pack"}) = 1
      /\ Cardinality({"hand"} \cup {"pack"}) = 2
  <2>1. /\ IsFiniteSet({"hand"}) /\ Cardinality({"hand"}) = 1 /\ Cardinality({"pack"}) = 1
    BY FS_Singleton
  <2>2. Cardinality({"hand"} \cup {"pack"}) = Cardinality({"hand"}) + 1
    BY <2>1, FS_AddElement
  <2> QED
    BY <2>1, <2>2, FS_EmptySet
<1>4. CASE k.hand = "money" /\ k.pack = "money"
  <2>1. S = {"hand"} \cup {"pack"}
    BY <1>1, <1>2, <1>4
  <2> QED
    BY <1>2, <1>3, <1>4, <2>1 DEF Coin
<1>5. CASE k.hand = "money" /\ k.pack # "money"
  <2>1. S = {"hand"}
    BY <1>1, <1>2, <1>5
  <2> QED
    BY <1>2, <1>3, <1>5, <2>1 DEF Coin
<1>6. CASE k.hand # "money" /\ k.pack = "money"
  <2>1. S = {"pack"}
    BY <1>1, <1>2, <1>6
  <2> QED
    BY <1>2, <1>3, <1>6, <2>1 DEF Coin
<1>7. CASE k.hand # "money" /\ k.pack # "money"
  <2>1. S = {}
    BY <1>1, <1>2, <1>7
  <2> QED
    BY <1>2, <1>3, <1>7, <2>1 DEF Coin
<1> QED
  BY <1>4, <1>5, <1>6, <1>7

\* What each name has saved is a number.
LEMMA SavedType ==
    ASSUME \A n \in Names : kit[n] \in Purses
    PROVE  \A n \in Names : Saved[n] \in Int
BY KitCounts DEF Saved

\* All the money: in the tables and saved.
LEMMA MoneyIs == Money = Coffers(Tables) + Total(Saved, Names)
<1>1. [s \in Slots |-> ch[s].gold] = Golds(Tables)
  BY DEF Golds, Tables
<1>2. [i \in Items |-> it[i].value] = Values(Tables)
  BY DEF Values, Tables
<1>3. [n \in Names |-> IF In(n) \/ n \in Beasts THEN 0 ELSE KitMoney(kit[n])] = Saved
  BY DEF Saved
<1>4. Money = (Total(Golds(Tables), Slots) + Total(Values(Tables), Items)) + Total(Saved, Names)
  BY <1>1, <1>2, <1>3, Zenon DEF Money
<1> QED
  BY <1>4 DEF Coffers

\* An action that is thrifty and saves nothing makes no money.
LEMMA ThriftMakesNone ==
    ASSUME MoneySafe, Thrift, kit' = kit
    PROVE  Moneyed(Tables)' /\ (\A n \in Names : kit'[n] \in Purses) /\ Money' <= Money
<1>1. \A n \in Names : n \notin Beasts => (In(n)' <=> In(n))
  BY BelongingsAssumption DEF Thrift, In
<1>2. PICK f : f = Saved
  OBVIOUS
<1>3. PICK h : h = Saved'
  OBVIOUS
<1>4. \A n \in Names : h[n] = f[n] /\ f[n] \in Int
  <2>1. \A n \in Names : f[n] \in Int
    BY <1>2, SavedType DEF MoneySafe
  <2>2. ASSUME NEW n \in Names PROVE h[n] = f[n]
    BY <1>1, <1>2, <1>3 DEF Saved
  <2> QED
    BY <2>1, <2>2
<1>5. Total(h, Names) <= Total(f, Names) /\ Total(h, Names) \in Int /\ Total(f, Names) \in Int
  <2>1. \A n \in Names : h[n] \in Int /\ f[n] \in Int /\ h[n] <= f[n]
    BY <1>4
  <2> QED
    BY <2>1, TablesFinite, SumGrows, SumTyped DEF Total
<1>6. PICK a : a = Coffers(Tables)
  OBVIOUS
<1>7. PICK b : b = Coffers(Tables)'
  OBVIOUS
<1>8. a \in Int /\ b \in Int /\ b <= a
  <2>1. a \in Int
    BY <1>6, CoffersType DEF MoneySafe
  <2>2. PICK w : w = Tables'
    OBVIOUS
  <2>3. Moneyed(w) /\ b = Coffers(w)
    BY <1>7, <2>2 DEF Thrift
  <2>4. b \in Int
    BY <2>3, CoffersType
  <2> QED
    BY <1>6, <1>7, <2>1, <2>4 DEF Thrift
<1>9. Money = a + Total(f, Names)
  BY <1>2, <1>6, MoneyIs
<1>10. Money' = b + Total(h, Names)
  <2>1. (Money = Coffers(Tables) + Total(Saved, Names))'
    BY MoneyIs, PTL
  <2> QED
    BY <1>3, <1>7, <2>1
<1>11. Money' <= Money
  BY <1>5, <1>8, <1>9, <1>10
<1> QED
  BY <1>11 DEF Thrift, MoneySafe

\* One purse is d richer.
LEMMA PurseMoves ==
    ASSUME NEW w, NEW v, Moneyed(w), Moneyed(v), NEW s \in Slots, NEW d \in Int,
           \A r \in Slots \ {s} : v.ch[r].gold <= w.ch[r].gold,
           v.ch[s].gold <= w.ch[s].gold + d,
           \A j \in Items : v.it[j].value <= w.it[j].value
    PROVE  Coffers(v) <= Coffers(w) + d
<1>1. /\ \A r \in Slots : Golds(v)[r] \in Int /\ Golds(w)[r] \in Int
      /\ \A r \in Slots \ {s} : Golds(v)[r] <= Golds(w)[r]
  BY CoffersType
<1>2. \A j \in Items : Values(v)[j] \in Int /\ Values(w)[j] \in Int /\ Values(v)[j] <= Values(w)[j]
  BY CoffersType
<1>3. Total(Golds(v), Slots) <= Total(Golds(w), Slots) + (Golds(v)[s] - Golds(w)[s])
  BY <1>1, TablesFinite, SumMoves DEF Total
<1>4. Total(Values(v), Items) <= Total(Values(w), Items)
  BY <1>2, TablesFinite, SumGrows DEF Total
<1>5. /\ Golds(v)[s] = v.ch[s].gold /\ Golds(w)[s] = w.ch[s].gold
      /\ v.ch[s].gold \in Int /\ w.ch[s].gold \in Int
      /\ Total(Golds(v), Slots) \in Int /\ Total(Golds(w), Slots) \in Int
      /\ Total(Values(v), Items) \in Int /\ Total(Values(w), Items) \in Int
  BY CoffersType
<1> QED
  BY <1>3, <1>4, <1>5 DEF Coffers

\* A saved item comes back with its value.
LEMMA RestoredWorth ==
    ASSUME NEW w, NEW s \in Slots, NEW place \in {"hand", "pack"}, NEW what \in KitKinds,
           TableTypes(w), Moneyed(w), what # "none" => FreeIn(w) # {}, TableTypes(Restored(w, s, place, what))
    PROVE  /\ Moneyed(Restored(w, s, place, what))
           /\ Coffers(Restored(w, s, place, what)) <= Coffers(w) + Coin(what)
           /\ \A r \in Slots : Restored(w, s, place, what).ch[r].who = w.ch[r].who
<1>1. CASE what = "none"
  <2>1. Restored(w, s, place, what) = w /\ Coin(what) = 0 /\ Coffers(w) \in Int
    BY <1>1, RestoredCases, CoffersType DEF Coin
  <2> QED
    BY <2>1
<1>2. CASE what # "none"
  <2>1. PICK i \in Items : i = AllocIn(w) /\ w.it[i].kind = "none"
    BY <1>2, Allocated
  <2>2. PICK v : v = Restored(w, s, place, what)
    OBVIOUS
  <2>3. PICK c : c = IF place = "hand" THEN [w.ch[s] EXCEPT !.hand = i] ELSE [w.ch[s] EXCEPT !.pack = i]
    OBVIOUS
  <2>4. PICK n : n = NewItem(what, w.ch[s].who)
    OBVIOUS
  <2>5. v = [ch |-> [w.ch EXCEPT ![s] = c], it |-> [w.it EXCEPT ![i] = n], con |-> w.con, ground |-> w.ground]
    BY <1>2, <2>1, <2>2, <2>3, <2>4, RestoredFields
  <2>6. /\ w.ch \in [Slots -> CharType] /\ w.it \in [Items -> ItemType]
        /\ w.ch[s] \in CharType /\ Typed(v)
    BY <2>2, EntryTypes, TypedTables DEF Typed
  <2>7. c.gold = w.ch[s].gold /\ c.who = w.ch[s].who
    BY <2>3, <2>6 DEF CharType
  <2>8. n.kind = what /\ n.value = Coin(what)
    <3>1. w.ch[s].who \in Bearers
      BY <2>6 DEF CharType
    <3> QED
      BY <2>4, <3>1, NewItemTyped DEF Coin
  <2>9. /\ v.ch[s] = c /\ \A r \in Slots \ {s} : v.ch[r] = w.ch[r]
        /\ v.it[i] = n /\ \A j \in Items \ {i} : v.it[j] = w.it[j]
    BY <2>5, <2>6
  <2>10. Coin(what) \in Nat /\ (what = "money" => Coin(what) >= 1)
    BY DEF Coin
  <2>11. /\ \A r \in Slots : v.ch[r].gold = w.ch[r].gold /\ v.ch[r].gold \in Nat /\ v.ch[r].who = w.ch[r].who
         /\ \A j \in Items : v.it[j].value \in Nat /\ (v.it[j].kind = "money" => v.it[j].value >= 1)
    BY <2>7, <2>8, <2>9, <2>10 DEF Moneyed
  <2>12. Moneyed(v)
    BY <2>6, <2>11 DEF Moneyed
  <2>13. Coffers(v) <= Coffers(w) + Coin(what)
    <3>1. /\ \A r \in Slots \ {s} : v.ch[r].gold <= w.ch[r].gold
          /\ \A j \in Items \ {i} : v.it[j].value <= w.it[j].value
      BY <2>9, <2>11 DEF Moneyed
    <3>2. w.ch[s].gold \in Nat /\ w.it[i].value \in Nat /\ v.ch[s].gold = w.ch[s].gold /\ v.it[i].value = Coin(what)
      BY <2>8, <2>9, <2>11 DEF Moneyed
    <3>3. v.ch[s].gold + v.it[i].value <= w.ch[s].gold + w.it[i].value + Coin(what) /\ Coin(what) \in Int
      BY <2>10, <3>2
    <3> QED
      BY <2>12, <3>1, <3>3, MoneyMoves
  <2> QED
    BY <2>2, <2>11, <2>12, <2>13
<1> QED
  BY <1>1, <1>2

\* Who enters has his gold.
LEMMA EnteredWorth ==
    ASSUME NEW s \in Slots, NEW n \in Names, NEW cash \in Nat, Sound(Tables, NoItem), Moneyed(Tables),
           TableTypes(Entered(s, n, cash))
    PROVE  /\ Moneyed(Entered(s, n, cash)) /\ Coffers(Entered(s, n, cash)) <= Coffers(Tables) + cash
           /\ Entered(s, n, cash).ch[s].who = n
           /\ \A r \in Slots \ {s} : Entered(s, n, cash).ch[r].who = ch[r].who
<1>1. PICK v : v = Entered(s, n, cash)
  OBVIOUS
<1>2. PICK c : c = [NoChar EXCEPT !.who = n, !.gold = cash]
  OBVIOUS
<1>3. c.gold = cash /\ c.who = n
  BY <1>2 DEF NoChar
<1>4. v.ch = [ch EXCEPT ![s] = c] /\ v.it = it
  BY <1>1, <1>2 DEF Entered, Tables
<1>5. ch \in [Slots -> CharType] /\ Tables.ch = ch /\ Tables.it = it /\ Typed(v)
  BY <1>1, TablesTyped, EntryTypes, TypedTables DEF Tables, Typed
<1>6. v.ch[s] = c /\ \A r \in Slots \ {s} : v.ch[r] = ch[r]
  BY <1>4, <1>5
<1>7. /\ \A r \in Slots : ch[r].gold \in Nat
      /\ \A i \in Items : it[i].value \in Nat /\ (it[i].kind = "money" => it[i].value >= 1)
  BY <1>5 DEF Moneyed
<1>8. Moneyed(v)
  BY <1>3, <1>4, <1>5, <1>6, <1>7 DEF Moneyed
<1>9. Coffers(v) <= Coffers(Tables) + cash
  <2>1. /\ \A r \in Slots \ {s} : v.ch[r].gold <= Tables.ch[r].gold
        /\ v.ch[s].gold <= Tables.ch[s].gold + cash
        /\ \A j \in Items : v.it[j].value <= Tables.it[j].value
    BY <1>3, <1>4, <1>5, <1>6, <1>7
  <2>2. cash \in Int
    OBVIOUS
  <2> QED
    BY <1>8, <2>1, <2>2, PurseMoves
<1> QED
  BY <1>1, <1>3, <1>6, <1>8, <1>9

\* A monster's things have the same value without a first owner.
LEMMA UnmarkedWorth ==
    ASSUME NEW w, NEW n \in Names, TableTypes(w), Moneyed(w)
    PROVE  Frugal(w, Unmarked(w, n)) /\ Unmarked(w, n).ch = w.ch
<1>1. PICK v : v = Unmarked(w, n)
  OBVIOUS
<1>2. v.ch = w.ch /\ TableTypes(v) /\ \A i \in Items : v.it[i] = Entry(w, n, i)
  BY <1>1, UnmarkedFields
<1>3. \A i \in Items : Entry(w, n, i).kind = w.it[i].kind /\ Entry(w, n, i).value = w.it[i].value
  <2>1. \A i \in Items : w.it[i] \in ItemType
    BY EntryTypes
  <2> QED
    BY <2>1 DEF Entry, ItemType
<1>4. Typed(v)
  BY <1>2, EntryTypes, TypedTables DEF Typed
<1>5. SameMoney(w, v)
  BY <1>2, <1>3, <1>4 DEF SameMoney
<1> QED
  BY <1>1, <1>2, <1>5, SameFrugal

\* Who enters brings what he had saved, and no more.
LEMMA JoinWorth ==
    ASSUME NEW s \in Slots, NEW n \in Names, MoneySafe, Joins(s, n)
    PROVE  /\ Moneyed(Tables)'
           /\ Coffers(Tables)' <= Coffers(Tables) + KitMoney(kit[n])
           /\ ch'[s].who = n /\ \A r \in Slots \ {s} : ch'[r].who = ch[r].who
<1>0. BelongSafe /\ Sound(Tables, NoItem) /\ Moneyed(Tables) /\ kit[n] \in Purses
  BY DEF MoneySafe, BelongSafe
<1>1. PICK k : k = kit[n]
  OBVIOUS
<1>2. PICK w : w = Entered(s, n, k.gold)
  OBVIOUS
<1>3. PICK u : u = Restored(w, s, "hand", k.hand)
  OBVIOUS
<1>4. PICK v : v = Restored(u, s, "pack", k.pack)
  OBVIOUS
<1>5. PICK z : z = Unmarked(v, n)
  OBVIOUS
<1>6. /\ TableTypes(w) /\ (k.hand # "none" => FreeIn(w) # {})
      /\ TableTypes(u) /\ (k.pack # "none" => FreeIn(u) # {})
      /\ TableTypes(v) /\ TablesBecome(z)
  BY <1>0, <1>1, <1>2, <1>3, <1>4, <1>5, JoinedTables
<1>7. k.gold \in Nat /\ k.hand \in KitKinds /\ k.pack \in KitKinds
  BY <1>0, <1>1 DEF Purses
<1>8. /\ Moneyed(w) /\ Coffers(w) <= Coffers(Tables) + k.gold
      /\ w.ch[s].who = n /\ \A r \in Slots \ {s} : w.ch[r].who = ch[r].who
  <2>1. PICK cash : cash = k.gold
    OBVIOUS
  <2>2. cash \in Nat /\ w = Entered(s, n, cash)
    BY <1>2, <1>7, <2>1
  <2> QED
    BY <1>0, <1>6, <2>1, <2>2, EnteredWorth
<1>9. /\ Moneyed(u) /\ Coffers(u) <= Coffers(w) + Coin(k.hand)
      /\ \A r \in Slots : u.ch[r].who = w.ch[r].who
  <2>1. PICK what : what = k.hand
    OBVIOUS
  <2>2. what \in KitKinds /\ (what # "none" => FreeIn(w) # {}) /\ u = Restored(w, s, "hand", what)
    BY <1>3, <1>6, <1>7, <2>1
  <2> QED
    BY <1>6, <1>8, <2>1, <2>2, RestoredWorth
<1>10. /\ Moneyed(v) /\ Coffers(v) <= Coffers(u) + Coin(k.pack)
       /\ \A r \in Slots : v.ch[r].who = u.ch[r].who
  <2>1. PICK what : what = k.pack
    OBVIOUS
  <2>2. what \in KitKinds /\ (what # "none" => FreeIn(u) # {}) /\ v = Restored(u, s, "pack", what)
    BY <1>4, <1>6, <1>7, <2>1
  <2> QED
    BY <1>6, <1>9, <2>1, <2>2, RestoredWorth
<1>11. Moneyed(z) /\ Coffers(z) <= Coffers(v) /\ z.ch = v.ch
  BY <1>5, <1>6, <1>10, UnmarkedWorth DEF Frugal
<1>12. KitMoney(k) = k.gold + Coin(k.hand) + Coin(k.pack) /\ Coin(k.hand) \in Int /\ Coin(k.pack) \in Int
  BY <1>0, <1>1, KitCounts DEF Coin
<1>13. Coffers(z) <= Coffers(Tables) + KitMoney(k)
  <2>1. /\ Coffers(Tables) \in Int /\ Coffers(w) \in Int /\ Coffers(u) \in Int
        /\ Coffers(v) \in Int /\ Coffers(z) \in Int
    BY <1>0, <1>8, <1>9, <1>10, <1>11, CoffersType
  <2> QED
    BY <1>7, <1>8, <1>9, <1>10, <1>11, <1>12, <2>1
<1>14. Tables' = z
  <2>1. z = [ch |-> z.ch, it |-> z.it, con |-> z.con, ground |-> z.ground]
    BY <1>11 DEF Moneyed, Typed, IsTables
  <2> QED
    BY <1>6, <2>1 DEF TablesBecome, Tables
<1>15. /\ ch' = z.ch
  BY <1>6 DEF TablesBecome
<1>16. ch'[s].who = n /\ \A r \in Slots \ {s} : ch'[r].who = ch[r].who
  BY <1>8, <1>9, <1>10, <1>11, <1>15
<1>17. Moneyed(Tables)' /\ Coffers(Tables)' <= Coffers(Tables) + KitMoney(k)
  BY <1>11, <1>13, <1>14
<1> QED
  BY <1>1, <1>16, <1>17

\* A sum that loses a at x, if that is a summand.
LEMMA SumDrops ==
    ASSUME NEW S, IsFiniteSet(S), NEW f, NEW h, \A y \in S : f[y] \in Int /\ h[y] \in Int,
           NEW x, NEW a \in Int, x \in S => h[x] <= f[x] - a, x \notin S => a = 0,
           \A y \in S \ {x} : h[y] <= f[y]
    PROVE  SumFunctionOnSet(h, S) <= SumFunctionOnSet(f, S) - a
<1>1. SumFunctionOnSet(h, S) \in Int /\ SumFunctionOnSet(f, S) \in Int
  BY SumTyped
<1>2. CASE x \in S
  <2>1. SumFunctionOnSet(h, S) <= SumFunctionOnSet(f, S) + (h[x] - f[x])
    BY <1>2, SumMoves
  <2> QED
    BY <1>1, <1>2, <2>1
<1>3. CASE x \notin S
  <2>1. \A y \in S : h[y] \in Int /\ f[y] \in Int /\ h[y] <= f[y]
    BY <1>3
  <2>2. SumFunctionOnSet(h, S) <= SumFunctionOnSet(f, S)
    BY <2>1, SumGrows
  <2> QED
    BY <1>1, <1>3, <2>2
<1> QED
  BY <1>2, <1>3

\* The same for two summands.
LEMMA SumDropsTwo ==
    ASSUME NEW S, IsFiniteSet(S), NEW f, NEW h, \A z \in S : f[z] \in Int /\ h[z] \in Int,
           NEW x, NEW a \in Int, x \in S => h[x] <= f[x] - a, x \notin S => a = 0,
           NEW y, NEW b \in Int, y \in S => h[y] <= f[y] - b, y \notin S => b = 0,
           x = y => x \notin S,
           \A z \in S \ {x, y} : h[z] <= f[z]
    PROVE  SumFunctionOnSet(h, S) <= SumFunctionOnSet(f, S) - a - b
<1>1. ASSUME NEW k, \A z \in S \ {x} : k[z] = f[z], x \in S => k[x] = h[x]
      PROVE  SumFunctionOnSet(h, S) <= SumFunctionOnSet(f, S) - a - b
  <2>1. \A z \in S : k[z] \in Int
    BY <1>1
  <2>2. SumFunctionOnSet(k, S) <= SumFunctionOnSet(f, S) - a
    <3>1. (x \in S => k[x] <= f[x] - a) /\ \A z \in S \ {x} : k[z] <= f[z]
      BY <1>1
    <3>2. \A z \in S : f[z] \in Int /\ k[z] \in Int
      BY <2>1
    <3> QED
      BY ONLY <3>1, <3>2, SumDrops, IsFiniteSet(S), a \in Int, x \notin S => a = 0
  <2>3. SumFunctionOnSet(h, S) <= SumFunctionOnSet(k, S) - b
    <3>1. (y \in S => h[y] <= k[y] - b) /\ \A z \in S \ {y} : h[z] <= k[z]
      BY <1>1
    <3>2. \A z \in S : k[z] \in Int /\ h[z] \in Int
      BY <2>1
    <3> QED
      BY ONLY <3>1, <3>2, SumDrops, IsFiniteSet(S), b \in Int, y \notin S => b = 0
  <2>4. /\ SumFunctionOnSet(k, S) \in Int /\ SumFunctionOnSet(f, S) \in Int
        /\ SumFunctionOnSet(h, S) \in Int
    BY <2>1, SumTyped
  <2> QED
    BY <2>2, <2>3, <2>4
<1>2. PICK k : k = [z \in S |-> IF z = x THEN h[x] ELSE f[z]]
  OBVIOUS
<1>3. (\A z \in S \ {x} : k[z] = f[z]) /\ (x \in S => k[x] = h[x])
  BY <1>2
<1> QED
  BY <1>1, <1>3

\* Who leaves takes along what is saved for him.
LEMMA QuitWorth ==
    ASSUME NEW s \in Slots, MoneySafe, Quits(s)
    PROVE  /\ Moneyed(Tables)' /\ ch[s].who \in Humans
           /\ kit'[ch[s].who] \in Purses
           /\ Coffers(Tables)' <= Coffers(Tables) - KitMoney(kit'[ch[s].who])
           /\ ch'[s].who = Vacant /\ \A r \in Slots \ {s} : ch'[r].who = ch[r].who
           /\ \A n \in Names \ {ch[s].who} : kit'[n] = kit[n]
<1>1. BelongSafe /\ Sound(Tables, NoItem) /\ Moneyed(Tables) /\ KitSafe
  BY DEF MoneySafe, BelongSafe
<1>2. /\ ch \in [Slots -> CharType] /\ it \in [Items -> ItemType] /\ ch[s] \in CharType
      /\ Tables.ch = ch /\ Tables.it = it
  BY <1>1, TablesTyped DEF Tables
<1>3. PICK v : v = destroy_char(Tables, s)
  OBVIOUS
<1>4. PICK x : x = ch[s].hand
  OBVIOUS
<1>5. PICK y : y = ch[s].pack
  OBVIOUS
<1>6. v.ch = [ch EXCEPT ![s] = NoChar] /\ v.it = [i \in Items |-> IF i \in {x, y} THEN Nowhere ELSE it[i]]
      /\ v = [ch |-> v.ch, it |-> v.it, con |-> v.con, ground |-> v.ground]
  BY <1>3, <1>4, <1>5 DEF destroy_char, Tables
<1>7. v.ch[s] = NoChar /\ \A r \in Slots \ {s} : v.ch[r] = ch[r]
  BY <1>2, <1>6
<1>8. /\ \A i \in Items \ {x, y} : v.it[i] = it[i]
      /\ \A i \in Items \cap {x, y} : v.it[i] = Nowhere
  BY <1>6
<1>9. Tables' = v /\ ch' = v.ch
  BY <1>3, <1>6 DEF Quits, TablesBecome, Tables
<1>10. Typed(v)
  <2>1. Sound(v, NoItem)
    BY <1>1, <1>3, DestroyedSafe
  <2> QED
    BY <2>1, TypedTables, EntryTypes DEF Typed, Sound
<1>11. /\ \A r \in Slots : ch[r].gold \in Nat
       /\ \A i \in Items : it[i].value \in Nat /\ (it[i].kind = "money" => it[i].value >= 1)
  BY <1>1, <1>2 DEF Moneyed
<1>12. /\ \A r \in Slots : v.ch[r].gold \in Nat
       /\ \A i \in Items : v.it[i].value \in Nat /\ (v.it[i].kind = "money" => v.it[i].value >= 1)
  <2>1. NoChar.gold = 0
    BY DEF NoChar
  <2>2. \A i \in Items : v.it[i] = it[i] \/ v.it[i] = Nowhere
    BY <1>8
  <2> QED
    BY <1>7, <1>11, <2>1, <2>2, NothingTyped
<1>13. Moneyed(v)
  BY <1>10, <1>12 DEF Moneyed
<1>14. PICK k : k = [hand |-> KindOf(x), pack |-> KindOf(y), gold |-> ch[s].gold]
  OBVIOUS
<1>15. PICK n : n = ch[s].who
  OBVIOUS
<1>16. n \in Humans /\ n \in Names /\ n # Vacant
  BY <1>15, BelongingsAssumption DEF Quits, Human, Names
<1>17. kit' = [kit EXCEPT ![n] = k] /\ kit = [m \in Names |-> kit[m]]
  BY <1>1, <1>4, <1>5, <1>14, <1>15 DEF Quits, KitSafe
<1>18. kit'[n] = k /\ \A m \in Names \ {n} : kit'[m] = kit[m]
  BY <1>16, <1>17
<1>19. k \in Purses
  <2>1. BelongSafe'
    BY <1>1, QuitSafe
  <2>2. kit'[n] \in [hand : KitKinds, pack : KitKinds, gold : Int]
    BY <1>16, <2>1 DEF BelongSafe, KitSafe
  <2>3. k.gold = ch[s].gold /\ k.hand \in KitKinds /\ k.pack \in KitKinds
    BY <1>14, <1>18, <2>2
  <2>4. k = [hand |-> k.hand, pack |-> k.pack, gold |-> k.gold] /\ k.gold \in Nat
    BY <1>11, <1>14, <2>3
  <2> QED
    BY <2>3, <2>4 DEF Purses
<1>20. x \in Items \cup {NoItem} /\ y \in Items \cup {NoItem} /\ NoItem \notin Items /\ (x = y => x \notin Items)
  BY <1>1, <1>2, <1>4, <1>5, NoItemIsNone DEF CharType, Sound, LinksSafe, OneEach
<1>21. PICK a : a = Coin(KindOf(x))
  OBVIOUS
<1>22. PICK b : b = Coin(KindOf(y))
  OBVIOUS
<1>23. /\ a \in Int /\ (x \notin Items => a = 0) /\ (x \in Items => a <= it[x].value)
       /\ b \in Int /\ (y \notin Items => b = 0) /\ (y \in Items => b <= it[y].value)
  <2>1. ASSUME NEW i \in Items \cup {NoItem}
        PROVE  Coin(KindOf(i)) \in Int /\ (i \notin Items => Coin(KindOf(i)) = 0)
               /\ (i \in Items => Coin(KindOf(i)) <= it[i].value)
    BY <1>11, NoItemIsNone DEF Coin, KindOf
  <2> QED
    BY <1>20, <1>21, <1>22, <2>1
<1>24. PICK cash : cash = ch[s].gold
  OBVIOUS
<1>25. KitMoney(k) = cash + a + b /\ cash \in Nat
  <2>1. KitMoney(k) = k.gold + Coin(k.hand) + Coin(k.pack)
    BY <1>19, KitCounts
  <2>2. k.gold = cash /\ k.hand = KindOf(x) /\ k.pack = KindOf(y)
    BY <1>14, <1>24
  <2> QED
    BY <1>11, <1>21, <1>22, <1>24, <2>1, <2>2
<1>26. Total(Golds(v), Slots) <= Total(Golds(Tables), Slots) - cash
  <2>1. \A r \in Slots : Golds(Tables)[r] = ch[r].gold /\ Golds(Tables)[r] \in Int
                         /\ Golds(v)[r] = v.ch[r].gold /\ Golds(v)[r] \in Int
    BY <1>1, <1>2, <1>13, CoffersType
  <2>2. PICK f : f = Golds(Tables)
    OBVIOUS
  <2>3. PICK h : h = Golds(v)
    OBVIOUS
  <2>4. \A r \in Slots : f[r] \in Int /\ h[r] \in Int
    BY <2>1, <2>2, <2>3
  <2>5. h[s] <= f[s] - cash
    BY <1>7, <1>24, <1>25, <2>1, <2>2, <2>3 DEF NoChar
  <2>6. \A r \in Slots \ {s} : h[r] <= f[r]
    BY <1>7, <2>1, <2>2, <2>3
  <2>7. cash \in Int /\ s \in Slots /\ IsFiniteSet(Slots)
    BY <1>25, TablesFinite
  <2>8. SumFunctionOnSet(h, Slots) <= SumFunctionOnSet(f, Slots) - cash
    BY ONLY <2>4, <2>5, <2>6, <2>7, SumDrops
  <2> QED
    BY <2>2, <2>3, <2>8 DEF Total
<1>27. Total(Values(v), Items) <= Total(Values(Tables), Items) - a - b
  <2>1. \A i \in Items : Values(Tables)[i] = it[i].value /\ Values(Tables)[i] \in Int
                         /\ Values(v)[i] = v.it[i].value /\ Values(v)[i] \in Int
    BY <1>1, <1>2, <1>13, CoffersType
  <2>2. PICK f : f = Values(Tables)
    OBVIOUS
  <2>3. PICK h : h = Values(v)
    OBVIOUS
  <2>4. \A i \in Items : f[i] \in Int /\ h[i] \in Int
    BY <2>1, <2>2, <2>3
  <2>5. (x \in Items => h[x] <= f[x] - a) /\ (y \in Items => h[y] <= f[y] - b)
    <3>1. (x \in Items => h[x] = 0 /\ f[x] = it[x].value) /\ (y \in Items => h[y] = 0 /\ f[y] = it[y].value)
      BY <1>8, <2>1, <2>2, <2>3, NothingTyped
    <3> QED
      BY <1>11, <1>23, <3>1
  <2>6. \A i \in Items \ {x, y} : h[i] <= f[i]
    BY <1>8, <2>1, <2>2, <2>3
  <2>7. IsFiniteSet(Items) /\ (x = y => x \notin Items)
    BY <1>20, TablesFinite
  <2>8. SumFunctionOnSet(h, Items) <= SumFunctionOnSet(f, Items) - a - b
    BY ONLY <1>23, <2>4, <2>5, <2>6, <2>7, SumDropsTwo
  <2> QED
    BY <2>2, <2>3, <2>8 DEF Total
<1>28. Coffers(v) <= Coffers(Tables) - KitMoney(k)
  <2>1. /\ Total(Golds(v), Slots) \in Int /\ Total(Golds(Tables), Slots) \in Int
        /\ Total(Values(v), Items) \in Int /\ Total(Values(Tables), Items) \in Int
    BY <1>1, <1>13, CoffersType
  <2> QED
    BY <1>23, <1>25, <1>26, <1>27, <2>1 DEF Coffers
<1>29. ch'[s].who = Vacant /\ \A r \in Slots \ {s} : ch'[r].who = ch[r].who
  BY <1>7, <1>9 DEF NoChar
<1> QED
  BY <1>9, <1>13, <1>15, <1>16, <1>18, <1>19, <1>28, <1>29

\* What is saved of one name changes by d.
LEMMA OneSaves ==
    ASSUME NEW n \in Names, NEW d \in Int, MoneySafe, Moneyed(Tables)', Coffers(Tables)' <= Coffers(Tables) + d,
           Saved'[n] = Saved[n] - d, \A m \in Names \ {n} : Saved'[m] = Saved[m]
    PROVE  Money' <= Money
<1>1. PICK f : f = Saved
  OBVIOUS
<1>2. PICK h : h = Saved'
  OBVIOUS
<1>3. \A m \in Names : f[m] \in Int
  BY <1>1, SavedType DEF MoneySafe
<1>4. h[n] = f[n] - d /\ \A m \in Names \ {n} : h[m] = f[m]
  BY <1>1, <1>2
<1>5. \A m \in Names : h[m] \in Int
  BY <1>3, <1>4
<1>6. Total(h, Names) <= Total(f, Names) - d /\ Total(h, Names) \in Int /\ Total(f, Names) \in Int
  <2>1. SumFunctionOnSet(h, Names) <= SumFunctionOnSet(f, Names) - d
    <3>1. \A m \in Names : f[m] \in Int /\ h[m] \in Int
      BY <1>3, <1>5
    <3>2. h[n] <= f[n] - d /\ \A m \in Names \ {n} : h[m] <= f[m]
      BY <1>3, <1>4
    <3>3. d \in Int /\ n \in Names /\ IsFiniteSet(Names)
      BY TablesFinite
    <3> QED
      BY ONLY <3>1, <3>2, <3>3, SumDrops
  <2> QED
    BY <1>3, <1>5, <2>1, TablesFinite, SumTyped DEF Total
<1>7. PICK a : a = Coffers(Tables)
  OBVIOUS
<1>8. PICK b : b = Coffers(Tables)'
  OBVIOUS
<1>9. a \in Int /\ b \in Int /\ b <= a + d
  <2>1. a \in Int
    BY <1>7, CoffersType DEF MoneySafe
  <2>2. PICK w : w = Tables'
    OBVIOUS
  <2>3. Moneyed(w) /\ b = Coffers(w)
    BY <1>8, <2>2
  <2>4. b \in Int
    BY <2>3, CoffersType
  <2> QED
    BY <1>7, <1>8, <2>1, <2>4
<1>10. Money = a + Total(f, Names)
  BY <1>1, <1>7, MoneyIs
<1>11. Money' = b + Total(h, Names)
  <2>1. (Money = Coffers(Tables) + Total(Saved, Names))'
    BY MoneyIs, PTL
  <2> QED
    BY <1>2, <1>8, <2>1
<1> QED
  BY <1>6, <1>9, <1>10, <1>11

\* Nobody makes money by leaving.
LEMMA QuitMoney ==
    ASSUME NEW s \in Slots, MoneySafe, Quits(s)
    PROVE  Moneyed(Tables)' /\ (\A n \in Names : kit'[n] \in Purses) /\ Money' <= Money
<1>1. PICK n : n = ch[s].who
  OBVIOUS
<1>2. /\ Moneyed(Tables)' /\ n \in Humans /\ kit'[n] \in Purses
      /\ Coffers(Tables)' <= Coffers(Tables) - KitMoney(kit'[n])
      /\ ch'[s].who = Vacant /\ (\A r \in Slots \ {s} : ch'[r].who = ch[r].who)
      /\ \A m \in Names \ {n} : kit'[m] = kit[m]
  BY <1>1, QuitWorth
<1>3. n \in Names /\ n \notin Beasts /\ Vacant \notin Names
  BY <1>2, BelongingsAssumption DEF Names
<1>4. In(n) /\ ~In(n)'
  <2>1. \A r \in Slots \ {s} : ch[r].who # n
    BY <1>1, <1>3 DEF MoneySafe, BelongSafe, Sound, LinksSafe, OneEach, Tables
  <2> QED
    BY <1>1, <1>2, <1>3, <2>1 DEF In
<1>5. \A m \in Names \ {n} : In(m)' <=> In(m)
  BY <1>1, <1>2, <1>3 DEF In
<1>6. Saved[n] = 0 /\ Saved'[n] = KitMoney(kit'[n]) /\ KitMoney(kit'[n]) \in Nat
  BY <1>2, <1>3, <1>4, KitCounts DEF Saved
<1>7. \A m \in Names \ {n} : Saved'[m] = Saved[m]
  BY <1>2, <1>5 DEF Saved
<1>8. PICK d : d = 0 - KitMoney(kit'[n])
  OBVIOUS
<1>9. d \in Int /\ Saved'[n] = Saved[n] - d /\ Coffers(Tables)' <= Coffers(Tables) + d
  <2>1. Coffers(Tables) \in Int
    BY CoffersType DEF MoneySafe
  <2> QED
    BY <1>2, <1>6, <1>8, <2>1
<1>10. Money' <= Money
  BY <1>2, <1>3, <1>7, <1>9, OneSaves
<1> QED
  BY <1>2, <1>10 DEF MoneySafe

\* No player makes money by entering.
LEMMA JoinMoney ==
    ASSUME NEW s \in Slots, NEW n \in Names, MoneySafe, Joins(s, n)
    PROVE  /\ Moneyed(Tables)' /\ \A m \in Names : kit'[m] \in Purses
           /\ Money' <= Money \/ (ch'[s].who \in Beasts /\ ch[s].who = Vacant)
<1>1. /\ Moneyed(Tables)' /\ Coffers(Tables)' <= Coffers(Tables) + KitMoney(kit[n])
      /\ ch'[s].who = n /\ \A r \in Slots \ {s} : ch'[r].who = ch[r].who
  BY JoinWorth
<1>2. kit' = kit /\ ch[s].who = Vacant /\ ~In(n) /\ n # Vacant
  BY BelongingsAssumption DEF Joins, There, In
<1>3. CASE n \in Beasts
  BY <1>1, <1>2, <1>3 DEF MoneySafe
<1>4. CASE n \notin Beasts
  <2>1. In(n)'
    BY <1>1 DEF In
  <2>2. \A m \in Names \ {n} : In(m)' <=> In(m)
    BY <1>1, <1>2, BelongingsAssumption DEF In
  <2>3. Saved[n] = KitMoney(kit[n]) /\ Saved'[n] = 0 /\ KitMoney(kit[n]) \in Nat
    BY <1>2, <1>4, <2>1, KitCounts DEF Saved, MoneySafe
  <2>4. \A m \in Names \ {n} : Saved'[m] = Saved[m]
    BY <1>2, <2>2 DEF Saved
  <2>5. PICK d : d = KitMoney(kit[n])
    OBVIOUS
  <2>6. d \in Int /\ Saved'[n] = Saved[n] - d /\ Coffers(Tables)' <= Coffers(Tables) + d
    BY <1>1, <2>3, <2>5
  <2>7. Money' <= Money
    BY <1>1, <2>4, <2>6, OneSaves
  <2> QED
    BY <1>1, <1>2, <2>7 DEF MoneySafe
<1> QED
  BY <1>3, <1>4

\* All the money is a number.
LEMMA MoneyTyped == MoneySafe => Money \in Int
<1> SUFFICES ASSUME MoneySafe PROVE Money \in Int
  OBVIOUS
<1>1. Coffers(Tables) \in Int
  BY CoffersType DEF MoneySafe
<1>2. Total(Saved, Names) \in Int
  BY SavedType, TablesFinite, SumTyped DEF Total, MoneySafe
<1> QED
  BY <1>1, <1>2, MoneyIs

\* In the beginning nobody has debts.
LEMMA MoneyStarts == BelongInit => MoneySafe
<1> SUFFICES ASSUME BelongInit PROVE MoneySafe
  OBVIOUS
<1>1. BelongSafe
  BY BelongStarts
<1>2. Typed(Tables)
  BY <1>1, TypedTables, EntryTypes DEF Typed, BelongSafe, Sound
<1>3. /\ \A r \in Slots : Tables.ch[r].gold = 0
      /\ \A i \in Items : Tables.it[i].value = 0 /\ Tables.it[i].kind = "none"
  BY DEF BelongInit, Tables, NoChar, Nowhere
<1>4. Moneyed(Tables)
  BY <1>2, <1>3 DEF Moneyed
<1>5. \A n \in Names : kit[n] \in Purses
  BY BelongingsAssumption DEF BelongInit, Purses
<1> QED
  BY <1>1, <1>4, <1>5 DEF MoneySafe

\* What a step may do to the money.
MoneyKept ==
    /\ Moneyed(Tables)' /\ \A n \in Names : kit'[n] \in Purses
    /\ Money' <= Money \/ \E s \in Slots : ch'[s].who \in Beasts /\ ch[s].who = Vacant

\* An action that saves nothing and is thrifty.
LEMMA ThriftKept ==
    ASSUME MoneySafe, Thrift, kit' = kit
    PROVE  MoneyKept
BY ThriftMakesNone DEF MoneyKept

\* Every step of the area keeps the money.
LEMMA MoneyStep ==
    ASSUME MoneySafe, BelongNext
    PROVE  MoneyKept
<1>1. Sound(Tables, NoItem) /\ Moneyed(Tables) /\ BelongSafe
  BY DEF MoneySafe, BelongSafe
<1>2. Sound(Tables, NoItem)'
  BY <1>1, BelongStep DEF BelongSafe
<1>4. ASSUME NEW s \in Slots, NEW n \in Names, Joins(s, n) PROVE MoneyKept
  BY <1>4, JoinMoney DEF MoneyKept
<1>5. ASSUME NEW s \in Slots, Quits(s) PROVE MoneyKept
  BY <1>5, QuitMoney DEF MoneyKept
<1>6. ASSUME NEW s \in Slots, act_take(s) PROVE MoneyKept
  BY <1>1, <1>6, TakeThrift, ThriftKept DEF act_take, Ends
<1>7. ASSUME NEW s \in Slots, act_drop(s) PROVE MoneyKept
  BY <1>1, <1>7, DropThrift, ThriftKept DEF act_drop, Ends
<1>8. ASSUME NEW s \in Slots, Swaps(s) PROVE MoneyKept
  BY <1>1, <1>8, SwapsThrift, ThriftKept DEF Swaps
<1>9. ASSUME NEW s \in Slots, Dies(s) PROVE MoneyKept
  BY <1>1, <1>9, DieThrift, ThriftKept DEF Dies, Ends
<1>10. ASSUME NEW s \in Slots, NEW moved \in BOOLEAN, act_give(s, moved) PROVE MoneyKept
  BY <1>1, <1>10, GiveThrift, ThriftKept DEF act_give, Ends
<1>11. ASSUME NEW s \in Slots, NEW action, NEW arg, NEW t, Starts(s, action, arg, t) PROVE MoneyKept
  BY <1>1, <1>2, <1>11, StartsThrift, ThriftKept DEF Starts
<1>12. ASSUME NEW s \in Slots, NEW t \in Ground, do_take(s, t) \/ do_drop(s, t) PROVE MoneyKept
  BY <1>11, <1>12 DEF do_take, do_drop
<1>13. ASSUME NEW s \in Slots, NEW r \in Slots, do_give(s, r) PROVE MoneyKept
  BY <1>11, <1>13 DEF do_give
<1>14. ASSUME NEW s \in Slots, NEW r \in Slots, Steals(s, r) PROVE MoneyKept
  BY <1>1, <1>14, StealThrift, ThriftKept DEF Steals
<1>15. ASSUME NEW s \in Slots, NEW r \in {0} \cup Slots, IsKilled(s, r) PROVE MoneyKept
  BY <1>1, <1>2, <1>15, KilledThrift, ThriftKept DEF IsKilled
<1>16. ASSUME NEW s \in Slots, NEW g \in Items, NEW i \in {NoItem} \cup Items, NEW fast \in BOOLEAN, container(s, g, i, fast)
       PROVE MoneyKept
  BY <1>1, <1>16, ContainerThrift, ThriftKept DEF container
<1>17. ASSUME NEW i \in Items, Expires(i) PROVE MoneyKept
  BY <1>1, <1>17, ExpireThrift, ThriftKept DEF Expires
<1>18. ASSUME NEW n \in Humans, NEW m \in Humans, Allows(n, m) PROVE MoneyKept
  BY <1>1, <1>2, <1>18, QuietThrift, ThriftKept DEF Allows
<1> QED
  BY <1>4, <1>5, <1>6, <1>7, <1>8, <1>9, <1>10, <1>12, <1>13, <1>14, <1>15, <1>16, <1>17, <1>18 DEF BelongNext

\* Gold, money items and what is saved (NoMoneyMade): picked up, dropped, given, stolen, buried and taken out of
\* graves, pocketed or saved, it is never more than before, except when a monster comes with what it carries.
THEOREM MoneyOnlyMoves == BelongSpec => NoMoneyMade
<1>1. BelongInit => MoneySafe
  BY MoneyStarts
<1>2. MoneySafe /\ [BelongNext]_belongVars => MoneySafe'
  <2> SUFFICES ASSUME MoneySafe, [BelongNext]_belongVars PROVE MoneySafe'
    OBVIOUS
  <2>1. BelongSafe'
    BY BelongStep DEF MoneySafe
  <2>2. CASE BelongNext
    BY <2>1, <2>2, MoneyStep DEF MoneyKept, MoneySafe
  <2>3. CASE UNCHANGED belongVars
    <3>1. Tables' = Tables /\ kit' = kit
      BY <2>3 DEF belongVars, Tables
    <3>2. Moneyed(Tables)' /\ \A n \in Names : kit'[n] \in Purses
      BY <3>1 DEF MoneySafe
    <3> QED
      BY <2>1, <3>2 DEF MoneySafe
  <2> QED
    BY <2>2, <2>3
<1>3. MoneySafe' => (Money \in Int)'
  BY MoneyTyped, PTL
<1>4. MoneySafe /\ MoneySafe' /\ [BelongNext]_belongVars
      => [Money' > Money => \E s \in Slots : ch'[s].who \in Beasts /\ ch[s].who = Vacant]_belongVars
  <2> SUFFICES ASSUME MoneySafe, MoneySafe', BelongNext, Money' > Money
               PROVE  \E s \in Slots : ch'[s].who \in Beasts /\ ch[s].who = Vacant
    OBVIOUS
  <2>1. MoneyKept
    BY MoneyStep
  <2>2. Money \in Int
    BY MoneyTyped
  <2>3. Money' \in Int
    BY <1>3
  <2> QED
    BY <2>1, <2>2, <2>3 DEF MoneyKept
<1> QED
  BY <1>1, <1>2, <1>4, PTL DEF BelongSpec, NoMoneyMade
=============================================================================
