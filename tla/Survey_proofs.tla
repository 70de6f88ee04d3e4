---------------------------- MODULE Survey_proofs ----------------------------
(***************************************************************************)
(* The station survey: what a merged report says, and the lookahead that   *)
(* is taken from it, for every value of the constants; and the types of    *)
(* all parts on the way of a track.                                        *)
(***************************************************************************)
EXTENDS Tracks_proofs, RailDataToken_proofs

-----------------------------------------------------------------------------
(* Finite sets of numbers have a greatest and a least member.              *)

LEMMA GreatestThere ==
  ASSUME NEW S \in SUBSET Int, IsFiniteSet(S), S # {}
  PROVE  \E x \in S : \A y \in S : y <= x
<1> DEFINE Open(U) == U # {} /\ ~\E x \in U : \A y \in U : y <= x
           sizes == {n \in Nat : \E U \in SUBSET S : Cardinality(U) = n /\ Open(U)}
<1> SUFFICES ASSUME Open(S) PROVE FALSE
  OBVIOUS
<1>1. Cardinality(S) \in sizes
  BY FS_CardinalityType
<1>2. sizes \in SUBSET Nat
  OBVIOUS
<1>3. PICK n \in sizes : \A m \in sizes : ~(m < n)
  <2> HIDE DEF sizes
  <2> QED
    BY <1>1, <1>2, SmallestMember
<1>4. PICK U \in SUBSET S : Cardinality(U) = n /\ Open(U)
  BY <1>3
<1>5. PICK u \in U : TRUE
  BY <1>4
<1> DEFINE V == U \ {u}
<1>6. IsFiniteSet(U) /\ IsFiniteSet(V) /\ Cardinality(V) = n - 1
  BY <1>4, <1>5, FS_Subset, FS_RemoveElement
<1>7. Cardinality(V) \in Nat /\ n \in Nat
  BY <1>2, <1>3, <1>6, FS_CardinalityType
<1>8. ~Open(V)
  <2>1. n - 1 \notin sizes
    <3> HIDE DEF sizes, V
    <3> QED
      BY <1>3, <1>6, <1>7
  <2>2. n - 1 \in Nat /\ V \in SUBSET S
    BY <1>6, <1>7
  <2> HIDE DEF V, Open
  <2> QED
    BY <1>6, <2>1, <2>2
<1>9. CASE V = {}
  <2>1. U = {u} /\ u \in Int
    BY <1>5, <1>9
  <2> QED
    BY <1>4, <2>1
<1>10. CASE V # {}
  <2>1. PICK v \in V : \A y \in V : y <= v
    BY <1>8, <1>10
  <2>2. u \in Int /\ v \in Int /\ v \in U /\ \A y \in U : y \in V \/ y = u
    BY <1>5, <2>1
  <2>3. CASE u <= v
    BY <1>4, <2>1, <2>2, <2>3
  <2>4. CASE v <= u
    BY <1>4, <1>5, <2>1, <2>2, <2>4
  <2> QED
    BY <2>2, <2>3, <2>4
<1> QED
  BY <1>9, <1>10

LEMMA SurveyMax ==
  ASSUME NEW S \in SUBSET Int, IsFiniteSet(S), S # {}
  PROVE  Survey!Max(S) \in S /\ \A y \in S : y <= Survey!Max(S)
<1>1. \E x \in S : \A y \in S : x >= y
  BY GreatestThere
<1> QED
  BY <1>1 DEF Survey!Max

(* An image of a finite set is finite.                                     *)
LEMMA ImageFinite ==
  ASSUME NEW S, IsFiniteSet(S), NEW f, DOMAIN f = S
  PROVE  IsFiniteSet({f[x] : x \in S})
<1> DEFINE T == {f[x] : x \in S}
           g == [x \in S |-> f[x]]
<1>1. g \in Surjection(S, T)
  BY DEF Surjection
<1> QED
  BY <1>1, FS_Surjection

LEMMA SurveyMin ==
  ASSUME NEW S \in SUBSET Int, IsFiniteSet(S), S # {}
  PROVE  Survey!Min(S) \in S /\ \A y \in S : Survey!Min(S) <= y
<1> DEFINE f == [x \in S |-> -x]
           T == {f[x] : x \in S}
<1>1. IsFiniteSet(T)
  BY ImageFinite
<1>2. T \in SUBSET Int /\ T # {}
  <2>1. \A x \in S : f[x] \in Int
    OBVIOUS
  <2>2. PICK x \in S : TRUE
    OBVIOUS
  <2> HIDE DEF f
  <2> QED
    BY <2>1, <2>2
<1>3. PICK m \in T : \A y \in T : y <= m
  <2> HIDE DEF T
  <2> QED
    BY <1>1, <1>2, GreatestThere
<1>4. PICK x \in S : m = -x
  OBVIOUS
<1>5. \A y \in S : -y \in T /\ -y <= -x
  BY <1>3, <1>4
<1>6. \A y \in S : x <= y
  BY <1>5
<1>7. \E z \in S : \A y \in S : z <= y
  BY <1>6
<1> QED
  BY <1>7 DEF Survey!Min

LEMMA SurveyCardinality ==
  ASSUME NEW S PROVE Survey!Cardinality(S) = Cardinality(S)
  BY DEF Survey!Cardinality, Cardinality

LEMMA SurveyPeriods ==
  /\ None \notin Int /\ Minute \in Nat /\ Minute # 0
  /\ HotLead \in Nat /\ SurveyBefore \in Nat /\ SurveyHot \in Nat
  /\ \A g \in Globals : g.before \in Nat /\ g.hot \in Nat
  /\ MinBefore \in Nat /\ MaxBefore \in Nat /\ ObservedCount \in Nat
  /\ MinBefore <= MaxBefore /\ SurveyBefore < MaxBefore
  BY PartsAssumption DEF Survey!SurveyConstants

LEMMA MaxOfTwo ==
  ASSUME NEW x \in Int, NEW y \in Int
  PROVE  /\ Survey!Max({x, y}) \in Int
         /\ x <= Survey!Max({x, y}) /\ y <= Survey!Max({x, y})
         /\ Survey!Max({x, y}) = x \/ Survey!Max({x, y}) = y
<1>1. \E z \in {x, y} : \A u \in {x, y} : z >= u
  OBVIOUS
<1> QED
  BY <1>1 DEF Survey!Max

LEMMA MinOfTwo ==
  ASSUME NEW x \in Int, NEW y \in Int
  PROVE  /\ Survey!Min({x, y}) \in Int
         /\ Survey!Min({x, y}) <= x /\ Survey!Min({x, y}) <= y
         /\ Survey!Min({x, y}) = x \/ Survey!Min({x, y}) = y
<1>1. \E z \in {x, y} : \A u \in {x, y} : z <= u
  OBVIOUS
<1> QED
  BY <1>1 DEF Survey!Min

-----------------------------------------------------------------------------
(* Rows and their leads                                                    *)

LEMMA PostedSide ==
  ASSUME NEW r \in Survey!Row, NEW n \in Survey!Posted(r)
  PROVE  n \in Survey!Sides /\ r.sides[n] \in Survey!Side /\ r.sides[n] # None
  BY DEF Survey!Row, Survey!Document, Survey!Posted, Survey!Present

LEMMA SideLeadType ==
  ASSUME NEW side \in Survey!Side
  PROVE  Survey!SideLead(side) \in Int \cup {None}
<1>1. Survey!Clock(side) \in Int \cup {None} /\ side.asOf \in Int \cup {None}
  BY DEF Survey!Side, Survey!Time, Survey!Clock
<1>2. CASE None \in {side.track, side.asOf, Survey!Clock(side)}
  BY <1>2 DEF Survey!SideLead
<1>3. CASE None \notin {side.track, side.asOf, Survey!Clock(side)}
  BY <1>1, <1>3 DEF Survey!SideLead
<1> QED
  BY <1>2, <1>3

(* The lead of a row covers those of its sides.                            *)
LEMMA RowLeadCovers ==
  ASSUME NEW r \in Survey!Row
  PROVE  /\ Survey!RowLead(r) \in Int \cup {None}
         /\ \A n \in Survey!Posted(r) : Survey!SideLead(r.sides[n]) # None =>
              /\ Survey!RowLead(r) # None
              /\ Survey!SideLead(r.sides[n]) <= Survey!RowLead(r)
<1> DEFINE leads == {Survey!SideLead(r.sides[n]) : n \in Survey!Posted(r)} \ {None}
           both == {Survey!SideLead(r.sides["arrival"]),
                    Survey!SideLead(r.sides["departure"])}
<1>1. leads \subseteq both
  BY PostedSide DEF Survey!Sides
<1>2. IsFiniteSet(both)
  <2> DEFINE a == Survey!SideLead(r.sides["arrival"])
             d == Survey!SideLead(r.sides["departure"])
  <2>1. both = {a} \cup {d}
    OBVIOUS
  <2> HIDE DEF a, d, both
  <2> QED
    BY <2>1, FS_Singleton, FS_AddElement
<1>3. IsFiniteSet(leads)
  <2> HIDE DEF leads, both
  <2> QED
    BY <1>1, <1>2, FS_Subset
<1>4. leads \subseteq Int
  <2> SUFFICES ASSUME NEW n \in Survey!Posted(r), Survey!SideLead(r.sides[n]) # None
               PROVE  Survey!SideLead(r.sides[n]) \in Int
    OBVIOUS
  <2> QED
    BY PostedSide, SideLeadType
<1>5. Survey!RowLead(r) = IF leads = {} THEN None ELSE Survey!Max(leads)
  BY DEF Survey!RowLead
<1>6. \A n \in Survey!Posted(r) :
        Survey!SideLead(r.sides[n]) # None => Survey!SideLead(r.sides[n]) \in leads
  OBVIOUS
<1> HIDE DEF leads
<1>7. leads # {} => Survey!Max(leads) \in leads /\ \A y \in leads : y <= Survey!Max(leads)
  BY <1>3, <1>4, SurveyMax
<1> QED
  BY <1>4, <1>5, <1>6, <1>7, SurveyPeriods

-----------------------------------------------------------------------------
(* The profile                                                             *)

(* A finite set of leads with their train-days.                            *)
Paired(leads) == IsFiniteSet(leads) /\ \A l \in leads : l[2] \in Int

LEMMA LeadsPaired ==
  ASSUME NEW stops, IsFiniteSet(stops), stops \subseteq Survey!Row, NEW s
  PROVE  Paired(Survey!Leads(stops, s)) /\ Paired(Survey!LeadsChosen(stops, s))
<1> DEFINE long == {r \in Survey!WithTrack(stops, s) : Survey!RowLead(r) # None}
           chosen == {r \in Survey!WithTrack(stops, s) : Survey!ChosenLead(r) # None}
           f == [r \in long |-> <<r.train, Survey!RowLead(r)>>]
           g == [r \in chosen |-> <<r.train, Survey!ChosenLead(r)>>]
<1>1. long \subseteq stops /\ chosen \subseteq stops
  BY DEF Survey!WithTrack, Survey!Live
<1>2. IsFiniteSet(long) /\ IsFiniteSet(chosen)
  BY <1>1, FS_Subset
<1>3. /\ Survey!Leads(stops, s) = {f[r] : r \in long}
      /\ Survey!LeadsChosen(stops, s) = {g[r] : r \in chosen}
  BY DEF Survey!Leads, Survey!LeadsChosen
<1>4. \A r \in long : f[r][2] \in Int
  BY <1>1, RowLeadCovers
<1>5. \A r \in chosen : g[r][2] \in Int
  <2> SUFFICES ASSUME NEW r \in chosen PROVE Survey!ChosenLead(r) \in Int
    OBVIOUS
  <2>1. r \in Survey!Row /\ Survey!ChosenLead(r) # None
    BY <1>1
  <2>2. \A n \in Survey!Posted(r) : Survey!SideLead(r.sides[n]) \in Int \cup {None}
    BY <2>1, PostedSide, SideLeadType
  <2> QED
    BY <2>1, <2>2 DEF Survey!ChosenLead
<1>6. DOMAIN f = long /\ DOMAIN g = chosen
  OBVIOUS
<1> HIDE DEF f, g, long, chosen
<1>7. IsFiniteSet({f[r] : r \in long}) /\ IsFiniteSet({g[r] : r \in chosen})
  BY <1>2, <1>6, ImageFinite
<1> QED
  BY <1>3, <1>4, <1>5, <1>7 DEF Paired

(* The value at a place among the leads in order.                          *)
LEMMA RankedThere ==
  ASSUME NEW leads, Paired(leads), NEW k \in 1 .. Cardinality(leads)
  PROVE  Survey!Ranked(leads, k) \in Int
<1> DEFINE values == {l[2] : l \in leads}
           Below(v) == {l \in leads : l[2] < v}
           UpTo(v) == {l \in leads : l[2] <= v}
           reached == {v \in values : k <= Cardinality(UpTo(v))}
<1>1. /\ values \in SUBSET Int /\ Cardinality(leads) \in Nat
      /\ k \in Nat /\ 1 <= k /\ k <= Cardinality(leads)
  BY FS_CardinalityType DEF Paired
<1>2. IsFiniteSet(values)
  <2> DEFINE f == [l \in leads |-> l[2]]
  <2>1. values = {f[l] : l \in leads} /\ DOMAIN f = leads
    OBVIOUS
  <2> HIDE DEF f, values
  <2> QED
    BY <2>1, ImageFinite DEF Paired
<1>3. \A v : /\ IsFiniteSet(Below(v)) /\ Cardinality(Below(v)) \in Nat
             /\ IsFiniteSet(UpTo(v)) /\ Cardinality(UpTo(v)) \in Nat
  BY FS_Subset, FS_CardinalityType DEF Paired
<1>4. reached # {}
  <2>1. leads # {}
    BY <1>1, FS_EmptySet
  <2>2. values # {}
    BY <2>1
  <2>3. PICK v \in values : \A u \in values : u <= v
    <3> HIDE DEF values
    <3> QED
      BY <1>1, <1>2, <2>2, GreatestThere
  <2>4. UpTo(v) = leads
    BY <2>3
  <2> QED
    BY <1>1, <2>3, <2>4
<1>5. PICK v \in reached : \A u \in reached : v <= u
  <2>1. reached \in SUBSET Int /\ IsFiniteSet(reached)
    BY <1>1, <1>2, FS_Subset
  <2> HIDE DEF reached
  <2> QED
    BY <1>4, <2>1, SurveyMin
<1>6. Cardinality(Below(v)) < k
  <2> DEFINE lower == {u \in values : u < v}
  <2>1. CASE lower = {}
    <3>1. Below(v) = {}
      BY <2>1
    <3> QED
      BY <1>1, <3>1, FS_EmptySet
  <2>2. CASE lower # {}
    <3>1. lower \in SUBSET Int /\ IsFiniteSet(lower)
      BY <1>1, <1>2, FS_Subset
    <3>2. PICK w \in lower : \A u \in lower : u <= w
      <4> HIDE DEF lower
      <4> QED
        BY <2>2, <3>1, GreatestThere
    <3>3. Below(v) = UpTo(w)
      <4>1. v \in Int /\ w \in Int /\ w < v /\ \A l \in leads : l[2] \in Int
        BY <1>1, <3>2 DEF Paired
      <4>2. \A l \in leads : l[2] < v => l[2] \in lower
        OBVIOUS
      <4>3. \A l \in leads : l[2] < v <=> l[2] <= w
        <5> HIDE DEF lower
        <5> QED
          BY <3>2, <4>1, <4>2
      <4> QED
        BY <4>3
    <3>4. w \in values /\ w < v /\ v \in Int /\ w \in Int
      BY <1>1, <3>2
    <3>5. w \notin reached
      <4> HIDE DEF reached
      <4> QED
        BY <1>5, <3>4
    <3>6. ~(k <= Cardinality(UpTo(w)))
      BY <3>4, <3>5
    <3> HIDE DEF Below, UpTo
    <3> QED
      BY <1>1, <1>3, <3>3, <3>6
  <2> QED
    BY <2>1, <2>2
<1>7. \E u \in values : /\ Survey!Cardinality(Below(u)) < k
                        /\ k <= Survey!Cardinality(UpTo(u))
  BY <1>5, <1>6, SurveyCardinality
<1>8. Survey!Ranked(leads, k) \in values
  BY <1>7 DEF Survey!Ranked
<1> QED
  BY <1>1, <1>8

LEMMA Halves ==
  \A n \in Nat : /\ n \div 2 \in Nat /\ n % 2 \in {0, 1}
                 /\ n = 2 * (n \div 2) + (n % 2)
  OBVIOUS

LEMMA HalfInt == \A n \in Int : n \div 2 \in Int
  OBVIOUS

LEMMA MedianInt ==
  ASSUME NEW leads, Paired(leads), leads # {}
  PROVE  Survey!Median(leads) \in Int
<1> DEFINE n == Cardinality(leads)
           low == Survey!Ranked(leads, n \div 2)
           high == Survey!Ranked(leads, n \div 2 + 1)
<1>1. n \in Nat /\ n # 0
  BY FS_CardinalityType, FS_EmptySet DEF Paired
<1>2. Survey!Median(leads) =
        IF n % 2 = 1 THEN high
        ELSE IF (low + high) % 2 = 1 /\ low + high > 0 THEN ((low + high) \div 2) + 1
        ELSE (low + high) \div 2
  BY SurveyCardinality DEF Survey!Median
<1>3. CASE n % 2 = 1
  <2>1. n \div 2 + 1 \in 1 .. n
    <3> HIDE DEF n
    <3> QED
      BY <1>1, <1>3, Halves
  <2>2. high \in Int
    BY <2>1, RankedThere
  <2> QED
    BY <1>2, <1>3, <2>2
<1>4. CASE n % 2 # 1
  <2>1. n \div 2 \in 1 .. n /\ n \div 2 + 1 \in 1 .. n
    <3> HIDE DEF n
    <3> QED
      BY <1>1, <1>4, Halves
  <2>2. low \in Int /\ high \in Int
    BY <2>1, RankedThere
  <2> HIDE DEF low, high, n
  <2> QED
    BY <1>2, <1>4, <2>2, HalfInt
<1> QED
  BY <1>3, <1>4

LEMMA Division ==
  ASSUME NEW a \in Nat, NEW m \in Nat, m # 0
  PROVE  /\ a \div m \in Nat
         /\ (a \div m) * m <= a /\ a < (a \div m) * m + m
  OBVIOUS

LEMMA CeilCovers ==
  ASSUME NEW a \in Int
  PROVE  Survey!CeilMinute(a) \in Nat /\ a <= Survey!CeilMinute(a)
<1> USE SurveyPeriods
<1>1. CASE a <= 0
  BY <1>1 DEF Survey!CeilMinute
<1>2. CASE a > 0
  <2> DEFINE b == a + Minute - 1
             q == b \div Minute
  <2>1. b \in Nat /\ Survey!CeilMinute(a) = q * Minute
    BY <1>2 DEF Survey!CeilMinute
  <2>2. q \in Nat /\ b < q * Minute + Minute
    <3> HIDE DEF b
    <3> QED
      BY <2>1, Division
  <2>3. q * Minute \in Nat
    BY <2>2
  <2> DEFINE p == q * Minute
  <2> HIDE DEF p, q
  <2> QED
    BY <2>1, <2>2, <2>3, <1>2 DEF p
<1> QED
  BY <1>1, <1>2

(* A suggestion covers the lead it is for, as far as it may.               *)
LEMMA BeforeCovers ==
  ASSUME NEW lead \in Int, lead > 0
  PROVE  /\ Survey!SuggestedBefore(lead) \in Int
         /\ \/ lead <= Survey!SuggestedBefore(lead)
            \/ Survey!SuggestedBefore(lead) = MaxBefore
<1> DEFINE room == Survey!Max({Minute, (lead + 9) \div 10})
           wanted == Survey!CeilMinute(lead + room)
           capped == Survey!Min({MaxBefore, wanted})
<1> USE SurveyPeriods
<1>1. room \in Int /\ Minute <= room
  <2> DEFINE tenth == (lead + 9) \div 10
  <2>1. tenth \in Int /\ Minute \in Int
    OBVIOUS
  <2> HIDE DEF tenth
  <2>2. Survey!Max({Minute, tenth}) \in Int /\ Minute <= Survey!Max({Minute, tenth})
    BY <2>1, MaxOfTwo
  <2> QED
    BY <2>2 DEF tenth
<1>2. wanted \in Nat /\ lead <= wanted
  <2> HIDE DEF room
  <2>1. lead + room \in Int /\ lead <= lead + room
    BY <1>1
  <2>2. wanted \in Nat /\ lead + room <= wanted
    BY <2>1, CeilCovers
  <2> HIDE DEF wanted
  <2> QED
    BY <1>1, <2>1, <2>2
<1>3. Survey!SuggestedBefore(lead) = Survey!Max({MinBefore, capped})
  BY DEF Survey!SuggestedBefore
<1> HIDE DEF wanted
<1>4. capped \in Int /\ capped <= MaxBefore /\ (capped = MaxBefore \/ capped = wanted)
  <2>1. wanted \in Int /\ MaxBefore \in Int
    BY <1>2
  <2> QED
    BY <2>1, MinOfTwo
<1> HIDE DEF capped
<1>5. /\ Survey!Max({MinBefore, capped}) \in Int
      /\ capped <= Survey!Max({MinBefore, capped})
      /\ MinBefore <= Survey!Max({MinBefore, capped})
      /\ \/ Survey!Max({MinBefore, capped}) = MinBefore
         \/ Survey!Max({MinBefore, capped}) = capped
  <2>1. MinBefore \in Int /\ capped \in Int
    BY <1>4
  <2> QED
    BY ONLY <2>1, MaxOfTwo
<1> QED
  BY <1>2, <1>3, <1>4, <1>5

LEMMA HotNotLess ==
  ASSUME NEW leads, Paired(leads)
  PROVE  Survey!SuggestedHot(leads) = None \/ Survey!SuggestedHot(leads) >= SurveyHot
<1> USE SurveyPeriods
<1>1. CASE leads = {}
  BY <1>1 DEF Survey!SuggestedHot
<1>2. CASE leads # {}
  <2> DEFINE m == Survey!Median(leads)
             ceil == Survey!CeilMinute(Survey!Max({m, 0}))
  <2>1. m \in Int
    BY <1>2, MedianInt
  <2> HIDE DEF m
  <2>2. Survey!Max({m, 0}) \in Int
    <3>1. 0 \in Int
      OBVIOUS
    <3> QED
      BY <2>1, <3>1, MaxOfTwo
  <2>3. ceil \in Int
    BY <2>2, CeilCovers
  <2> HIDE DEF ceil
  <2>4. Survey!Max({SurveyHot, ceil}) >= SurveyHot
    BY <2>3, MaxOfTwo
  <2> QED
    BY <1>2, <2>4 DEF Survey!SuggestedHot, m, ceil
<1> QED
  BY <1>1, <1>2

(* The lookahead of a station, whatever rows it is taken from.             *)
LEMMA WindowReaches ==
  ASSUME NEW stops, IsFiniteSet(stops), stops \subseteq Survey!Row, NEW s,
         NEW global \in Globals
  PROVE  LET row == Survey!Summary(stops, s)
             window == Survey!WindowFor(row, global)
         IN  /\ window.before < global.before => window.before > SurveyBefore
             /\ window.hot < global.hot => window.hot >= SurveyHot
             /\ row.confidence = "observed" =>
                  \A r \in Survey!Live(stops, s) : \A n \in Survey!Posted(r) :
                    \/ Survey!SideLead(r.sides[n]) = None
                    \/ Survey!SideLead(r.sides[n]) <= window.before
                    \/ window.before = MaxBefore
                    \/ /\ window = global /\ global.before < SurveyBefore
                       /\ Survey!SideLead(r.sides[n]) <= SurveyBefore
<1> DEFINE leads == Survey!Leads(stops, s)
           values == {l[2] : l \in leads}
           greatest == Survey!Max(values)
           row == Survey!Summary(stops, s)
           window == Survey!WindowFor(row, global)
<1> USE SurveyPeriods
<1>1. Paired(leads) /\ Paired(Survey!LeadsChosen(stops, s))
  BY LeadsPaired
<1>2. values \in SUBSET Int /\ IsFiniteSet(values)
  <2> DEFINE f == [l \in leads |-> l[2]]
  <2>1. values = {f[l] : l \in leads} /\ DOMAIN f = leads
    OBVIOUS
  <2>2. \A l \in leads : l[2] \in Int
    BY <1>1 DEF Paired
  <2>3. values \in SUBSET Int
    BY <2>2
  <2> HIDE DEF f, values, leads
  <2> QED
    BY <1>1, <2>1, <2>3, ImageFinite DEF Paired
<1>3. leads # {} => greatest \in Int /\ \A l \in leads : l[2] <= greatest
  <2>1. leads # {} => values # {}
    OBVIOUS
  <2>2. \A l \in leads : l[2] \in values
    OBVIOUS
  <2> HIDE DEF values, leads
  <2> QED
    BY <1>2, <2>1, <2>2, SurveyMax
<1>4. row.hot = None \/ row.hot >= SurveyHot
  <2>1. row.hot = Survey!SuggestedHot(Survey!LeadsChosen(stops, s))
    BY DEF Survey!Summary
  <2> QED
    BY <1>1, <2>1, HotNotLess
<1>5. /\ row.before = IF leads = {} THEN None ELSE Survey!SuggestedBefore(greatest)
      /\ row.compared = IF row.before = None THEN "unknown"
                        ELSE IF row.before > SurveyBefore THEN "wider" ELSE "covered"
  BY DEF Survey!Summary
<1>6. \/ leads = {} /\ row.before = None
      \/ leads # {} /\ greatest <= 0 /\ row.before = None
      \/ /\ leads # {} /\ row.before \in Int
         /\ greatest <= row.before \/ row.before = MaxBefore
  <2> HIDE DEF leads, greatest, row
  <2>1. CASE leads = {}
    BY <1>5, <2>1
  <2>2. CASE leads # {} /\ greatest <= 0
    BY <1>5, <2>2 DEF Survey!SuggestedBefore
  <2>3. CASE leads # {} /\ greatest > 0
    BY <1>3, <1>5, <2>3, BeforeCovers
  <2> QED
    BY <1>3, <2>1, <2>2, <2>3
<1> HIDE DEF row
<1>7. \/ /\ row.confidence = "observed" /\ row.compared = "wider" /\ row.before # None
         /\ window.before = row.before
         /\ window.hot = IF row.hot = None THEN global.hot ELSE row.hot
      \/ /\ ~(row.confidence = "observed" /\ row.compared = "wider" /\ row.before # None)
         /\ window = global
  BY DEF Survey!WindowFor
<1> HIDE DEF leads, greatest, window
<1>8. window.before < global.before => window.before > SurveyBefore
  BY <1>5, <1>6, <1>7
<1>9. window.hot < global.hot => window.hot >= SurveyHot
  BY <1>4, <1>7
<1>10. ASSUME row.confidence = "observed", NEW r \in Survey!Live(stops, s),
              NEW n \in Survey!Posted(r), Survey!SideLead(r.sides[n]) # None
       PROVE  \/ Survey!SideLead(r.sides[n]) <= window.before
              \/ window.before = MaxBefore
              \/ /\ window = global /\ global.before < SurveyBefore
                 /\ Survey!SideLead(r.sides[n]) <= SurveyBefore
  <2> DEFINE lead == Survey!SideLead(r.sides[n])
  <2>1. r \in Survey!Row /\ r \in Survey!WithTrack(stops, s)
    BY DEF Survey!WithTrack, Survey!Live
  <2>2. /\ Survey!RowLead(r) # None /\ Survey!RowLead(r) \in Int
        /\ lead <= Survey!RowLead(r) /\ lead \in Int
    BY <1>10, <2>1, RowLeadCovers, PostedSide, SideLeadType
  <2>3. <<r.train, Survey!RowLead(r)>> \in leads
    BY <2>1, <2>2 DEF leads, Survey!Leads
  <2>4. leads # {} /\ Survey!RowLead(r) <= greatest /\ greatest \in Int
    <3>1. <<r.train, Survey!RowLead(r)>>[2] <= greatest
      BY <1>3, <2>3
    <3> QED
      BY <1>3, <2>3, <3>1
  <2> HIDE DEF lead
  <2>5. lead <= greatest
    BY <2>2, <2>4
  <2>6. CASE greatest <= 0 /\ row.before = None
    BY <1>5, <1>7, <2>2, <2>4, <2>5, <2>6 DEF lead
  <2>7. CASE row.before \in Int /\ (greatest <= row.before \/ row.before = MaxBefore)
    <3>1. row.before # None
      BY <2>7
    <3>2. CASE row.before > SurveyBefore
      BY <1>5, <1>7, <1>10, <2>2, <2>4, <2>5, <2>7, <3>1, <3>2 DEF lead
    <3>3. CASE ~(row.before > SurveyBefore)
      <4>1. window = global /\ row.before <= SurveyBefore /\ row.compared = "covered"
        BY <1>5, <1>7, <2>7, <3>1, <3>3
      <4> QED
        BY <2>2, <2>4, <2>5, <2>7, <4>1 DEF lead
    <3> QED
      BY <3>2, <3>3
  <2> QED
    BY <1>6, <2>4, <2>6, <2>7
<1> QED
  BY <1>8, <1>9, <1>10 DEF window, row

-----------------------------------------------------------------------------
(* Merging                                                                 *)

(* Rows with the numbers of their files, of which one was fetched last.    *)
Bucket(b) ==
  /\ IsFiniteSet(b) /\ b # {} /\ b \subseteq Nat \X Survey!Row
  /\ \A x, y \in b : x[1] = y[1] /\ x[2].fetched = y[2].fetched => x = y

RowsOf(b) == {x[2] : x \in b}

LEMMA NewestThere ==
  ASSUME NEW b, Bucket(b)
  PROVE  \E x \in b : /\ Survey!Newest(b) = x[2]
                      /\ \A y \in b : y[2].fetched <= x[2].fetched
<1> DEFINE f == [x \in b |-> x[2].fetched]
           times == {f[x] : x \in b}
<1>1. \A x \in b : x[1] \in Nat /\ x[2] \in Survey!Row /\ x[2].fetched \in Nat
  BY DEF Bucket, Survey!Row
<1>2. PICK last \in times : \A u \in times : u <= last
  <2>1. IsFiniteSet(b) /\ b # {} /\ DOMAIN f = b /\ \A x \in b : f[x] \in Nat
    BY <1>1 DEF Bucket
  <2> HIDE DEF f
  <2>2. IsFiniteSet(times) /\ times # {} /\ times \in SUBSET Int
    BY <2>1, ImageFinite
  <2> HIDE DEF times
  <2> QED
    BY <2>2, GreatestThere
<1>3. \A x \in b : x[2].fetched \in times
  OBVIOUS
<1> DEFINE top == {x \in b : x[2].fetched = last}
           g == [x \in top |-> x[1]]
           numbers == {g[x] : x \in top}
<1>4. top # {}
  BY <1>2
<1>5. PICK k \in numbers : \A u \in numbers : u <= k
  <2>1. /\ IsFiniteSet(top) /\ DOMAIN g = top /\ \A x \in top : g[x] \in Nat
    BY <1>1, FS_Subset DEF Bucket
  <2> HIDE DEF g, top
  <2>2. IsFiniteSet(numbers) /\ numbers # {} /\ numbers \in SUBSET Int
    BY <1>4, <2>1, ImageFinite
  <2> HIDE DEF numbers
  <2> QED
    BY <2>2, GreatestThere
<1>6. PICK x \in top : x[1] = k
  BY <1>5
<1>7. \A y \in top : y[1] <= x[1]
  BY <1>5, <1>6
<1>8. \A y \in b \ {x} : Survey!Older(y, x)
  <2> SUFFICES ASSUME NEW y \in b \ {x} PROVE Survey!Older(y, x)
    OBVIOUS
  <2>1. y[2].fetched <= x[2].fetched /\ x[2].fetched = last
    BY <1>2, <1>3, <1>6
  <2>2. y[2].fetched = last => y[1] <= x[1] /\ y[1] # x[1]
    BY <1>6, <1>7 DEF Bucket
  <2>3. /\ y[1] \in Nat /\ x[1] \in Nat
        /\ y[2].fetched \in Nat /\ x[2].fetched \in Nat
    BY <1>1, <1>6
  <2> HIDE DEF top
  <2> QED
    BY <2>1, <2>2, <2>3 DEF Survey!Older
<1> DEFINE chosen == CHOOSE z \in b : \A y \in b \ {z} : Survey!Older(y, z)
<1>9. chosen \in b /\ \A y \in b \ {chosen} : Survey!Older(y, chosen)
  <2>1. \E z \in b : \A y \in b \ {z} : Survey!Older(y, z)
    BY <1>6, <1>8
  <2> QED
    BY <2>1
<1>10. Survey!Newest(b) = chosen[2]
  BY DEF Survey!Newest
<1> HIDE DEF chosen
<1>11. \A y \in b : y[2].fetched <= chosen[2].fetched
  BY <1>1, <1>9 DEF Survey!Older
<1> QED
  BY <1>9, <1>10, <1>11

-----------------------------------------------------------------------------
(* What a merged row says of the rows it is made of                        *)

StampsOf(R, n, track) ==
  {r.sides[n].asOf :
     r \in {x \in R : n \in Survey!Posted(x) /\ x.sides[n].track = track}} \ {None}

SmallestOf(S) == IF S = {} THEN None ELSE Survey!Min(S)

(* The track went from one number to another and back.                     *)
Wavers(R, n) ==
  \E x, y, z \in {r \in R : n \in Survey!Posted(r)} :
    /\ x.fetched < y.fetched /\ y.fetched < z.fetched
    /\ x.sides[n].track = z.sides[n].track
    /\ x.sides[n].track # y.sides[n].track

(* The last of the rows that show a track.                                 *)
LastShowing(w, R, n) ==
  /\ w \in R /\ n \in Survey!Posted(w)
  /\ \A x \in R : n \in Survey!Posted(x) => x.fetched <= w.fetched

Tells(m, R, n, loose) ==
  \/ n \notin Survey!Posted(m) /\ \A r \in R : n \notin Survey!Posted(r)
  \/ /\ n \in Survey!Posted(m)
     /\ \E w \in R :
          /\ LastShowing(w, R, n)
          /\ m.sides[n].track = w.sides[n].track
          /\ \/ loose /\ Wavers(R, n)
             \/ m.sides[n].asOf = SmallestOf(StampsOf(R, n, w.sides[n].track))

LEMMA MergeSideTells ==
  ASSUME NEW b, Bucket(b), NEW n \in Survey!Sides
  PROVE  LET side == Survey!MergeSide(b, n)
             showing == {x \in b : n \in Survey!Posted(x[2])}
         IN  \/ /\ showing = {}
                /\ side = None \/ (side \in Survey!Side /\ side.track = None)
             \/ /\ showing # {}
                /\ side \in Survey!Side /\ side.track # None
                /\ \E x \in showing :
                     /\ \A y \in showing : y[2].fetched <= x[2].fetched
                     /\ side.track = x[2].sides[n].track
                     /\ side.asOf = SmallestOf(StampsOf(RowsOf(b), n, x[2].sides[n].track))
<1> DEFINE side == Survey!MergeSide(b, n)
           showing == {x \in b : n \in Survey!Posted(x[2])}
           last == IF Survey!Newest(b).sides[n] = None THEN Survey!NoSide
                   ELSE Survey!Newest(b).sides[n]
           track == Survey!Newest(showing).sides[n].track
<1> USE SurveyPeriods
<1>1. Survey!NoSide \in Survey!Side
  BY DEF Survey!NoSide, Survey!Side, Survey!Time
<1>2. last \in Survey!Side
  <2>1. Survey!Newest(b) \in Survey!Row
    BY NewestThere DEF Bucket
  <2>2. Survey!Newest(b).sides[n] \in Survey!Side \cup {None}
    BY <2>1 DEF Survey!Row, Survey!Document
  <2> QED
    BY <1>1, <2>2
<1>3. side = IF \A x \in b : x[2].sides[n] = None THEN None
             ELSE IF showing = {} THEN [last EXCEPT !.track = None, !.asOf = None]
             ELSE [last EXCEPT !.track = track,
                               !.asOf = Survey!EarliestAsOf(b, n, track)]
  BY DEF Survey!MergeSide
<1> HIDE DEF last
<1>4. CASE showing = {}
  <2> DEFINE empty == [last EXCEPT !.track = None, !.asOf = None]
  <2>1. None \in Survey!Time /\ None \in TrackNumbers \cup {None}
    BY DEF Survey!Time
  <2>2. empty \in Survey!Side /\ empty.track = None
    BY <1>2, <2>1 DEF Survey!Side
  <2>3. side = None \/ side = empty
    BY <1>3, <1>4
  <2>4. side = None \/ (side \in Survey!Side /\ side.track = None)
    <3> HIDE DEF side, showing, empty
    <3> QED
      BY <2>2, <2>3
  <2> QED
    BY <1>4, <2>4
<1>5. CASE showing # {}
  <2>1. Bucket(showing)
    BY <1>5, FS_Subset DEF Bucket
  <2>2. PICK x \in showing : /\ Survey!Newest(showing) = x[2]
                             /\ \A y \in showing : y[2].fetched <= x[2].fetched
    <3> HIDE DEF showing
    <3> QED
      BY <2>1, NewestThere
  <2>3. track = x[2].sides[n].track /\ x[2] \in Survey!Row
    BY <2>2 DEF Bucket
  <2>4. track \in TrackNumbers /\ track # None
    BY <2>2, <2>3 DEF Survey!Posted, Survey!Present, Survey!Row, Survey!Document,
                      Survey!Side
  <2> HIDE DEF track
  <2>5. {y[2].sides[n].asOf : y \in Survey!Naming(b, n, track)} \ {None}
          = StampsOf(RowsOf(b), n, track)
    BY <2>4 DEF StampsOf, RowsOf, Survey!Naming, Survey!Posted, Survey!Present
  <2>6. Survey!EarliestAsOf(b, n, track) = SmallestOf(StampsOf(RowsOf(b), n, track))
    BY <2>5 DEF Survey!EarliestAsOf, SmallestOf
  <2>7. SmallestOf(StampsOf(RowsOf(b), n, track)) \in Survey!Time
    <3> DEFINE stamps == StampsOf(RowsOf(b), n, track)
    <3>1. stamps \subseteq Int
      BY DEF StampsOf, RowsOf, Bucket, Survey!Row, Survey!Document, Survey!Posted,
             Survey!Present, Survey!Side, Survey!Time
    <3>2. IsFiniteSet(stamps)
      <4> DEFINE h == [y \in Survey!Naming(b, n, track) |-> y[2].sides[n].asOf]
                 all == {h[y] : y \in Survey!Naming(b, n, track)}
      <4>1. IsFiniteSet(Survey!Naming(b, n, track))
        BY FS_Subset DEF Bucket, Survey!Naming
      <4>2. stamps = all \ {None}
        BY <2>5
      <4>3. IsFiniteSet(all)
        BY <4>1, ImageFinite
      <4> HIDE DEF all, stamps
      <4> QED
        BY <4>2, <4>3, FS_Subset
    <3> HIDE DEF stamps
    <3>3. CASE stamps = {}
      BY <3>3 DEF stamps, SmallestOf, Survey!Time
    <3>4. CASE stamps # {}
      <4>1. Survey!Min(stamps) \in Int
        BY <3>1, <3>2, <3>4, SurveyMin
      <4> QED
        BY <3>4, <4>1 DEF stamps, SmallestOf, Survey!Time
    <3> QED
      BY <3>3, <3>4
  <2>8. ~\A y \in b : y[2].sides[n] = None
    BY <1>5 DEF Survey!Posted, Survey!Present
  <2>9. side = [last EXCEPT !.track = track, !.asOf = Survey!EarliestAsOf(b, n, track)]
    BY <1>3, <1>5, <2>8
  <2>10. /\ side \in Survey!Side /\ side.track = track
         /\ side.asOf = Survey!EarliestAsOf(b, n, track)
    BY <1>2, <2>4, <2>6, <2>7, <2>9 DEF Survey!Side
  <2> QED
    BY <1>5, <2>2, <2>3, <2>4, <2>6, <2>10
<1> QED
  BY <1>4, <1>5

LEMMA MergeTells ==
  ASSUME NEW b, Bucket(b)
  PROVE  /\ Survey!MergeBucket(b) \in Survey!Row
         /\ \E x \in b : /\ Survey!MergeBucket(b).train = x[2].train
                         /\ Survey!MergeBucket(b).fetched = x[2].fetched
         /\ \A n \in Survey!Sides : Tells(Survey!MergeBucket(b), RowsOf(b), n, FALSE)
<1> DEFINE m == Survey!MergeBucket(b)
           Shows(n) == {x \in b : n \in Survey!Posted(x[2])}
<1>1. PICK newest \in b : Survey!Newest(b) = newest[2]
  BY NewestThere
<1>2. newest[2] \in Survey!Row
  BY DEF Bucket
<1>3. /\ m.train = newest[2].train /\ m.fetched = newest[2].fetched
      /\ DOMAIN m.sides = Survey!Sides
      /\ \A n \in Survey!Sides : m.sides[n] = Survey!MergeSide(b, n)
      /\ m = [train |-> m.train, fetched |-> m.fetched, sides |-> m.sides]
      /\ m.sides = [n \in Survey!Sides |-> m.sides[n]]
  BY <1>1 DEF Survey!MergeBucket
<1> HIDE DEF m
<1>4. ASSUME NEW n \in Survey!Sides
      PROVE  \/ /\ Shows(n) = {}
                /\ m.sides[n] = None \/ (m.sides[n] \in Survey!Side /\ m.sides[n].track = None)
             \/ /\ m.sides[n] \in Survey!Side /\ m.sides[n].track # None
                /\ \E x \in Shows(n) :
                     /\ \A y \in Shows(n) : y[2].fetched <= x[2].fetched
                     /\ m.sides[n].track = x[2].sides[n].track
                     /\ m.sides[n].asOf
                          = SmallestOf(StampsOf(RowsOf(b), n, x[2].sides[n].track))
  BY <1>3, MergeSideTells
<1>5. m \in Survey!Row
  <2>1. \A n \in Survey!Sides : m.sides[n] \in Survey!Side \cup {None}
    BY <1>4
  <2>2. m.sides \in Survey!Document
    BY <1>3, <2>1 DEF Survey!Document
  <2>3. m.train \in Survey!Range(Queue) /\ m.fetched \in Nat
    BY <1>2, <1>3 DEF Survey!Row
  <2> QED
    BY <1>3, <2>2, <2>3 DEF Survey!Row
<1>6. ASSUME NEW n \in Survey!Sides PROVE Tells(m, RowsOf(b), n, FALSE)
  <2>1. CASE /\ Shows(n) = {}
             /\ m.sides[n] = None \/ (m.sides[n] \in Survey!Side /\ m.sides[n].track = None)
    <3>1. n \notin Survey!Posted(m)
      BY <2>1 DEF Survey!Posted, Survey!Present
    <3>2. \A r \in RowsOf(b) : n \notin Survey!Posted(r)
      BY <2>1 DEF RowsOf
    <3> QED
      BY <3>1, <3>2 DEF Tells
  <2>2. CASE /\ m.sides[n] \in Survey!Side /\ m.sides[n].track # None
             /\ \E x \in Shows(n) :
                  /\ \A y \in Shows(n) : y[2].fetched <= x[2].fetched
                  /\ m.sides[n].track = x[2].sides[n].track
                  /\ m.sides[n].asOf
                       = SmallestOf(StampsOf(RowsOf(b), n, x[2].sides[n].track))
    <3>1. n \in Survey!Posted(m)
      BY <2>2, SurveyPeriods, PartsAssumption
         DEF Survey!Posted, Survey!Present, Survey!SurveyConstants
    <3>2. PICK x \in Shows(n) :
            /\ \A y \in Shows(n) : y[2].fetched <= x[2].fetched
            /\ m.sides[n].track = x[2].sides[n].track
            /\ m.sides[n].asOf = SmallestOf(StampsOf(RowsOf(b), n, x[2].sides[n].track))
      BY <2>2
    <3>3. LastShowing(x[2], RowsOf(b), n)
      BY <3>2 DEF LastShowing, RowsOf
    <3> QED
      BY <3>1, <3>2, <3>3 DEF Tells, LastShowing
  <2> QED
    BY <1>4, <2>1, <2>2
<1> QED
  BY <1>1, <1>3, <1>5, <1>6 DEF m

-----------------------------------------------------------------------------
(* Merging again: an earlier merged row stands for the rows it is made of. *)

(* Rows of which no two were fetched at the same time.                     *)
Distinct(R) == \A x, y \in R : x.fetched = y.fetched => x = y

Earlier(A, B) == \A x \in A, y \in B : x.fetched < y.fetched

LEMMA StampsFinite ==
  ASSUME NEW R, IsFiniteSet(R), R \subseteq Survey!Row, NEW n \in Survey!Sides, NEW track
  PROVE  IsFiniteSet(StampsOf(R, n, track)) /\ StampsOf(R, n, track) \subseteq Int
<1> DEFINE some == {x \in R : n \in Survey!Posted(x) /\ x.sides[n].track = track}
           h == [y \in some |-> y.sides[n].asOf]
           all == {h[y] : y \in some}
<1>1. IsFiniteSet(some)
  BY FS_Subset
<1>2. StampsOf(R, n, track) = all \ {None}
  BY DEF StampsOf
<1>3. IsFiniteSet(all)
  BY <1>1, ImageFinite
<1>4. \A y \in some : h[y] \in Int \cup {None}
  BY PostedSide DEF Survey!Side, Survey!Time
<1>5. all \subseteq Int \cup {None}
  <2> HIDE DEF h, some
  <2> QED
    BY <1>4
<1> HIDE DEF all
<1> QED
  BY <1>2, <1>3, <1>5, FS_Subset

LEMMA LeastIs ==
  ASSUME NEW S \in SUBSET Int, IsFiniteSet(S)
  PROVE  /\ S = {} => SmallestOf(S) = None
         /\ S # {} => /\ SmallestOf(S) \in S /\ SmallestOf(S) # None
                      /\ \A y \in S : SmallestOf(S) <= y
  BY SurveyMin, SurveyPeriods DEF SmallestOf

(* The least number may stand for the set it is of.                        *)
LEMMA LeastOfJoin ==
  ASSUME NEW S \in SUBSET Int, IsFiniteSet(S), NEW T \in SUBSET Int, IsFiniteSet(T)
  PROVE  SmallestOf(({SmallestOf(S)} \ {None}) \cup T) = SmallestOf(S \cup T)
<1> DEFINE low == SmallestOf(S)
           U == ({low} \ {None}) \cup T
           V == S \cup T
<1>1. CASE S = {}
  <2>1. U = T /\ V = T
    BY <1>1, LeastIs
  <2> QED
    BY <2>1
<1>2. CASE S # {}
  <2>1. low \in S /\ low \in Int /\ \A y \in S : low <= y
    BY <1>2, LeastIs
  <2>2. U = {low} \cup T
    BY <2>1, SurveyPeriods
  <2> HIDE DEF low
  <2>3. IsFiniteSet(U) /\ IsFiniteSet(V)
    BY <2>2, FS_Singleton, FS_Union
  <2>4. U \in SUBSET Int /\ V \in SUBSET Int /\ U # {} /\ V # {}
    BY <2>1, <2>2
  <2>5. \A y \in V : \E u \in U : u <= y
    BY <2>1, <2>2
  <2>6. \A u \in U : u \in V
    BY <2>1, <2>2
  <2> HIDE DEF U, V
  <2>7. /\ SmallestOf(U) \in U /\ \A u \in U : SmallestOf(U) <= u
        /\ SmallestOf(V) \in V /\ \A u \in V : SmallestOf(V) <= u
    BY <2>3, <2>4, LeastIs
  <2>8. SmallestOf(U) \in Int /\ SmallestOf(V) \in Int /\ SmallestOf(V) <= SmallestOf(U)
    BY <2>4, <2>6, <2>7
  <2>9. PICK u \in U : u <= SmallestOf(V)
    BY <2>5, <2>7
  <2>10. u \in Int /\ SmallestOf(U) <= u
    BY <2>4, <2>7
  <2> QED
    BY <2>8, <2>9, <2>10 DEF U, V, low
<1> QED
  BY <1>1, <1>2

LEMMA StampsOfUnion ==
  ASSUME NEW A, NEW B, NEW n, NEW track
  PROVE  StampsOf(A \cup B, n, track) = StampsOf(A, n, track) \cup StampsOf(B, n, track)
  BY DEF StampsOf

(* A number that was given up and came back.                               *)
LEMMA WaversBack ==
  ASSUME NEW A, A \subseteq Survey!Row, Distinct(A), NEW B, Earlier(A, B),
         NEW n \in Survey!Sides, NEW v, LastShowing(v, A, n),
         NEW w \in B, n \in Survey!Posted(w), w.sides[n].track # v.sides[n].track,
         NEW x \in A, n \in Survey!Posted(x), x.sides[n].track = w.sides[n].track
  PROVE  Wavers(A \cup B, n)
<1>1. x # v /\ x.fetched \in Nat /\ v.fetched \in Nat /\ x.fetched <= v.fetched /\ v \in A
  BY DEF LastShowing, Survey!Row
<1>2. x.fetched # v.fetched
  BY <1>1 DEF Distinct
<1>3. x.fetched < v.fetched /\ v.fetched < w.fetched
  BY <1>1, <1>2 DEF Earlier
<1>4. n \in Survey!Posted(v)
  BY DEF LastShowing
<1> QED
  BY <1>1, <1>3, <1>4 DEF Wavers

LEMMA JoinTells ==
  ASSUME NEW A, A \subseteq Survey!Row, IsFiniteSet(A), Distinct(A),
         NEW B, B \subseteq Survey!Row, IsFiniteSet(B),
         Earlier(A, B),
         NEW n \in Survey!Sides,
         NEW e \in Survey!Row, NEW loose, Tells(e, A, n, loose), Earlier({e}, B),
         NEW m \in Survey!Row, Tells(m, {e} \cup B, n, FALSE)
  PROVE  Tells(m, A \cup B, n, TRUE)
<1> DEFINE R == A \cup B
           Q == {e} \cup B
<1>1. CASE n \notin Survey!Posted(m) /\ \A r \in Q : n \notin Survey!Posted(r)
  <2>1. n \notin Survey!Posted(e) /\ \A r \in B : n \notin Survey!Posted(r)
    BY <1>1
  <2>2. \A r \in A : n \notin Survey!Posted(r)
    BY <2>1 DEF Tells
  <2>3. \A r \in R : n \notin Survey!Posted(r)
    BY <2>1, <2>2
  <2> QED
    BY <1>1, <2>3 DEF Tells
<1>2. CASE /\ n \in Survey!Posted(m)
           /\ \E w \in Q : /\ LastShowing(w, Q, n)
                           /\ m.sides[n].track = w.sides[n].track
                           /\ m.sides[n].asOf = SmallestOf(StampsOf(Q, n, w.sides[n].track))
  <2>1. PICK w \in Q : /\ LastShowing(w, Q, n)
                       /\ m.sides[n].track = w.sides[n].track
                       /\ m.sides[n].asOf = SmallestOf(StampsOf(Q, n, w.sides[n].track))
    BY <1>2
  <2> DEFINE track == w.sides[n].track
  <2>2. w \in Survey!Row /\ n \in Survey!Posted(w) /\ w.fetched \in Nat
    BY <2>1 DEF LastShowing, Survey!Row
  <2>3. StampsOf(Q, n, track) = StampsOf({e}, n, track) \cup StampsOf(B, n, track)
    BY StampsOfUnion
  <2>4. StampsOf(R, n, track) = StampsOf(A, n, track) \cup StampsOf(B, n, track)
    BY StampsOfUnion
  <2>5. /\ IsFiniteSet(StampsOf(A, n, track)) /\ StampsOf(A, n, track) \subseteq Int
        /\ IsFiniteSet(StampsOf(B, n, track)) /\ StampsOf(B, n, track) \subseteq Int
    BY StampsFinite
  <2>6. n \in Survey!Posted(e) =>
          \E v \in A : /\ LastShowing(v, A, n)
                       /\ e.sides[n].track = v.sides[n].track
                       /\ \/ Wavers(A, n)
                          \/ e.sides[n].asOf = SmallestOf(StampsOf(A, n, v.sides[n].track))
    BY DEF Tells
  <2>7. n \notin Survey!Posted(e) => \A r \in A : n \notin Survey!Posted(r)
    BY DEF Tells
  <2>8. Wavers(A, n) => Wavers(R, n)
    BY DEF Wavers
  <2>9. (n \in Survey!Posted(e) /\ e.sides[n].track = track)
          => StampsOf({e}, n, track) = {e.sides[n].asOf} \ {None}
    BY DEF StampsOf
  <2>10. ~(n \in Survey!Posted(e) /\ e.sides[n].track = track)
          => StampsOf({e}, n, track) = {}
    BY DEF StampsOf
  <2>11. (/\ n \in Survey!Posted(e) /\ e.sides[n].track = track
          /\ e.sides[n].asOf = SmallestOf(StampsOf(A, n, track)))
           => m.sides[n].asOf = SmallestOf(StampsOf(R, n, track))
    <3> DEFINE S == StampsOf(A, n, track)
               T == StampsOf(B, n, track)
    <3>1. S \in SUBSET Int /\ T \in SUBSET Int /\ IsFiniteSet(S) /\ IsFiniteSet(T)
      BY <2>5
    <3>2. SmallestOf(({SmallestOf(S)} \ {None}) \cup T) = SmallestOf(S \cup T)
      <4> HIDE DEF S, T
      <4> QED
        BY <3>1, LeastOfJoin
    <3> QED
      BY <2>1, <2>3, <2>4, <2>9, <3>2
  <2>12. CASE \E b \in B : n \in Survey!Posted(b)
    <3>1. PICK b \in B : n \in Survey!Posted(b)
      BY <2>12
    <3>2. w # e /\ w \in B
      <4>1. b.fetched <= w.fetched /\ e.fetched < b.fetched
        BY <2>1, <3>1 DEF LastShowing, Earlier
      <4>2. b.fetched \in Nat /\ e.fetched \in Nat
        BY <3>1 DEF Survey!Row
      <4>3. e.fetched < w.fetched
        BY <2>2, <4>1, <4>2
      <4> QED
        BY <4>2, <4>3
    <3>3. LastShowing(w, R, n)
      <4>1. \A x \in A : x.fetched \in Nat /\ x.fetched < w.fetched
        BY <3>2 DEF Earlier, Survey!Row
      <4> QED
        BY <2>1, <2>2, <3>2, <4>1 DEF LastShowing
    <3>4. Wavers(R, n) \/ m.sides[n].asOf = SmallestOf(StampsOf(R, n, track))
      <4>1. CASE n \in Survey!Posted(e) /\ e.sides[n].track = track
        BY <2>6, <2>8, <2>11, <4>1
      <4>2. CASE ~(n \in Survey!Posted(e) /\ e.sides[n].track = track)
        <5>1. CASE \E x \in A : n \in Survey!Posted(x) /\ x.sides[n].track = track
          <6>1. PICK x \in A : n \in Survey!Posted(x) /\ x.sides[n].track = track
            BY <5>1
          <6>2. n \in Survey!Posted(e)
            BY <2>7, <6>1
          <6>3. PICK v \in A : LastShowing(v, A, n) /\ e.sides[n].track = v.sides[n].track
            BY <2>6, <6>2
          <6>4. w.sides[n].track # v.sides[n].track
            BY <4>2, <6>2, <6>3
          <6> QED
            BY <2>2, <3>2, <6>1, <6>3, <6>4, WaversBack
        <5>2. CASE ~\E x \in A : n \in Survey!Posted(x) /\ x.sides[n].track = track
          <6>1. StampsOf(A, n, track) = {}
            BY <5>2 DEF StampsOf
          <6>2. StampsOf(Q, n, track) = StampsOf(R, n, track)
            BY <2>3, <2>4, <2>10, <4>2, <6>1
          <6> QED
            BY <2>1, <6>2
        <5> QED
          BY <5>1, <5>2
      <4> QED
        BY <4>1, <4>2
    <3> QED
      BY <1>2, <2>1, <3>2, <3>3, <3>4 DEF Tells
  <2>13. CASE ~\E b \in B : n \in Survey!Posted(b)
    <3>1. w = e /\ n \in Survey!Posted(e)
      BY <2>1, <2>2, <2>13
    <3>2. PICK v \in A : /\ LastShowing(v, A, n)
                         /\ e.sides[n].track = v.sides[n].track
                         /\ \/ Wavers(A, n)
                            \/ e.sides[n].asOf = SmallestOf(StampsOf(A, n, v.sides[n].track))
      BY <2>6, <3>1
    <3>3. LastShowing(v, R, n) /\ v \in R
      BY <2>13, <3>2 DEF LastShowing
    <3>4. Wavers(R, n) \/ m.sides[n].asOf = SmallestOf(StampsOf(R, n, v.sides[n].track))
      BY <2>8, <2>11, <3>1, <3>2
    <3> QED
      BY <1>2, <2>1, <3>1, <3>2, <3>3, <3>4 DEF Tells
  <2> QED
    BY <2>12, <2>13
<1>3. \/ n \notin Survey!Posted(m) /\ \A r \in Q : n \notin Survey!Posted(r)
      \/ /\ n \in Survey!Posted(m)
         /\ \E w \in Q : /\ LastShowing(w, Q, n)
                         /\ m.sides[n].track = w.sides[n].track
                         /\ m.sides[n].asOf = SmallestOf(StampsOf(Q, n, w.sides[n].track))
  BY DEF Tells
<1> QED
  BY <1>1, <1>2, <1>3

-----------------------------------------------------------------------------
(* merge_stop_rows                                                         *)

(* Groups of rows in which a train-day is read once at a time.             *)
GoodGroups(g) ==
  /\ IsFiniteSet(DOMAIN g) /\ DOMAIN g \subseteq Nat
  /\ \A i \in DOMAIN g :
       /\ g[i] \subseteq Survey!Row /\ IsFiniteSet(g[i])
       /\ \A x, y \in g[i] : x.train = y.train /\ x.fetched = y.fetched => x = y

Seen(g) == UNION {g[i] : i \in DOMAIN g}
OfTrain(R, t) == {r \in R : r.train = t}

BucketOf(g, t) ==
  {x \in (DOMAIN g) \X Seen(g) : x[2] \in g[x[1]] /\ x[2].train = t}

LEMMA SeenFinite ==
  ASSUME NEW g, GoodGroups(g)
  PROVE  IsFiniteSet(Seen(g)) /\ Seen(g) \subseteq Survey!Row
<1> DEFINE h == [i \in DOMAIN g |-> g[i]]
           all == {h[i] : i \in DOMAIN g}
<1>1. IsFiniteSet(all)
  BY ImageFinite DEF GoodGroups
<1>2. all = {g[i] : i \in DOMAIN g}
  OBVIOUS
<1>3. \A T \in all : IsFiniteSet(T)
  BY <1>2 DEF GoodGroups
<1> HIDE DEF all
<1>4. IsFiniteSet(UNION all)
  BY <1>1, <1>3, FS_UNION
<1> QED
  BY <1>2, <1>4 DEF Seen, GoodGroups

LEMMA BucketThere ==
  ASSUME NEW g, GoodGroups(g), NEW t, NEW r \in Seen(g), r.train = t
  PROVE  Bucket(BucketOf(g, t)) /\ RowsOf(BucketOf(g, t)) = OfTrain(Seen(g), t)
<1> DEFINE b == BucketOf(g, t)
<1>1. IsFiniteSet((DOMAIN g) \X Seen(g))
  BY SeenFinite, FS_Product DEF GoodGroups
<1>2. IsFiniteSet(b)
  BY <1>1, FS_Subset DEF BucketOf
<1>3. \A s \in Seen(g) : \E i \in DOMAIN g : s \in g[i]
  BY DEF Seen
<1>4. \A s \in Seen(g) : s.train = t => \E x \in b : x[2] = s
  <2> SUFFICES ASSUME NEW s \in Seen(g), s.train = t PROVE \E x \in b : x[2] = s
    OBVIOUS
  <2>1. PICK i \in DOMAIN g : s \in g[i]
    BY <1>3
  <2>2. <<i, s>> \in b
    BY <2>1 DEF BucketOf
  <2> QED
    BY <2>2
<1>5. \A x \in b : /\ x = <<x[1], x[2]>> /\ x[1] \in DOMAIN g /\ x[2] \in g[x[1]]
                   /\ x[2] \in Seen(g) /\ x[2].train = t
  BY DEF BucketOf
<1> HIDE DEF b
<1>6. b # {}
  BY <1>4
<1>7. b \subseteq Nat \X Survey!Row
  <2>1. \A x \in b : x[1] \in Nat /\ x[2] \in Survey!Row
    BY <1>5, SeenFinite DEF GoodGroups
  <2> QED
    BY <1>5, <2>1
<1>8. ASSUME NEW x \in b, NEW y \in b, x[1] = y[1], x[2].fetched = y[2].fetched
      PROVE  x = y
  <2>1. x[2] = y[2]
    BY <1>5, <1>8 DEF GoodGroups
  <2> QED
    BY <1>5, <1>8, <2>1
<1>9. RowsOf(b) = OfTrain(Seen(g), t)
  <2>1. \A s \in RowsOf(b) : s \in OfTrain(Seen(g), t)
    BY <1>5 DEF RowsOf, OfTrain
  <2>2. \A s \in OfTrain(Seen(g), t) : s \in RowsOf(b)
    BY <1>4 DEF RowsOf, OfTrain
  <2> QED
    BY <2>1, <2>2
<1> QED
  BY <1>2, <1>6, <1>7, <1>8, <1>9 DEF Bucket, b

LEMMA MergeStopRowsIs ==
  ASSUME NEW g
  PROVE  Survey!MergeStopRows(g) =
           {Survey!MergeBucket(BucketOf(g, t)) : t \in {r.train : r \in Seen(g)}}
<1>1. UNION Survey!Range(g) = Seen(g)
  BY DEF Seen, Survey!Range
<1> QED
  BY <1>1 DEF Survey!MergeStopRows, BucketOf

(* One row for each train-day that was read, and it tells its rows.        *)
Merges(result, R) ==
  /\ IsFiniteSet(result) /\ result \subseteq Survey!Row
  /\ \A x, y \in result : x.train = y.train => x = y
  /\ \A r \in R : \E m \in result : m.train = r.train
  /\ \A m \in result : \E r \in OfTrain(R, m.train) : r.fetched = m.fetched

LEMMA MergeStopRowsTells ==
  ASSUME NEW g, GoodGroups(g)
  PROVE  /\ Merges(Survey!MergeStopRows(g), Seen(g))
         /\ \A m \in Survey!MergeStopRows(g) : \A n \in Survey!Sides :
              Tells(m, OfTrain(Seen(g), m.train), n, FALSE)
<1> DEFINE f == [t \in {r.train : r \in Seen(g)} |-> Survey!MergeBucket(BucketOf(g, t))]
           trains == {r.train : r \in Seen(g)}
           result == {f[t] : t \in trains}
           h == [r \in Seen(g) |-> r.train]
<1>1. Survey!MergeStopRows(g) = result
  BY MergeStopRowsIs
<1>2. ASSUME NEW t \in trains
      PROVE  /\ f[t] \in Survey!Row /\ f[t].train = t
             /\ \E r \in OfTrain(Seen(g), t) : r.fetched = f[t].fetched
             /\ \A n \in Survey!Sides : Tells(f[t], OfTrain(Seen(g), t), n, FALSE)
  <2>1. PICK r \in Seen(g) : r.train = t
    OBVIOUS
  <2>2. Bucket(BucketOf(g, t)) /\ RowsOf(BucketOf(g, t)) = OfTrain(Seen(g), t)
    BY <2>1, BucketThere
  <2>3. f[t] = Survey!MergeBucket(BucketOf(g, t))
    OBVIOUS
  <2> HIDE DEF f
  <2>4. /\ f[t] \in Survey!Row
        /\ \E x \in BucketOf(g, t) : /\ f[t].train = x[2].train
                                     /\ f[t].fetched = x[2].fetched
        /\ \A n \in Survey!Sides : Tells(f[t], RowsOf(BucketOf(g, t)), n, FALSE)
    BY <2>2, <2>3, MergeTells
  <2>5. PICK x \in BucketOf(g, t) : f[t].train = x[2].train /\ f[t].fetched = x[2].fetched
    BY <2>4
  <2>6. x[2] \in OfTrain(Seen(g), t)
    BY <2>2 DEF RowsOf
  <2>7. f[t].train = t /\ \E s \in OfTrain(Seen(g), t) : s.fetched = f[t].fetched
    BY <2>5, <2>6 DEF OfTrain
  <2> QED
    BY <2>2, <2>4, <2>7
<1>3. IsFiniteSet(trains)
  <2>1. trains = {h[r] : r \in Seen(g)} /\ DOMAIN h = Seen(g)
    OBVIOUS
  <2> HIDE DEF h, trains
  <2> QED
    BY <2>1, SeenFinite, ImageFinite
<1>4. DOMAIN f = trains /\ \A r \in Seen(g) : r.train \in trains
  OBVIOUS
<1> HIDE DEF f, trains
<1>5. IsFiniteSet(result)
  BY <1>3, <1>4, ImageFinite
<1>6. \A m \in result : m.train \in trains /\ m = f[m.train]
  <2>1. \A t \in trains : f[t].train = t
    BY <1>2
  <2> QED
    BY <2>1
<1>7. \A t \in trains : f[t] \in result
  OBVIOUS
<1> HIDE DEF result
<1>8. result \subseteq Survey!Row
  BY <1>2, <1>6
<1>9. \A x, y \in result : x.train = y.train => x = y
  BY <1>6
<1>10. \A r \in Seen(g) : \E m \in result : m.train = r.train
  BY <1>2, <1>4, <1>7
<1>11. \A m \in result : /\ \E r \in OfTrain(Seen(g), m.train) : r.fetched = m.fetched
                         /\ \A n \in Survey!Sides :
                              Tells(m, OfTrain(Seen(g), m.train), n, FALSE)
  <2> SUFFICES ASSUME NEW m \in result
               PROVE  /\ \E r \in OfTrain(Seen(g), m.train) : r.fetched = m.fetched
                      /\ \A n \in Survey!Sides :
                           Tells(m, OfTrain(Seen(g), m.train), n, FALSE)
    OBVIOUS
  <2> DEFINE t == m.train
  <2>1. t \in trains /\ m = f[t]
    BY <1>6
  <2> HIDE DEF t
  <2>2. /\ \E r \in OfTrain(Seen(g), t) : r.fetched = f[t].fetched
        /\ \A n \in Survey!Sides : Tells(f[t], OfTrain(Seen(g), t), n, FALSE)
    BY <1>2, <2>1
  <2> QED
    BY <2>1, <2>2 DEF t
<1> QED
  BY <1>1, <1>5, <1>8, <1>9, <1>10, <1>11 DEF Merges

-----------------------------------------------------------------------------
(* Reports of snapshots                                                    *)

GoodFiles(fs) ==
  /\ fs \in Seq(SUBSET Survey!Row)
  /\ \A i \in DOMAIN fs : IsFiniteSet(fs[i]) /\ Distinct(fs[i])
  /\ \A i, j \in DOMAIN fs : i < j => Earlier(fs[i], fs[j])

FilesOf(fs, S) == UNION {fs[i] : i \in S}

CoveredBy(fs, steps) == FilesOf(fs, UNION Survey!Range(steps))

Ordered(steps) ==
  \A i, j \in DOMAIN steps : i < j => \A x \in steps[i], y \in steps[j] : x < y

GoodReport(fs, merged, steps) ==
  /\ steps \in Seq(SUBSET DOMAIN fs)
  /\ Merges(merged, CoveredBy(fs, steps))
  /\ Ordered(steps) =>
       \A m \in merged : \A n \in Survey!Sides :
         Tells(m, OfTrain(CoveredBy(fs, steps), m.train), n, Len(steps) > 1)

LEMMA FilesOfDistinct ==
  ASSUME NEW fs, GoodFiles(fs), NEW S \in SUBSET DOMAIN fs
  PROVE  /\ Distinct(FilesOf(fs, S)) /\ IsFiniteSet(FilesOf(fs, S))
         /\ FilesOf(fs, S) \subseteq Survey!Row
<1>1. \A i \in DOMAIN fs : i \in Nat /\ fs[i] \subseteq Survey!Row
  BY DEF GoodFiles
<1>2. FilesOf(fs, S) \subseteq Survey!Row
  BY <1>1 DEF FilesOf
<1>3. ASSUME NEW x \in FilesOf(fs, S), NEW y \in FilesOf(fs, S), x.fetched = y.fetched
      PROVE  x = y
  <2>1. PICK i \in S : x \in fs[i]
    BY DEF FilesOf
  <2>2. PICK j \in S : y \in fs[j]
    BY DEF FilesOf
  <2>3. x.fetched \in Nat /\ y.fetched \in Nat /\ i \in Nat /\ j \in Nat
    BY <1>1, <1>2 DEF Survey!Row
  <2>4. ~(i < j)
    BY <1>3, <2>1, <2>2, <2>3 DEF GoodFiles, Earlier
  <2>5. ~(j < i)
    BY <1>3, <2>1, <2>2, <2>3 DEF GoodFiles, Earlier
  <2>6. i = j
    BY <2>3, <2>4, <2>5
  <2> QED
    BY <1>3, <2>1, <2>2, <2>6 DEF GoodFiles, Distinct
<1>4. IsFiniteSet(FilesOf(fs, S))
  <2>1. PICK k \in Nat : DOMAIN fs = 1 .. k
    BY DEF GoodFiles
  <2>2. IsFiniteSet(DOMAIN fs)
    BY <2>1, FS_Interval
  <2>3. IsFiniteSet(S)
    BY <2>2, FS_Subset
  <2> DEFINE h == [i \in S |-> fs[i]]
             all == {h[i] : i \in S}
  <2>4. IsFiniteSet(all)
    BY <2>3, ImageFinite
  <2>5. \A T \in all : IsFiniteSet(T)
    BY DEF GoodFiles
  <2>6. FilesOf(fs, S) = UNION all
    BY DEF FilesOf
  <2> HIDE DEF all
  <2> QED
    BY <2>4, <2>5, <2>6, FS_UNION
<1> QED
  BY <1>2, <1>3, <1>4 DEF Distinct

LEMMA CoveredFiles ==
  ASSUME NEW fs, GoodFiles(fs), NEW steps \in Seq(SUBSET DOMAIN fs)
  PROVE  /\ Distinct(CoveredBy(fs, steps)) /\ IsFiniteSet(CoveredBy(fs, steps))
         /\ CoveredBy(fs, steps) \subseteq Survey!Row
<1>1. UNION Survey!Range(steps) \in SUBSET DOMAIN fs
  BY DEF Survey!Range
<1> QED
  BY <1>1, FilesOfDistinct DEF CoveredBy

LEMMA TellsLoosely ==
  ASSUME NEW m, NEW R, NEW n, NEW loose, Tells(m, R, n, FALSE)
  PROVE  Tells(m, R, n, loose)
  BY DEF Tells

LEMMA FileGroups ==
  ASSUME NEW fs, GoodFiles(fs), NEW S \in SUBSET DOMAIN fs
  PROVE  LET g == [i \in S |-> fs[i]]
         IN  GoodGroups(g) /\ Seen(g) = FilesOf(fs, S)
<1> DEFINE g == [i \in S |-> fs[i]]
<1>1. PICK k \in Nat : DOMAIN fs = 1 .. k
  BY DEF GoodFiles
<1>2. IsFiniteSet(DOMAIN fs)
  BY <1>1, FS_Interval
<1>3. IsFiniteSet(S)
  BY <1>2, FS_Subset
<1>4. S \subseteq Nat
  BY <1>1
<1>5. \A i \in S : /\ fs[i] \subseteq Survey!Row /\ IsFiniteSet(fs[i])
                   /\ Distinct(fs[i])
  BY DEF GoodFiles
<1>6. GoodGroups(g)
  BY <1>3, <1>4, <1>5 DEF GoodGroups, Distinct
<1>7. Seen(g) = FilesOf(fs, S)
  BY DEF Seen, FilesOf
<1> QED
  BY <1>6, <1>7

(* A report of snapshots alone.                                            *)
LEMMA MergeFresh ==
  ASSUME NEW fs, GoodFiles(fs), NEW S \in SUBSET DOMAIN fs
  PROVE  GoodReport(fs, Survey!MergeStopRows([i \in S |-> fs[i]]), <<S>>)
<1> DEFINE g == [i \in S |-> fs[i]]
<1>1. GoodGroups(g) /\ Seen(g) = FilesOf(fs, S)
  BY FileGroups
<1>2. CoveredBy(fs, <<S>>) = FilesOf(fs, S)
  <2>1. Survey!Range(<<S>>) = {S}
    BY DEF Survey!Range
  <2> QED
    BY <2>1 DEF CoveredBy
<1>3. <<S>> \in Seq(SUBSET DOMAIN fs)
  OBVIOUS
<1> HIDE DEF g
<1>4. /\ Merges(Survey!MergeStopRows(g), FilesOf(fs, S))
      /\ \A m \in Survey!MergeStopRows(g) : \A n \in Survey!Sides :
           Tells(m, OfTrain(FilesOf(fs, S), m.train), n, FALSE)
  BY <1>1, MergeStopRowsTells
<1>5. \A m \in Survey!MergeStopRows(g) : \A n \in Survey!Sides :
        Tells(m, OfTrain(FilesOf(fs, S), m.train), n, Len(<<S>>) > 1)
  BY <1>4, TellsLoosely
<1> QED
  BY <1>2, <1>3, <1>4, <1>5 DEF GoodReport, g

(* More snapshots change nothing.                                          *)
LEMMA MoreFiles ==
  ASSUME NEW fs \in Seq(SUBSET Survey!Row), NEW new \in SUBSET Survey!Row,
         NEW merged, NEW steps, GoodReport(fs, merged, steps)
  PROVE  GoodReport(Append(fs, new), merged, steps)
<1> DEFINE more == Append(fs, new)
<1>1. DOMAIN fs \subseteq DOMAIN more /\ \A i \in DOMAIN fs : more[i] = fs[i]
  OBVIOUS
<1>2. steps \in Seq(SUBSET DOMAIN fs)
  BY DEF GoodReport
<1> HIDE DEF more
<1>3. UNION Survey!Range(steps) \subseteq DOMAIN fs
  BY <1>2 DEF Survey!Range
<1>4. CoveredBy(more, steps) = CoveredBy(fs, steps)
  BY <1>1, <1>3 DEF CoveredBy, FilesOf
<1>5. steps \in Seq(SUBSET DOMAIN more)
  BY <1>1, <1>2
<1> QED
  BY <1>4, <1>5 DEF GoodReport, more

(* An earlier report among the snapshots.                                  *)
Onto(fs, S, p, merged) ==
  [i \in S \cup {p} |-> IF i \in S THEN fs[i] ELSE merged]

LEMMA OntoGroups ==
  ASSUME NEW fs, GoodFiles(fs), NEW merged, NEW steps, GoodReport(fs, merged, steps),
         NEW S \in SUBSET DOMAIN fs, NEW p \in {0, Len(fs) + 1}
  PROVE  /\ GoodGroups(Onto(fs, S, p, merged))
         /\ Seen(Onto(fs, S, p, merged)) = FilesOf(fs, S) \cup merged
<1> DEFINE g == Onto(fs, S, p, merged)
<1>1. PICK k \in Nat : DOMAIN fs = 1 .. k /\ Len(fs) = k
  BY DEF GoodFiles
<1>2. p \notin S /\ p \in Nat /\ S \subseteq Nat
  BY <1>1
<1>3. IsFiniteSet(S) /\ IsFiniteSet({p})
  BY <1>1, FS_Interval, FS_Subset, FS_Singleton
<1>4. IsFiniteSet(DOMAIN g) /\ DOMAIN g \subseteq Nat
  BY <1>2, <1>3, FS_Union DEF Onto
<1>5. \A i \in S : /\ fs[i] \subseteq Survey!Row /\ IsFiniteSet(fs[i])
                   /\ Distinct(fs[i])
  BY DEF GoodFiles
<1>6. /\ merged \subseteq Survey!Row /\ IsFiniteSet(merged)
      /\ \A x, y \in merged : x.train = y.train => x = y
  BY DEF GoodReport, Merges
<1>7. (\A i \in S : g[i] = fs[i]) /\ g[p] = merged /\ DOMAIN g = S \cup {p}
  BY <1>2 DEF Onto
<1> HIDE DEF g
<1>8. GoodGroups(g)
  <2> SUFFICES ASSUME NEW i \in DOMAIN g
               PROVE  /\ g[i] \subseteq Survey!Row /\ IsFiniteSet(g[i])
                      /\ \A x, y \in g[i] :
                           x.train = y.train /\ x.fetched = y.fetched => x = y
    BY <1>4 DEF GoodGroups
  <2>1. CASE i \in S
    BY <1>5, <1>7, <2>1 DEF Distinct
  <2>2. CASE i = p
    BY <1>6, <1>7, <2>2
  <2> QED
    BY <1>7, <2>1, <2>2
<1>9. Seen(g) = FilesOf(fs, S) \cup merged
  BY <1>7 DEF Seen, FilesOf
<1> QED
  BY <1>8, <1>9 DEF g

LEMMA AppendOrdered ==
  ASSUME NEW D, NEW steps \in Seq(SUBSET D), NEW S \in SUBSET D,
         Ordered(Append(steps, S))
  PROVE  /\ Ordered(steps)
         /\ \A x \in UNION Survey!Range(steps), y \in S : x < y
<1> DEFINE more == Append(steps, S)
           n == Len(steps)
<1>1. /\ n \in Nat /\ DOMAIN steps = 1 .. n /\ DOMAIN more = 1 .. n + 1
      /\ more[n + 1] = S /\ \A i \in 1 .. n : more[i] = steps[i]
  OBVIOUS
<1>2. \A i, j \in DOMAIN more : i < j => \A x \in more[i], y \in more[j] : x < y
  BY DEF Ordered
<1> HIDE DEF more, n
<1>3. Ordered(steps)
  BY <1>1, <1>2 DEF Ordered
<1>4. ASSUME NEW x \in UNION Survey!Range(steps), NEW y \in S PROVE x < y
  <2>1. PICK i \in 1 .. n : x \in steps[i]
    BY <1>1 DEF Survey!Range
  <2>2. i \in DOMAIN more /\ n + 1 \in DOMAIN more /\ i < n + 1
    BY <1>1
  <2> QED
    BY <1>1, <1>2, <2>1, <2>2
<1> QED
  BY <1>3, <1>4

LEMMA CoveredMore ==
  ASSUME NEW fs, NEW D, NEW steps \in Seq(SUBSET D), NEW S
  PROVE  CoveredBy(fs, Append(steps, S)) = CoveredBy(fs, steps) \cup FilesOf(fs, S)
<1> DEFINE more == Append(steps, S)
           n == Len(steps)
<1>1. /\ n \in Nat /\ DOMAIN steps = 1 .. n /\ DOMAIN more = 1 .. n + 1
      /\ more[n + 1] = S /\ \A i \in 1 .. n : more[i] = steps[i]
  OBVIOUS
<1> HIDE DEF more, n
<1>2. Survey!Range(more) = Survey!Range(steps) \cup {S}
  <2>1. \A x \in Survey!Range(more) : x \in Survey!Range(steps) \cup {S}
    BY <1>1 DEF Survey!Range
  <2>2. \A x \in Survey!Range(steps) : x \in Survey!Range(more)
    BY <1>1 DEF Survey!Range
  <2>3. S \in Survey!Range(more)
    <3>1. n + 1 \in DOMAIN more
      BY <1>1
    <3> QED
      BY <1>1, <3>1 DEF Survey!Range
  <2> QED
    BY <2>1, <2>2, <2>3
<1>3. UNION Survey!Range(more) = (UNION Survey!Range(steps)) \cup S
  BY <1>2
<1> QED
  BY <1>3 DEF CoveredBy, FilesOf, more

(* A report of snapshots and of an earlier report.                         *)
LEMMA MergeOnto ==
  ASSUME NEW fs, GoodFiles(fs), NEW merged, NEW steps, GoodReport(fs, merged, steps),
         NEW S \in SUBSET DOMAIN fs, NEW p \in {0, Len(fs) + 1}
  PROVE  GoodReport(fs, Survey!MergeStopRows(Onto(fs, S, p, merged)),
                    Append(steps, S))
<1> DEFINE g == Onto(fs, S, p, merged)
           result == Survey!MergeStopRows(g)
           F == FilesOf(fs, S)
           C == CoveredBy(fs, steps)
           all == C \cup F
           more == Append(steps, S)
<1>1. GoodGroups(g) /\ Seen(g) = F \cup merged
  BY OntoGroups
<1>2. steps \in Seq(SUBSET DOMAIN fs) /\ more \in Seq(SUBSET DOMAIN fs)
  BY DEF GoodReport
<1>3. CoveredBy(fs, more) = all
  BY <1>2, CoveredMore
<1>4. Merges(merged, C)
  BY DEF GoodReport
<1>5. /\ Distinct(C) /\ IsFiniteSet(C) /\ C \subseteq Survey!Row
      /\ IsFiniteSet(F) /\ F \subseteq Survey!Row
  BY <1>2, CoveredFiles, FilesOfDistinct
<1>6. Len(more) = Len(steps) + 1 /\ Len(steps) \in Nat
  BY <1>2
<1>7. Ordered(more) => Ordered(steps) /\ Earlier(C, F)
  <2> SUFFICES ASSUME Ordered(more) PROVE Ordered(steps) /\ Earlier(C, F)
    OBVIOUS
  <2>1. Ordered(steps) /\ \A x \in UNION Survey!Range(steps), y \in S : x < y
    BY <1>2, AppendOrdered
  <2>2. UNION Survey!Range(steps) \subseteq DOMAIN fs
    BY <1>2 DEF Survey!Range
  <2>3. Earlier(C, F)
    <3> SUFFICES ASSUME NEW x \in C, NEW y \in F PROVE x.fetched < y.fetched
      BY DEF Earlier
    <3>1. PICK i \in UNION Survey!Range(steps) : x \in fs[i]
      BY DEF CoveredBy, FilesOf
    <3>2. PICK j \in S : y \in fs[j]
      BY DEF FilesOf
    <3>3. i < j /\ i \in DOMAIN fs /\ j \in DOMAIN fs
      BY <2>1, <2>2
    <3> QED
      BY <3>1, <3>2, <3>3 DEF GoodFiles, Earlier
  <2> QED
    BY <2>1, <2>3
<1>8. steps = << >> => C = {}
  <2> SUFFICES ASSUME steps = << >> PROVE C = {}
    OBVIOUS
  <2>1. Survey!Range(steps) = {}
    BY DEF Survey!Range
  <2> QED
    BY <2>1 DEF CoveredBy, FilesOf
<1> HIDE DEF g, C, F, more
<1>9. /\ Merges(result, Seen(g))
      /\ \A m \in result : \A n \in Survey!Sides :
           Tells(m, OfTrain(Seen(g), m.train), n, FALSE)
  BY <1>1, MergeStopRowsTells
<1> HIDE DEF result
<1>10. Merges(result, all)
  <2>1. \A r \in all : \E m \in result : m.train = r.train
    <3> SUFFICES ASSUME NEW r \in all PROVE \E m \in result : m.train = r.train
      OBVIOUS
    <3>1. \E s \in F \cup merged : s.train = r.train
      BY <1>4 DEF Merges
    <3> QED
      BY <1>1, <1>9, <3>1 DEF Merges
  <2>2. ASSUME NEW m \in result
        PROVE  \E r \in OfTrain(all, m.train) : r.fetched = m.fetched
    <3>1. PICK s \in OfTrain(F \cup merged, m.train) : s.fetched = m.fetched
      BY <1>1, <1>9 DEF Merges
    <3>2. s.train = m.train /\ (s \in F \/ s \in merged)
      BY DEF OfTrain
    <3>3. CASE s \in F
      BY <3>1, <3>2, <3>3 DEF OfTrain
    <3>4. CASE s \in merged
      BY <1>4, <3>1, <3>2, <3>4 DEF Merges, OfTrain
    <3> QED
      BY <3>2, <3>3, <3>4
  <2> QED
    BY <1>9, <2>1, <2>2 DEF Merges
<1>11. ASSUME Ordered(more), NEW m \in result, NEW n \in Survey!Sides
       PROVE  Tells(m, OfTrain(all, m.train), n, Len(more) > 1)
  <2> DEFINE t == m.train
             A == OfTrain(C, t)
             B == OfTrain(F, t)
  <2>1. Earlier(C, F) /\ Ordered(steps)
    BY <1>7, <1>11
  <2>2. OfTrain(all, t) = A \cup B
    BY DEF OfTrain
  <2>3. OfTrain(Seen(g), t) = B \cup OfTrain(merged, t)
    BY <1>1 DEF OfTrain
  <2>4. m \in Survey!Row /\ Tells(m, OfTrain(Seen(g), t), n, FALSE)
    BY <1>9 DEF Merges
  <2> HIDE DEF t
  <2>5. CASE OfTrain(merged, t) = {}
    <3>1. A = {}
      BY <1>4, <2>5 DEF Merges, OfTrain
    <3>2. OfTrain(all, t) = OfTrain(Seen(g), t)
      BY <2>2, <2>3, <2>5, <3>1
    <3>3. Tells(m, OfTrain(all, t), n, FALSE)
      BY <2>4, <3>2
    <3>4. Tells(m, OfTrain(all, t), n, Len(more) > 1)
      BY <3>3, TellsLoosely
    <3> QED
      BY <3>4 DEF t
  <2>6. CASE OfTrain(merged, t) # {}
    <3>1. PICK e \in merged : e.train = t
      BY <2>6 DEF OfTrain
    <3>2. OfTrain(merged, t) = {e}
      BY <1>4, <3>1 DEF Merges, OfTrain
    <3>3. e \in Survey!Row /\ \E r \in A : r.fetched = e.fetched
      BY <1>4, <3>1 DEF Merges
    <3>4. Earlier(A, B) /\ Earlier({e}, B)
      BY <2>1, <3>3 DEF Earlier, OfTrain
    <3>5. Tells(e, A, n, Len(steps) > 1)
      BY <2>1, <3>1 DEF GoodReport, C
    <3>6. /\ IsFiniteSet(A) /\ A \subseteq Survey!Row /\ Distinct(A)
          /\ IsFiniteSet(B) /\ B \subseteq Survey!Row
      BY <1>5, FS_Subset DEF OfTrain, Distinct
    <3>7. OfTrain(Seen(g), t) = {e} \cup B
      BY <2>3, <3>2
    <3>8. Tells(m, {e} \cup B, n, FALSE)
      BY <2>4, <3>7
    <3>9. Tells(m, A \cup B, n, TRUE)
      <4> DEFINE loose == Len(steps) > 1
      <4> HIDE DEF A, B, loose
      <4>1. Tells(e, A, n, loose)
        BY <3>5 DEF loose
      <4> QED
        BY <2>4, <3>3, <3>4, <3>6, <3>8, <4>1, JoinTells
    <3>10. Len(more) > 1
      <4>1. C # {}
        BY <3>3 DEF OfTrain
      <4>2. steps # << >>
        BY <1>8, <4>1
      <4>3. Len(steps) # 0
        BY <1>2, <4>2
      <4> QED
        BY <1>6, <4>3
    <3> QED
      BY <2>2, <3>9, <3>10 DEF t, Tells
  <2> QED
    BY <2>5, <2>6
<1> QED
  BY <1>2, <1>3, <1>10, <1>11 DEF GoodReport, g, result, more

-----------------------------------------------------------------------------
(* What the survey keeps                                                   *)

(* A snapshot holds what was read after every snapshot before it.          *)
WatchInv ==
  /\ surveyNow \in Nat /\ began \in Int /\ first \in Nat \ {0}
  /\ left \in Seq(Survey!Range(Queue))

FilesInv ==
  /\ GoodFiles(files)
  /\ \A i \in DOMAIN files : \A r \in files[i] : r.fetched < surveyNow

RowsInv ==
  phase = "fetch" =>
    /\ rows \subseteq Survey!Row /\ IsFiniteSet(rows) /\ Distinct(rows)
    /\ \A r \in rows : r.fetched < surveyNow
    /\ \A i \in DOMAIN files : Earlier(files[i], rows)

ReportInv == GoodReport(files, report.rows, report.parts)

SurveyInv == WatchInv /\ FilesInv /\ RowsInv /\ ReportInv

LEMMA SurveyInit == Survey!Init => SurveyInv
<1> SUFFICES ASSUME Survey!Init PROVE SurveyInv
  OBVIOUS
<1>1. WatchInv
  BY DEF Survey!Init, WatchInv
<1>2. FilesInv
  BY DEF Survey!Init, FilesInv, GoodFiles
<1>3. RowsInv
  BY DEF Survey!Init, RowsInv
<1>4. ReportInv
  <2>1. files = << >> /\ report.rows = {} /\ report.parts = << >>
    BY DEF Survey!Init, Survey!NoReport
  <2>2. CoveredBy(<< >>, << >>) = {}
    BY DEF CoveredBy, FilesOf, Survey!Range
  <2>3. Merges({}, {})
    BY FS_EmptySet DEF Merges
  <2>4. << >> \in Seq(SUBSET DOMAIN << >>)
    OBVIOUS
  <2> QED
    BY <2>1, <2>2, <2>3, <2>4 DEF ReportInv, GoodReport
<1> QED
  BY <1>1, <1>2, <1>3, <1>4 DEF SurveyInv

(* A page is read: a row that is newer than all others.                    *)
LEMMA ReadStep ==
  ASSUME SurveyInv, Survey!Read
  PROVE  SurveyInv'
<1>1. PICK page \in Pages[Head(left)] :
        rows' = rows \cup {[train |-> Head(left), fetched |-> surveyNow, sides |-> page]}
  BY DEF Survey!Read
<1>2. /\ phase = "fetch" /\ left # << >> /\ left' = Tail(left)
      /\ surveyNow' = surveyNow + 1 /\ phase' = phase
      /\ UNCHANGED <<began, first, files, report>>
  BY DEF Survey!Read, Survey!Request
<1>3. surveyNow \in Nat /\ left \in Seq(Survey!Range(Queue))
  BY DEF SurveyInv, WatchInv
<1> DEFINE row == [train |-> Head(left), fetched |-> surveyNow, sides |-> page]
<1>4. row \in Survey!Row /\ row.fetched = surveyNow
  <2>1. Head(left) \in Survey!Range(Queue)
    BY <1>2, <1>3
  <2>2. page \in Survey!Document
    BY <2>1, PartsAssumption DEF Survey!SurveyConstants
  <2> QED
    BY <1>3, <2>1, <2>2 DEF Survey!Row
<1> HIDE DEF row
<1>5. rows' = rows \cup {row}
  BY <1>1 DEF row
<1>6. /\ rows \subseteq Survey!Row /\ IsFiniteSet(rows) /\ Distinct(rows)
      /\ \A r \in rows : r.fetched < surveyNow
      /\ \A i \in DOMAIN files : Earlier(files[i], rows)
      /\ \A i \in DOMAIN files : \A r \in files[i] : r.fetched < surveyNow
      /\ GoodFiles(files)
  BY <1>2 DEF SurveyInv, RowsInv, FilesInv
<1>7. \A i \in DOMAIN files : \A r \in files[i] : r.fetched \in Nat
  BY <1>6 DEF GoodFiles, Survey!Row
<1>8. \A r \in rows : r.fetched \in Nat
  BY <1>6 DEF Survey!Row
<1>9. WatchInv'
  BY <1>2, <1>3 DEF SurveyInv, WatchInv
<1>10. FilesInv'
  BY <1>2, <1>3, <1>6, <1>7 DEF FilesInv
<1>11. RowsInv'
  <2>1. rows' \subseteq Survey!Row /\ IsFiniteSet(rows')
    BY <1>4, <1>5, <1>6, FS_AddElement
  <2>2. Distinct(rows')
    BY <1>3, <1>4, <1>5, <1>6, <1>8 DEF Distinct
  <2>3. \A r \in rows' : r.fetched < surveyNow'
    BY <1>2, <1>3, <1>4, <1>5, <1>6, <1>8
  <2>4. \A i \in DOMAIN files : Earlier(files[i], rows')
    BY <1>4, <1>5, <1>6 DEF Earlier
  <2> QED
    BY <1>2, <2>1, <2>2, <2>3, <2>4 DEF RowsInv
<1>12. ReportInv'
  BY <1>2 DEF SurveyInv, ReportInv
<1> QED
  BY <1>9, <1>10, <1>11, <1>12 DEF SurveyInv

(* Time passes, and the snapshots and the report stay.                     *)
LEMMA QuietKeeps ==
  ASSUME SurveyInv, UNCHANGED <<files, report>>,
         surveyNow' \in Nat, surveyNow <= surveyNow',
         began' \in Int, first' \in Nat \ {0}, left' \in Seq(Survey!Range(Queue)),
         phase' # "fetch" \/ rows' = {} \/ (phase = "fetch" /\ rows' = rows)
  PROVE  SurveyInv'
<1>1. surveyNow \in Nat
  BY DEF SurveyInv, WatchInv
<1>2. WatchInv'
  BY DEF WatchInv
<1>3. FilesInv'
  <2>1. \A i \in DOMAIN files : \A r \in files[i] : r.fetched \in Nat
    BY DEF SurveyInv, FilesInv, GoodFiles, Survey!Row
  <2> QED
    BY <1>1, <2>1 DEF SurveyInv, FilesInv
<1>4. RowsInv'
  <2>1. CASE phase' # "fetch"
    BY <2>1 DEF RowsInv
  <2>2. CASE rows' = {}
    BY <2>2, FS_EmptySet DEF RowsInv, Distinct, Earlier
  <2>3. CASE phase = "fetch" /\ rows' = rows
    <3>1. /\ rows \subseteq Survey!Row /\ IsFiniteSet(rows) /\ Distinct(rows)
          /\ \A r \in rows : r.fetched < surveyNow
          /\ \A i \in DOMAIN files : Earlier(files[i], rows)
      BY <2>3 DEF SurveyInv, RowsInv
    <3>2. \A r \in rows : r.fetched < surveyNow'
      BY <1>1, <3>1 DEF Survey!Row
    <3> QED
      BY <2>3, <3>1, <3>2 DEF RowsInv
  <2> QED
    BY <2>1, <2>2, <2>3
<1>5. ReportInv'
  BY DEF SurveyInv, ReportInv
<1> QED
  BY <1>2, <1>3, <1>4, <1>5 DEF SurveyInv

LEMMA PauseNat ==
  ASSUME SurveyInv
  PROVE  Survey!NextPause = None \/ Survey!NextPause \in Nat
<1> DEFINE wait == Interval - (surveyNow - began)
           pause == Survey!Max({0, wait})
<1>1. wait \in Int /\ 0 \in Int
  BY PartsAssumption DEF Survey!SurveyConstants, SurveyInv, WatchInv
<1>2. Survey!NextPause = IF surveyNow >= deadline \/ pause >= deadline - surveyNow
                         THEN None ELSE pause
  BY DEF Survey!NextPause
<1> HIDE DEF wait
<1>3. pause \in Int /\ 0 <= pause
  BY <1>1, MaxOfTwo
<1> QED
  BY <1>2, <1>3

(* A snapshot is written.                                                  *)
LEMMA EndCycleStep ==
  ASSUME SurveyInv, Survey!EndCycle
  PROVE  SurveyInv'
<1>1. /\ phase = "fetch" /\ files' = Append(files, rows) /\ phase' # "fetch"
      /\ UNCHANGED <<began, left, rows, first, report>>
  BY DEF Survey!EndCycle
<1>2. surveyNow \in Nat
  BY DEF SurveyInv, WatchInv
<1>3. surveyNow' \in Nat /\ surveyNow <= surveyNow'
  <2>1. \/ surveyNow' = surveyNow
        \/ Survey!NextPause # None /\ surveyNow' = surveyNow + Survey!NextPause
    BY DEF Survey!EndCycle
  <2> QED
    BY <1>2, <2>1, PauseNat
<1>4. /\ GoodFiles(files) /\ rows \subseteq Survey!Row /\ IsFiniteSet(rows)
      /\ Distinct(rows) /\ \A i \in DOMAIN files : Earlier(files[i], rows)
  BY <1>1 DEF SurveyInv, RowsInv, FilesInv
<1>5. PICK n \in Nat : /\ DOMAIN files = 1 .. n /\ DOMAIN files' = 1 .. n + 1
                       /\ files'[n + 1] = rows /\ \A i \in 1 .. n : files'[i] = files[i]
  <2>1. Len(files) \in Nat /\ DOMAIN files = 1 .. Len(files)
    BY <1>4 DEF GoodFiles
  <2>2. files \in Seq(SUBSET Survey!Row)
    BY <1>4 DEF GoodFiles
  <2>3. /\ DOMAIN files' = 1 .. Len(files) + 1 /\ files'[Len(files) + 1] = rows
        /\ \A i \in 1 .. Len(files) : files'[i] = files[i]
    BY <1>1, <2>2
  <2> QED
    BY <2>1, <2>3
<1>6. files' \in Seq(SUBSET Survey!Row)
  BY <1>1, <1>4 DEF GoodFiles
<1>7. GoodFiles(files')
  <2>1. \A i \in DOMAIN files' : IsFiniteSet(files'[i]) /\ Distinct(files'[i])
    BY <1>4, <1>5 DEF GoodFiles
  <2>2. ASSUME NEW i \in DOMAIN files', NEW j \in DOMAIN files', i < j
        PROVE  Earlier(files'[i], files'[j])
    <3>1. i \in 1 .. n
      BY <1>5, <2>2
    <3>2. CASE j \in 1 .. n
      BY <1>4, <1>5, <2>2, <3>1, <3>2 DEF GoodFiles
    <3>3. CASE j = n + 1
      BY <1>4, <1>5, <3>1, <3>3
    <3> QED
      BY <1>5, <3>2, <3>3
  <2> QED
    BY <1>6, <2>1, <2>2 DEF GoodFiles
<1>8. FilesInv'
  <2> SUFFICES ASSUME NEW i \in DOMAIN files', NEW r \in files'[i]
               PROVE  r.fetched < surveyNow'
    BY <1>7 DEF FilesInv
  <2>1. r.fetched < surveyNow
    BY <1>1, <1>5 DEF SurveyInv, RowsInv, FilesInv
  <2>2. r \in Survey!Row
    BY <1>6
  <2> QED
    BY <1>2, <1>3, <2>1, <2>2 DEF Survey!Row
<1>9. WatchInv'
  BY <1>1, <1>3 DEF SurveyInv, WatchInv
<1>10. RowsInv'
  BY <1>1 DEF RowsInv
<1>11. ReportInv'
  BY <1>1, <1>4, MoreFiles DEF SurveyInv, ReportInv, GoodFiles
<1> QED
  BY <1>8, <1>9, <1>10, <1>11 DEF SurveyInv

(* The watch merges its own snapshots, or the user some of all.            *)
LEMMA MergeWatchStep ==
  ASSUME SurveyInv, Survey!MergeWatch
  PROVE  SurveyInv'
<1> DEFINE mine == first .. Len(files)
<1>1. /\ phase' # "fetch"
      /\ UNCHANGED <<surveyNow, began, left, first, files, rows>>
  BY DEF Survey!MergeWatch
<1>2. WatchInv' /\ FilesInv' /\ RowsInv'
  BY <1>1 DEF SurveyInv, WatchInv, FilesInv, RowsInv
<1>3. GoodFiles(files)
  BY DEF SurveyInv, FilesInv
<1>4. CASE mine = {}
  <2>1. report' = report
    BY <1>4 DEF Survey!MergeWatch
  <2> QED
    BY <1>1, <1>2, <2>1 DEF SurveyInv, ReportInv
<1>5. CASE mine # {}
  <2>1. /\ report'.rows = Survey!MergeStopRows([i \in mine |-> files[i]])
        /\ report'.parts = <<mine>>
    BY <1>5 DEF Survey!MergeWatch
  <2>2. mine \in SUBSET DOMAIN files
    BY <1>3 DEF SurveyInv, WatchInv, GoodFiles
  <2> HIDE DEF mine
  <2>3. GoodReport(files, Survey!MergeStopRows([i \in mine |-> files[i]]), <<mine>>)
    BY <1>3, <2>2, MergeFresh
  <2> QED
    BY <1>1, <1>2, <2>1, <2>3 DEF SurveyInv, ReportInv
<1> QED
  BY <1>4, <1>5

LEMMA MergeCommandStep ==
  ASSUME SurveyInv, Survey!MergeCommand
  PROVE  SurveyInv'
<1>1. UNCHANGED <<surveyNow, phase, began, left, first, files, rows>>
  BY DEF Survey!MergeCommand
<1>2. WatchInv' /\ FilesInv' /\ RowsInv'
  BY <1>1 DEF SurveyInv, WatchInv, FilesInv, RowsInv
<1>3. GoodFiles(files)
  BY DEF SurveyInv, FilesInv
<1>4. PICK chosen \in SUBSET DOMAIN files, place \in {{}, {0}, {Len(files) + 1}} :
        report' = [rows |-> Survey!MergeStopRows([i \in chosen \cup place |->
                              IF i \in chosen THEN files[i] ELSE report.rows]),
                   parts |-> IF place = {} THEN <<chosen>>
                             ELSE Append(report.parts, chosen)]
  BY DEF Survey!MergeCommand
<1>5. CASE place = {}
  <2>1. [i \in chosen \cup place |-> IF i \in chosen THEN files[i] ELSE report.rows]
          = [i \in chosen |-> files[i]]
    BY <1>5
  <2>2. /\ report'.rows = Survey!MergeStopRows([i \in chosen |-> files[i]])
        /\ report'.parts = <<chosen>>
    BY <1>4, <1>5, <2>1
  <2>3. GoodReport(files, Survey!MergeStopRows([i \in chosen |-> files[i]]), <<chosen>>)
    BY <1>3, MergeFresh
  <2> QED
    BY <1>1, <1>2, <2>2, <2>3 DEF SurveyInv, ReportInv
<1>6. CASE place # {}
  <2>1. PICK p \in {0, Len(files) + 1} : place = {p}
    BY <1>6
  <2>2. /\ report'.rows = Survey!MergeStopRows(Onto(files, chosen, p, report.rows))
        /\ report'.parts = Append(report.parts, chosen)
    BY <1>4, <2>1 DEF Onto
  <2>3. GoodReport(files, report.rows, report.parts)
    BY DEF SurveyInv, ReportInv
  <2>4. GoodReport(files, Survey!MergeStopRows(Onto(files, chosen, p, report.rows)),
                   Append(report.parts, chosen))
    BY <1>3, <2>3, MergeOnto
  <2> QED
    BY <1>1, <1>2, <2>2, <2>4 DEF SurveyInv, ReportInv
<1> QED
  BY <1>5, <1>6

LEMMA SurveyKept == SurveyInv /\ [Survey!Next]_(Survey!vars) => SurveyInv'
<1> SUFFICES ASSUME SurveyInv, [Survey!Next]_(Survey!vars) PROVE SurveyInv'
  OBVIOUS
<1>1. /\ surveyNow \in Nat /\ began \in Int /\ first \in Nat \ {0}
      /\ left \in Seq(Survey!Range(Queue)) /\ GoodFiles(files)
  BY DEF SurveyInv, WatchInv, FilesInv
<1>2. CASE Survey!StartWatch
  <2>1. /\ phase' # "fetch" /\ first' = Len(files) + 1
        /\ UNCHANGED <<surveyNow, began, left, files, report>>
    BY <1>2 DEF Survey!StartWatch
  <2>2. first' \in Nat \ {0}
    BY <1>1, <2>1 DEF GoodFiles
  <2> QED
    BY <1>1, <2>1, <2>2, QuietKeeps
<1>3. CASE Survey!StartCycle
  <2>1. /\ rows' = {} /\ began' = surveyNow /\ left' = Queue
        /\ UNCHANGED <<surveyNow, first, files, report>>
    BY <1>3 DEF Survey!StartCycle
  <2>2. Queue \in Seq(Survey!Range(Queue))
    BY PartsAssumption DEF Survey!SurveyConstants
  <2> QED
    BY <1>1, <2>1, <2>2, QuietKeeps
<1>4. CASE Survey!ListFails \/ Survey!LoopEnds
  <2>1. /\ phase' # "fetch"
        /\ UNCHANGED <<surveyNow, began, left, first, files, report>>
    BY <1>4 DEF Survey!ListFails, Survey!LoopEnds
  <2> QED
    BY <1>1, <2>1, QuietKeeps
<1>5. CASE Survey!Miss \/ Survey!Refused
  <2>1. /\ phase = "fetch" /\ left # << >> /\ surveyNow' = surveyNow + 1
        /\ left' = Tail(left) \/ left' = << >>
        /\ UNCHANGED <<began, first, files, report, rows>>
    BY <1>5 DEF Survey!Miss, Survey!Refused, Survey!Request
  <2>2. left' \in Seq(Survey!Range(Queue))
    <3>1. Tail(left) \in Seq(Survey!Range(Queue)) /\ << >> \in Seq(Survey!Range(Queue))
      BY <1>1, <2>1
    <3> QED
      BY <2>1, <3>1
  <2>3. surveyNow' \in Nat /\ surveyNow <= surveyNow'
    BY <1>1, <2>1
  <2> QED
    BY <1>1, <2>1, <2>2, <2>3, QuietKeeps
<1>6. CASE UNCHANGED Survey!vars
  <2>1. UNCHANGED <<surveyNow, phase, began, left, first, files, report, rows>>
    BY <1>6 DEF Survey!vars
  <2> QED
    BY <2>1 DEF SurveyInv, WatchInv, FilesInv, RowsInv, ReportInv
<1> QED
  BY <1>2, <1>3, <1>4, <1>5, <1>6, ReadStep, EndCycleStep, MergeWatchStep,
     MergeCommandStep DEF Survey!Next

-----------------------------------------------------------------------------
(* What follows                                                            *)

LEMMA ReportWindows == SurveyInv => WindowCovers
<1> SUFFICES ASSUME SurveyInv PROVE WindowCovers
  OBVIOUS
<1>1. IsFiniteSet(report.rows) /\ report.rows \subseteq Survey!Row
  BY DEF SurveyInv, ReportInv, GoodReport, Merges
<1> QED
  BY <1>1, WindowReaches DEF WindowCovers, Survey!WindowCovers

LEMMA ReportExact == SurveyInv => MergedExact
<1> SUFFICES ASSUME SurveyInv, NEW m \in report.rows, NEW n \in Survey!Sides,
                    Survey!InOrder
             PROVE  LET shown == Survey!Showing(m.train, n)
                        newest == CHOOSE r \in shown : \A x \in shown : x.fetched <= r.fetched
                        stamps == {r.sides[n].asOf : r \in
                                     {x \in shown : x.sides[n].track = newest.sides[n].track}}
                    IN  IF shown = {} THEN n \notin Survey!Posted(m)
                        ELSE /\ m.sides[n] # None
                             /\ m.sides[n].track = newest.sides[n].track
                             /\ \/ Len(report.parts) > 1 /\ Survey!Wavered(m.train, n)
                                \/ m.sides[n].asOf =
                                     (IF stamps \subseteq {None} THEN None
                                      ELSE Survey!Min(stamps \ {None}))
  BY DEF MergedExact, Survey!MergedExact
<1> DEFINE own == OfTrain(Survey!Covered, m.train)
           shown == Survey!Showing(m.train, n)
           newest == CHOOSE r \in shown : \A x \in shown : x.fetched <= r.fetched
           stamps == {r.sides[n].asOf : r \in
                        {x \in shown : x.sides[n].track = newest.sides[n].track}}
<1>1. Survey!Covered = CoveredBy(files, report.parts)
  BY DEF Survey!Covered, CoveredBy, FilesOf
<1>2. Ordered(report.parts)
  BY DEF Survey!InOrder, Ordered
<1>3. Tells(m, own, n, Len(report.parts) > 1)
  BY <1>1, <1>2 DEF SurveyInv, ReportInv, GoodReport
<1>4. Distinct(own) /\ own \subseteq Survey!Row
  <2>1. Distinct(Survey!Covered) /\ Survey!Covered \subseteq Survey!Row
    BY <1>1, CoveredFiles DEF SurveyInv, FilesInv, ReportInv, GoodReport
  <2> QED
    BY <2>1 DEF Distinct, OfTrain
<1>5. shown = {r \in own : n \in Survey!Posted(r)}
  BY DEF Survey!Showing, OfTrain
<1> HIDE DEF own, shown
<1>6. CASE n \notin Survey!Posted(m) /\ \A r \in own : n \notin Survey!Posted(r)
  <2>1. shown = {}
    BY <1>5, <1>6
  <2> QED
    BY <1>6, <2>1 DEF shown
<1>7. ASSUME n \in Survey!Posted(m), NEW w \in own, LastShowing(w, own, n),
             m.sides[n].track = w.sides[n].track,
             \/ Len(report.parts) > 1 /\ Wavers(own, n)
             \/ m.sides[n].asOf = SmallestOf(StampsOf(own, n, w.sides[n].track))
      PROVE  /\ shown # {} /\ m.sides[n] # None
             /\ m.sides[n].track = newest.sides[n].track
             /\ \/ Len(report.parts) > 1 /\ Survey!Wavered(m.train, n)
                \/ m.sides[n].asOf = (IF stamps \subseteq {None} THEN None
                                      ELSE Survey!Min(stamps \ {None}))
  <2>1. w \in shown /\ \A x \in shown : x.fetched <= w.fetched
    BY <1>5, <1>7 DEF LastShowing
  <2>2. newest \in shown /\ \A x \in shown : x.fetched <= newest.fetched
    BY <2>1
  <2> HIDE DEF newest
  <2>3. newest = w
    <3>1. newest.fetched <= w.fetched /\ w.fetched <= newest.fetched
      BY <2>1, <2>2
    <3>2. newest \in own /\ newest.fetched \in Nat /\ w.fetched \in Nat
      BY <1>4, <1>5, <2>1, <2>2 DEF Survey!Row
    <3>3. newest.fetched = w.fetched
      BY <3>1, <3>2
    <3> QED
      BY <1>4, <3>2, <3>3 DEF Distinct
  <2>4. StampsOf(own, n, w.sides[n].track) = stamps \ {None}
    BY <1>5, <2>3 DEF StampsOf
  <2>5. m.sides[n] # None
    BY <1>7 DEF Survey!Posted, Survey!Present
  <2>6. Wavers(own, n) => Survey!Wavered(m.train, n)
    BY <1>5 DEF Wavers, Survey!Wavered, shown
  <2> HIDE DEF stamps
  <2>7. SmallestOf(StampsOf(own, n, w.sides[n].track))
          = IF stamps \subseteq {None} THEN None ELSE Survey!Min(stamps \ {None})
    <3>1. stamps \subseteq {None} <=> stamps \ {None} = {}
      OBVIOUS
    <3> QED
      BY <2>4, <3>1 DEF SmallestOf
  <2> QED
    BY <1>7, <2>1, <2>3, <2>5, <2>6, <2>7
<1>8. \/ n \notin Survey!Posted(m) /\ \A r \in own : n \notin Survey!Posted(r)
      \/ \E w \in own :
           /\ n \in Survey!Posted(m) /\ LastShowing(w, own, n)
           /\ m.sides[n].track = w.sides[n].track
           /\ \/ Len(report.parts) > 1 /\ Wavers(own, n)
              \/ m.sides[n].asOf = SmallestOf(StampsOf(own, n, w.sides[n].track))
  BY <1>3 DEF Tells
<1> QED
  <2>1. CASE \E w \in own :
           /\ n \in Survey!Posted(m) /\ LastShowing(w, own, n)
           /\ m.sides[n].track = w.sides[n].track
           /\ \/ Len(report.parts) > 1 /\ Wavers(own, n)
              \/ m.sides[n].asOf = SmallestOf(StampsOf(own, n, w.sides[n].track))
    <3>1. /\ shown # {} /\ m.sides[n] # None
          /\ m.sides[n].track = newest.sides[n].track
          /\ \/ Len(report.parts) > 1 /\ Survey!Wavered(m.train, n)
             \/ m.sides[n].asOf = (IF stamps \subseteq {None} THEN None
                                   ELSE Survey!Min(stamps \ {None}))
      BY <1>7, <2>1
    <3> QED
      BY <3>1 DEF shown, newest, stamps
  <2> QED
    BY <1>6, <1>8, <2>1

LEMMA TracksIsSurvey ==
  TracksSpec => Survey!Init /\ [][Survey!Next]_(Survey!vars)
<1>1. TracksInit => Survey!Init
  BY DEF TracksInit
<1>2. [TracksNext]_<<part, vars, schedulerVars, fetcherVars, boardsVars, surveyVars>>
        => [Survey!Next]_(Survey!vars)
  BY DEF TracksNext, TokenStep, SchedulerStep, FetcherStep, BoardsStep, SurveyStep,
         surveyVars, Survey!vars
<1> QED
  BY <1>1, <1>2, PTL DEF TracksSpec

LEMMA SurveyAlways == TracksSpec => []SurveyInv
  BY TracksIsSurvey, SurveyInit, SurveyKept, PTL

(* An adopted window reaches back to the first sight of every track of the *)
(* report, or to the limit, and is never less than without a profile       *)
(* (status_parse.py, lead_time.rs and lead_time.py).                       *)
THEOREM WindowAlwaysCovers == TracksSpec => []WindowCovers
  BY SurveyAlways, ReportWindows, PTL

(* A merged report says of every stop what its snapshots say together,     *)
(* also when it is merged again and again (merge_stop_rows).               *)
THEOREM MergedAlwaysExact == TracksSpec => []MergedExact
  BY SurveyAlways, ReportExact, PTL

-----------------------------------------------------------------------------
(* Type correctness                                                        *)

(* A hint that exists has patience.                                        *)
LEMMA PatienceNat ==
  ASSUME NEW t \in HintTrains PROVE Scheduler!Patience \in Nat
<1>1. Cardinality(HintTrains) \in Nat /\ Cardinality(HintTrains) # 0
  BY SchedulerPeriods, HintsCount, FS_EmptySet
<1> DEFINE n == Cardinality(HintTrains)
<1>2. n - 1 \in Nat
  BY <1>1
<1> HIDE DEF n
<1>3. (n - 1) \div MaxPerFlush \in Nat
  BY <1>2, SchedulerPeriods, Division
<1> QED
  BY <1>3, SchedulerPeriods, SchedulerCardinality DEF Scheduler!Patience, n

LEMMA SchedulerTypesInit == Scheduler!Init => Scheduler!TypeOK
<1> SUFFICES ASSUME Scheduler!Init PROVE Scheduler!TypeOK
  OBVIOUS
<1> USE SchedulerPeriods DEF Scheduler!Init, Scheduler!TypeOK, Scheduler!Empty
<1>1. quiet \in [HintTrains -> 0 .. Scheduler!Patience + 1]
  <2> SUFFICES ASSUME NEW t \in HintTrains PROVE 0 \in 0 .. Scheduler!Patience + 1
    OBVIOUS
  <2> QED
    BY PatienceNat
<1>2. Scheduler!NoHints \in Scheduler!Hints
  BY DEF Scheduler!NoHints, Scheduler!Hints
<1> QED
  BY <1>1, <1>2

(* Requests and rounds keep ages within the debounce.                      *)
LEMMA AgesTouched ==
  ASSUME NEW S, NEW ages, NEW x \in S, NEW bound \in Nat, DOMAIN ages \subseteq S,
         \A y \in DOMAIN ages : ages[y] \in 0 .. bound
  PROVE  /\ DOMAIN Scheduler!Touched(ages, x) \subseteq S
         /\ \A y \in DOMAIN Scheduler!Touched(ages, x) :
              Scheduler!Touched(ages, x)[y] \in 0 .. bound
  BY DEF Scheduler!Touched

LEMMA AgesAged ==
  ASSUME NEW S, NEW ages, NEW bound \in Nat, DOMAIN ages \subseteq S, NEW D,
         \A y \in DOMAIN ages : ages[y] \in 0 .. bound
  PROVE  LET later == Scheduler!Aged(ages, bound)
             rest == Scheduler!Restrict(later, DOMAIN later \ D)
         IN  /\ DOMAIN later = DOMAIN ages
             /\ \A y \in DOMAIN later : later[y] \in 0 .. bound
             /\ DOMAIN rest \subseteq S
             /\ \A y \in DOMAIN rest : rest[y] \in 0 .. bound
<1>1. \A y \in DOMAIN ages :
        (IF ages[y] < bound THEN ages[y] + 1 ELSE bound) \in 0 .. bound
  OBVIOUS
<1> QED
  BY <1>1 DEF Scheduler!Aged, Scheduler!Restrict

LEMMA SchedulerTypesStep ==
  Scheduler!TypeOK /\ [Scheduler!Next]_(Scheduler!vars) => Scheduler!TypeOK'
<1> SUFFICES ASSUME Scheduler!TypeOK, [Scheduler!Next]_(Scheduler!vars)
             PROVE  Scheduler!TypeOK'
  OBVIOUS
<1> USE SchedulerPeriods
<1>1. ASSUME NEW t \in HintTrains, Scheduler!EnqueueTrain(t) PROVE Scheduler!TypeOK'
  <2>1. touch' = Scheduler!Touched(touch, t)
    BY <1>1 DEF Scheduler!EnqueueTrain
  <2>2. /\ DOMAIN touch' \subseteq HintTrains
        /\ \A u \in DOMAIN touch' : touch'[u] \in 0 .. Debounce
    BY <2>1, AgesTouched DEF Scheduler!TypeOK
  <2>3. quiet' \in [HintTrains -> 0 .. Scheduler!Patience + 1]
    BY <1>1, PatienceNat DEF Scheduler!EnqueueTrain, Scheduler!TypeOK
  <2> QED
    BY <1>1, <2>2, <2>3 DEF Scheduler!EnqueueTrain, Scheduler!TypeOK
<1>2. ASSUME NEW s \in HintStations, Scheduler!EnqueueStation(s)
      PROVE  Scheduler!TypeOK'
  <2>1. stationTouch' = Scheduler!Touched(stationTouch, s)
    BY <1>2 DEF Scheduler!EnqueueStation
  <2>2. /\ DOMAIN stationTouch' \subseteq HintStations
        /\ \A u \in DOMAIN stationTouch' : stationTouch'[u] \in 0 .. Debounce
    BY <2>1, AgesTouched DEF Scheduler!TypeOK
  <2> QED
    BY <1>2, <2>2 DEF Scheduler!EnqueueStation, Scheduler!TypeOK
<1>3. CASE Scheduler!Flush
  <2> DEFINE ages == Scheduler!Aged(touch, Debounce)
             gaps == Scheduler!Aged(gap, MinGap)
             stationAges == Scheduler!Aged(stationTouch, Debounce)
             trains == Scheduler!First(Scheduler!Ready(ages, gaps))
             stations == Scheduler!Quiet(stationAges)
             due == [trains |-> trains, stations |-> stations]
  <2>1. /\ touch' = Scheduler!Restrict(ages, DOMAIN ages \ trains)
        /\ gap' = [t \in HintTrains |-> IF t \in trains THEN 0 ELSE gaps[t]]
        /\ stationTouch' = Scheduler!Restrict(stationAges,
                                              DOMAIN stationAges \ stations)
        /\ quiet' = [t \in HintTrains |->
                       IF t \in Scheduler!Quiet(ages) \ trains
                       THEN Scheduler!More(quiet[t]) ELSE 0]
        /\ waiting' = waiting \cup trains
        /\ written' = due
        /\ hintFile' = IF due = Scheduler!NoHints THEN hintFile
                                                  ELSE Scheduler!NoHints
        /\ early' = early
    BY <1>3 DEF Scheduler!Flush
  <2>2. trains \subseteq DOMAIN ages /\ stations \subseteq DOMAIN stationAges
    BY DEF Scheduler!First, Scheduler!Ready, Scheduler!Quiet
  <2>3. /\ DOMAIN ages = DOMAIN touch /\ DOMAIN touch \subseteq HintTrains
        /\ DOMAIN stationAges = DOMAIN stationTouch
        /\ DOMAIN stationTouch \subseteq HintStations
    BY DEF Scheduler!Aged, Scheduler!TypeOK
  <2>4. /\ DOMAIN touch' \subseteq HintTrains
        /\ \A u \in DOMAIN touch' : touch'[u] \in 0 .. Debounce
    <3> HIDE DEF trains
    <3> QED
      BY <2>1, <2>3, AgesAged DEF Scheduler!TypeOK
  <2>5. /\ DOMAIN stationTouch' \subseteq HintStations
        /\ \A u \in DOMAIN stationTouch' : stationTouch'[u] \in 0 .. Debounce
    <3> HIDE DEF stations
    <3> QED
      BY <2>1, <2>3, AgesAged DEF Scheduler!TypeOK
  <2>6. gap' \in [HintTrains -> 0 .. MinGap]
    <3>1. \A t \in HintTrains : gaps[t] \in 0 .. MinGap
      BY DEF Scheduler!Aged, Scheduler!TypeOK
    <3> HIDE DEF gaps, trains
    <3> QED
      BY <2>1, <3>1
  <2>7. quiet' \in [HintTrains -> 0 .. Scheduler!Patience + 1]
    <3> SUFFICES ASSUME NEW t \in HintTrains
                 PROVE  quiet'[t] \in 0 .. Scheduler!Patience + 1
      BY <2>1
    <3>1. Scheduler!Patience \in Nat /\ quiet[t] \in 0 .. Scheduler!Patience + 1
      BY PatienceNat DEF Scheduler!TypeOK
    <3>2. Scheduler!More(quiet[t]) \in 0 .. Scheduler!Patience + 1
      BY <3>1 DEF Scheduler!More
    <3> QED
      BY <2>1, <3>1, <3>2
  <2>8. due \in Scheduler!Hints /\ Scheduler!NoHints \in Scheduler!Hints
    BY <2>2, <2>3 DEF Scheduler!Hints, Scheduler!NoHints
  <2>9. /\ written' \in Scheduler!Hints /\ hintFile' \in Scheduler!Hints
        /\ waiting' \subseteq HintTrains /\ early' \subseteq HintTrains
    <3> HIDE DEF due
    <3> QED
      BY <2>1, <2>2, <2>3, <2>8 DEF Scheduler!TypeOK
  <2> QED
    BY <2>4, <2>5, <2>6, <2>7, <2>9 DEF Scheduler!TypeOK
<1>4. CASE Scheduler!WriteHints
  <2>1. Scheduler!NoHints \in Scheduler!Hints
    BY DEF Scheduler!NoHints, Scheduler!Hints
  <2> QED
    BY <1>4, <2>1 DEF Scheduler!WriteHints, Scheduler!TypeOK
<1>5. CASE Scheduler!ReadHints
  BY <1>5 DEF Scheduler!ReadHints, Scheduler!TypeOK, Scheduler!Hints
<1>6. CASE UNCHANGED Scheduler!vars
  BY <1>6 DEF Scheduler!TypeOK, Scheduler!vars
<1> QED
  BY <1>1, <1>2, <1>3, <1>4, <1>5, <1>6 DEF Scheduler!Next

-----------------------------------------------------------------------------

LEMMA FetcherBackoff ==
  /\ BackoffMin \in Nat /\ BackoffMax \in Nat
  /\ \A backoff \in Nat :
       Fetcher!Min({Fetcher!Max({backoff * 2, BackoffMin}), BackoffMax})
         \in 0 .. BackoffMax
<1>1. BackoffMin \in Nat /\ BackoffMax \in Nat
  BY PartsAssumption DEF Fetcher!FetcherConstants
<1>2. ASSUME NEW b \in Nat
      PROVE  Fetcher!Min({Fetcher!Max({b * 2, BackoffMin}), BackoffMax})
               \in 0 .. BackoffMax
  <2> DEFINE twice == b * 2
  <2>1. twice \in Nat
    OBVIOUS
  <2> HIDE DEF twice
  <2>2. \E z \in {twice, BackoffMin} : \A u \in {twice, BackoffMin} : z >= u
    BY <1>1, <2>1
  <2>3. Fetcher!Max({twice, BackoffMin}) \in {twice, BackoffMin}
    BY <2>2 DEF Fetcher!Max
  <2> DEFINE longer == Fetcher!Max({twice, BackoffMin})
  <2>4. longer \in Nat
    BY <1>1, <2>1, <2>3
  <2> HIDE DEF longer
  <2>5. Fetcher!Min({longer, BackoffMax}) \in Nat
        /\ Fetcher!Min({longer, BackoffMax}) <= BackoffMax
    BY <1>1, <2>4, FetcherMin
  <2> QED
    BY <1>1, <2>5 DEF longer, twice
<1> QED
  BY <1>1, <1>2

LEMMA FetcherTypesInit == Fetcher!Init => Fetcher!TypeOK
<1> SUFFICES ASSUME Fetcher!Init PROVE Fetcher!TypeOK
  OBVIOUS
<1>1. /\ fetcherNow = 1 /\ cycle = 0 /\ wake = 1 /\ elapsed = 0
      /\ picks = << >> /\ picked = FALSE /\ stored = FALSE
      /\ DOMAIN lastFetched = {} /\ DOMAIN documents = {} /\ DOMAIN tracked = {}
      /\ lastSuccess = 0 /\ lastCycle = 1 /\ failures = 0
      /\ browser = [up |-> FALSE, launched |-> 0, backoff |-> 0, next |-> 0]
      /\ attempted = [t \in Trains |-> 0] /\ refused = 0 /\ trouble = 0
  BY DEF Fetcher!Init, Fetcher!Empty
<1>2. browser \in [up : BOOLEAN, launched : 0 .. fetcherNow, backoff : 0 .. BackoffMax,
                   next : 0 .. fetcherNow + BackoffMax]
  BY <1>1, FetcherBackoff
<1>3. << >> \in Seq(Trains) /\ attempted \in [Trains -> 0 .. fetcherNow]
  BY <1>1
<1>4. /\ 0 \in 0 .. fetcherNow /\ 1 \in 0 .. fetcherNow /\ 0 \in Nat /\ 1 \in Nat
      /\ fetcherNow \in Nat
  BY <1>1
<1> HIDE DEF Fetcher!Init
<1> QED
  BY <1>1, <1>2, <1>3, <1>4 DEF Fetcher!TypeOK

(* A train that is asked about, whatever comes of it.                      *)
LEMMA AttemptTypes ==
  ASSUME Fetcher!TypeOK, Fetcher!Attempt
  PROVE  /\ fetcherNow' = fetcherNow /\ fetcherNow' \in Nat
         /\ cycle' \in 0 .. fetcherNow' /\ cycle' # 0
         /\ wake' \in Nat /\ elapsed' \in Nat /\ failures' \in Nat
         /\ picked' \in BOOLEAN
         /\ lastSuccess' \in 0 .. fetcherNow' /\ lastCycle' \in 0 .. fetcherNow'
         /\ DOMAIN lastFetched' \subseteq Trains
         /\ \A t \in DOMAIN lastFetched' : lastFetched'[t] \in 1 .. fetcherNow'
         /\ attempted' \in [Trains -> 0 .. fetcherNow']
         /\ Head(picks) \in Trains /\ Tail(picks) \in Seq(Trains)
<1>1. picks \in Seq(Trains) /\ picks # << >>
  BY DEF Fetcher!TypeOK, Fetcher!Attempt
<1>2. Head(picks) \in Trains /\ Tail(picks) \in Seq(Trains)
  BY <1>1, HeadTailProperties
<1>3. /\ UNCHANGED <<fetcherNow, cycle, picked, wake, elapsed, lastSuccess,
                     lastCycle, failures>>
      /\ cycle # 0
      /\ lastFetched' = [t \in DOMAIN lastFetched \cup {Head(picks)} |->
                           IF t = Head(picks) THEN cycle ELSE lastFetched[t]]
      /\ attempted' = [attempted EXCEPT ![Head(picks)] = cycle]
  BY DEF Fetcher!Attempt, Fetcher!loop
<1>4. cycle \in 1 .. fetcherNow /\ fetcherNow \in Nat
  BY <1>3 DEF Fetcher!TypeOK
<1>5. /\ DOMAIN lastFetched' \subseteq Trains
      /\ \A t \in DOMAIN lastFetched' : lastFetched'[t] \in 1 .. fetcherNow'
  BY <1>2, <1>3, <1>4 DEF Fetcher!TypeOK
<1>6. attempted' \in [Trains -> 0 .. fetcherNow']
  BY <1>2, <1>3, <1>4 DEF Fetcher!TypeOK
<1> QED
  BY <1>2, <1>3, <1>4, <1>5, <1>6 DEF Fetcher!TypeOK

Browsers == [up : BOOLEAN, launched : 0 .. fetcherNow, backoff : 0 .. BackoffMax,
             next : 0 .. fetcherNow + BackoffMax]

LEMMA AnsweredTypes ==
  ASSUME Fetcher!TypeOK, Fetcher!Answered, fetcherNow' = fetcherNow
  PROVE  browser' \in Browsers'
<1>1. browser \in Browsers /\ fetcherNow \in Nat
  BY DEF Fetcher!TypeOK, Browsers
<1>2. /\ browser.next \in 0 .. fetcherNow + BackoffMax
      /\ browser.launched \in 0 .. fetcherNow
  BY <1>1 DEF Browsers
<1>3. fetcherNow \in 0 .. fetcherNow /\ 0 \in 0 .. BackoffMax
  BY <1>1, FetcherBackoff
<1>4. PICK at1 \in 0 .. fetcherNow :
        browser' = [up |-> TRUE, backoff |-> 0, next |-> browser.next,
                    launched |-> at1]
  BY <1>2, <1>3 DEF Fetcher!Answered
<1> QED
  BY <1>2, <1>3, <1>4 DEF Browsers

LEMMA FailedTypes ==
  ASSUME Fetcher!TypeOK, Fetcher!Failed, fetcherNow' = fetcherNow
  PROVE  browser' \in Browsers'
<1>1. browser \in Browsers /\ fetcherNow \in Nat
  BY DEF Fetcher!TypeOK, Browsers
<1>2. browser.backoff \in Nat /\ browser.launched \in 0 .. fetcherNow
  BY <1>1, FetcherBackoff DEF Browsers
<1>3. Fetcher!Backoff \in 0 .. BackoffMax
  BY <1>2, FetcherBackoff DEF Fetcher!Backoff
<1>4. fetcherNow + Fetcher!Backoff \in 0 .. fetcherNow + BackoffMax
  BY <1>1, <1>3, FetcherBackoff
<1> QED
  BY <1>2, <1>3, <1>4 DEF Fetcher!Failed, Browsers

LEMMA SleptTypes ==
  ASSUME Fetcher!TypeOK, NEW succeeded \in BOOLEAN, Fetcher!Slept(succeeded),
         fetcherNow' = fetcherNow
  PROVE  /\ failures' \in Nat /\ lastCycle' \in 0 .. fetcherNow'
         /\ wake' \in Nat /\ elapsed' \in Nat
<1>1. /\ failures' = IF succeeded THEN 0 ELSE failures + 1
      /\ lastCycle' = fetcherNow /\ wake' = fetcherNow + Poll
      /\ elapsed' = IF Fetcher!Full THEN Poll ELSE elapsed + Poll
  BY DEF Fetcher!Slept
<1>2. failures \in Nat /\ fetcherNow \in Nat /\ elapsed \in Nat /\ Poll \in Nat
  BY FetcherPeriods DEF Fetcher!TypeOK
<1>3. failures' \in Nat
  BY <1>1, <1>2
<1>4. elapsed' \in Nat
  BY <1>1, <1>2
<1> QED
  BY <1>1, <1>2, <1>3, <1>4

LEMMA FetcherTypesStep ==
  Fetcher!TypeOK /\ [Fetcher!Next]_(Fetcher!vars) => Fetcher!TypeOK'
<1> SUFFICES ASSUME Fetcher!TypeOK, [Fetcher!Next]_(Fetcher!vars)
             PROVE  Fetcher!TypeOK'
  OBVIOUS
<1>1. CASE Fetcher!Tick
  <2>1. /\ fetcherNow' = fetcherNow + 1
        /\ UNCHANGED <<cycle, wake, elapsed, picks, picked, stored, lastFetched,
                       documents, tracked, lastSuccess, lastCycle, failures,
                       browser, attempted, refused, trouble>>
    BY <1>1 DEF Fetcher!Tick, Fetcher!loop, Fetcher!store, Fetcher!history
  <2>2. fetcherNow \in Nat /\ BackoffMax \in Nat
    BY FetcherBackoff DEF Fetcher!TypeOK
  <2>3. /\ 0 .. fetcherNow \subseteq 0 .. fetcherNow'
        /\ 1 .. fetcherNow \subseteq 1 .. fetcherNow'
        /\ 0 .. fetcherNow + BackoffMax \subseteq 0 .. fetcherNow' + BackoffMax
    BY <2>1, <2>2
  <2>4. browser' \in Browsers'
    <3>1. browser \in Browsers
      BY DEF Fetcher!TypeOK, Browsers
    <3> HIDE DEF Fetcher!TypeOK
    <3> QED
      BY <2>1, <2>3, <3>1 DEF Browsers
  <2>5. attempted' \in [Trains -> 0 .. fetcherNow']
    <3>1. attempted \in [Trains -> 0 .. fetcherNow]
      BY DEF Fetcher!TypeOK
    <3> QED
      BY <2>1, <2>3, <3>1
  <2> QED
    BY <2>1, <2>2, <2>3, <2>4, <2>5 DEF Fetcher!TypeOK, Browsers
<1>2. CASE Fetcher!ListFails
  <2>1. /\ fetcherNow' = fetcherNow /\ Fetcher!Slept(FALSE) /\ trouble' = fetcherNow
        /\ UNCHANGED <<cycle, picks, picked, stored, lastFetched, lastSuccess,
                       documents, tracked, browser, attempted, refused>>
    BY <1>2 DEF Fetcher!ListFails, Fetcher!store
  <2>2. /\ failures' \in Nat /\ lastCycle' \in 0 .. fetcherNow'
        /\ wake' \in Nat /\ elapsed' \in Nat
    BY <2>1, SleptTypes
  <2> QED
    BY <2>1, <2>2 DEF Fetcher!TypeOK
<1>3. ASSUME NEW hints \in SUBSET Trains, Fetcher!StartCycle(hints)
      PROVE  Fetcher!TypeOK'
  <2> DEFINE due == Fetcher!Considered(hints)
  <2>1. /\ cycle' = fetcherNow /\ stored' = FALSE
        /\ lastFetched' = Fetcher!Restrict(lastFetched, DOMAIN lastFetched \cap due)
        /\ picks' \in Fetcher!ChooseFetches(due, lastFetched)
        /\ picked' = (picks' # << >>)
        /\ UNCHANGED <<fetcherNow, wake, elapsed, lastSuccess, lastCycle, failures,
                       documents, tracked, browser, attempted, refused, trouble>>
    BY <1>3 DEF Fetcher!StartCycle, Fetcher!loop, Fetcher!store, Fetcher!history
  <2>2. due \in SUBSET Trains
    BY DEF Fetcher!Considered, Fetcher!Due
  <2>3. picks' \in Seq(Trains)
    <3>1. picks' \in Seq(HotAmong(due) \cup Fetcher!Ready(due, lastFetched))
      <4> HIDE DEF due
      <4> QED
        BY <2>1, <2>2, ChosenMembers
    <3>2. HotAmong(due) \cup Fetcher!Ready(due, lastFetched) \subseteq Trains
      BY <2>2 DEF HotAmong, Fetcher!Ready
    <3> QED
      BY <3>1, <3>2
  <2>4. /\ DOMAIN lastFetched' \subseteq Trains
        /\ \A t \in DOMAIN lastFetched' : lastFetched'[t] \in 1 .. fetcherNow'
    <3> HIDE DEF due
    <3> QED
      BY <2>1 DEF Fetcher!Restrict, Fetcher!TypeOK
  <2>5. fetcherNow \in 0 .. fetcherNow /\ picked' \in BOOLEAN
    BY <2>1 DEF Fetcher!TypeOK
  <2> QED
    BY <2>1, <2>3, <2>4, <2>5 DEF Fetcher!TypeOK
<1>4. ASSUME NEW codes \in SUBSET Stations, Fetcher!Fetch(codes)
      PROVE  Fetcher!TypeOK'
  <2>1. /\ Fetcher!Attempt /\ Fetcher!Answered
        /\ documents' = [t \in DOMAIN documents \cup {Head(picks)} |->
                           IF t = Head(picks) THEN cycle ELSE documents[t]]
        /\ tracked' = [t \in DOMAIN tracked \cup {Head(picks)} |->
                         IF t = Head(picks) THEN codes ELSE tracked[t]]
        /\ stored' = TRUE /\ refused' = 0 /\ picks' = Tail(picks)
        /\ trouble' = trouble
    BY <1>4 DEF Fetcher!Fetch
  <2>2. cycle \in 1 .. fetcherNow /\ fetcherNow' = fetcherNow /\ fetcherNow \in Nat
    BY <2>1, AttemptTypes DEF Fetcher!Attempt, Fetcher!TypeOK
  <2>3. Head(picks) \in Trains
    BY <2>1, AttemptTypes
  <2>4. /\ DOMAIN documents' \subseteq Trains /\ DOMAIN tracked' = DOMAIN documents'
        /\ \A t \in DOMAIN documents' : /\ documents'[t] \in 1 .. fetcherNow'
                                        /\ tracked'[t] \subseteq Stations
    BY <2>1, <2>2, <2>3 DEF Fetcher!TypeOK
  <2>5. browser' \in Browsers'
    BY <2>1, <2>2, AnsweredTypes
  <2>6. refused' \in 0 .. fetcherNow' /\ trouble' \in 0 .. fetcherNow'
    BY <2>1, <2>2 DEF Fetcher!TypeOK
  <2> QED
    BY <2>1, <2>4, <2>5, <2>6, AttemptTypes DEF Fetcher!TypeOK, Browsers
<1>5. CASE Fetcher!Miss \/ Fetcher!BrowserFails \/ Fetcher!BackingOff
  <2>1. /\ Fetcher!Attempt
        /\ picks' \in {Tail(picks), << >>}
        /\ refused' = (IF refused = 0 THEN fetcherNow ELSE refused)
        /\ UNCHANGED <<stored, documents, tracked>>
        /\ trouble' \in {trouble, fetcherNow}
    BY <1>5 DEF Fetcher!Miss, Fetcher!BrowserFails, Fetcher!BackingOff,
                Fetcher!Refused, Fetcher!store
  <2>2. fetcherNow' = fetcherNow
    BY <2>1, AttemptTypes
  <2>3. browser' \in Browsers'
    <3>1. CASE Fetcher!Miss
      BY <2>2, <3>1, AnsweredTypes DEF Fetcher!Miss
    <3>2. CASE Fetcher!BrowserFails
      BY <2>2, <3>2, FailedTypes DEF Fetcher!BrowserFails
    <3>3. CASE Fetcher!BackingOff
      <4>1. browser \in Browsers /\ browser' = [browser EXCEPT !.up = FALSE]
        BY <3>3 DEF Fetcher!BackingOff, Fetcher!TypeOK, Browsers
      <4> QED
        BY <2>2, <4>1 DEF Browsers
    <3> QED
      BY <1>5, <3>1, <3>2, <3>3
  <2>4. /\ stored' \in BOOLEAN /\ refused' \in 0 .. fetcherNow'
        /\ trouble' \in 0 .. fetcherNow'
    BY <2>1, <2>2 DEF Fetcher!TypeOK
  <2>5. picks' \in Seq(Trains)
    <3>1. Tail(picks) \in Seq(Trains) /\ << >> \in Seq(Trains)
      BY <2>1, AttemptTypes
    <3> QED
      BY <2>1, <3>1
  <2>6. /\ DOMAIN documents' \subseteq Trains /\ DOMAIN tracked' = DOMAIN documents'
        /\ \A t \in DOMAIN documents' : /\ documents'[t] \in 1 .. fetcherNow'
                                        /\ tracked'[t] \subseteq Stations
    BY <2>1, <2>2 DEF Fetcher!TypeOK
  <2> QED
    BY <2>1, <2>3, <2>4, <2>5, <2>6, AttemptTypes DEF Fetcher!TypeOK, Browsers
<1>6. CASE Fetcher!EndCycle
  <2> DEFINE succeeded == ~picked \/ stored
  <2>1. /\ fetcherNow' = fetcherNow /\ Fetcher!Slept(succeeded) /\ cycle' = 0
        /\ lastSuccess' = IF succeeded THEN cycle ELSE lastSuccess
        /\ UNCHANGED <<picks, picked, stored, lastFetched,
                       documents, tracked, browser, attempted, refused, trouble>>
    BY <1>6 DEF Fetcher!EndCycle, Fetcher!store, Fetcher!history
  <2>2. succeeded \in BOOLEAN
    OBVIOUS
  <2> HIDE DEF succeeded
  <2>3. /\ failures' \in Nat /\ lastCycle' \in 0 .. fetcherNow'
        /\ wake' \in Nat /\ elapsed' \in Nat
    BY <2>1, <2>2, SleptTypes
  <2> QED
    BY <2>1, <2>3 DEF Fetcher!TypeOK
<1>7. CASE Fetcher!Get
  <2>1. PICK fresh : /\ fresh \subseteq DOMAIN documents
                     /\ documents' = Fetcher!Restrict(documents, fresh)
                     /\ tracked' = Fetcher!Restrict(tracked, fresh)
    BY <1>7 DEF Fetcher!Get
  <2>2. UNCHANGED <<fetcherNow, cycle, wake, elapsed, picks, picked, stored,
                    lastFetched, lastSuccess, lastCycle, failures, browser,
                    attempted, refused, trouble>>
    BY <1>7 DEF Fetcher!Get, Fetcher!loop, Fetcher!history
  <2>3. /\ DOMAIN documents' \subseteq Trains /\ DOMAIN tracked' = DOMAIN documents'
        /\ \A t \in DOMAIN documents' : /\ documents'[t] \in 1 .. fetcherNow'
                                        /\ tracked'[t] \subseteq Stations
    BY <2>1, <2>2 DEF Fetcher!Restrict, Fetcher!TypeOK
  <2> QED
    BY <2>2, <2>3 DEF Fetcher!TypeOK
<1>8. CASE UNCHANGED Fetcher!vars
  BY <1>8 DEF Fetcher!vars, Fetcher!TypeOK
<1> QED
  BY <1>1, <1>2, <1>3, <1>4, <1>5, <1>6, <1>7, <1>8 DEF Fetcher!Next

-----------------------------------------------------------------------------

(* A source has one row at most, which BoardsInv says without counting.    *)
LEMMA BoardsTypes == BoardsInv => Boards!TypeOK
<1> SUFFICES ASSUME BoardsInv PROVE Boards!TypeOK
  OBVIOUS
<1>1. ASSUME NEW k \in DOMAIN boards
      PROVE  boards[k].observed \in Nat /\ Boards!Cardinality(boards[k].rows) <= 1
  <2> DEFINE R == boards[k].rows
  <2>1. boards[k].observed \in Nat /\ \A x, y \in R : x = y
    BY <1>1 DEF BoardsInv, StoredInv, Boards!StationBoard
  <2> HIDE DEF R
  <2>2. Boards!Cardinality(R) = Cardinality(R)
    BY DEF Boards!Cardinality, Cardinality
  <2>3. CASE R = {}
    BY <2>1, <2>2, <2>3, FS_EmptySet DEF R
  <2>4. ASSUME NEW x \in R PROVE Cardinality(R) = 1
    <3>1. R = {x}
      BY <2>1
    <3> QED
      BY <3>1, FS_Singleton
  <2> QED
    BY <2>1, <2>2, <2>3, <2>4 DEF R
<1> QED
  BY <1>1 DEF BoardsInv, RailwayInv, DocumentInv, StoredInv, Boards!TypeOK

-----------------------------------------------------------------------------

(* Where a watch is; a snapshot that is still to be written has its place. *)
StageInv ==
  /\ phase \in {"idle", "watch", "fetch", "merge"}
  /\ deadline \in Nat /\ aborted \in BOOLEAN
  /\ round \in 0 .. MaxCycles /\ began \in 0 .. surveyNow
  /\ rows \subseteq Survey!Row /\ \A r \in rows : r.fetched <= surveyNow
  /\ Len(files) <= MaxFiles /\ first <= Len(files) + 1
  /\ phase = "fetch" => Len(files) < MaxFiles

LEMMA StageInit == Survey!Init => StageInv
<1> SUFFICES ASSUME Survey!Init PROVE StageInv
  OBVIOUS
<1>1. /\ phase = "idle" /\ deadline = 0 /\ aborted = FALSE /\ round = 0
      /\ began = 0 /\ surveyNow = 1 /\ rows = {} /\ files = << >> /\ first = 1
  BY DEF Survey!Init
<1>2. MaxCycles \in Nat /\ MaxFiles \in Nat
  BY PartsAssumption DEF Survey!SurveyConstants
<1>3. Len(files) = 0
  BY <1>1
<1>4. round \in 0 .. MaxCycles /\ began \in 0 .. surveyNow /\ deadline \in Nat
  BY <1>1, <1>2
<1>5. Len(files) <= MaxFiles /\ first <= Len(files) + 1 /\ ~(phase = "fetch")
  BY <1>1, <1>2, <1>3
<1>6. rows \subseteq Survey!Row /\ \A r \in rows : r.fetched <= surveyNow
  BY <1>1
<1>7. phase \in {"idle", "watch", "fetch", "merge"} /\ aborted \in BOOLEAN
  BY <1>1
<1> QED
  BY <1>4, <1>5, <1>6, <1>7 DEF StageInv

LEMMA StageStep ==
  SurveyInv /\ StageInv /\ [Survey!Next]_(Survey!vars) => StageInv'
<1> SUFFICES ASSUME SurveyInv, StageInv, [Survey!Next]_(Survey!vars)
             PROVE  StageInv'
  OBVIOUS
<1>0. /\ MaxCycles \in Nat /\ MaxFiles \in Nat /\ Duration \in Nat
      /\ surveyNow \in Nat /\ first \in Nat /\ Len(files) \in Nat
      /\ files \in Seq(SUBSET Survey!Row)
  BY PartsAssumption
     DEF Survey!SurveyConstants, SurveyInv, WatchInv, FilesInv, GoodFiles
<1>1. CASE Survey!StartWatch
  <2>1. /\ phase' = "watch" /\ deadline' = surveyNow + Duration /\ round' = 0
        /\ first' = Len(files) + 1
        /\ UNCHANGED <<surveyNow, began, rows, aborted, files>>
    BY <1>1 DEF Survey!StartWatch
  <2> QED
    BY <1>0, <2>1 DEF StageInv
<1>2. CASE Survey!StartCycle
  <2>1. /\ phase' = "fetch" /\ round' = round + 1 /\ began' = surveyNow
        /\ round < MaxCycles /\ Len(files) < MaxFiles
        /\ rows' = {} /\ aborted' = FALSE
        /\ UNCHANGED <<surveyNow, deadline, files, first>>
    BY <1>2 DEF Survey!StartCycle
  <2>2. /\ round' \in 0 .. MaxCycles /\ began' \in 0 .. surveyNow'
        /\ deadline' \in Nat /\ first' <= Len(files') + 1
    BY <1>0, <2>1 DEF StageInv
  <2>3. /\ rows' \subseteq Survey!Row /\ \A r \in rows' : r.fetched <= surveyNow'
    BY <2>1
  <2>4. Len(files') <= MaxFiles /\ (phase' = "fetch" => Len(files') < MaxFiles)
    BY <1>0, <2>1
  <2> QED
    BY <2>1, <2>2, <2>3, <2>4 DEF StageInv
<1>3. CASE Survey!ListFails \/ Survey!LoopEnds
  <2>1. /\ phase' = "merge"
        /\ \/ round' = round
           \/ round < MaxCycles /\ round' = round + 1
        /\ UNCHANGED <<surveyNow, deadline, began, rows, aborted, files, first>>
    BY <1>3 DEF Survey!ListFails, Survey!LoopEnds
  <2> QED
    BY <1>0, <2>1 DEF StageInv
<1>4. CASE Survey!Read
  <2>1. PICK page \in Pages[Head(left)] :
          rows' = rows \cup {[train |-> Head(left), fetched |-> surveyNow,
                              sides |-> page]}
    BY <1>4 DEF Survey!Read
  <2>2. /\ phase = "fetch" /\ left # << >> /\ surveyNow' = surveyNow + 1
        /\ UNCHANGED <<phase, deadline, round, began, files, first, aborted>>
    BY <1>4 DEF Survey!Read, Survey!Request
  <2>3. RowsInv' /\ surveyNow' \in Nat /\ phase' = "fetch"
    BY <1>0, <1>4, <2>2, ReadStep DEF SurveyInv
  <2>4. /\ rows' \subseteq Survey!Row
        /\ \A r \in rows' : r.fetched < surveyNow' /\ r.fetched \in Nat
    BY <2>3 DEF RowsInv, Survey!Row
  <2> QED
    BY <1>0, <2>2, <2>3, <2>4 DEF StageInv
<1>5. CASE Survey!Miss \/ Survey!Refused
  <2>1. /\ phase = "fetch" /\ surveyNow' = surveyNow + 1 /\ aborted' \in BOOLEAN
        /\ UNCHANGED <<phase, deadline, round, began, files, first, rows>>
    BY <1>5 DEF Survey!Miss, Survey!Refused, Survey!Request, StageInv
  <2>2. \A r \in rows : r.fetched \in Nat /\ r.fetched <= surveyNow
    BY DEF StageInv, Survey!Row
  <2> QED
    BY <1>0, <2>1, <2>2 DEF StageInv
<1>6. CASE Survey!EndCycle
  <2>1. /\ phase = "fetch" /\ phase' \in {"merge", "watch"}
        /\ files' = Append(files, rows)
        /\ UNCHANGED <<deadline, round, began, rows, aborted, first>>
        /\ \/ surveyNow' = surveyNow
           \/ Survey!NextPause # None /\ surveyNow' = surveyNow + Survey!NextPause
    BY <1>6 DEF Survey!EndCycle
  <2>2. surveyNow' \in Nat /\ surveyNow <= surveyNow'
    BY <1>0, <2>1, PauseNat
  <2>3. Len(files') = Len(files) + 1
    BY <1>0, <2>1
  <2>4. \A r \in rows : r.fetched \in Nat /\ r.fetched <= surveyNow
    BY DEF StageInv, Survey!Row
  <2>5. \A r \in rows : r.fetched <= surveyNow'
    BY <1>0, <2>2, <2>4
  <2> QED
    BY <1>0, <2>1, <2>2, <2>3, <2>5 DEF StageInv
<1>7. CASE Survey!MergeWatch \/ Survey!MergeCommand \/ UNCHANGED Survey!vars
  <2>1. /\ phase' \in {phase, "idle"}
        /\ UNCHANGED <<surveyNow, deadline, round, began, rows, aborted, files,
                       first>>
    BY <1>7 DEF Survey!MergeWatch, Survey!MergeCommand, Survey!vars
  <2> QED
    BY <2>1 DEF StageInv
<1> QED
  BY <1>1, <1>2, <1>3, <1>4, <1>5, <1>6, <1>7 DEF Survey!Next

LEMMA SurveyTypes == SurveyInv /\ StageInv => Survey!TypeOK
<1> SUFFICES ASSUME SurveyInv, StageInv PROVE Survey!TypeOK
  OBVIOUS
<1>1. /\ surveyNow \in Nat /\ first \in Nat \ {0} /\ Len(files) \in Nat
      /\ \A i \in DOMAIN left : left[i] \in Survey!Range(Queue)
  BY DEF SurveyInv, WatchInv, FilesInv, GoodFiles
<1>2. first \in 1 .. Len(files) + 1
  BY <1>1 DEF StageInv
<1>3. UNION Survey!Range(report.parts) \subseteq DOMAIN files
  BY DEF SurveyInv, ReportInv, GoodReport, Survey!Range
<1> QED
  BY <1>1, <1>2, <1>3 DEF StageInv, Survey!TypeOK

-----------------------------------------------------------------------------

LEMMA TracksIsToken == TracksSpec => Init /\ [][Next]_vars
<1>1. TracksInit => Init
  BY DEF TracksInit
<1>2. [TracksNext]_<<part, vars, schedulerVars, fetcherVars, boardsVars, surveyVars>>
        => [Next]_vars
  BY DEF TracksNext, TokenStep, SchedulerStep, FetcherStep, BoardsStep, SurveyStep,
         vars
<1> QED
  BY <1>1, <1>2, PTL DEF TracksSpec

(* Every part of the way of a track keeps its variables in their types,    *)
(* whatever the bounds, periods and faults: memory and file of the client, *)
(* hints and their ages, documents, browser and picks of the fetcher, rows *)
(* of the store, snapshots and reports of the survey.                      *)
THEOREM TracksTypeCorrect == TracksSpec => []TypesOK
<1>1. TracksSpec => []TypeOK
  BY TracksIsToken, TypeInit, TypeStep, PTL
<1>2. TracksSpec => []Scheduler!TypeOK
  BY TracksIsScheduler, SchedulerTypesInit, SchedulerTypesStep, PTL
<1>3. TracksSpec => []Fetcher!TypeOK
  BY TracksIsFetcher, FetcherTypesInit, FetcherTypesStep, PTL DEF Fetcher!Spec
<1>4. TracksSpec => []Boards!TypeOK
  BY BoardsAlways, BoardsTypes, PTL
<1>5. TracksSpec => []StageInv
  BY TracksIsSurvey, SurveyAlways, StageInit, StageStep, PTL
<1>6. TracksSpec => []Survey!TypeOK
  BY <1>5, SurveyAlways, SurveyTypes, PTL
<1>7. TypeOK /\ Scheduler!TypeOK /\ Fetcher!TypeOK /\ Boards!TypeOK
        /\ Survey!TypeOK => TypesOK
  BY DEF TypesOK
<1> QED
  BY <1>1, <1>2, <1>3, <1>4, <1>6, <1>7, PTL
=============================================================================
