--------------------------- MODULE Calendar_proofs ---------------------------
(***************************************************************************)
(* The memoized days of the tuning calendar are exact, for every length of *)
(* a day and of a visit's gap, every set of analyzers, windows and time    *)
(* zones, and any interleaving of the requests' statements with writes.    *)
(*                                                                         *)
(* A row is right (Right) if it counts the frames, verdicts and visits of  *)
(* its day; its visits are those the day has by itself, or one fewer if    *)
(* the first goes on from the night before, which is what a cut visit      *)
(* leaves of the exact count.  A write leaves a day right that it does not *)
(* drop (WriteSpares).  So memoized days stay right (DaysRight), and what  *)
(* a request has counted is right as long as its reservation is there and  *)
(* holds the ids it counted (SpanHeld, UnderWay); QuietSoFar is what holds *)
(* besides while nothing was written.                                      *)
(***************************************************************************)
EXTENDS Calendar, WellFoundedInduction, FiniteSetTheorems, TLAPS

-----------------------------------------------------------------------------
(* A nonempty set of naturals has a least element, and a greatest one if it *)
(* is bounded.                                                              *)
LEMMA LeastNatural ==
    ASSUME NEW S, S \subseteq Nat, S # {}
    PROVE  \E m \in S : \A y \in S : m <= y
<1>1. PICK m \in S : \A y \in S : <<y, m>> \notin OpToRel(<, Nat)
  BY NatLessThanWellFounded, WFMin
<1>2. \A y \in S : y \in Nat /\ m \in Nat /\ ~(y < m)
  BY <1>1 DEF OpToRel
<1> QED BY <1>2

LEMMA MinFacts ==
    ASSUME NEW S, S \subseteq Nat, S # {}
    PROVE  Min(S) \in S /\ \A y \in S : Min(S) <= y
BY LeastNatural DEF Min

LEMMA MaxFacts ==
    ASSUME NEW n \in Nat, NEW S, S \subseteq 0..n, S # {}
    PROVE  Max(S) \in S /\ \A y \in S : y <= Max(S)
<1> DEFINE T == {n - y : y \in S}
<1>1. T \subseteq Nat
  BY \A y \in S : n - y \in Nat
<1>2. T # {}
  OBVIOUS
<1>3. PICK m \in T : \A z \in T : m <= z
  <2> HIDE DEF T
  <2> QED BY <1>1, <1>2, LeastNatural
<1>4. PICK x \in S : \A y \in S : n - x <= n - y
  BY <1>3
<1>5. Max(S) \in S /\ \A y \in S : Max(S) >= y
  <2>1. \A y \in S : x >= y
    BY <1>4
  <2> QED BY <2>1 DEF Max
<1> QED BY <1>5

LEMMA MaxOfTwo == \A a, b \in Int : a >= b => Max({a, b}) = a
BY DEF Max

LEMMA MinOfTwo == \A a, b \in Int : a <= b => Min({a, b}) = a /\ Max({a, b}) = b
BY DEF Min, Max

-----------------------------------------------------------------------------
(* Functions on part of a set.                                              *)
LEMMA RestrictFacts ==
    ASSUME NEW f, NEW S
    PROVE  DOMAIN Restrict(f, S) = S /\ \A x \in S : Restrict(f, S)[x] = f[x]
BY DEF Restrict

LEMMA WithFacts ==
    ASSUME NEW f, NEW a, NEW b
    PROVE  /\ DOMAIN With(f, a, b) = DOMAIN f \cup {a} /\ With(f, a, b)[a] = b
           /\ \A x \in DOMAIN f \ {a} : With(f, a, b)[x] = f[x]
BY DEF With

LEMMA MapsFacts ==
    ASSUME NEW A, NEW B, NEW f, Maps(f, A, B)
    PROVE  DOMAIN f \subseteq A /\ \A x \in DOMAIN f : f[x] \in B
BY DEF Maps

LEMMA MapsRestrict ==
    ASSUME NEW A, NEW B, NEW f, Maps(f, A, B), NEW S, S \subseteq DOMAIN f
    PROVE  Maps(Restrict(f, S), A, B)
BY DEF Maps, Restrict

LEMMA MapsWith ==
    ASSUME NEW A, NEW B, NEW f, Maps(f, A, B), NEW a \in A, NEW b \in B
    PROVE  Maps(With(f, a, b), A, B)
BY DEF Maps, With

LEMMA MapsNothing == \A A, B : Maps(<<>>, A, B)
<1> SUFFICES ASSUME NEW A, NEW B PROVE <<>> \in [{} -> B] /\ DOMAIN <<>> = {}
  BY DEF Maps
<1> QED OBVIOUS

-----------------------------------------------------------------------------
(* A day of a table of frames, its visits, and the verdicts on it.          *)
Table(fs, n) == Maps(fs, 1..n, [ts : Times, motion : BOOLEAN])
IsKey(k) == k \in Int \X Int

OfDay(fs, k) == {i \in DOMAIN fs : InDay(k, fs[i].ts)}
MotionIn(fs, S) == {i \in S : fs[i].motion}
Precedes(fs, i, j) == fs[i].ts < fs[j].ts \/ (fs[i].ts = fs[j].ts /\ i < j)
Begins(fs, i, S) == \A j \in S : Precedes(fs, j, i) => fs[i].ts - fs[j].ts > Gap
VisitsIn(fs, k) == {i \in MotionIn(fs, OfDay(fs, k)) : Begins(fs, i, MotionIn(fs, DOMAIN fs))}
Overnight(fs, k) == \E i \in MotionIn(fs, OfDay(fs, k)) : fs[i].ts < Midnight(k) + Gap

(* The visits a day has by itself, whatever came the night before.          *)
OwnVisits(fs, k) ==
    {i \in MotionIn(fs, OfDay(fs, k)) : Begins(fs, i, MotionIn(fs, OfDay(fs, k)))}

SweptIn(an, a, lo, hi) == Cardinality({v \in an : v[1] \in lo..hi /\ v[2] = a})

(* What the row of a day has to say of its frames, visits and verdicts.     *)
CountsFrames(fs, row, k) ==
    LET ids == OfDay(fs, k)
    IN  ids # {} /\ row.since = Min(ids) /\ row.until = Max(ids) /\ row.frames = Cardinality(ids)

CountsVisits(fs, c, row, k) ==
    /\ \/ row.events = Cardinality(OwnVisits(fs, k))
       \/ row.events = Cardinality(OwnVisits(fs, k)) - 1 /\ Overnight(fs, k)
    /\ ~c => row.events = Cardinality(VisitsIn(fs, k))

CountsVerdicts(an, row) ==
    \A a \in DOMAIN row.analyzed : row.analyzed[a] = SweptIn(an, a, row.since, row.until)

Right(fs, an, c, row, k) ==
    CountsFrames(fs, row, k) /\ CountsVisits(fs, c, row, k) /\ CountsVerdicts(an, row)

LEMMA MidnightTyped == \A k : IsKey(k) => Midnight(k) \in Int
<1> SUFFICES ASSUME NEW a \in Int, NEW b \in Int PROVE b * Day - a \in Int
  BY DEF Midnight, IsKey
<1> QED BY TimeAssumption

LEMMA TableFacts ==
    ASSUME NEW n \in Nat, NEW fs, Table(fs, n)
    PROVE  /\ DOMAIN fs \subseteq 1..n /\ IsFiniteSet(DOMAIN fs)
           /\ \A i \in DOMAIN fs : i \in Nat /\ fs[i].ts \in Nat /\ fs[i].motion \in BOOLEAN
<1>1. DOMAIN fs \subseteq 1..n /\ \A i \in DOMAIN fs : fs[i] \in [ts : Times, motion : BOOLEAN]
  <2> DEFINE D == 1..n
             F == [ts : Times, motion : BOOLEAN]
  <2>1. Maps(fs, D, F)
    BY DEF Table
  <2> HIDE DEF D, F
  <2>2. DOMAIN fs \subseteq D /\ \A i \in DOMAIN fs : fs[i] \in F
    BY <2>1, MapsFacts
  <2> QED BY <2>2 DEF D, F
<1>2. IsFiniteSet(DOMAIN fs)
  BY <1>1, FS_Interval, FS_Subset
<1> QED BY <1>1, <1>2, BoundsAssumption DEF Times

(* The visits of a day by itself are the visits of the day, but for the     *)
(* first, which a frame of the night before may precede.                    *)
LEMMA VisitsOfTheDay ==
    ASSUME NEW n \in Nat, NEW fs, Table(fs, n), NEW k, IsKey(k)
    PROVE  /\ Cardinality(VisitsIn(fs, k)) \in Nat /\ Cardinality(OwnVisits(fs, k)) \in Nat
           /\ \/ VisitsIn(fs, k) = OwnVisits(fs, k)
              \/ /\ Cardinality(VisitsIn(fs, k)) = Cardinality(OwnVisits(fs, k)) - 1
                 /\ Overnight(fs, k)
<1> DEFINE V == VisitsIn(fs, k)
           W == OwnVisits(fs, k)
<1>1. Midnight(k) \in Int /\ IsFiniteSet(DOMAIN fs)
      /\ \A i \in DOMAIN fs : i \in Nat /\ fs[i].ts \in Nat /\ fs[i].motion \in BOOLEAN
  BY MidnightTyped, TableFacts
<1>2. V \subseteq W /\ W \subseteq DOMAIN fs
  BY DEF VisitsIn, OwnVisits, Begins, MotionIn, OfDay
<1>3. IsFiniteSet(W) /\ IsFiniteSet(V) /\ Cardinality(W) \in Nat /\ Cardinality(V) \in Nat
  BY <1>1, <1>2, FS_Subset, FS_CardinalityType
<1>4. ASSUME NEW i \in W \ V
      PROVE  \E j \in DOMAIN fs : /\ fs[j].ts < Midnight(k) /\ fs[i].ts - fs[j].ts <= Gap
                                  /\ fs[i].ts >= Midnight(k)
  <2>1. PICK j \in DOMAIN fs : fs[j].motion /\ Precedes(fs, j, i) /\ ~(fs[i].ts - fs[j].ts > Gap)
    BY DEF VisitsIn, OwnVisits, Begins, MotionIn
  <2>2. i \in OfDay(fs, k) /\ j \notin OfDay(fs, k)
    BY <2>1 DEF OwnVisits, Begins, MotionIn
  <2>3. fs[i].ts \in Midnight(k)..(Midnight(k) + Day - 1)
        /\ ~(fs[j].ts \in Midnight(k)..(Midnight(k) + Day - 1)) /\ i \in DOMAIN fs
    BY <2>2 DEF OfDay, InDay
  <2>4. fs[j].ts <= fs[i].ts
    BY <1>1, <2>1, <2>3 DEF Precedes
  <2> QED BY <1>1, <2>1, <2>3, <2>4, TimeAssumption
<1>5. ASSUME NEW i \in W \ V, NEW j \in W \ V PROVE i = j
  <2>1. ASSUME NEW x \in W \ V, NEW y \in W \ V, Precedes(fs, x, y) PROVE FALSE
    <3>1. x \in MotionIn(fs, OfDay(fs, k)) /\ fs[y].ts - fs[x].ts > Gap
      BY <2>1 DEF OwnVisits, Begins
    <3>2. PICK z \in DOMAIN fs : fs[z].ts < Midnight(k) /\ fs[y].ts - fs[z].ts <= Gap
      BY <1>4
    <3>3. fs[x].ts >= Midnight(k)
      BY <1>4
    <3> QED BY <1>1, <1>2, <3>1, <3>2, <3>3, TimeAssumption
  <2>2. Precedes(fs, i, j) \/ Precedes(fs, j, i) \/ i = j
    BY <1>1, <1>2 DEF Precedes
  <2> QED BY <2>1, <2>2
<1>6. CASE W = V
  BY <1>3, <1>6
<1>7. CASE W # V
  <2>1. PICK i \in W : i \notin V
    BY <1>2, <1>7
  <2>2. V = W \ {i}
    BY <1>2, <1>5, <2>1
  <2>3. Cardinality(V) = Cardinality(W) - 1
    BY <1>3, <2>1, <2>2, FS_RemoveElement
  <2>4. Overnight(fs, k)
    <3>1. PICK j \in DOMAIN fs : fs[j].ts < Midnight(k) /\ fs[i].ts - fs[j].ts <= Gap
      BY <1>4, <2>1
    <3>2. i \in MotionIn(fs, OfDay(fs, k)) /\ i \in DOMAIN fs
      BY <1>2, <2>1 DEF OwnVisits
    <3> QED BY <1>1, <3>1, <3>2, TimeAssumption DEF Overnight
  <2> QED BY <1>3, <2>3, <2>4
<1> QED BY <1>6, <1>7

SweptOf(an, a, S) == {i \in S : <<i, a>> \in an}
VerdictsOn(an, a, S) == {v \in an : v[1] \in S /\ v[2] = a}

LEMMA OneVerdictEach ==
    ASSUME NEW S, IsFiniteSet(S), NEW a, NEW an, \A v \in an : v = <<v[1], v[2]>>
    PROVE  /\ IsFiniteSet(SweptOf(an, a, S)) /\ Cardinality(SweptOf(an, a, S)) \in Nat
           /\ Cardinality(VerdictsOn(an, a, S)) = Cardinality(SweptOf(an, a, S))
<1> DEFINE X == SweptOf(an, a, S)
           Y == VerdictsOn(an, a, S)
           f == [i \in X |-> <<i, a>>]
<1>1. IsFiniteSet(X) /\ Cardinality(X) \in Nat
  BY FS_Subset, FS_CardinalityType DEF SweptOf
<1>2. f \in Bijection(X, Y)
  <2>1. f \in [X -> Y] /\ \A x, y \in X : f[x] = f[y] => x = y
    BY DEF SweptOf, VerdictsOn
  <2>2. \A v \in Y : v[1] \in X /\ f[v[1]] = v
    BY DEF SweptOf, VerdictsOn
  <2> HIDE DEF X, Y, f
  <2>3. f \in Injection(X, Y)
    BY <2>1 DEF Injection, IsInjective
  <2>4. f \in Surjection(X, Y)
    BY <2>1, <2>2 DEF Surjection
  <2> QED BY <2>3, <2>4 DEF Bijection
<1>3. ExistsBijection(X, Y)
  BY <1>2 DEF ExistsBijection
<1> HIDE DEF X, Y
<1>4. Cardinality(Y) = Cardinality(X)
  BY <1>1, <1>3, FS_Bijection
<1> QED BY <1>1, <1>4 DEF X, Y

(* Of a frame only verdicts on itself count.                                *)
LEMMA SweptFacts ==
    ASSUME NEW n \in Nat, NEW fs, Table(fs, n), NEW an, an \subseteq (DOMAIN fs) \X Analyzers,
           NEW a, NEW lo \in Int, NEW hi \in Int
    PROVE  LET X == SweptOf(an, a, DOMAIN fs \cap (lo..hi))
           IN  IsFiniteSet(X) /\ Cardinality(X) \in Nat /\ SweptIn(an, a, lo, hi) = Cardinality(X)
<1> DEFINE S == DOMAIN fs \cap (lo..hi)
<1>1. IsFiniteSet(S)
  BY TableFacts, FS_Subset
<1>2. \A v \in an : v[1] \in DOMAIN fs /\ v = <<v[1], v[2]>>
  <2>1. \A v \in (DOMAIN fs) \X Analyzers : v[1] \in DOMAIN fs /\ v = <<v[1], v[2]>>
    OBVIOUS
  <2> QED BY <2>1
<1>3. {v \in an : v[1] \in lo..hi /\ v[2] = a} = VerdictsOn(an, a, S)
  BY <1>2 DEF VerdictsOn
<1> HIDE DEF S
<1>4. /\ IsFiniteSet(SweptOf(an, a, S)) /\ Cardinality(SweptOf(an, a, S)) \in Nat
      /\ Cardinality(VerdictsOn(an, a, S)) = Cardinality(SweptOf(an, a, S))
  BY <1>1, <1>2, OneVerdictEach
<1> QED BY <1>1, <1>3, <1>4 DEF SweptIn, S

-----------------------------------------------------------------------------
(* What a write leaves alone of day k when it drops the days it touches and *)
(* not that one: the frames and verdicts from s to u, of which the day's    *)
(* are some, and, unless it says so, the frames that tell where a visit     *)
(* begins.                                                                  *)
Spared(fs, gs, an, bn, c, d, k, s, u) ==
    /\ \A i \in s..u : i \in DOMAIN fs => i \in DOMAIN gs
    /\ {v \in an : v[1] \in s..u} = {v \in bn : v[1] \in s..u}
    /\ \A i \in DOMAIN fs \cap DOMAIN gs : gs[i] = fs[i]
    /\ \A i \in DOMAIN gs \ DOMAIN fs : ~InDay(k, gs[i].ts)
    /\ ~d => /\ ~c
             /\ \A i \in DOMAIN fs \ DOMAIN gs : ~fs[i].motion
             /\ \A i \in DOMAIN gs \ DOMAIN fs, j \in DOMAIN fs :
                  fs[j].ts <= gs[i].ts /\ j < i

LEMMA SparedDay ==
    ASSUME NEW n \in Nat, NEW m \in Nat, NEW fs, NEW gs, Table(fs, n), Table(gs, m),
           NEW an, NEW bn, NEW c, NEW d, NEW k, IsKey(k), NEW s \in Int, NEW u \in Int,
           Spared(fs, gs, an, bn, c, d, k, s, u), OfDay(fs, k) \subseteq s..u
    PROVE  /\ OfDay(gs, k) = OfDay(fs, k) /\ OwnVisits(gs, k) = OwnVisits(fs, k)
           /\ Overnight(gs, k) <=> Overnight(fs, k)
           /\ ~d => VisitsIn(gs, k) = VisitsIn(fs, k)
<1>1. \A i \in OfDay(fs, k) : i \in DOMAIN fs /\ i \in DOMAIN gs /\ gs[i] = fs[i]
  BY DEF Spared, OfDay
<1>2. OfDay(gs, k) = OfDay(fs, k)
  BY <1>1 DEF Spared, OfDay
<1>3. MotionIn(gs, OfDay(gs, k)) = MotionIn(fs, OfDay(fs, k))
  BY <1>1, <1>2 DEF MotionIn
<1> DEFINE M == MotionIn(fs, OfDay(fs, k))
<1>4. \A i \in M : i \in OfDay(fs, k)
  BY DEF MotionIn
<1>5. \A i, j \in M : gs[i] = fs[i] /\ gs[j] = fs[j] /\ (Precedes(gs, j, i) <=> Precedes(fs, j, i))
  BY <1>1, <1>4 DEF Precedes
<1>6. \A i \in M : Begins(gs, i, M) <=> Begins(fs, i, M)
  <2> HIDE DEF M
  <2> QED BY <1>5 DEF Begins
<1>7. OwnVisits(gs, k) = OwnVisits(fs, k)
  BY <1>3, <1>6 DEF OwnVisits
<1>8. Overnight(gs, k) <=> Overnight(fs, k)
  BY <1>1, <1>3, <1>4 DEF Overnight
<1>9. ASSUME ~d PROVE VisitsIn(gs, k) = VisitsIn(fs, k)
  <2> DEFINE F == MotionIn(fs, DOMAIN fs)
             G == MotionIn(gs, DOMAIN gs)
  <2>1. ASSUME NEW i \in M PROVE Begins(gs, i, G) <=> Begins(fs, i, F)
    <3>1. i \in DOMAIN fs /\ i \in DOMAIN gs /\ gs[i] = fs[i]
      BY <1>1, <1>4
    <3>2. ASSUME NEW j \in F PROVE j \in G /\ gs[j] = fs[j]
      BY <1>9, <3>2 DEF Spared, MotionIn
    <3>3. ASSUME NEW j \in G, j \notin F PROVE ~Precedes(gs, j, i)
      <4>1. j \in DOMAIN gs \ DOMAIN fs
        BY <3>3 DEF Spared, MotionIn
      <4>2. fs[i].ts <= gs[j].ts /\ i < j
        BY <1>9, <3>1, <4>1 DEF Spared
      <4>3. fs[i].ts \in Nat /\ gs[j].ts \in Nat /\ i \in Nat /\ j \in Nat
        BY <3>1, <4>1, TableFacts
      <4> QED BY <3>1, <4>2, <4>3 DEF Precedes
    <3>4. \A j \in F : Precedes(gs, j, i) <=> Precedes(fs, j, i)
      BY <3>1, <3>2 DEF Precedes
    <3> HIDE DEF F, G, M
    <3> QED BY <3>1, <3>2, <3>3, <3>4 DEF Begins
  <2> HIDE DEF F, G, M
  <2>2. {i \in M : Begins(gs, i, G)} = {i \in M : Begins(fs, i, F)}
    BY <2>1
  <2> QED BY <1>3, <2>2 DEF VisitsIn, M, F, G
<1> QED BY <1>2, <1>7, <1>8, <1>9

LEMMA SpanOfRow ==
    ASSUME NEW n \in Nat, NEW fs, Table(fs, n), NEW k, NEW row, CountsFrames(fs, row, k)
    PROVE  /\ row.since \in OfDay(fs, k) /\ row.until \in OfDay(fs, k)
           /\ row.since \in Nat /\ row.until \in Nat
           /\ \A i \in OfDay(fs, k) : i \in DOMAIN fs /\ i \in Nat /\ row.since <= i /\ i <= row.until
<1> DEFINE S == OfDay(fs, k)
<1>1. S \subseteq DOMAIN fs /\ DOMAIN fs \subseteq 1..n
  BY TableFacts DEF OfDay
<1>2. S \subseteq Nat /\ S \subseteq 0..n /\ S # {} /\ row.since = Min(S) /\ row.until = Max(S)
  BY <1>1 DEF CountsFrames
<1> HIDE DEF S
<1>3. row.since \in S /\ row.until \in S /\ \A i \in S : row.since <= i /\ i <= row.until
  BY <1>2, MinFacts, MaxFacts
<1> QED BY <1>1, <1>2, <1>3 DEF S

(* A row within what a write spared says the same after it.                 *)
LEMMA SparedRow ==
    ASSUME NEW n \in Nat, NEW m \in Nat, NEW fs, NEW gs, Table(fs, n), Table(gs, m),
           NEW an, NEW bn, NEW c, NEW d, NEW k, IsKey(k), NEW s \in Int, NEW u \in Int,
           Spared(fs, gs, an, bn, c, d, k, s, u),
           NEW row, CountsFrames(fs, row, k), s <= row.since, row.until <= u
    PROVE  /\ CountsFrames(gs, row, k)
           /\ CountsVisits(fs, c, row, k) => CountsVisits(gs, d, row, k)
           /\ CountsVerdicts(an, row) => CountsVerdicts(bn, row)
<1>1. /\ row.since \in Nat /\ row.until \in Nat
      /\ \A i \in OfDay(fs, k) : i \in Nat /\ row.since <= i /\ i <= row.until
  BY SpanOfRow
<1>2. OfDay(fs, k) \subseteq s..u
  BY <1>1
<1>3. /\ OfDay(gs, k) = OfDay(fs, k) /\ OwnVisits(gs, k) = OwnVisits(fs, k)
      /\ Overnight(gs, k) <=> Overnight(fs, k)
      /\ ~d => VisitsIn(gs, k) = VisitsIn(fs, k)
  BY <1>2, SparedDay
<1>4. CountsFrames(gs, row, k)
  BY <1>3 DEF CountsFrames
<1>5. CountsVisits(fs, c, row, k) => CountsVisits(gs, d, row, k)
  BY <1>3 DEF CountsVisits, Spared
<1>6. ASSUME NEW a PROVE SweptIn(an, a, row.since, row.until) = SweptIn(bn, a, row.since, row.until)
  <2>1. row.since..row.until \subseteq s..u
    BY <1>1
  <2>2. \A v : v[1] \in s..u => (v \in an <=> v \in bn)
    BY DEF Spared
  <2> QED BY <2>1, <2>2 DEF SweptIn
<1> QED BY <1>4, <1>5, <1>6 DEF CountsVerdicts

-----------------------------------------------------------------------------
(* The first frame of a set by time, then id.                               *)
FirstOf(fs, S) ==
    CHOOSE i \in S : \A j \in S \ {i} : fs[i].ts < fs[j].ts \/ (fs[i].ts = fs[j].ts /\ i < j)

LEMMA FirstFacts ==
    ASSUME NEW n \in Nat, NEW fs, Table(fs, n), NEW S, S \subseteq DOMAIN fs, S # {}
    PROVE  /\ FirstOf(fs, S) \in S
           /\ \A j \in S : j # FirstOf(fs, S) => Precedes(fs, FirstOf(fs, S), j)
<1>1. \A i \in S : i \in Nat /\ fs[i].ts \in Nat
  BY TableFacts
<1> DEFINE T == {fs[i].ts : i \in S}
<1>2. T \subseteq Nat /\ T # {}
  BY <1>1
<1>3. PICK t \in T : \A y \in T : t <= y
  <2> HIDE DEF T
  <2> QED BY <1>2, LeastNatural
<1> DEFINE U == {i \in S : fs[i].ts = t}
<1>4. U \subseteq Nat /\ U # {}
  BY <1>1, <1>3
<1>5. PICK i \in U : \A y \in U : i <= y
  <2> HIDE DEF U
  <2> QED BY <1>4, LeastNatural
<1>6. \A j \in S \ {i} : fs[i].ts < fs[j].ts \/ (fs[i].ts = fs[j].ts /\ i < j)
  <2> SUFFICES ASSUME NEW j \in S, j # i PROVE t < fs[j].ts \/ (t = fs[j].ts /\ i < j)
    BY <1>5
  <2>1. t <= fs[j].ts /\ t \in Nat /\ fs[j].ts \in Nat
    BY <1>1, <1>2, <1>3
  <2>2. CASE fs[j].ts = t
    BY <1>1, <1>4, <1>5, <2>1, <2>2
  <2> QED BY <2>1, <2>2
<1>7. i \in S
  BY <1>5
<1> QED BY <1>6, <1>7 DEF FirstOf, Precedes

LEMMA EarliestIsFirst == \A S : Earliest(S) = FirstOf(frames, S)
BY DEF Earliest, FirstOf, Before

LEMMA VictimFacts ==
    ASSUME NEW n \in Nat, NEW fs, Table(fs, n), NEW prefer, DOMAIN fs # {}
    PROVE  Victim(fs, prefer) \in DOMAIN fs
<1> DEFINE still == {i \in DOMAIN fs : ~fs[i].motion}
<1>1. CASE prefer /\ still # {}
  <2>1. Victim(fs, prefer) = FirstOf(fs, still)
    BY <1>1 DEF Victim, FirstOf
  <2>2. still \subseteq DOMAIN fs
    OBVIOUS
  <2> HIDE DEF still
  <2> QED BY <1>1, <2>1, <2>2, FirstFacts
<1>2. CASE ~(prefer /\ still # {})
  <2>1. Victim(fs, prefer) = Min(DOMAIN fs)
    BY <1>2 DEF Victim
  <2>2. DOMAIN fs \subseteq Nat
    BY TableFacts
  <2> QED BY <2>1, <2>2, MinFacts
<1> QED BY <1>1, <1>2

-----------------------------------------------------------------------------
(* Writes.                                                                  *)
(* The new frame, the table with it, and what is evicted for it.            *)
Adds(ts, motion, id, fs, gone) ==
    /\ \A j \in Ids : j < id
    /\ fs[id] = [ts |-> ts, motion |-> motion] /\ \A i \in Ids : fs[i] = frames[i]
    /\ Table(fs, writes + 1) /\ DOMAIN fs = Ids \cup {id}
    /\ gone \subseteq DOMAIN fs /\ Cardinality(DOMAIN fs \ gone) <= Cap
    /\ frames' = Restrict(fs, DOMAIN fs \ gone)
    /\ analysis' = {v \in analysis : v[1] \notin gone}
    /\ calendar_days' = Without(DaysOf(ts) \cup UNION {Spans(i, i) : i \in gone})
    /\ cut' = (cut \/ (\E i \in Ids : ts < frames[i].ts) \/ \E i \in gone : fs[i].motion)

LEMMA AddFacts ==
    ASSUME TypeOK, NEW ts \in Times, NEW motion \in BOOLEAN, NEW prefer \in BOOLEAN,
           add(ts, motion, prefer)
    PROVE  \E id, fs, gone : id \in 1..(writes + 1) /\ Adds(ts, motion, id, fs, gone)
<1> DEFINE id == Max(Ids \cup {0}) + 1
           rec == [ts |-> ts, motion |-> motion]
           fs == With(frames, id, rec)
           gone == IF Cardinality(DOMAIN fs) > Cap THEN {Victim(fs, prefer)} ELSE {}
<1>1. writes \in Nat /\ Table(frames, writes)
  BY BoundsAssumption DEF TypeOK, Table
<1>2. Ids \subseteq 1..writes /\ IsFiniteSet(Ids) /\ \A i \in Ids : i \in Nat
  BY <1>1, TableFacts DEF Ids
<1>3. id \in 1..(writes + 1) /\ \A j \in Ids : j < id
  <2> DEFINE S == Ids \cup {0}
  <2>1. S \subseteq 0..writes /\ S # {}
    BY <1>1, <1>2
  <2>2. Max(S) \in S /\ \A y \in S : y <= Max(S)
    <3> HIDE DEF S
    <3> QED BY <1>1, <2>1, MaxFacts
  <2>3. PICK m : m = Max(S)
    OBVIOUS
  <2>4. m \in 0..writes /\ (\A j \in Ids : j <= m) /\ id = m + 1
    BY <2>1, <2>2, <2>3
  <2> HIDE DEF S, id
  <2> QED BY <1>1, <1>2, <2>4
<1>4. DOMAIN fs = Ids \cup {id}
  BY DEF With, Ids
<1>5. Table(fs, writes + 1)
  <2>1. rec \in [ts : Times, motion : BOOLEAN]
    OBVIOUS
  <2>2. Maps(frames, 1..(writes + 1), [ts : Times, motion : BOOLEAN])
    BY <1>1 DEF Table, Maps
  <2> HIDE DEF rec, id
  <2> QED BY <1>3, <2>1, <2>2, MapsWith DEF Table
<1>6. gone \subseteq DOMAIN fs /\ Cardinality(DOMAIN fs \ gone) <= Cap
  <2> DEFINE D == DOMAIN fs
  <2>1. id \notin Ids
    BY <1>2, <1>3
  <2>2. IsFiniteSet(D) /\ Cardinality(D) = Cardinality(Ids) + 1 /\ Cardinality(Ids) \in Nat
    <3> HIDE DEF id, fs
    <3> QED BY <1>2, <1>4, <2>1, FS_AddElement, FS_CardinalityType
  <2>3. Cardinality(Ids) <= Cap /\ Cap \in Nat
    BY BoundsAssumption DEF TypeOK
  <2>4. CASE Cardinality(D) > Cap
    <3>1. Victim(fs, prefer) \in D /\ gone = {Victim(fs, prefer)}
      <4>1. D # {}
        BY <1>4
      <4> HIDE DEF fs
      <4> QED BY <1>1, <1>5, <2>4, <4>1, VictimFacts
    <3>2. Cardinality(D \ {Victim(fs, prefer)}) = Cardinality(D) - 1
      <4> HIDE DEF fs, D
      <4> QED BY <2>2, <3>1, FS_RemoveElement
    <3> HIDE DEF fs, gone
    <3> QED BY <2>2, <2>3, <3>1, <3>2
  <2>5. CASE ~(Cardinality(D) > Cap)
    <3>1. gone = {} /\ D \ gone = D
      BY <2>5
    <3> HIDE DEF gone
    <3> QED BY <2>2, <2>3, <2>5, <3>1
  <2> QED BY <2>4, <2>5
<1>7. /\ frames' = Restrict(fs, DOMAIN fs \ gone)
      /\ analysis' = {v \in analysis : v[1] \notin gone}
      /\ calendar_days' = Without(DaysOf(ts) \cup UNION {Spans(i, i) : i \in gone})
      /\ cut' = (cut \/ (\E i \in Ids : ts < frames[i].ts) \/ \E i \in gone : fs[i].motion)
  BY Zenon DEF add
<1>8. fs[id] = rec /\ \A i \in Ids : fs[i] = frames[i]
  <2>1. id \notin Ids
    BY <1>2, <1>3
  <2> HIDE DEF id, rec
  <2> QED BY <2>1 DEF With, Ids
<1> HIDE DEF id, fs, gone
<1> QED BY <1>3, <1>4, <1>5, <1>6, <1>7, <1>8 DEF Adds

LEMMA PurgeFacts ==
    ASSUME TypeOK, NEW until, NEW n, purge_nonmotion_batch(until, n)
    PROVE  \E gone \in SUBSET Ids :
             /\ \A i \in gone : ~frames[i].motion
             /\ Kept(gone) /\ calendar_days' = Without(UNION {Spans(i, i) : i \in gone})
             /\ cut' = cut
BY DEF purge_nonmotion_batch

LEMMA WithoutFacts ==
    ASSUME NEW keys, calendar_days' = Without(keys)
    PROVE  \A k \in DOMAIN calendar_days' :
             k \in DOMAIN calendar_days /\ k \notin keys /\ calendar_days'[k] = calendar_days[k]
BY DEF Without, Restrict

(* Frames that go take only verdicts of their own.                          *)
LEMMA GoneSpared ==
    ASSUME NEW gone, NEW an, NEW s, NEW u, \A i \in gone : ~(i \in s..u)
    PROVE  {v \in an : v[1] \in s..u} = {v \in {v \in an : v[1] \notin gone} : v[1] \in s..u}
OBVIOUS

LEMMA NotSpanned ==
    ASSUME TypeOK, NEW lo \in Int, NEW hi \in Int, NEW k \in DOMAIN calendar_days,
           k \notin Spans(lo, hi)
    PROVE  /\ calendar_days[k].since \in Nat /\ calendar_days[k].until \in Nat
           /\ \A i \in lo..hi : ~(i \in calendar_days[k].since..calendar_days[k].until)
<1>1. calendar_days[k].since \in Nat /\ calendar_days[k].until \in Nat
  BY DEF TypeOK, IsMemo
<1> QED BY <1>1 DEF Spans

LEMMA WriteSpares ==
    ASSUME TypeOK, Writes, NEW k \in DOMAIN calendar_days'
    PROVE  /\ k \in DOMAIN calendar_days /\ calendar_days'[k] = calendar_days[k]
           /\ Spared(frames, frames', analysis, analysis', cut, cut', k,
                     calendar_days[k].since, calendar_days[k].until)
<1> DEFINE s == calendar_days[k].since
           u == calendar_days[k].until
           Same == k \in DOMAIN calendar_days /\ calendar_days'[k] = calendar_days[k]
           Spare == Spared(frames, frames', analysis, analysis', cut, cut', k, s, u)
<1>1. ASSUME NEW ts \in Times, NEW motion \in BOOLEAN, NEW prefer \in BOOLEAN,
             add(ts, motion, prefer)
      PROVE  Same /\ Spare
  <2>1. PICK id, fs, gone : id \in 1..(writes + 1) /\ Adds(ts, motion, id, fs, gone)
    BY <1>1, AddFacts
  <2>2. k \in DOMAIN calendar_days /\ calendar_days'[k] = calendar_days[k]
        /\ k \notin DaysOf(ts) /\ \A i \in gone : k \notin Spans(i, i)
    BY <2>1, WithoutFacts DEF Adds
  <2>3. writes \in Nat /\ \A i \in DOMAIN fs : i \in Nat
    BY <2>1, BoundsAssumption, TableFacts DEF TypeOK, Adds
  <2>4. \A i \in gone : ~(i \in s..u)
    <3> SUFFICES ASSUME NEW i \in gone PROVE ~(i \in s..u)
      OBVIOUS
    <3>1. i \in Int /\ k \notin Spans(i, i) /\ i \in i..i
      BY <2>1, <2>2, <2>3 DEF Adds
    <3> QED BY <2>2, <3>1, NotSpanned
  <2>5. ~InDay(k, ts)
    BY <2>2 DEF DaysOf
  <2>6. /\ fs[id] = [ts |-> ts, motion |-> motion] /\ id \notin Ids
        /\ \A i \in Ids : fs[i] = frames[i]
    BY <2>1, <2>3 DEF Adds
  <2>7. DOMAIN frames' = DOMAIN fs \ gone /\ \A i \in DOMAIN frames' : frames'[i] = fs[i]
    BY <2>1 DEF Adds, Restrict
  <2>8. DOMAIN frames = Ids /\ \A i \in Ids : frames[i].ts \in Nat
    <3>1. Table(frames, writes)
      BY DEF TypeOK, Table
    <3> QED BY <2>3, <3>1, TableFacts DEF Ids
  <2>9. \A i \in s..u : i \in DOMAIN frames => i \in DOMAIN frames'
    BY <2>1, <2>4, <2>7, <2>8 DEF Adds
  <2>10. {v \in analysis : v[1] \in s..u} = {v \in analysis' : v[1] \in s..u}
    <3> HIDE DEF s, u
    <3> QED BY <2>1, <2>4, GoneSpared DEF Adds
  <2>11. \A i \in DOMAIN frames \cap DOMAIN frames' : frames'[i] = frames[i]
    BY <2>6, <2>7, <2>8
  <2>12. \A i \in DOMAIN frames' \ DOMAIN frames : i = id /\ frames'[i].ts = ts
    <3>1. fs[id].ts = ts
      BY <2>6
    <3>2. \A i \in DOMAIN frames' \ DOMAIN frames : i = id
      BY <2>1, <2>7, <2>8 DEF Adds
    <3> QED BY <2>7, <3>1, <3>2
  <2>13. ASSUME ~cut'
         PROVE  /\ ~cut /\ \A i \in DOMAIN frames \ DOMAIN frames' : ~frames[i].motion
                /\ \A i \in DOMAIN frames' \ DOMAIN frames, j \in DOMAIN frames :
                     frames[j].ts <= frames'[i].ts /\ j < i
    <3>1. ~cut /\ (\A i \in Ids : ~(ts < frames[i].ts)) /\ \A i \in gone : ~fs[i].motion
      BY <2>1, <2>13 DEF Adds
    <3>2. \A j \in Ids : frames[j].ts <= ts
      BY <2>8, <3>1, BoundsAssumption DEF Times
    <3>3. \A i \in DOMAIN frames \ DOMAIN frames' : i \in gone /\ fs[i] = frames[i]
      BY <2>1, <2>6, <2>7, <2>8 DEF Adds
    <3> QED BY <2>1, <2>8, <2>12, <3>1, <3>2, <3>3 DEF Adds
  <2> HIDE DEF s, u
  <2> QED BY <2>2, <2>5, <2>9, <2>10, <2>11, <2>12, <2>13 DEF Spared
<1>2. ASSUME NEW until \in Ids, NEW n \in 1..2, purge_nonmotion_batch(until, n)
      PROVE  Same /\ Spare
  <2>1. PICK gone \in SUBSET Ids :
             /\ \A i \in gone : ~frames[i].motion
             /\ Kept(gone) /\ calendar_days' = Without(UNION {Spans(i, i) : i \in gone})
             /\ cut' = cut
    BY <1>2, PurgeFacts
  <2>2. k \in DOMAIN calendar_days /\ calendar_days'[k] = calendar_days[k]
        /\ \A i \in gone : k \notin Spans(i, i)
    BY <2>1, WithoutFacts
  <2>3. \A i \in Ids : i \in Nat
    <3>1. Table(frames, writes) /\ writes \in Nat
      BY BoundsAssumption DEF TypeOK, Table
    <3> QED BY <3>1, TableFacts DEF Ids
  <2>4. \A i \in gone : ~(i \in s..u)
    <3> SUFFICES ASSUME NEW i \in gone PROVE ~(i \in s..u)
      OBVIOUS
    <3>1. i \in Int /\ k \notin Spans(i, i) /\ i \in i..i
      BY <2>1, <2>2, <2>3
    <3> QED BY <2>2, <3>1, NotSpanned
  <2>5. DOMAIN frames' = Ids \ gone /\ (\A i \in Ids \ gone : frames'[i] = frames[i])
        /\ analysis' = {v \in analysis : v[1] \notin gone}
    BY <2>1, RestrictFacts DEF Kept
  <2>6. {v \in analysis : v[1] \in s..u} = {v \in analysis' : v[1] \in s..u}
    <3> HIDE DEF s, u
    <3> QED BY <2>4, <2>5, GoneSpared
  <2> HIDE DEF s, u
  <2> QED BY <2>1, <2>2, <2>4, <2>5, <2>6 DEF Spared, Ids
<1>3. ASSUME NEW r \in Ranges, NEW a \in Analyzers, write_analysis_batch({r[1], r[2]}, a)
      PROVE  Same /\ Spare
  <2>1. r[1] \in Nat /\ r[2] \in Nat /\ r[1] <= r[2]
    BY RangesAssumption
  <2>2. Min({r[1], r[2]}) = r[1] /\ Max({r[1], r[2]}) = r[2]
    BY <2>1, MinOfTwo
  <2>3. /\ k \in DOMAIN calendar_days /\ calendar_days'[k] = calendar_days[k]
        /\ k \notin Spans(r[1], r[2])
    BY <1>3, <2>2, WithoutFacts DEF write_analysis_batch
  <2>4. ~(r[1] \in s..u) /\ ~(r[2] \in s..u)
    BY <2>1, <2>3, NotSpanned
  <2>5. analysis' = analysis \cup (({r[1], r[2]} \cap Ids) \X {a}) /\ frames' = frames /\ cut' = cut
    BY <1>3 DEF write_analysis_batch
  <2>6. {v \in analysis : v[1] \in s..u} = {v \in analysis' : v[1] \in s..u}
    <3> HIDE DEF s, u
    <3> QED BY <2>4, <2>5
  <2> HIDE DEF s, u
  <2> QED BY <2>3, <2>5, <2>6 DEF Spared
<1>4. ASSUME NEW r \in Ranges, NEW a \in Analyzers, NEW motion_only \in BOOLEAN,
             clear_analysis(a, r[1], r[2], motion_only)
      PROVE  Same /\ Spare
  <2>1. r[1] \in Nat /\ r[2] \in Nat
    BY RangesAssumption
  <2>2. /\ k \in DOMAIN calendar_days /\ calendar_days'[k] = calendar_days[k]
        /\ k \notin Spans(r[1], r[2])
    BY <1>4, WithoutFacts DEF clear_analysis
  <2>3. PICK scope \in SUBSET (r[1]..r[2]) :
          analysis' = analysis \ (scope \X {a}) /\ frames' = frames /\ cut' = cut
    BY <1>4 DEF clear_analysis
  <2>4. \A i \in scope : ~(i \in s..u)
    BY <2>1, <2>2, <2>3, NotSpanned
  <2>5. {v \in analysis : v[1] \in s..u} = {v \in analysis' : v[1] \in s..u}
    <3> HIDE DEF s, u
    <3> QED BY <2>3, <2>4
  <2> HIDE DEF s, u
  <2> QED BY <2>2, <2>3, <2>5 DEF Spared
<1>5. ASSUME clear PROVE Same /\ Spare
  BY <1>5 DEF clear
<1> QED BY <1>1, <1>2, <1>3, <1>4, <1>5 DEF Writes

-----------------------------------------------------------------------------
(* Types.                                                                   *)
LEMMA NothingTyped == \A n : Table(<<>>, n)
BY MapsNothing DEF Table

LEMMA TypeInit == Init => TypeOK
<1> SUFFICES ASSUME Init PROVE TypeOK
  OBVIOUS
<1>1. Maps(frames, 1..writes, [ts : Times, motion : BOOLEAN]) /\ Ids = {}
  BY MapsNothing DEF Init, Ids
<1>2. Cardinality(Ids) <= Cap
  BY <1>1, FS_EmptySet, BoundsAssumption
<1>3. RequestOK
  BY DEF Init, Idle, RequestOK, At, Counted
<1>4. /\ DOMAIN calendar_days = {} /\ analysis = {}
      /\ reads = 0 /\ writes = 0 /\ quiet = TRUE /\ cut = FALSE
  BY DEF Init
<1>5. analysis \subseteq Ids \X Analyzers /\ reads \in 0..MaxReads /\ writes \in 0..MaxWrites
  BY <1>4, BoundsAssumption
<1> QED BY <1>1, <1>2, <1>3, <1>4, <1>5 DEF TypeOK

(* What a write may do to the memo, and what every write does besides.      *)
LEMMA WriteTyped ==
    ASSUME TypeOK, Writes
    PROVE  TypeOK'
<1>1. /\ writes \in Nat /\ writes' = writes + 1 /\ writes' \in 0..MaxWrites
      /\ UNCHANGED <<request, reads>> /\ quiet' \in BOOLEAN
  <2>1. Write
    <3>1. \A ts, motion, prefer : add(ts, motion, prefer) => Write
      BY Zenon DEF add
    <3> QED BY <3>1 DEF Writes, purge_nonmotion_batch, write_analysis_batch, clear_analysis, clear
  <2>2. writes < MaxWrites /\ writes' = writes + 1 /\ UNCHANGED <<request, reads>>
    BY <2>1 DEF Write
  <2>3. quiet' \in BOOLEAN
    BY <2>1 DEF Write, At
  <2>4. writes \in Nat
    BY BoundsAssumption DEF TypeOK
  <2> QED BY <2>2, <2>3, <2>4, BoundsAssumption
<1>2. Table(frames, writes) /\ Cardinality(Ids) <= Cap /\ IsFiniteSet(Ids) /\ DOMAIN frames = Ids
      /\ analysis \subseteq Ids \X Analyzers /\ cut \in BOOLEAN
  BY <1>1, TableFacts DEF TypeOK, Table, Ids
<1>3. \A k \in DOMAIN calendar_days' : k \in Int \X Int /\ IsMemo(calendar_days'[k])
  BY WriteSpares DEF TypeOK
<1>4. RequestOK'
  BY <1>1 DEF TypeOK, RequestOK, At
<1> DEFINE Rest == /\ Table(frames', writes') /\ Cardinality(Ids') <= Cap
                   /\ analysis' \subseteq Ids' \X Analyzers /\ cut' \in BOOLEAN
<1>5. Table(frames, writes + 1)
  BY <1>1, <1>2 DEF Table, Maps
<1>6. ASSUME NEW ts \in Times, NEW motion \in BOOLEAN, NEW prefer \in BOOLEAN,
             add(ts, motion, prefer)
      PROVE  Rest
  <2>1. PICK id, fs, gone : id \in 1..(writes + 1) /\ Adds(ts, motion, id, fs, gone)
    BY <1>6, AddFacts
  <2>2. Ids' = DOMAIN fs \ gone /\ Cardinality(Ids') <= Cap
    BY <2>1 DEF Adds, Restrict, Ids
  <2>3. Table(frames', writes')
    <3>1. Table(fs, writes') /\ DOMAIN fs \ gone \subseteq DOMAIN fs
      BY <1>1, <2>1 DEF Adds
    <3>2. frames' = Restrict(fs, DOMAIN fs \ gone)
      BY <2>1 DEF Adds
    <3> QED BY <3>1, <3>2, MapsRestrict DEF Table
  <2>4. \A v \in analysis' : v \in analysis /\ v[1] \notin gone
    BY <2>1 DEF Adds
  <2>5. \A i \in Ids : i \in DOMAIN fs
    BY <2>1 DEF Adds
  <2>6. analysis' \subseteq Ids' \X Analyzers
    BY <1>2, <2>2, <2>4, <2>5
  <2>7. cut' \in BOOLEAN
    BY <2>1 DEF Adds
  <2> QED BY <2>2, <2>3, <2>6, <2>7
<1>7. ASSUME NEW until \in Ids, NEW n \in 1..2, purge_nonmotion_batch(until, n)
      PROVE  Rest
  <2>1. PICK gone \in SUBSET Ids : Kept(gone) /\ cut' = cut
    BY <1>7, PurgeFacts
  <2>2. frames' = Restrict(frames, DOMAIN frames \ gone) /\ Ids' = Ids \ gone
        /\ analysis' = {v \in analysis : v[1] \notin gone}
    BY <2>1 DEF Kept, Restrict, Ids
  <2>3. Cardinality(Ids \ gone) <= Cap
    <3>1. Cardinality(Ids \ gone) <= Cardinality(Ids) /\ Cardinality(Ids) \in Nat
          /\ Cardinality(Ids \ gone) \in Nat
      BY <1>2, FS_Subset, FS_CardinalityType
    <3> QED BY <1>2, <3>1, BoundsAssumption
  <2>4. Table(frames', writes')
    <3>1. DOMAIN frames \ gone \subseteq DOMAIN frames
      OBVIOUS
    <3> QED BY <1>1, <1>5, <2>2, <3>1, MapsRestrict DEF Table
  <2> QED BY <1>2, <2>1, <2>2, <2>3, <2>4
<1>8. ASSUME NEW r \in Ranges, NEW a \in Analyzers, write_analysis_batch({r[1], r[2]}, a)
      PROVE  Rest
  <2>1. analysis' = analysis \cup (({r[1], r[2]} \cap Ids) \X {a}) /\ frames' = frames /\ cut' = cut
    BY <1>8 DEF write_analysis_batch
  <2> QED BY <1>1, <1>2, <1>5, <2>1 DEF Ids
<1>9. ASSUME NEW r \in Ranges, NEW a \in Analyzers, NEW motion_only \in BOOLEAN,
             clear_analysis(a, r[1], r[2], motion_only)
      PROVE  Rest
  <2>1. analysis' \subseteq analysis /\ frames' = frames /\ cut' = cut
    BY <1>9 DEF clear_analysis
  <2> QED BY <1>1, <1>2, <1>5, <2>1 DEF Ids
<1>10. ASSUME clear PROVE Rest
  <2>1. frames' = <<>> /\ Ids' = {} /\ analysis' = {} /\ cut' = cut
    BY <1>10 DEF clear, Ids
  <2>2. Cardinality({}) <= Cap
    BY FS_EmptySet, BoundsAssumption
  <2> QED BY <1>2, <2>1, <2>2, NothingTyped
<1>11. Rest
  BY <1>6, <1>7, <1>8, <1>9, <1>10 DEF Writes
<1>12. reads' \in 0..MaxReads
  BY <1>1 DEF TypeOK
<1> HIDE DEF Rest
<1>13. /\ Maps(frames', 1..writes', [ts : Times, motion : BOOLEAN]) /\ Cardinality(Ids') <= Cap
       /\ analysis' \subseteq Ids' \X Analyzers /\ cut' \in BOOLEAN
  BY <1>11 DEF Rest, Table
<1> QED BY <1>1, <1>3, <1>4, <1>12, <1>13 DEF TypeOK

LEMMA RequestFacts ==
    ASSUME TypeOK, ~At("idle")
    PROVE  /\ request.window \in Windows /\ off \in Int /\ request.day \in Int /\ IsKey(Key)
           /\ request.window.since \in Int /\ request.window.until \in Int
           /\ request.window.want \subseteq Analyzers
           /\ DayLo \in Int /\ DayHi \in Int /\ Lo \in Int /\ Hi \in Int
           /\ Lo >= DayLo /\ Hi <= DayHi
           /\ Whole => Lo = DayLo /\ Hi = DayHi
<1>1. request.window \in Windows /\ request.day \in Int
  BY DEF TypeOK, RequestOK
<1>2. request.window \in [since : Int, until : Int, off : Int, want : SUBSET Analyzers]
  BY <1>1, WindowsAssumption
<1>3. off \in Int /\ IsKey(Key)
  BY <1>1, <1>2 DEF off, Key, IsKey
<1>4. Midnight(Key) \in Int
  BY <1>3, MidnightTyped
<1>5. DayLo \in Int /\ DayHi \in Int
  BY <1>4, TimeAssumption DEF DayLo, DayHi
<1>6. Lo = IF DayLo >= request.window.since THEN DayLo ELSE request.window.since
  <2>1. {DayLo, request.window.since} = {request.window.since, DayLo}
    OBVIOUS
  <2> QED BY <1>2, <1>5, <2>1, MaxOfTwo DEF Lo
<1>7. Hi = IF DayHi <= request.window.until THEN DayHi ELSE request.window.until
  <2>1. {DayHi, request.window.until} = {request.window.until, DayHi}
    OBVIOUS
  <2> QED BY <1>2, <1>5, <2>1, MinOfTwo DEF Hi
<1> QED BY <1>1, <1>2, <1>3, <1>5, <1>6, <1>7 DEF Whole

LEMMA LastDayTyped == TypeOK /\ ~At("idle") => LastDay \in Int
<1> SUFFICES ASSUME TypeOK, ~At("idle") PROVE LastDay \in Int
  OBVIOUS
<1>1. request.window.until \in Int /\ off \in Int
  BY RequestFacts
<1> QED BY <1>1, TimeAssumption DEF LastDay

LEMMA BetweenFacts ==
    ASSUME TypeOK, NEW lo, NEW hi
    PROVE  LET S == Between(lo, hi)
           IN  /\ S \subseteq DOMAIN frames /\ S \subseteq 1..writes /\ IsFiniteSet(S)
               /\ Cardinality(S) \in Nat
               /\ S # {} => /\ Min(S) \in S /\ Max(S) \in S /\ Min(S) \in Nat /\ Max(S) \in Nat
                            /\ Earliest(S) \in S
                            /\ \A j \in S : j # Earliest(S) => Precedes(frames, Earliest(S), j)
<1> DEFINE S == Between(lo, hi)
<1>1. writes \in Nat /\ Table(frames, writes)
  BY BoundsAssumption DEF TypeOK, Table
<1>2. S \subseteq DOMAIN frames
  BY DEF Between, Ids
<1> HIDE DEF S
<1>3. S \subseteq 1..writes /\ IsFiniteSet(S) /\ Cardinality(S) \in Nat
  BY <1>1, <1>2, TableFacts, FS_Subset, FS_CardinalityType
<1>4. ASSUME S # {} PROVE Min(S) \in S /\ Max(S) \in S
  <2>1. S \subseteq Nat /\ S \subseteq 0..writes
    BY <1>1, <1>3
  <2> QED BY <1>1, <1>4, <2>1, MinFacts, MaxFacts
<1>5. ASSUME S # {}
      PROVE  /\ Earliest(S) \in S
             /\ \A j \in S : j # Earliest(S) => Precedes(frames, Earliest(S), j)
  BY <1>1, <1>2, <1>5, FirstFacts, EarliestIsFirst
<1>6. \A x \in S : x \in Nat
  BY <1>1, <1>3
<1> QED BY <1>2, <1>3, <1>4, <1>5, <1>6 DEF S

Outs(out) == \A d \in DOMAIN out : d \in Int /\ IsDayRow(out[d])

LEMMA NextDayTyped ==
    ASSUME RequestOK, ~At("idle"), NEW out, Outs(out), NextDay(out)
    PROVE  RequestOK'
<1> DEFINE q(p, d) == [request EXCEPT !.pc = p, !.day = d,
                                     !.lo = 0, !.hi = 0, !.row = None, !.out = out]
<1>1. PICK p \in {"memo", "returned"}, d \in Int : request' = q(p, d)
  <2>1. request.day \in Int /\ request.day + 1 \in Int
    BY DEF RequestOK
  <2> QED BY <2>1 DEF NextDay
<1>2. request' \in [pc : {"memo", "returned"}, window : {request.window}, day : Int, lo : {0},
                   hi : {0}, row : {None}, out : {out}]
  BY <1>1 DEF RequestOK
<1>3. request.window \in Windows
  BY DEF RequestOK
<1> QED BY <1>1, <1>2, <1>3 DEF RequestOK, Outs, At, Counted

LEMMA WithOuts ==
    ASSUME NEW out, Outs(out), NEW d \in Int, NEW row, IsDayRow(row)
    PROVE  Outs(With(out, d, row))
<1>1. DOMAIN With(out, d, row) = DOMAIN out \cup {d}
  BY WithFacts
<1>2. ASSUME NEW x \in DOMAIN out \cup {d}
      PROVE  x \in Int /\ With(out, d, row)[x] = IF x = d THEN row ELSE out[x]
  BY <1>2 DEF With, Outs
<1> QED BY <1>1, <1>2 DEF Outs

LEMMA EventsTyped ==
    ASSUME TypeOK, NEW lo, NEW hi
    PROVE  EventsIn(lo, hi) \in Nat
<1> DEFINE S == Between(lo - Gap, hi)
           V == {i \in Motion(S) : frames[i].ts >= lo /\ Starts(i, Motion(S))}
<1>1. IsFiniteSet(S)
  BY BetweenFacts
<1>2. V \subseteq S
  BY DEF Motion
<1>3. EventsIn(lo, hi) = Cardinality(V)
  BY DEF EventsIn
<1> HIDE DEF S, V
<1> QED BY <1>1, <1>2, <1>3, FS_Subset, FS_CardinalityType

LEMMA VerdictsTyped ==
    ASSUME TypeOK, NEW a, NEW lo \in Int, NEW hi \in Int
    PROVE  Verdicts(a, lo, hi) \in Nat /\ Verdicts(a, lo, hi) = SweptIn(analysis, a, lo, hi)
<1>1. writes \in Nat /\ Table(frames, writes) /\ analysis \subseteq (DOMAIN frames) \X Analyzers
  BY BoundsAssumption DEF TypeOK, Table, Ids
<1>2. Verdicts(a, lo, hi) = SweptIn(analysis, a, lo, hi)
  BY DEF Verdicts, SweptIn
<1>3. SweptIn(analysis, a, lo, hi) \in Nat
  <2> DEFINE X == SweptOf(analysis, a, DOMAIN frames \cap (lo..hi))
  <2>1. Cardinality(X) \in Nat /\ SweptIn(analysis, a, lo, hi) = Cardinality(X)
    BY <1>1, SweptFacts
  <2> HIDE DEF X
  <2> QED BY <2>1
<1> QED BY <1>2, <1>3

LEMMA NumbersTyped ==
    ASSUME TypeOK, NEW k \in DOMAIN calendar_days,
           request.window.want \subseteq DOMAIN calendar_days[k].analyzed
    PROVE  IsDayRow(Numbers(calendar_days[k]))
<1> DEFINE m == calendar_days[k]
           part == Restrict(m.analyzed, request.window.want)
<1>1. IsMemo(m)
  BY DEF TypeOK
<1>2. Maps(part, Analyzers, Nat)
  BY <1>1, MapsRestrict DEF IsMemo
<1>3. Numbers(m) = [since |-> m.since, until |-> m.until, frames |-> m.frames,
                    events |-> m.events, analyzed |-> part]
  BY DEF Numbers
<1>4. /\ m.since \in Nat /\ m.until \in Nat /\ m.frames \in Nat /\ m.events \in Nat
  BY <1>1 DEF IsMemo
<1> HIDE DEF part, m
<1>5. Numbers(m).analyzed = part
  BY <1>3
<1>6. Numbers(m) \in [since : Nat, until : Nat, frames : Nat, events : Nat, analyzed : {part}]
  BY <1>3, <1>4
<1>7. IsDayRow(Numbers(m))
  BY <1>2, <1>5, <1>6 DEF IsDayRow
<1> QED BY <1>7 DEF m

(* A row as it grows: its numbers of frames, of visits, of verdicts.        *)
LEMMA CountTyped ==
    ASSUME NEW since \in Nat, NEW until \in Nat, NEW n \in Nat
    PROVE  IsDayRow([since |-> since, until |-> until, frames |-> n, events |-> 0, analyzed |-> <<>>])
<1>1. Maps(<<>>, Analyzers, Nat)
  BY MapsNothing
<1> QED BY <1>1 DEF IsDayRow

LEMMA EventsRow ==
    ASSUME NEW row, IsDayRow(row), NEW n \in Nat
    PROVE  /\ IsDayRow([row EXCEPT !.events = n])
           /\ [row EXCEPT !.events = n] = [since |-> row.since, until |-> row.until,
                                           frames |-> row.frames, events |-> n,
                                           analyzed |-> row.analyzed]
<1> PICK an : an = row.analyzed
  OBVIOUS
<1>1. row \in [since : Nat, until : Nat, frames : Nat, events : Nat, analyzed : {an}]
      /\ Maps(an, Analyzers, Nat)
  BY DEF IsDayRow
<1> QED BY <1>1 DEF IsDayRow

LEMMA AnalyzedRow ==
    ASSUME NEW row, IsDayRow(row), NEW f, Maps(f, Analyzers, Nat)
    PROVE  /\ IsDayRow([row EXCEPT !.analyzed = f])
           /\ [row EXCEPT !.analyzed = f] = [since |-> row.since, until |-> row.until,
                                             frames |-> row.frames, events |-> row.events,
                                             analyzed |-> f]
<1> PICK an : an = row.analyzed
  OBVIOUS
<1>1. row \in [since : Nat, until : Nat, frames : Nat, events : Nat, analyzed : {an}]
  BY DEF IsDayRow
<1> QED BY <1>1 DEF IsDayRow

(* What Coverage makes of the row.                                          *)
Covered(row, want) == [row EXCEPT !.analyzed = [a \in want |-> Verdicts(a, row.since, row.until)]]

LEMMA CoveredTyped ==
    ASSUME TypeOK, NEW row, IsDayRow(row), NEW want, want \subseteq Analyzers
    PROVE  /\ IsDayRow(Covered(row, want))
           /\ Covered(row, want) = [since |-> row.since, until |-> row.until, frames |-> row.frames,
                                    events |-> row.events,
                                    analyzed |-> [a \in want |-> Verdicts(a, row.since, row.until)]]
<1> DEFINE f == [a \in want |-> Verdicts(a, row.since, row.until)]
<1>1. row.since \in Nat /\ row.until \in Nat
  BY DEF IsDayRow
<1>2. Maps(f, Analyzers, Nat)
  BY <1>1, VerdictsTyped DEF Maps
<1>3. Covered(row, want) = [row EXCEPT !.analyzed = f]
  BY DEF Covered
<1> HIDE DEF f
<1>4. /\ IsDayRow(Covered(row, want))
      /\ Covered(row, want) = [since |-> row.since, until |-> row.until, frames |-> row.frames,
                               events |-> row.events, analyzed |-> f]
  BY <1>2, <1>3, AnalyzedRow
<1> QED BY <1>4 DEF f

LEMMA FinishedTyped ==
    ASSUME NEW row, IsDayRow(row)
    PROVE  IsMemo(Finished(row))
BY DEF IsDayRow, IsMemo, Finished

(* A request that moves on within its day.                                  *)
LEMMA MovesTyped ==
    ASSUME RequestOK, ~At("idle"), NEW pc \in {"first", "after", "reserve", "count"} \cup Counted,
           NEW lo \in Nat, NEW hi \in Nat, NEW row, NEW out, Outs(out),
           pc \in Counted => IsDayRow(row),
           request' = [request EXCEPT !.pc = pc, !.lo = lo, !.hi = hi, !.row = row, !.out = out]
    PROVE  RequestOK'
<1>1. request' \in [pc : {pc}, window : {request.window}, day : Int, lo : Nat, hi : Nat,
                   row : {row}, out : {out}]
  BY DEF RequestOK
<1>2. request.window \in Windows
  BY DEF RequestOK
<1> QED BY <1>1, <1>2 DEF RequestOK, Outs, At, Counted

(* What requests leave alone.                                               *)
LEMMA ReadFacts ==
    ASSUME Reads
    PROVE  /\ UNCHANGED <<frames, analysis, writes, cut>>
           /\ \/ UNCHANGED calendar_days
              \/ \E w \in Windows : tuning_calendar(w)
              \/ Reserve \/ Store
BY DEF Reads, store, tuning_calendar, read_day, SeekFirst, SeekAfter, Reserve, Count, Events,
   Coverage, Store, Return, Abandon

LEMMA MemoTyped ==
    ASSUME TypeOK, Reads
    PROVE  \A k \in DOMAIN calendar_days' : IsKey(k) /\ IsMemo(calendar_days'[k])
<1>1. CASE UNCHANGED calendar_days
  BY <1>1 DEF TypeOK, IsKey
<1>2. ASSUME NEW w \in Windows, tuning_calendar(w)
      PROVE  \A k \in DOMAIN calendar_days' : IsKey(k) /\ IsMemo(calendar_days'[k])
  BY <1>2 DEF tuning_calendar, Without, Restrict, TypeOK, IsKey
<1>3. CASE Reserve
  <2> DEFINE row == [since |-> request.lo, until |-> request.hi, frames |-> 0, events |-> 0,
                     analyzed |-> <<>>, pending |-> TRUE, token |-> reads]
  <2>1. ~At("idle")
    BY <1>3 DEF Reserve, At
  <2>2. IsKey(Key)
    BY <2>1, RequestFacts
  <2>3. IsMemo(row)
    <3>1. Maps(<<>>, Analyzers, Nat)
      BY MapsNothing
    <3>2. request.lo \in Nat /\ request.hi \in Nat /\ reads \in Nat
      BY BoundsAssumption DEF TypeOK, RequestOK
    <3> QED BY <3>1, <3>2 DEF IsMemo
  <2>4. calendar_days' = With(calendar_days, Key, row)
    BY <1>3 DEF Reserve
  <2> HIDE DEF row
  <2> QED BY <2>2, <2>3, <2>4 DEF With, TypeOK, IsKey
<1>4. CASE Store
  <2>1. At("store") /\ ~At("idle")
    BY <1>4 DEF Store, At
  <2>2. IsMemo(Finished(request.row))
    BY <2>1, FinishedTyped DEF TypeOK, RequestOK, At, Counted
  <2>3. \/ calendar_days' = calendar_days
        \/ calendar_days' = [calendar_days EXCEPT ![Key] = Finished(request.row)]
    BY <1>4 DEF Store
  <2> QED BY <2>2, <2>3 DEF TypeOK, IsKey
<1> QED BY <1>1, <1>2, <1>3, <1>4, ReadFacts

LEMMA RequestTyped ==
    ASSUME TypeOK, Reads
    PROVE  RequestOK'
<1>0. RequestOK /\ Outs(request.out)
  BY DEF TypeOK, RequestOK, Outs
<1>1. ASSUME NEW w \in Windows, tuning_calendar(w) PROVE RequestOK'
  <2>1. w.since \in Int /\ w.off \in Int
    BY WindowsAssumption
  <2>2. PICK first \in Int : request' = [Idle EXCEPT !.pc = "memo", !.window = w, !.day = first]
    <3>1. (w.since + w.off) \div Day \in Int
      BY <2>1, TimeAssumption
    <3> QED BY <1>1, <3>1 DEF tuning_calendar
  <2>3. request' \in [pc : {"memo"}, window : {w}, day : Int, lo : {0}, hi : {0}, row : {None},
                     out : {<<>>}]
    BY <2>2 DEF Idle
  <2> QED BY <2>3 DEF RequestOK, At, Counted
<1>2. ASSUME read_day PROVE RequestOK'
  <2>1. ~At("idle")
    BY <1>2 DEF read_day, At
  <2>2. CASE Hit
    <3> DEFINE row == Numbers(calendar_days[Key])
    <3>1. IsDayRow(row)
      BY <2>2, NumbersTyped DEF Hit
    <3>2. NextDay(With(request.out, request.day, row))
      BY <1>2, <2>2 DEF read_day
    <3>3. request.day \in Int
      BY <1>0 DEF RequestOK
    <3> HIDE DEF row
    <3> QED BY <1>0, <2>1, <3>1, <3>2, <3>3, WithOuts, NextDayTyped
  <2>3. CASE ~Hit
    <3>1. request' = [request EXCEPT !.pc = "first", !.lo = request.lo, !.hi = request.hi,
                                     !.row = request.row, !.out = request.out]
      BY <1>0, <1>2, <2>3 DEF read_day, RequestOK
    <3> QED BY <1>0, <2>1, <3>1, MovesTyped DEF RequestOK, Counted
  <2> QED BY <2>2, <2>3
<1>3. ASSUME SeekFirst PROVE RequestOK'
  <2>1. ~At("idle")
    BY <1>3 DEF SeekFirst, At
  <2> DEFINE later == Between(Lo, MaxTs)
  <2>2. CASE later = {} \/ frames[Earliest(later)].ts > Hi
    <3>1. NextDay(request.out)
      BY <1>3, <2>2 DEF SeekFirst
    <3> QED BY <1>0, <2>1, <3>1, NextDayTyped
  <2>3. CASE ~(later = {} \/ frames[Earliest(later)].ts > Hi)
    <3>1. Earliest(later) \in Nat
      <4>1. later \subseteq 1..writes /\ Earliest(later) \in later
        BY <2>3, BetweenFacts
      <4> QED BY <4>1, BoundsAssumption DEF TypeOK
    <3>2. request' = [request EXCEPT !.pc = "after", !.lo = Earliest(later), !.hi = request.hi,
                                     !.row = request.row, !.out = request.out]
      <4>1. request' = [request EXCEPT !.pc = "after", !.lo = Earliest(later)]
        BY <1>3, <2>3 DEF SeekFirst
      <4> HIDE DEF later
      <4> QED BY <1>0, <4>1 DEF RequestOK
    <3> HIDE DEF later
    <3> QED BY <1>0, <2>1, <3>1, <3>2, MovesTyped DEF RequestOK, Counted
  <2> QED BY <2>2, <2>3
<1>4. ASSUME SeekAfter PROVE RequestOK'
  <2>1. ~At("idle")
    BY <1>4 DEF SeekAfter, At
  <2> DEFINE later == Between(Hi + 1, MaxTs)
             hi == IF later = {} THEN MaxRowId ELSE Earliest(later) - 1
             pc == IF Whole THEN "reserve" ELSE "count"
  <2>2. hi \in Nat
    <3>1. ASSUME later # {} PROVE Earliest(later) \in 1..writes
      BY <3>1, BetweenFacts
    <3> QED BY <3>1, BoundsAssumption DEF TypeOK, MaxRowId
  <2>3. request' = [request EXCEPT !.pc = pc, !.hi = hi]
    BY <1>4 DEF SeekAfter
  <2> HIDE DEF hi
  <2>4. request' = [request EXCEPT !.pc = pc, !.lo = request.lo, !.hi = hi,
                                   !.row = request.row, !.out = request.out]
    BY <1>0, <2>3 DEF RequestOK
  <2> QED BY <1>0, <2>1, <2>2, <2>4, MovesTyped DEF RequestOK, Counted
<1>5. ASSUME Reserve PROVE RequestOK'
  <2>1. request' = [request EXCEPT !.pc = "count", !.lo = request.lo, !.hi = request.hi,
                                   !.row = request.row, !.out = request.out]
    BY <1>0, <1>5 DEF Reserve, RequestOK
  <2> QED BY <1>0, <1>5, <2>1, MovesTyped DEF RequestOK, Counted, Reserve, At
<1>6. ASSUME Count PROVE RequestOK'
  <2>1. ~At("idle")
    BY <1>6 DEF Count, At
  <2> DEFINE ids == Between(Lo, Hi)
             row == [since |-> Min(ids), until |-> Max(ids), frames |-> Cardinality(ids),
                     events |-> 0, analyzed |-> <<>>]
  <2>2. CASE ids = {}
    <3>1. NextDay(request.out)
      BY <1>6, <2>2 DEF Count
    <3> QED BY <1>0, <2>1, <3>1, NextDayTyped
  <2>3. CASE ids # {}
    <3>1. IsDayRow(row)
      <4>1. Min(ids) \in Nat /\ Max(ids) \in Nat /\ Cardinality(ids) \in Nat
        BY <2>3, BetweenFacts
      <4> HIDE DEF ids
      <4> QED BY <4>1, CountTyped
    <3>2. request' = [request EXCEPT !.pc = "events", !.row = row]
      BY <1>6, <2>3 DEF Count
    <3> HIDE DEF row
    <3>3. request' = [request EXCEPT !.pc = "events", !.lo = request.lo, !.hi = request.hi,
                                     !.row = row, !.out = request.out]
      BY <1>0, <3>2 DEF RequestOK
    <3> QED BY <1>0, <2>1, <3>1, <3>3, MovesTyped DEF RequestOK, Counted
  <2> QED BY <2>2, <2>3
<1>7. ASSUME Events PROVE RequestOK'
  <2>1. ~At("idle") /\ IsDayRow(request.row)
    BY <1>0, <1>7 DEF Events, At, RequestOK, Counted
  <2> DEFINE row == [request.row EXCEPT !.events = EventsIn(Lo, Hi)]
  <2>2. IsDayRow(row)
    BY <2>1, EventsTyped, EventsRow
  <2>3. request' = [request EXCEPT !.pc = "coverage", !.row = row]
    <3>1. request' = [request EXCEPT !.pc = "coverage", !.row.events = EventsIn(Lo, Hi)]
      BY <1>7 DEF Events
    <3> PICK n : n = EventsIn(Lo, Hi)
      OBVIOUS
    <3> QED BY <1>0, <3>1 DEF RequestOK
  <2> HIDE DEF row
  <2>4. request' = [request EXCEPT !.pc = "coverage", !.lo = request.lo, !.hi = request.hi,
                                   !.row = row, !.out = request.out]
    BY <1>0, <2>3 DEF RequestOK
  <2> QED BY <1>0, <2>1, <2>2, <2>4, MovesTyped DEF RequestOK, Counted
<1>8. ASSUME Coverage PROVE RequestOK'
  <2>1. ~At("idle") /\ IsDayRow(request.row) /\ request.day \in Int
    BY <1>0, <1>8 DEF Coverage, At, RequestOK, Counted
  <2> DEFINE row == Covered(request.row, request.window.want)
             out == With(request.out, request.day, row)
  <2>2. IsDayRow(row)
    BY <2>1, CoveredTyped, RequestFacts
  <2>3. IF Storable(row)
        THEN request' = [request EXCEPT !.pc = "store", !.row = row, !.out = out]
        ELSE NextDay(out)
    BY <1>8 DEF Coverage, Covered
  <2> HIDE DEF row
  <2>4. Outs(out)
    BY <1>0, <2>1, <2>2, WithOuts
  <2> HIDE DEF out
  <2>5. CASE Storable(row)
    <3>1. request' = [request EXCEPT !.pc = "store", !.lo = request.lo, !.hi = request.hi,
                                     !.row = row, !.out = out]
      BY <1>0, <2>3, <2>5 DEF RequestOK
    <3>2. request.lo \in Nat /\ request.hi \in Nat
      BY <1>0 DEF RequestOK
    <3> QED BY <1>0, <2>1, <2>2, <2>4, <3>1, <3>2, MovesTyped DEF Counted
  <2>6. CASE ~Storable(row)
    BY <1>0, <2>1, <2>3, <2>4, <2>6, NextDayTyped
  <2> QED BY <2>5, <2>6
<1>9. ASSUME Store PROVE RequestOK'
  BY <1>0, <1>9, NextDayTyped DEF Store, At
<1>10. ASSUME Return \/ Abandon PROVE RequestOK'
  <2>1. request' = Idle
    BY <1>10 DEF Return, Abandon
  <2> QED BY <2>1 DEF Idle, RequestOK, At, Counted
<1> QED BY <1>1, <1>2, <1>3, <1>4, <1>5, <1>6, <1>7, <1>8, <1>9, <1>10 DEF Reads

LEMMA ReadTyped ==
    ASSUME TypeOK, Reads
    PROVE  TypeOK'
<1>1. UNCHANGED <<frames, analysis, writes, cut>> /\ Ids' = Ids
  BY ReadFacts DEF Ids
<1>2. reads' \in 0..MaxReads /\ quiet' \in BOOLEAN
  <2>1. /\ reads' = reads \/ (reads < MaxReads /\ reads' = reads + 1)
        /\ quiet' = quiet \/ quiet' = TRUE
    BY DEF Reads, tuning_calendar, read_day, SeekFirst, SeekAfter, Reserve, Count, Events,
       Coverage, Store, Return, Abandon
  <2>2. reads \in 0..MaxReads /\ quiet \in BOOLEAN
    BY DEF TypeOK
  <2>3. reads' \in 0..MaxReads
    BY <2>1, <2>2, BoundsAssumption
  <2>4. quiet' \in BOOLEAN
    BY <2>1, <2>2
  <2> QED BY <2>3, <2>4
<1> QED BY <1>1, <1>2, MemoTyped, RequestTyped DEF TypeOK, IsKey

LEMMA TypeStep == TypeOK /\ [Next]_vars => TypeOK'
<1> SUFFICES ASSUME TypeOK, [Next]_vars PROVE TypeOK'
  OBVIOUS
<1>1. CASE Next
  BY <1>1, WriteTyped, ReadTyped DEF Next
<1>2. CASE UNCHANGED vars
  BY <1>2 DEF vars, TypeOK, RequestOK, At, Ids
<1> QED BY <1>1, <1>2

-----------------------------------------------------------------------------
(* The invariant.                                                           *)
DaysRight == \A k \in Days : Right(frames, analysis, cut, calendar_days[k], k)

(* The reservation of the day under way, as long as no write dropped it, is *)
(* for the span the two seeks found.                                        *)
Reserving == request.pc \in Counted \cup {"count"} /\ Whole

SpanHeld ==
    Reserving /\ Reserved =>
        calendar_days[Key].since = request.lo /\ calendar_days[Key].until = request.hi

(* What the scans have counted so far is right as long as nothing was       *)
(* written, or nothing to a reserved span that holds it.                    *)
Within(row) == request.lo <= row.since /\ row.until <= request.hi

UnderWay ==
    /\ request.pc \in Counted /\ Whole /\ (quiet \/ (Reserved /\ Within(request.row))) =>
         /\ CountsFrames(frames, request.row, Key)
         /\ request.pc # "events" => CountsVisits(frames, cut, request.row, Key)
         /\ CountsVerdicts(analysis, request.row)
    /\ At("store") => Whole /\ Within(request.row)

(* While nothing was written: the days gone through are right, the ids in   *)
(* order are within the span, and the reservation is there.                 *)
FirstDay == (request.window.since + off) \div Day
WholeDay(d) == /\ Midnight(<<off, d>>) >= request.window.since
               /\ Midnight(<<off, d>>) + Day - 1 <= request.window.until

Done(d) ==
    WholeDay(d) =>
        /\ d \in DOMAIN request.out => Right(frames, analysis, cut, request.out[d], <<off, d>>)
        /\ OfDay(frames, <<off, d>>) # {} =>
             d \in DOMAIN request.out /\ (InOrder => <<off, d>> \in Days)

PastDone == \A d \in FirstDay..LastDay : At("returned") \/ d < request.day => Done(d)

OutSoFar ==
    /\ \A d \in DOMAIN request.out : d <= request.day
    /\ ~At("store") /\ ~At("returned") => request.day \notin DOMAIN request.out
    /\ At("store") => request.day \in DOMAIN request.out /\ request.out[request.day] = request.row

SpanCovers ==
    InOrder =>
        /\ request.pc \in {"after", "reserve", "count"} \cup Counted /\ Whole =>
             \A i \in OfDay(frames, Key) : request.lo <= i
        /\ request.pc \in {"reserve", "count"} \cup Counted /\ Whole =>
             \A i \in OfDay(frames, Key) : i <= request.hi

QuietSoFar ==
    quiet /\ ~At("idle") => PastDone /\ OutSoFar /\ SpanCovers /\ (Reserving => Reserved)

IInv == TypeOK /\ DaysRight /\ SpanHeld /\ UnderWay /\ QuietSoFar

LEMMA Bridge ==
    ASSUME NEW k
    PROVE  /\ FramesOf(k) = OfDay(frames, k) /\ VisitsOf(k) = VisitsIn(frames, k)
           /\ OverMidnight(k) <=> Overnight(frames, k)
BY DEF FramesOf, VisitsOf, OverMidnight, OfDay, VisitsIn, Overnight, Ids, Motion, MotionIn, Starts,
   Begins, Before, Precedes

(* A row that is right in the sense of the invariant tells the day.         *)
LEMMA RightTells ==
    ASSUME TypeOK, NEW k, IsKey(k), NEW row, Right(frames, analysis, cut, row, k)
    PROVE  Tells(row, k)
<1> DEFINE ids == OfDay(frames, k)
<1>1. writes \in Nat /\ Table(frames, writes) /\ analysis \subseteq (DOMAIN frames) \X Analyzers
  BY BoundsAssumption DEF TypeOK, Table, Ids
<1>2. /\ ids # {} /\ row.since = Min(ids) /\ row.until = Max(ids)
      /\ row.frames = Cardinality(ids) /\ CountsFrames(frames, row, k)
  BY DEF Right, CountsFrames
<1>3. /\ row.since \in ids /\ row.until \in ids /\ row.since \in Nat /\ row.until \in Nat
      /\ \A i \in ids : i \in DOMAIN frames /\ i \in Nat /\ row.since <= i /\ i <= row.until
  BY <1>1, <1>2, SpanOfRow
<1>4. ASSUME NEW a \in DOMAIN row.analyzed
      PROVE  LET swept == Cardinality({i \in ids : <<i, a>> \in analysis})
             IN  row.analyzed[a] >= swept /\ (InOrder => row.analyzed[a] = swept)
  <2> DEFINE S == DOMAIN frames \cap (row.since..row.until)
             X == SweptOf(analysis, a, S)
             Y == SweptOf(analysis, a, ids)
  <2>1. IsFiniteSet(X) /\ Cardinality(X) \in Nat /\ row.analyzed[a] = Cardinality(X)
    <3>1. row.analyzed[a] = SweptIn(analysis, a, row.since, row.until)
      BY DEF Right, CountsVerdicts
    <3>2. /\ IsFiniteSet(X) /\ Cardinality(X) \in Nat
          /\ SweptIn(analysis, a, row.since, row.until) = Cardinality(X)
      BY <1>1, <1>3, SweptFacts
    <3> QED BY <3>1, <3>2
  <2>2. Y \subseteq X
    BY <1>3 DEF SweptOf
  <2>3. Cardinality(Y) <= Cardinality(X) /\ Cardinality(Y) \in Nat
    <3> HIDE DEF X, Y
    <3> QED BY <2>1, <2>2, FS_Subset, FS_CardinalityType
  <2>4. ASSUME InOrder PROVE Y = X
    <3>1. ASSUME NEW i \in S PROVE i \in ids
      <4>1. /\ frames[row.since].ts \in Midnight(k)..(Midnight(k) + Day - 1)
            /\ frames[row.until].ts \in Midnight(k)..(Midnight(k) + Day - 1)
            /\ row.since \in Ids /\ row.until \in Ids /\ i \in Ids
        BY <1>3 DEF OfDay, InDay, Ids
      <4>2. frames[row.since].ts <= frames[i].ts
        BY <1>1, <1>3, <2>4, <4>1, TableFacts DEF InOrder
      <4>3. frames[i].ts <= frames[row.until].ts
        BY <1>1, <1>3, <2>4, <4>1, TableFacts DEF InOrder
      <4>4. Midnight(k) \in Int /\ frames[i].ts \in Int /\ frames[row.since].ts \in Int
            /\ frames[row.until].ts \in Int
        BY <1>1, <1>3, <4>1, TableFacts, MidnightTyped
      <4> QED BY <4>1, <4>2, <4>3, <4>4, TimeAssumption DEF OfDay, InDay
    <3> HIDE DEF S
    <3> QED BY <2>2, <3>1 DEF SweptOf
  <2>5. Y = {i \in ids : <<i, a>> \in analysis}
    BY DEF SweptOf
  <2> HIDE DEF X, Y
  <2> QED BY <2>1, <2>3, <2>4, <2>5
<1>5. LET d == row.events - Cardinality(VisitsIn(frames, k))
      IN  d = 0 \/ (cut /\ Overnight(frames, k) /\ d \in {-1, 1})
  <2> PICK v, w : v = Cardinality(VisitsIn(frames, k)) /\ w = Cardinality(OwnVisits(frames, k))
    OBVIOUS
  <2>1. /\ v \in Nat /\ w \in Nat /\ (v = w \/ (v = w - 1 /\ Overnight(frames, k)))
    BY <1>1, VisitsOfTheDay
  <2>2. /\ row.events = w \/ (row.events = w - 1 /\ Overnight(frames, k))
        /\ ~cut => row.events = v
    BY DEF Right, CountsVisits
  <2> QED BY <2>1, <2>2
<1> HIDE DEF ids
<1>6. FramesOf(k) = ids
  BY Bridge DEF ids
<1> QED BY <1>2, <1>4, <1>5, <1>6, Bridge DEF Tells

LEMMA InvariantGives == IInv => MemoExact /\ QuietRequest
<1> SUFFICES ASSUME IInv PROVE MemoExact /\ QuietRequest
  OBVIOUS
<1>1. \A k \in Days : IsKey(k)
  BY DEF IInv, TypeOK, Days, IsKey
<1>2. MemoExact
  BY <1>1, RightTells DEF IInv, DaysRight, MemoExact
<1>3. QuietRequest
  <2> SUFFICES ASSUME At("returned"), quiet, NEW d \in FirstDay..LastDay, WholeDay(d)
               PROVE  /\ d \in DOMAIN request.out => Tells(request.out[d], <<off, d>>)
                      /\ FramesOf(<<off, d>>) # {} =>
                           d \in DOMAIN request.out /\ (InOrder => <<off, d>> \in Days)
    BY DEF QuietRequest, FirstDay, WholeDay
  <2>1. ~At("idle")
    BY DEF At
  <2>2. Done(d)
    BY <2>1 DEF IInv, QuietSoFar, PastDone
  <2>3. IsKey(<<off, d>>)
    <3>1. off \in Int /\ TypeOK
      BY <2>1, RequestFacts DEF IInv
    <3> QED BY <3>1 DEF IsKey
  <2> QED BY <2>2, <2>3, Bridge, RightTells DEF Done, IInv
<1> QED BY <1>2, <1>3

-----------------------------------------------------------------------------
EventsOf(rows, D) == MapThenSumSet(LAMBDA k : rows[k].events, D)
Joined(P, D) == UNION {P[k] : k \in D}

(* The sizes of sets that have nothing in common add up to the size of      *)
(* their union, in whichever order CHOOSE takes them.                       *)
LEMMA SumOfParts ==
    ASSUME NEW D, IsFiniteSet(D), NEW U, IsFiniteSet(U), NEW rows, NEW P,
           \A k \in D : P[k] \subseteq U /\ rows[k].events = Cardinality(P[k]),
           \A k, l \in D : k # l => P[k] \cap P[l] = {}
    PROVE  EventsOf(rows, D) = Cardinality(Joined(P, D))
<1> DEFINE Over(s) == UNION {P[k] : k \in s}
           Iter(g) == g = [s \in SUBSET D |->
                             IF s = {} THEN 0
                             ELSE LET x == CHOOSE x \in s : TRUE IN rows[x].events + g[s \ {x}]]
           it == CHOOSE g : Iter(g)
           f == [s \in SUBSET D |-> Cardinality(Over(s))]
<1>1. \A s \in SUBSET D : IsFiniteSet(Over(s))
  <2> SUFFICES ASSUME NEW s \in SUBSET D PROVE IsFiniteSet(Over(s))
    OBVIOUS
  <2>1. Over(s) \subseteq U
    OBVIOUS
  <2> QED BY <2>1, FS_Subset
<1>2. ASSUME NEW s \in SUBSET D, NEW x \in s
      PROVE  f[s] = rows[x].events + f[s \ {x}] /\ s \ {x} \in SUBSET D
  <2> PICK A, B : A = P[x] /\ B = Over(s \ {x})
    OBVIOUS
  <2>1. A \cap B = {} /\ Over(s) = A \cup B
    OBVIOUS
  <2>2. s \ {x} \in SUBSET D /\ x \in D
    OBVIOUS
  <2> HIDE DEF Over
  <2>3. IsFiniteSet(A) /\ IsFiniteSet(B)
    BY <1>1, <2>2, FS_Subset
  <2>4. Cardinality(A \cup B) = Cardinality(A) + Cardinality(B)
    <3>1. Cardinality(A \cap B) = 0
      BY <2>1, FS_EmptySet
    <3>2. Cardinality(A) \in Nat /\ Cardinality(B) \in Nat
      BY <2>3, FS_CardinalityType
    <3>3. Cardinality(A \cup B) = Cardinality(A) + Cardinality(B) - Cardinality(A \cap B)
      BY <2>3, FS_Union
    <3> QED BY <3>1, <3>2, <3>3
  <2> QED BY <2>1, <2>2, <2>4
<1>3. f[{}] = 0
  <2>1. Over({}) = {}
    OBVIOUS
  <2> HIDE DEF Over
  <2> QED BY <2>1, FS_EmptySet
<1>4. \A s \in SUBSET D : s # {} => (CHOOSE x \in s : TRUE) \in s
  OBVIOUS
<1>5. Iter(f)
  <2>1. ASSUME NEW s \in SUBSET D
        PROVE  f[s] = IF s = {} THEN 0
                      ELSE LET x == CHOOSE x \in s : TRUE IN rows[x].events + f[s \ {x}]
    <3> HIDE DEF f
    <3> QED BY <1>2, <1>3, <1>4
  <2>2. f = [s \in SUBSET D |-> f[s]]
    OBVIOUS
  <2> HIDE DEF f
  <2> QED BY <2>1, <2>2
<1>6. Iter(it)
  <2> HIDE DEF Iter, f
  <2> QED BY <1>5
<1>7. EventsOf(rows, D) = it[D]
  BY DEF EventsOf, MapThenSumSet, MapThenFoldSet
<1> HIDE DEF it, f, Over
<1>8. \A s \in SUBSET D : it[s] = IF s = {} THEN 0
                                  ELSE LET x == CHOOSE x \in s : TRUE IN rows[x].events + it[s \ {x}]
  BY <1>6
<1> DEFINE Off == {n \in Nat : \E s \in SUBSET D : Cardinality(s) = n /\ it[s] # f[s]}
<1>9. Off = {}
  <2> SUFFICES ASSUME Off # {} PROVE FALSE
    OBVIOUS
  <2>1. PICK n \in Off : \A m \in Off : n <= m
    <3>1. Off \subseteq Nat
      OBVIOUS
    <3> QED BY <3>1, LeastNatural
  <2>2. PICK s \in SUBSET D : Cardinality(s) = n /\ it[s] # f[s]
    BY <2>1
  <2>3. s # {}
    BY <1>3, <1>8, <2>2
  <2> PICK x : x = CHOOSE y \in s : TRUE
    OBVIOUS
  <2>4. x \in s /\ it[s] = rows[x].events + it[s \ {x}]
    BY <1>4, <1>8, <2>3
  <2>5. f[s] = rows[x].events + f[s \ {x}] /\ s \ {x} \in SUBSET D
    BY <1>2, <2>4
  <2>6. Cardinality(s \ {x}) = n - 1 /\ Cardinality(s \ {x}) \in Nat
    BY <2>2, <2>4, FS_Subset, FS_RemoveElement, FS_CardinalityType
  <2>7. n - 1 \notin Off
    BY <2>1
  <2>8. it[s \ {x}] = f[s \ {x}]
    BY <2>5, <2>6, <2>7
  <2> QED BY <2>2, <2>4, <2>5, <2>8
<1>10. it[D] = f[D]
  <2>1. Cardinality(D) \in Nat
    BY FS_CardinalityType
  <2> QED BY <1>9, <2>1
<1> QED BY <1>7, <1>10 DEF f, Over, Joined

(* Two days of one time zone have no moment in common.                      *)
LEMMA DaysApart ==
    ASSUME NEW k, NEW l, IsKey(k), IsKey(l), k[1] = l[1], NEW ts \in Int, InDay(k, ts), InDay(l, ts)
    PROVE  k = l
<1> PICK a, b, c : a = k[1] /\ b = k[2] /\ c = l[2]
  OBVIOUS
<1>1. a \in Int /\ b \in Int /\ c \in Int /\ k = <<a, b>> /\ l = <<a, c>>
  BY DEF IsKey
<1>2. ASSUME NEW x \in Int, NEW y \in Int, x < y PROVE x * Day + Day <= y * Day
  <2> PICK n : n = y - x - 1
    OBVIOUS
  <2>1. n \in Nat /\ y = x + 1 + n
    BY <1>2
  <2>2. y * Day = x * Day + Day + n * Day
    BY <2>1, TimeAssumption
  <2>3. n * Day \in Nat /\ x * Day \in Int /\ Day \in Int
    BY <2>1, TimeAssumption
  <2> QED BY <2>2, <2>3
<1>3. b * Day \in Int /\ c * Day \in Int /\ Day \in Int
  BY <1>1, TimeAssumption
<1>4. b * Day - a <= ts /\ ts <= b * Day - a + Day - 1
      /\ c * Day - a <= ts /\ ts <= c * Day - a + Day - 1
  BY <1>1 DEF InDay, Midnight
<1>5. ~(b < c) /\ ~(c < b)
  BY <1>1, <1>2, <1>3, <1>4
<1> QED BY <1>1, <1>5

LEMMA DaysAddUp == IInv => VisitsAddUp
<1> SUFFICES ASSUME IInv, NEW o, NEW mine, \A k : k \in mine <=> k \in Days /\ k[1] = o, ~cut,
                    \A i \in Motion(Ids) : \E k \in mine : InDay(k, frames[i].ts)
             PROVE  EventsOf(calendar_days, mine)
                      = Cardinality({i \in Motion(Ids) : Starts(i, Motion(Ids))})
  BY DEF VisitsAddUp, EventsOf
<1> PICK P : \A k \in mine : P[k] = VisitsIn(frames, k)
  <2> WITNESS [k \in mine |-> VisitsIn(frames, k)]
  <2> QED OBVIOUS
<1>1. writes \in Nat /\ Table(frames, writes) /\ IsFiniteSet(Ids)
      /\ \A i \in Ids : frames[i].ts \in Int
  <2>1. writes \in Nat /\ Table(frames, writes)
    BY BoundsAssumption DEF IInv, TypeOK, Table
  <2> QED BY <2>1, TableFacts DEF Ids
<1>2. ASSUME NEW k \in mine
      PROVE  /\ IsKey(k) /\ k[1] = o
             /\ CountsFrames(frames, calendar_days[k], k)
             /\ calendar_days[k].events = Cardinality(P[k])
             /\ P[k] = VisitsIn(frames, k) /\ P[k] \subseteq Ids
  <2>1. IsKey(k) /\ k[1] = o /\ Right(frames, analysis, cut, calendar_days[k], k)
    BY DEF IInv, TypeOK, DaysRight, Days, IsKey
  <2>2. VisitsIn(frames, k) \subseteq Ids
    BY DEF VisitsIn, MotionIn, OfDay, Ids
  <2> QED BY <2>1, <2>2 DEF Right, CountsVisits
<1>3. \A k, l \in mine, i \in Ids : InDay(k, frames[i].ts) /\ InDay(l, frames[i].ts) => k = l
  <2> SUFFICES ASSUME NEW k \in mine, NEW l \in mine, NEW i \in Ids, InDay(k, frames[i].ts),
                      InDay(l, frames[i].ts)
               PROVE  k = l
    OBVIOUS
  <2> PICK ts : ts = frames[i].ts
    OBVIOUS
  <2>1. ts \in Int /\ IsKey(k) /\ IsKey(l) /\ k[1] = l[1] /\ InDay(k, ts) /\ InDay(l, ts)
    BY <1>1, <1>2
  <2> QED BY <2>1, DaysApart
<1>4. \A k, l \in mine : k # l => P[k] \cap P[l] = {}
  <2>1. \A k \in mine : \A i \in P[k] : i \in Ids /\ InDay(k, frames[i].ts)
    BY <1>2 DEF VisitsIn, MotionIn, OfDay, Ids
  <2> QED BY <1>3, <2>1
<1>5. IsFiniteSet(mine)
  <2> PICK g : g = [k \in mine |-> calendar_days[k].since]
    OBVIOUS
  <2>1. \A k \in mine : g[k] \in Ids /\ InDay(k, frames[g[k]].ts)
    <3> SUFFICES ASSUME NEW k \in mine, NEW s, s = calendar_days[k].since
                 PROVE  s \in Ids /\ InDay(k, frames[s].ts)
      OBVIOUS
    <3>1. s \in OfDay(frames, k)
      BY <1>1, <1>2, SpanOfRow
    <3> QED BY <3>1 DEF OfDay, Ids
  <2>2. \A k, l \in mine : g[k] = g[l] => k = l
    BY <1>3, <2>1
  <2>3. g \in [mine -> Ids]
    BY <2>1
  <2>4. g \in Injection(mine, Ids)
    BY <2>2, <2>3 DEF Injection, IsInjective
  <2> QED BY <1>1, <2>4, FS_Injection
<1>6. EventsOf(calendar_days, mine) = Cardinality(Joined(P, mine))
  <2>1. \A k \in mine : P[k] \subseteq Ids /\ calendar_days[k].events = Cardinality(P[k])
    BY <1>2
  <2> QED BY <1>1, <1>4, <1>5, <2>1, SumOfParts
<1>7. Joined(P, mine) = {i \in Motion(Ids) : Starts(i, Motion(Ids))}
  <2>1. \A k \in mine : P[k] = {i \in Motion(FramesOf(k)) : Starts(i, Motion(Ids))}
    BY <1>2, Bridge DEF VisitsOf
  <2>2. \A k : Motion(FramesOf(k)) = {i \in Motion(Ids) : InDay(k, frames[i].ts)}
    BY DEF Motion, FramesOf
  <2> PICK S, M : S = Motion(Ids) /\ M = {i \in S : Starts(i, S)}
    OBVIOUS
  <2>3. \A k \in mine : P[k] = {i \in M : InDay(k, frames[i].ts)}
    BY <2>1, <2>2
  <2>4. \A i \in M : \E k \in mine : i \in P[k]
    BY <2>3
  <2> QED BY <2>3, <2>4 DEF Joined
<1> QED BY <1>6, <1>7

-----------------------------------------------------------------------------
LEMMA InvariantInit == Init => IInv
<1> SUFFICES ASSUME Init PROVE IInv
  OBVIOUS
<1>1. request.pc = "idle" /\ DOMAIN calendar_days = {}
  BY DEF Init, Idle
<1> QED BY <1>1, TypeInit DEF IInv, DaysRight, Days, SpanHeld, Reserving, UnderWay, QuietSoFar, At,
        Counted

(* A write spares every day it leaves memoized or reserved.                 *)
LEMMA WriteKeeps ==
    ASSUME TypeOK, TypeOK', Writes, NEW k \in DOMAIN calendar_days', NEW row,
           CountsFrames(frames, row, k),
           calendar_days[k].since <= row.since, row.until <= calendar_days[k].until
    PROVE  /\ CountsFrames(frames', row, k)
           /\ CountsVisits(frames, cut, row, k) => CountsVisits(frames', cut', row, k)
           /\ CountsVerdicts(analysis, row) => CountsVerdicts(analysis', row)
<1>1. /\ k \in DOMAIN calendar_days
      /\ Spared(frames, frames', analysis, analysis', cut, cut', k,
                calendar_days[k].since, calendar_days[k].until)
  BY WriteSpares
<1>2. /\ calendar_days[k].since \in Int /\ calendar_days[k].until \in Int /\ IsKey(k)
  BY <1>1 DEF TypeOK, IsMemo, IsKey
<1>3. /\ writes \in Nat /\ writes' \in Nat /\ Table(frames, writes) /\ Table(frames', writes')
  BY BoundsAssumption DEF TypeOK, Table
<1> QED BY <1>1, <1>2, <1>3, SparedRow

LEMMA WriteStep ==
    ASSUME IInv, Writes
    PROVE  IInv'
<1>1. TypeOK /\ TypeOK'
  BY WriteTyped DEF IInv
<1>2. request' = request /\ reads' = reads /\ quiet' = At("idle")
  <2>1. Write
    <3>1. \A ts, motion, prefer : add(ts, motion, prefer) => Write
      BY Zenon DEF add
    <3> QED BY <3>1 DEF Writes, purge_nonmotion_batch, write_analysis_batch, clear_analysis, clear
  <2> QED BY <2>1 DEF Write
<1>3. \A k \in DOMAIN calendar_days' :
        k \in DOMAIN calendar_days /\ calendar_days'[k] = calendar_days[k]
  BY <1>1, WriteSpares
<1>4. DaysRight'
  <2> SUFFICES ASSUME NEW k \in Days'
               PROVE  Right(frames', analysis', cut', calendar_days'[k], k)
    BY DEF DaysRight
  <2> PICK row : row = calendar_days[k]
    OBVIOUS
  <2>1. k \in DOMAIN calendar_days' /\ k \in Days /\ calendar_days'[k] = row
    BY <1>3 DEF Days
  <2>2. Right(frames, analysis, cut, row, k)
    BY <2>1 DEF IInv, DaysRight
  <2>3. calendar_days[k].since <= row.since /\ row.until <= calendar_days[k].until
    <3>1. calendar_days[k].since \in Nat /\ calendar_days[k].until \in Nat
      BY <1>1, <2>1 DEF TypeOK, IsMemo, Days
    <3> QED BY <3>1
  <2>4. /\ CountsFrames(frames', row, k) /\ CountsVisits(frames', cut', row, k)
        /\ CountsVerdicts(analysis', row)
    BY <1>1, <2>1, <2>2, <2>3, WriteKeeps DEF Right
  <2> QED BY <2>1, <2>4 DEF Right
<1>5. Key' = Key /\ (Whole' <=> Whole) /\ (Reserving' <=> Reserving)
  BY <1>2 DEF Key, off, Whole, DayLo, DayHi, Reserving
<1>6. Reserved' => /\ Reserved
                   /\ Key \in DOMAIN calendar_days' /\ calendar_days'[Key] = calendar_days[Key]
  BY <1>2, <1>3, <1>5 DEF Reserved
<1>7. SpanHeld'
  BY <1>2, <1>5, <1>6 DEF IInv, SpanHeld
<1>8. UnderWay'
  <2>1. ASSUME request.pc \in Counted, Whole, quiet' \/ (Reserved' /\ Within(request.row))
        PROVE  /\ CountsFrames(frames', request.row, Key)
               /\ request.pc # "events" => CountsVisits(frames', cut', request.row, Key)
               /\ CountsVerdicts(analysis', request.row)
    <3>1. ~quiet'
      BY <1>2, <2>1 DEF At, Counted
    <3>2. /\ Reserved /\ Within(request.row) /\ Key \in DOMAIN calendar_days'
          /\ calendar_days[Key].since = request.lo /\ calendar_days[Key].until = request.hi
      BY <1>6, <2>1, <3>1 DEF IInv, SpanHeld, Reserving
    <3> PICK row, k : row = request.row /\ k = Key
      OBVIOUS
    <3>3. /\ CountsFrames(frames, row, k)
          /\ request.pc # "events" => CountsVisits(frames, cut, row, k)
          /\ CountsVerdicts(analysis, row)
      BY <2>1, <3>2 DEF IInv, UnderWay
    <3>4. k \in DOMAIN calendar_days' /\ calendar_days[k].since <= row.since
          /\ row.until <= calendar_days[k].until
      BY <3>2 DEF Within
    <3>5. /\ CountsFrames(frames', row, k)
          /\ CountsVisits(frames, cut, row, k) => CountsVisits(frames', cut', row, k)
          /\ CountsVerdicts(analysis, row) => CountsVerdicts(analysis', row)
      BY <1>1, <3>3, <3>4, WriteKeeps
    <3> QED BY <3>3, <3>5
  <2>2. request'.row = request.row /\ (Within(request.row))' = Within(request.row)
    BY <1>2 DEF Within
  <2> QED BY <1>2, <1>5, <2>1, <2>2 DEF UnderWay, IInv, At, Within
<1>9. QuietSoFar'
  BY <1>2 DEF QuietSoFar, At
<1> QED BY <1>1, <1>4, <1>7, <1>8, <1>9 DEF IInv

-----------------------------------------------------------------------------
(* Steps of a request.                                                      *)
LEMMA SameDay ==
    ASSUME request'.window = request.window, request'.day = request.day
    PROVE  /\ Key' = Key /\ off' = off /\ (Whole' <=> Whole) /\ LastDay' = LastDay
           /\ FirstDay' = FirstDay
BY DEF Key, off, Whole, DayLo, DayHi, LastDay, FirstDay

LEMMA DaysKept ==
    ASSUME DaysRight, UNCHANGED <<frames, analysis, cut>>,
           \A k \in Days' : k \in Days /\ calendar_days'[k] = calendar_days[k]
    PROVE  DaysRight'
<1> SUFFICES ASSUME NEW k \in Days'
             PROVE  Right(frames', analysis', cut', calendar_days'[k], k)
  BY DEF DaysRight
<1> PICK row : row = calendar_days[k]
  OBVIOUS
<1>1. Right(frames, analysis, cut, row, k) /\ calendar_days'[k] = row
  BY DEF DaysRight
<1> QED BY <1>1

(* A day that is done stays done as long as it stays memoized and its       *)
(* result stays where it is.                                                *)
LEMMA DoneKept ==
    ASSUME UNCHANGED <<frames, analysis, cut>>, request'.window = request.window, NEW d,
           Done(d), <<off, d>> \in Days => <<off, d>> \in Days',
           d \in DOMAIN request.out <=> d \in DOMAIN request'.out,
           d \in DOMAIN request.out => request'.out[d] = request.out[d]
    PROVE  Done(d)'
<1>1. off' = off
  BY DEF off
<1>2. WholeDay(d)' <=> WholeDay(d)
  BY <1>1 DEF WholeDay, Midnight
<1>3. InOrder' <=> InOrder
  BY DEF InOrder, Ids
<1> PICK row, k, o : row = request.out[d] /\ k = <<off, d>> /\ o = off
  OBVIOUS
<1>4. /\ d \in DOMAIN request.out /\ WholeDay(d) => Right(frames, analysis, cut, row, k)
      /\ OfDay(frames, k) # {} /\ WholeDay(d) =>
           d \in DOMAIN request.out /\ (InOrder => k \in Days)
  BY DEF Done
<1>5. /\ d \in DOMAIN request'.out => request'.out[d] = row
      /\ <<off', d>> = k /\ (k \in Days => k \in Days')
  BY <1>1
<1> QED BY <1>2, <1>3, <1>4, <1>5 DEF Done

LEMMA NoSpanHere ==
    ASSUME request'.pc \notin Counted \cup {"count"}
    PROVE  SpanHeld' /\ UnderWay'
BY DEF SpanHeld, UnderWay, Reserving, At, Counted

(* The request is done with its day.                                        *)
DayOver(out) ==
    /\ \A d \in DOMAIN out : d \in DOMAIN request.out \/ d = request.day
    /\ \A d \in DOMAIN request.out : d < request.day => d \in DOMAIN out /\ out[d] = request.out[d]
    /\ Whole =>
        /\ request.day \in DOMAIN out => Right(frames, analysis, cut, out[request.day], Key)
        /\ OfDay(frames, Key) # {} => request.day \in DOMAIN out /\ (InOrder => Key \in Days')

LEMMA NextDayStep ==
    ASSUME IInv, ~At("idle"), ~At("returned"), UNCHANGED <<frames, analysis, cut, quiet>>,
           NEW out, NextDay(out), \A k \in Days : k # Key => k \in Days',
           quiet => DayOver(out)
    PROVE  SpanHeld' /\ UnderWay' /\ QuietSoFar'
<1>1. /\ request'.pc = (IF request.day < LastDay THEN "memo" ELSE "returned")
      /\ request'.day = (IF request.day < LastDay THEN request.day + 1 ELSE request.day)
      /\ request'.window = request.window /\ request'.out = out
  <2>1. RequestOK
    BY DEF IInv, TypeOK
  <2>2. request' = [request EXCEPT
        !.pc = IF request.day < LastDay THEN "memo" ELSE "returned",
        !.day = IF request.day < LastDay THEN @ + 1 ELSE @,
        !.lo = 0, !.hi = 0, !.row = None, !.out = out]
    BY DEF NextDay
  <2> QED BY <2>1, <2>2 DEF RequestOK
<1>2. off' = off /\ LastDay' = LastDay /\ FirstDay' = FirstDay
  BY <1>1 DEF off, LastDay, FirstDay
<1>3. SpanHeld' /\ UnderWay'
  BY <1>1, NoSpanHere DEF Counted
<1>4. ASSUME quiet
      PROVE  PastDone' /\ OutSoFar'
  <2>1. DayOver(out) /\ PastDone /\ OutSoFar
    BY <1>4 DEF IInv, QuietSoFar
  <2>2. request.day \in Int /\ \A d \in DOMAIN request.out : d \in Int /\ d <= request.day
    BY <2>1 DEF IInv, TypeOK, RequestOK, OutSoFar
  <2>3. ASSUME NEW d \in FirstDay..LastDay, d < request.day PROVE Done(d)'
    <3>1. Done(d) /\ d # request.day
      BY <2>1, <2>2, <2>3 DEF PastDone
    <3>2. <<off, d>> # Key
      BY <3>1 DEF Key
    <3>3. d \in DOMAIN request.out <=> d \in DOMAIN request'.out
      BY <1>1, <2>1, <2>3, <3>1 DEF DayOver
    <3>4. d \in DOMAIN request.out => request'.out[d] = request.out[d]
      BY <1>1, <2>1, <2>3 DEF DayOver
    <3> QED BY <1>1, <3>1, <3>2, <3>3, <3>4, DoneKept
  <2>4. ASSUME NEW d, d = request.day PROVE Done(d)'
    <3>1. /\ WholeDay(d)' => Whole
          /\ <<off', d>> = Key /\ (InOrder' <=> InOrder)
      BY <1>1, <1>2, <2>4 DEF WholeDay, Whole, DayLo, DayHi, Midnight, Key, InOrder, Ids
    <3> PICK k, row : k = Key /\ row = out[d]
      OBVIOUS
    <3>2. /\ WholeDay(d)' => Whole
          /\ Whole /\ d \in DOMAIN out => Right(frames, analysis, cut, row, k)
          /\ Whole /\ OfDay(frames, k) # {} => d \in DOMAIN out /\ (InOrder => k \in Days')
      BY <2>1, <2>4, <3>1 DEF DayOver
    <3> QED BY <1>1, <3>1, <3>2 DEF Done
  <2>5. PastDone'
    <3>1. ASSUME NEW d \in FirstDay..LastDay, (At("returned") \/ d < request.day)' PROVE Done(d)'
      <4>1. d <= request.day
        <5>1. CASE request.day < LastDay
          BY <1>1, <2>2, <3>1, <5>1 DEF At
        <5>2. CASE ~(request.day < LastDay)
          <6>1. LastDay \in Int /\ d <= LastDay
            BY LastDayTyped DEF IInv
          <6> QED BY <2>2, <5>2, <6>1
        <5> QED BY <5>1, <5>2
      <4>2. d < request.day \/ d = request.day
        BY <2>2, <4>1
      <4> QED BY <2>3, <2>4, <4>2
    <3> QED BY <1>2, <3>1 DEF PastDone
  <2>6. OutSoFar'
    <3>1. \A d \in DOMAIN out : d \in Int /\ d <= request.day
      BY <2>1, <2>2 DEF DayOver
    <3> QED BY <1>1, <2>2, <3>1 DEF OutSoFar, At
  <2> QED BY <2>5, <2>6
<1>5. quiet => SpanCovers' /\ (Reserving' => Reserved')
  BY <1>1 DEF SpanCovers, Reserving, Counted
<1> QED BY <1>3, <1>4, <1>5 DEF QuietSoFar

(* The request goes on within its day.                                      *)
Moves(pc, lo, hi, row, out) ==
    /\ request'.pc = pc /\ request'.lo = lo /\ request'.hi = hi
    /\ request'.row = row /\ request'.out = out
    /\ request'.window = request.window /\ request'.day = request.day

LEMMA MoveStep ==
    ASSUME IInv, ~At("idle"), ~At("store"), ~At("returned"),
           UNCHANGED <<frames, analysis, cut, quiet>>,
           NEW pc \in {"first", "after", "reserve", "count"} \cup Counted,
           NEW lo, NEW hi, NEW row, NEW out, Moves(pc, lo, hi, row, out),
           \A k \in Days : k # Key => k \in Days',
           IF pc = "store" THEN out = With(request.out, request.day, row) ELSE out = request.out,
           quiet => SpanCovers' /\ (Reserving' => Reserved')
    PROVE  QuietSoFar'
<1> SUFFICES ASSUME quiet PROVE PastDone' /\ OutSoFar'
  BY DEF QuietSoFar
<1>1. /\ request'.pc = pc /\ request'.window = request.window /\ request'.day = request.day
      /\ request'.row = row /\ request'.out = out
  BY DEF Moves
<1>2. LastDay' = LastDay /\ FirstDay' = FirstDay
  BY <1>1, SameDay
<1>3. PastDone /\ OutSoFar /\ request.day \in Int
  BY DEF IInv, QuietSoFar, TypeOK, RequestOK
<1>4. /\ request.day \notin DOMAIN request.out
      /\ \A d \in DOMAIN request.out : d <= request.day
  BY <1>3 DEF OutSoFar
<1>5. /\ pc # "store" => out = request.out
      /\ pc = "store" => /\ DOMAIN out = DOMAIN request.out \cup {request.day}
                         /\ out[request.day] = row
                         /\ \A d \in DOMAIN request.out : d # request.day => out[d] = request.out[d]
  <2>1. CASE pc = "store"
    <3>1. out = With(request.out, request.day, row)
      BY <2>1
    <3> QED BY <2>1, <3>1 DEF With
  <2>2. CASE pc # "store"
    BY <2>2
  <2> QED BY <2>1, <2>2
<1>6. ASSUME NEW d \in FirstDay..LastDay, d < request.day PROVE Done(d)'
  <2>1. Done(d) /\ d # request.day
    BY <1>3, <1>6 DEF PastDone
  <2>2. <<off, d>> # Key
    BY <2>1 DEF Key
  <2>3. d \in DOMAIN request.out <=> d \in DOMAIN request'.out
    BY <1>1, <1>5, <2>1
  <2>4. d \in DOMAIN request.out => request'.out[d] = request.out[d]
    BY <1>1, <1>5, <2>1
  <2> QED BY <1>1, <2>1, <2>2, <2>3, <2>4, DoneKept
<1>7. PastDone'
  BY <1>1, <1>2, <1>6 DEF PastDone, At, Counted
<1>8. OutSoFar'
  BY <1>1, <1>3, <1>4, <1>5 DEF OutSoFar, At, Counted
<1> QED BY <1>7, <1>8

(* A day computed whole: what lies between its ends, and the visits.        *)
LEMMA WholeDayScan ==
    ASSUME TypeOK, ~At("idle"), Whole
    PROVE  /\ Between(Lo, Hi) = OfDay(frames, Key)
           /\ EventsIn(Lo, Hi) = Cardinality(VisitsIn(frames, Key))
<1>1. /\ DayLo \in Int /\ DayHi \in Int /\ Lo = DayLo /\ Hi = DayHi
      /\ DayLo = Midnight(Key) /\ DayHi = Midnight(Key) + Day - 1
  BY RequestFacts DEF DayLo, DayHi
<1>2. \A i \in Ids : frames[i].ts \in Nat /\ i \in Nat
  <2>1. Table(frames, writes) /\ writes \in Nat
    BY BoundsAssumption DEF TypeOK, Table
  <2> QED BY <2>1, TableFacts DEF Ids
<1>3. Between(Lo, Hi) = OfDay(frames, Key)
  BY <1>1 DEF Between, OfDay, InDay, Ids
<1> DEFINE seen == Motion(Between(Lo - Gap, Hi))
           all  == MotionIn(frames, DOMAIN frames)
           day  == MotionIn(frames, OfDay(frames, Key))
<1>4. \A i : i \in seen <=> i \in Ids /\ frames[i].motion /\ DayLo - Gap <= frames[i].ts
                            /\ frames[i].ts <= DayHi
  BY <1>1, <1>2, TimeAssumption DEF Motion, Between
<1>5. \A i : i \in all <=> i \in Ids /\ frames[i].motion
  BY DEF MotionIn, Ids
<1>6. \A i : i \in day <=> i \in Ids /\ frames[i].motion /\ DayLo <= frames[i].ts
                           /\ frames[i].ts <= DayHi
  BY <1>1, <1>2 DEF MotionIn, OfDay, InDay, Ids
<1> HIDE DEF seen, all, day
<1>7. ASSUME NEW i \in day PROVE Starts(i, seen) <=> Begins(frames, i, all)
  <2>1. i \in Ids /\ frames[i].ts \in Nat /\ DayLo <= frames[i].ts /\ frames[i].ts <= DayHi
    BY <1>2, <1>6
  <2>2. ASSUME NEW j \in seen PROVE j \in all
    BY <1>4, <1>5
  <2>3. ASSUME NEW j \in all, j \notin seen, Precedes(frames, j, i)
        PROVE  frames[i].ts - frames[j].ts > Gap
    <3>1. j \in Ids /\ frames[j].motion /\ frames[j].ts \in Nat
      BY <1>2, <1>5
    <3>2. frames[j].ts <= frames[i].ts
      BY <2>1, <2>3, <3>1 DEF Precedes
    <3>3. ~(DayLo - Gap <= frames[j].ts)
      BY <1>1, <1>4, <2>1, <2>3, <3>1, <3>2
    <3> QED BY <1>1, <2>1, <3>1, <3>3, TimeAssumption
  <2>4. \A j : Before(j, i) <=> Precedes(frames, j, i)
    BY DEF Before, Precedes
  <2> QED BY <2>2, <2>3, <2>4 DEF Starts, Begins
<1>8. \A i \in seen : frames[i].ts >= Lo <=> i \in day
  BY <1>1, <1>2, <1>4, <1>6
<1>9. \A i \in day : i \in seen
  BY <1>1, <1>2, <1>4, <1>6, TimeAssumption
<1>10. {i \in seen : frames[i].ts >= Lo /\ Starts(i, seen)} = {i \in day : Begins(frames, i, all)}
  BY <1>7, <1>8, <1>9
<1>11. EventsIn(Lo, Hi) = Cardinality({i \in seen : frames[i].ts >= Lo /\ Starts(i, seen)})
  BY DEF EventsIn, seen
<1>12. VisitsIn(frames, Key) = {i \in day : Begins(frames, i, all)}
  BY DEF VisitsIn, day, all
<1> QED BY <1>3, <1>10, <1>11, <1>12

LEMMA SpanCoversKept ==
    ASSUME SpanCovers, UNCHANGED frames, request'.window = request.window,
           request'.day = request.day, request'.lo = request.lo, request'.hi = request.hi,
           request.pc \in {"reserve", "count"} \cup Counted
    PROVE  SpanCovers'
<1>1. Key' = Key /\ (Whole' <=> Whole) /\ (InOrder' <=> InOrder)
  BY SameDay DEF InOrder, Ids
<1> QED BY <1>1 DEF SpanCovers

LEMMA FrameTyped ==
    ASSUME TypeOK, NEW i \in Ids
    PROVE  i \in Nat /\ frames[i].ts \in Nat
<1>1. writes \in Nat /\ Table(frames, writes) /\ i \in DOMAIN frames
  BY BoundsAssumption DEF TypeOK, Table, Ids
<1> QED BY <1>1, TableFacts

LEMMA DayFrames ==
    ASSUME TypeOK, ~At("idle"), Whole, NEW i \in OfDay(frames, Key)
    PROVE  /\ i \in Ids /\ i \in Between(Lo, MaxTs) /\ i \in Between(Lo, Hi)
           /\ i \in Nat /\ i <= writes /\ frames[i].ts \in Nat /\ frames[i].ts <= Hi
           /\ writes \in Nat
<1>1. writes \in Nat /\ Table(frames, writes)
  BY BoundsAssumption DEF TypeOK, Table
<1>2. i \in Ids
  BY DEF OfDay, Ids
<1>3. i \in Between(Lo, Hi)
  BY WholeDayScan
<1>4. frames[i].ts \in Times /\ i \in 1..writes
  <2>1. Maps(frames, 1..writes, [ts : Times, motion : BOOLEAN])
    BY DEF TypeOK
  <2>2. i \in DOMAIN frames
    BY <1>2 DEF Ids
  <2> QED BY <2>1, <2>2 DEF Maps
<1> QED BY <1>1, <1>2, <1>3, <1>4, BoundsAssumption, RequestFacts DEF Between, Times

Good == DaysRight /\ SpanHeld /\ UnderWay /\ QuietSoFar

LEMMA StartStep ==
    ASSUME IInv, NEW w \in Windows, tuning_calendar(w)
    PROVE  Good'
<1>1. UNCHANGED <<frames, analysis, cut>>
  BY DEF tuning_calendar, store
<1>2. w.since \in Int /\ w.off \in Int
  BY WindowsAssumption
<1> DEFINE first == (w.since + w.off) \div Day
<1>3. first \in Int
  BY <1>2, TimeAssumption
<1>4. request' = [Idle EXCEPT !.pc = "memo", !.window = w, !.day = first]
  BY DEF tuning_calendar
<1>5. FirstDay' = first
  <2>1. request'.window = w
    BY <1>4 DEF Idle
  <2> QED BY <2>1 DEF FirstDay, off
<1> HIDE DEF first
<1>6. request'.pc = "memo" /\ request'.day = first /\ request'.out = <<>>
  BY <1>4 DEF Idle
<1>7. DaysRight'
  <2>1. \A k \in DOMAIN calendar_days' :
          k \in DOMAIN calendar_days /\ calendar_days'[k] = calendar_days[k]
    <3> PICK keys : calendar_days' = Without(keys)
      BY DEF tuning_calendar
    <3> QED BY WithoutFacts
  <2>2. \A k \in Days' : k \in Days /\ calendar_days'[k] = calendar_days[k]
    BY <2>1 DEF Days
  <2> QED BY <1>1, <2>2, DaysKept DEF IInv
<1>8. SpanHeld' /\ UnderWay'
  BY <1>6, NoSpanHere DEF Counted
<1>9. PastDone'
  <2>1. \A d \in FirstDay'..LastDay' : ~(At("returned")' \/ d < request'.day)
    BY <1>3, <1>5, <1>6 DEF At
  <2> QED BY <2>1 DEF PastDone
<1>10. OutSoFar' /\ SpanCovers' /\ (Reserving' => Reserved')
  BY <1>6 DEF OutSoFar, SpanCovers, Reserving, At, Counted
<1> QED BY <1>7, <1>8, <1>9, <1>10 DEF Good, QuietSoFar

LEMMA NumbersRight ==
    ASSUME TypeOK, NEW m, IsMemo(m), request.window.want \subseteq DOMAIN m.analyzed,
           NEW k, Right(frames, analysis, cut, m, k)
    PROVE  Right(frames, analysis, cut, Numbers(m), k)
<1> DEFINE part == Restrict(m.analyzed, request.window.want)
           n == Numbers(m)
<1>1. DOMAIN part = request.window.want /\ \A a \in request.window.want : part[a] = m.analyzed[a]
  BY DEF Restrict
<1>2. n = [since |-> m.since, until |-> m.until, frames |-> m.frames,
           events |-> m.events, analyzed |-> part]
  BY DEF Numbers
<1> HIDE DEF part, n
<1>3. n.since = m.since /\ n.until = m.until /\ n.frames = m.frames /\ n.events = m.events
      /\ n.analyzed = part
  BY <1>2
<1>4. CountsFrames(frames, n, k) /\ CountsVisits(frames, cut, n, k)
  BY <1>3 DEF Right, CountsFrames, CountsVisits
<1>5. CountsVerdicts(analysis, n)
  BY <1>1, <1>3 DEF Right, CountsVerdicts
<1> QED BY <1>4, <1>5 DEF Right, n

LEMMA ReadDayStep ==
    ASSUME IInv, read_day
    PROVE  Good'
<1>1. UNCHANGED <<frames, analysis, cut, quiet, calendar_days, reads>>
  BY DEF read_day, store
<1>2. /\ At("memo") /\ ~At("idle") /\ ~At("store") /\ ~At("returned") /\ TypeOK /\ RequestOK
  BY DEF read_day, At, IInv, TypeOK
<1>3. Days' = Days
  BY <1>1 DEF Days
<1>4. DaysRight'
  BY <1>1, <1>3, DaysKept DEF IInv
<1>5. CASE Hit
  <2> DEFINE row == Numbers(calendar_days[Key])
             out == With(request.out, request.day, row)
  <2>1. NextDay(out)
    BY <1>5 DEF read_day
  <2>2. Key \in Days /\ Right(frames, analysis, cut, row, Key)
    <3> PICK m : m = calendar_days[Key]
      OBVIOUS
    <3>1. Key \in Days /\ IsMemo(m) /\ request.window.want \subseteq DOMAIN m.analyzed
      BY <1>2, <1>5 DEF Hit, Days, TypeOK
    <3>2. Right(frames, analysis, cut, m, Key)
      BY <3>1 DEF IInv, DaysRight
    <3> QED BY <1>2, <3>1, <3>2, NumbersRight
  <2>3. quiet => DayOver(out)
    <3> HIDE DEF row
    <3> SUFFICES ASSUME quiet PROVE DayOver(out)
      OBVIOUS
    <3>1. request.day \in Int /\ \A d \in DOMAIN request.out : d \in Int
      BY <1>2 DEF RequestOK
    <3>2. DOMAIN out = DOMAIN request.out \cup {request.day} /\ out[request.day] = row
          /\ \A d \in DOMAIN request.out : d # request.day => out[d] = request.out[d]
      BY DEF With
    <3> HIDE DEF out
    <3> QED BY <1>3, <2>2, <3>1, <3>2 DEF DayOver
  <2> HIDE DEF out
  <2>4. SpanHeld' /\ UnderWay' /\ QuietSoFar'
    BY <1>1, <1>2, <1>3, <2>1, <2>3, NextDayStep
  <2> QED BY <1>4, <2>4 DEF Good
<1>6. CASE ~Hit
  <2>1. Moves("first", request.lo, request.hi, request.row, request.out)
    BY <1>2, <1>6 DEF read_day, RequestOK, Moves
  <2>2. SpanHeld' /\ UnderWay'
    BY <2>1, NoSpanHere DEF Counted, Moves
  <2>3. SpanCovers' /\ (Reserving' => Reserved')
    BY <2>1 DEF SpanCovers, Reserving, Counted, Moves
  <2>4. QuietSoFar'
    BY <1>1, <1>2, <1>3, <2>1, <2>3, MoveStep
  <2> QED BY <1>4, <2>2, <2>4 DEF Good
<1> QED BY <1>5, <1>6

LEMMA SeekFirstStep ==
    ASSUME IInv, SeekFirst
    PROVE  Good'
<1> DEFINE later == Between(Lo, MaxTs)
<1>1. UNCHANGED <<frames, analysis, cut, quiet, calendar_days, reads>>
  BY DEF SeekFirst, store
<1>2. /\ At("first") /\ ~At("idle") /\ ~At("store") /\ ~At("returned") /\ TypeOK /\ RequestOK
  BY DEF SeekFirst, At, IInv, TypeOK
<1>3. Days' = Days
  BY <1>1 DEF Days
<1>4. DaysRight'
  BY <1>1, <1>3, DaysKept DEF IInv
<1>5. CASE later = {} \/ frames[Earliest(later)].ts > Hi
  <2>1. NextDay(request.out)
    BY <1>5 DEF SeekFirst
  <2>2. ASSUME Whole PROVE OfDay(frames, Key) = {}
    <3> SUFFICES ASSUME NEW i \in OfDay(frames, Key) PROVE FALSE
      OBVIOUS
    <3>1. i \in later /\ frames[i].ts \in Nat /\ frames[i].ts <= Hi /\ i \in Nat /\ Hi \in Int
      BY <1>2, <2>2, DayFrames, RequestFacts
    <3> PICK e : e = Earliest(later)
      OBVIOUS
    <3>2. e \in Ids /\ (i # e => Precedes(frames, e, i)) /\ frames[e].ts > Hi
      BY <1>2, <1>5, <3>1, BetweenFacts DEF Ids
    <3>3. frames[e].ts \in Nat
      BY <1>2, <3>2, FrameTyped
    <3> QED BY <3>1, <3>2, <3>3 DEF Precedes
  <2>3. quiet => DayOver(request.out)
    <3> SUFFICES ASSUME quiet PROVE DayOver(request.out)
      OBVIOUS
    <3>1. request.day \notin DOMAIN request.out
      BY <1>2 DEF IInv, QuietSoFar, OutSoFar
    <3> QED BY <2>2, <3>1 DEF DayOver
  <2>4. SpanHeld' /\ UnderWay' /\ QuietSoFar'
    BY <1>1, <1>2, <1>3, <2>1, <2>3, NextDayStep
  <2> QED BY <1>4, <2>4 DEF Good
<1>6. CASE ~(later = {} \/ frames[Earliest(later)].ts > Hi)
  <2> PICK e : e = Earliest(later)
    OBVIOUS
  <2>1. Moves("after", e, request.hi, request.row, request.out)
    <3>1. request' = [request EXCEPT !.pc = "after", !.lo = e]
      BY <1>6 DEF SeekFirst
    <3> QED BY <1>2, <3>1 DEF RequestOK, Moves
  <2>2. SpanHeld' /\ UnderWay'
    BY <2>1, NoSpanHere DEF Counted, Moves
  <2>3. ASSUME InOrder, Whole, NEW i \in OfDay(frames, Key) PROVE e <= i
    <3>1. i \in later /\ i \in Nat /\ i \in Ids /\ frames[i].ts \in Nat
      BY <1>2, <2>3, DayFrames
    <3>2. e \in later /\ (i # e => Precedes(frames, e, i))
      BY <1>2, <1>6, <3>1, BetweenFacts
    <3>3. e \in Ids /\ e \in Nat /\ frames[e].ts \in Nat
      <4>1. e \in Ids
        BY <3>2 DEF Between
      <4> QED BY <1>2, <4>1, FrameTyped
    <3>4. i < e => frames[i].ts <= frames[e].ts
      BY <2>3, <3>1, <3>3 DEF InOrder
    <3> QED BY <3>1, <3>2, <3>3, <3>4 DEF Precedes
  <2>4. SpanCovers' /\ (Reserving' => Reserved')
    <3>1. Key' = Key /\ (Whole' <=> Whole) /\ (InOrder' <=> InOrder)
      BY <1>1, <2>1, SameDay DEF Moves, InOrder, Ids
    <3>2. request'.pc = "after" /\ request'.lo = e
      BY <2>1 DEF Moves
    <3> QED BY <1>1, <2>3, <3>1, <3>2 DEF SpanCovers, Reserving, Counted
  <2>5. QuietSoFar'
    BY <1>1, <1>2, <1>3, <2>1, <2>4, MoveStep
  <2> QED BY <1>4, <2>2, <2>5 DEF Good
<1> QED BY <1>5, <1>6

LEMMA SeekAfterStep ==
    ASSUME IInv, SeekAfter
    PROVE  Good'
<1> DEFINE later == Between(Hi + 1, MaxTs)
<1> PICK pc : pc = IF Whole THEN "reserve" ELSE "count"
  OBVIOUS
<1> PICK hi : hi = IF later = {} THEN MaxRowId ELSE Earliest(later) - 1
  OBVIOUS
<1>1. UNCHANGED <<frames, analysis, cut, quiet, calendar_days, reads>>
  BY DEF SeekAfter, store
<1>2. /\ At("after") /\ ~At("idle") /\ ~At("store") /\ ~At("returned") /\ TypeOK /\ RequestOK
  BY DEF SeekAfter, At, IInv, TypeOK
<1>3. Days' = Days
  BY <1>1 DEF Days
<1>4. DaysRight'
  BY <1>1, <1>3, DaysKept DEF IInv
<1>5. Moves(pc, request.lo, hi, request.row, request.out)
  <2>1. request' = [request EXCEPT !.pc = pc, !.hi = hi]
    BY DEF SeekAfter
  <2> QED BY <1>2, <2>1 DEF RequestOK, Moves
<1>6. Key' = Key /\ (Whole' <=> Whole) /\ (InOrder' <=> InOrder)
  BY <1>1, <1>5, SameDay DEF Moves, InOrder, Ids
<1>7. request'.pc \notin Counted /\ ~Reserving' /\ request'.pc = pc /\ ~At("store")'
  BY <1>5, <1>6 DEF Moves, Counted, Reserving, At
<1>8. SpanHeld' /\ UnderWay'
  BY <1>7 DEF SpanHeld, UnderWay
<1>9. ASSUME InOrder, Whole, NEW i \in OfDay(frames, Key) PROVE i <= hi
  <2>1. /\ i \in Nat /\ i \in Ids /\ i <= writes /\ writes <= MaxWrites
        /\ frames[i].ts \in Nat /\ frames[i].ts <= Hi /\ Hi \in Int /\ writes \in Nat
    BY <1>2, <1>9, DayFrames, RequestFacts, BoundsAssumption DEF TypeOK
  <2>2. CASE later = {}
    BY <2>1, <2>2, BoundsAssumption DEF MaxRowId
  <2>3. CASE later # {}
    <3> PICK e : e = Earliest(later)
      OBVIOUS
    <3>1. e \in later
      BY <1>2, <2>3, BetweenFacts
    <3>2. e \in Ids /\ e \in Nat /\ frames[e].ts \in Nat /\ frames[e].ts >= Hi + 1
      <4>1. e \in Ids /\ frames[e].ts \in (Hi + 1)..MaxTs
        BY <3>1 DEF Between
      <4>2. e \in Nat /\ frames[e].ts \in Nat
        BY <1>2, <4>1, FrameTyped
      <4> QED BY <2>1, <4>1, <4>2
    <3>3. e < i => frames[e].ts <= frames[i].ts
      BY <1>9, <2>1, <3>2 DEF InOrder
    <3>4. e # i
      BY <2>1, <3>2
    <3>5. hi = e - 1
      BY <2>3
    <3> QED BY <2>1, <3>2, <3>3, <3>4, <3>5
  <2> QED BY <2>2, <2>3
<1>10. quiet => SpanCovers'
  <2> SUFFICES ASSUME quiet PROVE SpanCovers'
    OBVIOUS
  <2>1. InOrder /\ Whole => \A i \in OfDay(frames, Key) : request.lo <= i
    BY <1>2 DEF IInv, QuietSoFar, SpanCovers, At
  <2>2. request'.lo = request.lo /\ request'.hi = hi
    BY <1>5 DEF Moves
  <2> QED BY <1>1, <1>6, <1>9, <2>1, <2>2 DEF SpanCovers
<1>11. QuietSoFar'
  BY <1>1, <1>2, <1>3, <1>5, <1>7, <1>10, MoveStep
<1> QED BY <1>4, <1>8, <1>11 DEF Good

LEMMA ReserveStep ==
    ASSUME IInv, Reserve
    PROVE  Good'
<1> DEFINE row == [since |-> request.lo, until |-> request.hi, frames |-> 0, events |-> 0,
                   analyzed |-> <<>>, pending |-> TRUE, token |-> reads]
<1>1. /\ UNCHANGED <<frames, analysis, cut, quiet, reads>>
      /\ calendar_days' = With(calendar_days, Key, row)
  BY DEF Reserve, store
<1>2. /\ At("reserve") /\ ~At("idle") /\ ~At("store") /\ ~At("returned") /\ TypeOK /\ RequestOK
  BY DEF Reserve, At, IInv, TypeOK
<1>3. /\ DOMAIN calendar_days' = DOMAIN calendar_days \cup {Key} /\ calendar_days'[Key] = row
      /\ \A k \in DOMAIN calendar_days : k # Key => calendar_days'[k] = calendar_days[k]
  <2> HIDE DEF row
  <2> QED BY <1>1 DEF With
<1>4. row.pending = TRUE /\ row.token = reads /\ row.since = request.lo /\ row.until = request.hi
  OBVIOUS
<1> HIDE DEF row
<1>5. /\ \A k \in Days' : k \in Days /\ calendar_days'[k] = calendar_days[k]
      /\ \A k \in Days : k # Key => k \in Days'
  BY <1>3, <1>4 DEF Days
<1>6. DaysRight'
  BY <1>1, <1>5, DaysKept DEF IInv
<1>7. Moves("count", request.lo, request.hi, request.row, request.out)
  <2>1. request' = [request EXCEPT !.pc = "count"]
    BY DEF Reserve
  <2> QED BY <1>2, <2>1 DEF RequestOK, Moves
<1>8. Key' = Key
  BY <1>7, SameDay DEF Moves
<1>9. Reserved'
  BY <1>1, <1>3, <1>4, <1>8 DEF Reserved
<1>10. SpanHeld' /\ UnderWay'
  BY <1>3, <1>4, <1>7, <1>8 DEF SpanHeld, UnderWay, Moves, Counted, At
<1>11. quiet => SpanCovers'
  BY <1>1, <1>2, <1>7, SpanCoversKept DEF IInv, QuietSoFar, Moves, At
<1>12. QuietSoFar'
  BY <1>1, <1>2, <1>5, <1>7, <1>9, <1>11, MoveStep
<1> QED BY <1>6, <1>10, <1>12 DEF Good

LEMMA CountStep ==
    ASSUME IInv, Count
    PROVE  Good'
<1> DEFINE ids == Between(Lo, Hi)
<1>1. UNCHANGED <<frames, analysis, cut, quiet, calendar_days, reads>>
  BY DEF Count, store
<1>2. /\ At("count") /\ ~At("idle") /\ ~At("store") /\ ~At("returned") /\ TypeOK /\ RequestOK
  BY DEF Count, At, IInv, TypeOK
<1>3. Days' = Days
  BY <1>1 DEF Days
<1>4. DaysRight'
  BY <1>1, <1>3, DaysKept DEF IInv
<1>5. Whole => OfDay(frames, Key) = ids
  BY <1>2, WholeDayScan
<1>6. CASE ids = {}
  <2>1. NextDay(request.out)
    BY <1>6 DEF Count
  <2>2. quiet => DayOver(request.out)
    <3> SUFFICES ASSUME quiet PROVE DayOver(request.out)
      OBVIOUS
    <3>1. request.day \notin DOMAIN request.out
      BY <1>2 DEF IInv, QuietSoFar, OutSoFar
    <3> QED BY <1>5, <1>6, <3>1 DEF DayOver
  <2>3. SpanHeld' /\ UnderWay' /\ QuietSoFar'
    BY <1>1, <1>2, <1>3, <2>1, <2>2, NextDayStep
  <2> QED BY <1>4, <2>3 DEF Good
<1>7. CASE ids # {}
  <2> PICK row : row = [since |-> Min(ids), until |-> Max(ids), frames |-> Cardinality(ids),
                        events |-> 0, analyzed |-> <<>>]
    OBVIOUS
  <2>1. Moves("events", request.lo, request.hi, row, request.out)
    <3>1. request' = [request EXCEPT !.pc = "events", !.row = row]
      BY <1>7 DEF Count
    <3> QED BY <1>2, <3>1 DEF RequestOK, Moves
  <2>2. Key' = Key /\ (Whole' <=> Whole)
    BY <2>1, SameDay DEF Moves
  <2>3. Whole => CountsFrames(frames, row, Key)
    BY <1>5, <1>7 DEF CountsFrames
  <2>4. CountsVerdicts(analysis, row)
    <3>1. DOMAIN row.analyzed = {}
      OBVIOUS
    <3> QED BY <3>1 DEF CountsVerdicts
  <2>5. UnderWay'
    <3>1. request'.row = row /\ request'.pc = "events"
      BY <2>1 DEF Moves
    <3> QED BY <1>1, <2>2, <2>3, <2>4, <3>1 DEF UnderWay, At
  <2>6. Reserved' <=> Reserved
    BY <1>1, <2>2 DEF Reserved
  <2>7. SpanHeld'
    BY <1>1, <1>2, <2>1, <2>2, <2>6 DEF IInv, SpanHeld, Reserving, Moves, At
  <2>8. quiet => SpanCovers' /\ (Reserving' => Reserved')
    <3>1. quiet => SpanCovers'
      BY <1>1, <1>2, <2>1, SpanCoversKept DEF IInv, QuietSoFar, Moves, At
    <3>2. quiet /\ Whole => Reserved
      BY <1>2 DEF IInv, QuietSoFar, Reserving, At
    <3> QED BY <2>2, <2>6, <3>1, <3>2 DEF Reserving
  <2>9. QuietSoFar'
    BY <1>1, <1>2, <1>3, <2>1, <2>8, MoveStep DEF Counted
  <2> QED BY <1>4, <2>5, <2>7, <2>9 DEF Good
<1> QED BY <1>6, <1>7

(* A step among the scans keeps the reservation.                            *)
LEMMA ScanKeeps ==
    ASSUME IInv, UNCHANGED <<frames, analysis, cut, quiet, calendar_days, reads>>,
           request.pc \in {"events", "coverage"}, NEW pc \in {"coverage", "store"}, NEW row, NEW out,
           Moves(pc, request.lo, request.hi, row, out)
    PROVE  /\ DaysRight' /\ SpanHeld' /\ Days' = Days /\ Key' = Key /\ (Whole' <=> Whole)
           /\ (Reserved' <=> Reserved)
           /\ quiet => SpanCovers' /\ (Reserving' => Reserved')
<1>1. Days' = Days
  BY DEF Days
<1>2. DaysRight'
  BY <1>1, DaysKept DEF IInv
<1>3. Key' = Key /\ (Whole' <=> Whole)
  BY SameDay DEF Moves
<1>4. Reserved' <=> Reserved
  BY <1>3 DEF Reserved
<1>5. SpanHeld'
  BY <1>3, <1>4 DEF IInv, SpanHeld, Reserving, Moves, Counted
<1>6. quiet => SpanCovers'
  BY SpanCoversKept DEF IInv, QuietSoFar, Moves, At, Counted
<1>7. quiet /\ Whole => Reserved
  BY DEF IInv, QuietSoFar, Reserving, At, Counted
<1> QED BY <1>1, <1>2, <1>3, <1>4, <1>5, <1>6, <1>7 DEF Reserving

(* A request that now holds a row with both of its counts right is still       *)
(* counting as it should.                                                     *)
LEMMA RowCounted ==
    ASSUME NEW row, NEW out, Moves("coverage", request.lo, request.hi, row, out),
           UNCHANGED <<frames, analysis, cut, quiet>>, Key' = Key, Whole' <=> Whole,
           Reserved' <=> Reserved,
           Whole /\ (quiet \/ (Reserved /\ Within(row)))
             => /\ CountsFrames(frames, row, Key) /\ CountsVisits(frames, cut, row, Key)
                /\ CountsVerdicts(analysis, row)
    PROVE  UnderWay'
<1>1. request'.row = row /\ request'.pc = "coverage" /\ request'.lo = request.lo
      /\ request'.hi = request.hi
  BY DEF Moves
<1>2. Within(request.row)' <=> Within(row)
  BY <1>1 DEF Within
<1> QED BY <1>1, <1>2 DEF UnderWay, At

LEMMA EventsStep ==
    ASSUME IInv, Events
    PROVE  Good'
<1>1. UNCHANGED <<frames, analysis, cut, quiet, calendar_days, reads>>
  BY DEF Events, store
<1>2. /\ At("events") /\ ~At("idle") /\ ~At("store") /\ ~At("returned") /\ TypeOK /\ RequestOK
      /\ IsDayRow(request.row)
  BY DEF Events, At, IInv, TypeOK, RequestOK, Counted
<1> PICK old, row, n : /\ old = request.row /\ n = EventsIn(Lo, Hi)
                       /\ row = [old EXCEPT !.events = n]
  OBVIOUS
<1>3. Moves("coverage", request.lo, request.hi, row, request.out)
  <2>1. request' = [request EXCEPT !.pc = "coverage", !.row.events = n]
    BY DEF Events
  <2>2. request' = [request EXCEPT !.pc = "coverage", !.row = row]
    BY <1>2, <2>1 DEF RequestOK
  <2> QED BY <1>2, <2>2 DEF RequestOK, Moves
<1>4. row.since = old.since /\ row.until = old.until /\ row.frames = old.frames
      /\ row.events = n /\ row.analyzed = old.analyzed
  <2>1. n \in Nat
    BY <1>2, EventsTyped
  <2>2. row = [since |-> old.since, until |-> old.until, frames |-> old.frames, events |-> n,
               analyzed |-> old.analyzed]
    BY <1>2, <2>1, EventsRow
  <2> QED BY <2>2
<1>5. /\ DaysRight' /\ SpanHeld' /\ Days' = Days /\ Key' = Key /\ (Whole' <=> Whole)
      /\ (Reserved' <=> Reserved)
      /\ quiet => SpanCovers' /\ (Reserving' => Reserved')
  BY <1>1, <1>2, <1>3, ScanKeeps DEF At
<1>6. ASSUME Whole, quiet \/ (Reserved /\ Within(row))
      PROVE  /\ CountsFrames(frames, row, Key) /\ CountsVisits(frames, cut, row, Key)
             /\ CountsVerdicts(analysis, row)
  <2>1. quiet \/ (Reserved /\ Within(request.row))
    BY <1>4, <1>6 DEF Within
  <2>2. CountsFrames(frames, old, Key) /\ CountsVerdicts(analysis, old)
    BY <1>2, <1>6, <2>1 DEF IInv, UnderWay, At, Counted
  <2>3. CountsFrames(frames, row, Key) /\ CountsVerdicts(analysis, row)
    BY <1>4, <2>2 DEF CountsFrames, CountsVerdicts
  <2>4. CountsVisits(frames, cut, row, Key)
    <3>1. n = Cardinality(VisitsIn(frames, Key))
      BY <1>2, <1>6, WholeDayScan
    <3>2. writes \in Nat /\ Table(frames, writes) /\ IsKey(Key)
      BY <1>2, BoundsAssumption, RequestFacts DEF TypeOK, Table
    <3>3. \/ VisitsIn(frames, Key) = OwnVisits(frames, Key)
          \/ /\ Cardinality(VisitsIn(frames, Key)) = Cardinality(OwnVisits(frames, Key)) - 1
             /\ Overnight(frames, Key)
      BY <3>2, VisitsOfTheDay
    <3> QED BY <1>4, <3>1, <3>3 DEF CountsVisits
  <2> QED BY <2>3, <2>4
<1>7. UnderWay'
  BY <1>1, <1>3, <1>5, <1>6, RowCounted
<1>8. QuietSoFar'
  BY <1>1, <1>2, <1>3, <1>5, MoveStep DEF Counted
<1> QED BY <1>5, <1>7, <1>8 DEF Good

LEMMA CoverageStep ==
    ASSUME IInv, Coverage
    PROVE  Good'
<1>1. UNCHANGED <<frames, analysis, cut, quiet, calendar_days, reads>>
  BY DEF Coverage, store
<1>2. /\ At("coverage") /\ ~At("idle") /\ ~At("store") /\ ~At("returned") /\ TypeOK /\ RequestOK
      /\ IsDayRow(request.row)
  BY DEF Coverage, At, IInv, TypeOK, RequestOK, Counted
<1> PICK old, row, out : /\ old = request.row /\ row = Covered(old, request.window.want)
                         /\ out = With(request.out, request.day, row)
  OBVIOUS
<1>3. IF Storable(row)
      THEN request' = [request EXCEPT !.pc = "store", !.row = row, !.out = out]
      ELSE NextDay(out)
  BY DEF Coverage, Covered
<1>4. /\ row.since = old.since /\ row.until = old.until /\ row.frames = old.frames
      /\ row.events = old.events
      /\ \A a \in DOMAIN row.analyzed : row.analyzed[a] = SweptIn(analysis, a, old.since, old.until)
  <2> PICK want : want = request.window.want
    OBVIOUS
  <2>1. want \subseteq Analyzers
    BY <1>2, RequestFacts
  <2>2. row = [since |-> old.since, until |-> old.until, frames |-> old.frames,
               events |-> old.events,
               analyzed |-> [a \in want |-> Verdicts(a, old.since, old.until)]]
    BY <1>2, <2>1, CoveredTyped
  <2>3. \A a : Verdicts(a, old.since, old.until) = SweptIn(analysis, a, old.since, old.until)
    BY DEF Verdicts, SweptIn
  <2> QED BY <2>2, <2>3
<1>5. Days' = Days /\ DaysRight'
  <2>1. Days' = Days
    BY <1>1 DEF Days
  <2> QED BY <1>1, <2>1, DaysKept DEF IInv
<1>6. ASSUME Whole, quiet \/ (Reserved /\ Within(row))
      PROVE  Right(frames, analysis, cut, row, Key)
  <2>1. quiet \/ (Reserved /\ Within(request.row))
    BY <1>4, <1>6 DEF Within
  <2>2. CountsFrames(frames, old, Key) /\ CountsVisits(frames, cut, old, Key)
    BY <1>2, <1>6, <2>1 DEF IInv, UnderWay, At, Counted
  <2> QED BY <1>4, <2>2 DEF Right, CountsFrames, CountsVisits, CountsVerdicts
<1>7. CASE Storable(row)
  <2>1. Moves("store", request.lo, request.hi, row, out)
    BY <1>2, <1>3, <1>7 DEF RequestOK, Moves
  <2>2. /\ SpanHeld' /\ Key' = Key /\ (Whole' <=> Whole) /\ (Reserved' <=> Reserved)
        /\ quiet => SpanCovers' /\ (Reserving' => Reserved')
    BY <1>1, <1>2, <2>1, ScanKeeps DEF At
  <2>3. UnderWay'
    <3>1. request'.row = row /\ request'.pc = "store" /\ request'.lo = request.lo
          /\ request'.hi = request.hi
      BY <2>1 DEF Moves
    <3>2. Within(request.row)' <=> Within(row)
      BY <3>1 DEF Within
    <3>3. Whole /\ Within(row)
      BY <1>7 DEF Storable, Within
    <3> QED BY <1>1, <1>6, <2>2, <3>1, <3>2, <3>3 DEF UnderWay, Right
  <2>4. QuietSoFar'
    BY <1>1, <1>2, <1>5, <2>1, <2>2, MoveStep DEF Counted
  <2> QED BY <1>5, <2>2, <2>3, <2>4 DEF Good
<1>8. CASE ~Storable(row)
  <2>1. NextDay(out)
    BY <1>3, <1>8
  <2>2. quiet => DayOver(out)
    <3> SUFFICES ASSUME quiet PROVE DayOver(out)
      OBVIOUS
    <3>1. DOMAIN out = DOMAIN request.out \cup {request.day} /\ out[request.day] = row
          /\ \A d \in DOMAIN request.out : d # request.day => out[d] = request.out[d]
      BY DEF With
    <3>2. ASSUME Whole PROVE Right(frames, analysis, cut, row, Key) /\ ~InOrder
      <4>1. Right(frames, analysis, cut, row, Key)
        BY <1>6, <3>2
      <4>2. row.since \in OfDay(frames, Key) /\ row.until \in OfDay(frames, Key)
        <5>1. writes \in Nat /\ Table(frames, writes)
          BY <1>2, BoundsAssumption DEF TypeOK, Table
        <5> QED BY <4>1, <5>1, SpanOfRow DEF Right
      <4>3. ASSUME InOrder PROVE FALSE
        <5>1. request.lo <= row.since /\ row.until <= request.hi
          BY <1>2, <3>2, <4>2, <4>3 DEF IInv, QuietSoFar, SpanCovers, At, Counted
        <5> QED BY <1>8, <3>2, <5>1 DEF Storable
      <4> QED BY <4>1, <4>3
    <3>3. request.day \in Int /\ \A d \in DOMAIN request.out : d \in Int
      BY <1>2 DEF RequestOK
    <3> QED BY <3>1, <3>2, <3>3 DEF DayOver
  <2>3. SpanHeld' /\ UnderWay' /\ QuietSoFar'
    BY <1>1, <1>2, <1>5, <2>1, <2>2, NextDayStep
  <2> QED BY <1>5, <2>3 DEF Good
<1> QED BY <1>7, <1>8

LEMMA StoreStep ==
    ASSUME IInv, Store
    PROVE  Good'
<1> PICK row : row = request.row
  OBVIOUS
<1>1. UNCHANGED <<frames, analysis, cut, quiet, reads>>
  BY DEF Store, store
<1>2. /\ At("store") /\ ~At("idle") /\ ~At("returned") /\ TypeOK /\ RequestOK /\ IsDayRow(row)
      /\ NextDay(request.out) /\ Whole /\ Within(row)
  BY DEF Store, At, IInv, TypeOK, RequestOK, Counted, UnderWay
<1>3. calendar_days' = IF Reserved THEN [calendar_days EXCEPT ![Key] = Finished(row)]
                                   ELSE calendar_days
  BY DEF Store
<1>4. quiet \/ Reserved => Right(frames, analysis, cut, row, Key)
  BY <1>2 DEF IInv, UnderWay, At, Counted, Right
<1> PICK m : m = Finished(row)
  OBVIOUS
<1>5. /\ m.since = row.since /\ m.until = row.until /\ m.frames = row.frames
      /\ m.events = row.events /\ m.analyzed = row.analyzed /\ m.pending = FALSE
  BY DEF Finished
<1>6. /\ DOMAIN calendar_days' = DOMAIN calendar_days
      /\ \A k \in DOMAIN calendar_days : k # Key \/ ~Reserved => calendar_days'[k] = calendar_days[k]
      /\ Reserved => Key \in DOMAIN calendar_days /\ calendar_days'[Key] = m
  BY <1>3 DEF Reserved
<1>7. DaysRight'
  <2> SUFFICES ASSUME NEW k \in Days'
               PROVE  Right(frames', analysis', cut', calendar_days'[k], k)
    BY DEF DaysRight
  <2>1. k \in DOMAIN calendar_days
    BY <1>6 DEF Days
  <2>2. CASE k = Key /\ Reserved
    <3>1. Right(frames, analysis, cut, m, Key)
      BY <1>4, <1>5, <2>2 DEF Right, CountsFrames, CountsVisits, CountsVerdicts
    <3> QED BY <1>1, <1>6, <2>2, <3>1
  <2>3. CASE k # Key \/ ~Reserved
    <3> PICK r : r = calendar_days[k]
      OBVIOUS
    <3>1. calendar_days'[k] = r /\ k \in Days
      BY <1>6, <2>1, <2>3 DEF Days
    <3>2. Right(frames, analysis, cut, r, k)
      BY <3>1 DEF IInv, DaysRight
    <3> QED BY <1>1, <3>1, <3>2
  <2> QED BY <2>2, <2>3
<1>8. \A k \in Days : k # Key => k \in Days'
  BY <1>6 DEF Days
<1>9. Reserved => Key \in Days'
  <2> PICK k : k = Key
    OBVIOUS
  <2>1. Reserved => k \in DOMAIN calendar_days' /\ ~calendar_days'[k].pending
    BY <1>5, <1>6
  <2> QED BY <2>1 DEF Days
<1>10. quiet => DayOver(request.out)
  <2> SUFFICES ASSUME quiet PROVE DayOver(request.out)
    OBVIOUS
  <2>1. request.day \in DOMAIN request.out /\ request.out[request.day] = row
    BY <1>2 DEF IInv, QuietSoFar, OutSoFar
  <2>2. Reserved
    BY <1>2 DEF IInv, QuietSoFar, Reserving, At, Counted
  <2> QED BY <1>4, <1>9, <2>1, <2>2 DEF DayOver
<1>11. SpanHeld' /\ UnderWay' /\ QuietSoFar'
  BY <1>1, <1>2, <1>8, <1>10, NextDayStep
<1> QED BY <1>7, <1>11 DEF Good

LEMMA EndStep ==
    ASSUME IInv, Return \/ Abandon
    PROVE  Good'
<1>1. UNCHANGED <<frames, analysis, cut, calendar_days>> /\ request' = Idle
  BY DEF Return, Abandon, store
<1>2. request'.pc = "idle"
  BY <1>1 DEF Idle
<1>3. DaysRight'
  <2>1. Days' = Days
    BY <1>1 DEF Days
  <2> QED BY <1>1, <2>1, DaysKept DEF IInv
<1> QED BY <1>2, <1>3, NoSpanHere DEF Good, QuietSoFar, At, Counted

LEMMA InvariantStep == IInv /\ [Next]_vars => IInv'
<1> SUFFICES ASSUME IInv, [Next]_vars PROVE IInv'
  OBVIOUS
<1>1. CASE Writes
  BY <1>1, WriteStep
<1>2. CASE Reads
  <2>1. TypeOK'
    BY <1>2, ReadTyped DEF IInv
  <2>2. Good'
    BY <1>2, StartStep, ReadDayStep, SeekFirstStep, SeekAfterStep, ReserveStep, CountStep,
       EventsStep, CoverageStep, StoreStep, EndStep DEF Reads
  <2> QED BY <2>1, <2>2 DEF IInv, Good
<1>3. CASE UNCHANGED vars
  <2>1. UNCHANGED <<frames, analysis, calendar_days, request, reads, writes, quiet, cut>>
    BY <1>3 DEF vars
  <2>2. TypeOK' /\ DaysRight'
    <3>1. TypeOK'
      BY TypeStep DEF IInv
    <3>2. Days' = Days
      BY <2>1 DEF Days
    <3> QED BY <2>1, <3>1, <3>2, DaysKept DEF IInv
  <2>3. Key' = Key /\ (Whole' <=> Whole) /\ (Reserved' <=> Reserved) /\ (Reserving' <=> Reserving)
    <3>1. Key' = Key /\ (Whole' <=> Whole)
      BY <2>1, SameDay
    <3> QED BY <2>1, <3>1 DEF Reserved, Reserving
  <2>4. SpanHeld'
    BY <2>1, <2>3 DEF IInv, SpanHeld
  <2>5. UnderWay'
    BY <2>1, <2>3 DEF IInv, UnderWay, Within, At
  <2>6. QuietSoFar'
    <3> SUFFICES ASSUME quiet, ~At("idle")
                 PROVE  PastDone' /\ OutSoFar' /\ SpanCovers' /\ (Reserving' => Reserved')
      BY <2>1 DEF QuietSoFar, At
    <3>1. PastDone /\ OutSoFar /\ SpanCovers /\ (Reserving => Reserved)
      BY DEF IInv, QuietSoFar
    <3>2. OutSoFar' /\ SpanCovers'
      BY <2>1, <2>3, <3>1 DEF OutSoFar, SpanCovers, At, InOrder, Ids
    <3>3. PastDone'
      <4>1. FirstDay' = FirstDay /\ LastDay' = LastDay
        BY <2>1, SameDay
      <4>2. ASSUME NEW d, Done(d) PROVE Done(d)'
        BY <2>1, <4>2, DoneKept DEF Days
      <4> QED BY <2>1, <3>1, <4>1, <4>2 DEF PastDone, At
    <3> QED BY <2>3, <3>1, <3>2, <3>3
  <2> QED BY <2>2, <2>4, <2>5, <2>6 DEF IInv
<1> QED BY <1>1, <1>2, <1>3 DEF Next

LEMMA InvariantHolds == Spec => []IInv
BY InvariantInit, InvariantStep, PTL DEF Spec

-----------------------------------------------------------------------------
(* The store's frames and verdicts, the memo and the request keep their     *)
(* types, and the store holds no more frames than it may.                   *)
THEOREM TypeCorrect == Spec => []TypeOK
<1>1. IInv => TypeOK
  BY DEF IInv
<1> QED BY <1>1, InvariantHolds, PTL

(* tuning_calendar and its invalidation: a day that is memoized tells what  *)
(* the store says of it now, whatever was written between the statements    *)
(* that counted it and since.                                               *)
THEOREM MemoStaysExact == Spec => []MemoExact
<1>1. IInv => MemoExact
  BY InvariantGives
<1> QED BY <1>1, InvariantHolds, PTL

(* tuning_calendar: a request that nothing was written during is exact for  *)
(* every whole day, leaves out only empty ones, and, with the ids in the    *)
(* order of time, leaves all of them memoized.                              *)
THEOREM QuietRequestsAreExact == Spec => []QuietRequest
<1>1. IInv => QuietRequest
  BY InvariantGives
<1> QED BY <1>1, InvariantHolds, PTL

(* Each visit is counted on one day: the memoized days of a time zone add   *)
(* up to the visits of the store, as long as none was cut.                  *)
THEOREM DaysCoverVisits == Spec => []VisitsAddUp
BY DaysAddUp, InvariantHolds, PTL
==============================================================================
