-------------------------- MODULE FrameStore_proofs --------------------------
(***************************************************************************)
(* Why the frame store keeps its books and its promises, for every number  *)
(* of frames, every size, cap and batch, every stage and every combination *)
(* of clients and faults.                                                  *)
(*                                                                         *)
(* The sums first: Bytes folds over a set in an order CHOOSE picks, and is *)
(* shown to be the sum that any other order gives.  Then one invariant,    *)
(* conjunct by conjunct: ids and arrival order agree (Ordered), what each  *)
(* phase of an operation has in hand (Phases), the counters and the        *)
(* frontier (Counted, Marked), the cap (Capped), verdicts and files        *)
(* (Attached), the victims (Foremost), and what the open transaction has   *)
(* done to the committed index (Underway), from which each commit is one   *)
(* step of FrameIndex.                                                     *)
(***************************************************************************)
EXTENDS FrameStore, WellFoundedInduction, FiniteSetTheorems, TLAPS

(* A nonempty set of naturals has a least element, and a greatest one if it *)
(* is bounded.                                                              *)
LEMMA LeastNatural ==
    ASSUME NEW S, S \subseteq Nat, S # {}
    PROVE  \E m \in S : \A y \in S : m <= y
<1>1. PICK m \in S : \A y \in S : <<y, m>> \notin OpToRel(<, Nat)
  BY NatLessThanWellFounded, WFMin
<1>2. \A y \in S : y \in Nat /\ m \in Nat /\ ~(y < m)
  BY <1>1 DEF OpToRel
<1> QED BY <1>2

LEMMA MinFacts ==
    ASSUME NEW S, S \subseteq Nat, S # {}
    PROVE  Min(S) \in S /\ \A y \in S : Min(S) <= y
BY LeastNatural DEF Min

LEMMA MaxFacts ==
    ASSUME NEW n \in Nat, NEW S, S \subseteq 0..n, S # {}
    PROVE  Max(S) \in S /\ \A y \in S : y <= Max(S)
<1> DEFINE T == {n - y : y \in S}
<1>1. T \subseteq Nat
  BY \A y \in S : n - y \in Nat
<1>2. T # {}
  OBVIOUS
<1>3. PICK m \in T : \A z \in T : m <= z
  <2> HIDE DEF T
  <2> QED BY <1>1, <1>2, LeastNatural
<1>4. PICK x \in S : \A y \in S : n - x <= n - y
  BY <1>3
<1>5. Max(S) \in S /\ \A y \in S : Max(S) >= y
  <2>1. \A y \in S : x >= y
    BY <1>4
  <2> QED BY <2>1 DEF Max
<1> QED BY <1>5

(* The last id of a set of frames numbered from 1.                          *)
LastOf(S) == IF S = {} THEN 0 ELSE Max(S)

LEMMA LastFacts ==
    ASSUME NEW n \in Nat
    PROVE  \A S \in SUBSET (1..n) : /\ LastOf(S) \in 0..n
                                    /\ \A i \in S : i <= LastOf(S)
                                    /\ S # {} => LastOf(S) \in S
<1>1. ASSUME NEW S \in SUBSET (1..n), S # {} PROVE Max(S) \in S /\ \A i \in S : i <= Max(S)
  <2>1. S \subseteq 0..n
    OBVIOUS
  <2> QED BY <1>1, <2>1, MaxFacts
<1>2. \A S \in SUBSET (1..n) : S # {} => LastOf(S) \in 1..n
  BY <1>1 DEF LastOf
<1> QED BY <1>1, <1>2 DEF LastOf

LEMMA Bounds ==
    /\ MaxShots \in Nat /\ MaxBytes \in Nat /\ BatchSize \in Nat /\ BatchSize > 0
    /\ Sizes \subseteq Nat
BY MaxShotsAssumption, MaxBytesAssumption, BatchSizeAssumption, SizesAssumption

-----------------------------------------------------------------------------
(* A fold in the order CHOOSE picks: one step of it, and a function that    *)
(* takes it everywhere.                                                     *)
Fold(w, g, s) == IF s = {} THEN 0
                 ELSE LET x == CHOOSE x \in s : TRUE IN w[x] + g[s \ {x}]

Folds(w, g, D) == g \in [SUBSET D -> Nat] /\ \A s \in SUBSET D : g[s] = Fold(w, g, s)

LEMMA SmallerSet ==
    ASSUME NEW D, IsFiniteSet(D), NEW s \in SUBSET D
    PROVE  /\ Cardinality(s) \in Nat /\ (s = {} <=> Cardinality(s) = 0)
           /\ \A x \in s : s \ {x} \in SUBSET D /\ Cardinality(s \ {x}) = Cardinality(s) - 1
<1>1. IsFiniteSet(s)
  BY FS_Subset
<1> QED BY <1>1, FS_CardinalityType, FS_EmptySet, FS_RemoveElement

(* By the least size of set for which there is none.                        *)
LEMMA FoldExists ==
    ASSUME NEW D, IsFiniteSet(D), NEW w \in [D -> Nat]
    PROVE  \E g : Folds(w, g, D)
<1> DEFINE Upto(n, g) == /\ g \in [SUBSET D -> Nat]
                         /\ \A s \in SUBSET D : Cardinality(s) <= n => g[s] = Fold(w, g, s)
           Missing == {n \in Nat : \A g \in [SUBSET D -> Nat] : ~Upto(n, g)}
<1>0. \A s \in SUBSET D : s # {} => (CHOOSE x \in s : TRUE) \in s
  OBVIOUS
<1>1. Missing = {}
  <2> SUFFICES ASSUME Missing # {} PROVE FALSE
    OBVIOUS
  <2>1. PICK n \in Missing : \A m \in Missing : n <= m
    <3>1. Missing \subseteq Nat
      OBVIOUS
    <3> QED BY <3>1, LeastNatural
  <2>2. n # 0
    <3>1. Upto(0, [s \in SUBSET D |-> 0])
      <4> SUFFICES ASSUME NEW s \in SUBSET D, Cardinality(s) <= 0
                   PROVE  Fold(w, [t \in SUBSET D |-> 0], s) = 0
        OBVIOUS
      <4>1. s = {}
        BY SmallerSet
      <4> QED BY <4>1 DEF Fold
    <3>2. [s \in SUBSET D |-> 0] \in [SUBSET D -> Nat]
      OBVIOUS
    <3> QED BY <2>1, <3>1, <3>2
  <2>3. n - 1 \in Nat /\ n - 1 \notin Missing /\ n \in Nat
    <3>1. n \in Nat
      OBVIOUS
    <3>2. n - 1 \in Nat /\ ~(n <= n - 1)
      BY <2>2, <3>1
    <3> HIDE DEF Missing
    <3> QED BY <2>1, <3>1, <3>2
  <2>4. PICK g \in [SUBSET D -> Nat] : Upto(n - 1, g)
    BY <2>3
  <2> DEFINE h == [s \in SUBSET D |-> IF Cardinality(s) <= n - 1 THEN g[s] ELSE Fold(w, g, s)]
  <2>5. \A s \in SUBSET D : Fold(w, g, s) \in Nat
    <3> SUFFICES ASSUME NEW s \in SUBSET D PROVE Fold(w, g, s) \in Nat
      OBVIOUS
    <3>1. s # {} => LET x == CHOOSE x \in s : TRUE IN w[x] \in Nat /\ g[s \ {x}] \in Nat
      BY <1>0
    <3> QED BY <3>1 DEF Fold
  <2>6. h \in [SUBSET D -> Nat]
    BY <2>5
  <2>7. ASSUME NEW s \in SUBSET D, Cardinality(s) <= n PROVE Fold(w, h, s) = Fold(w, g, s)
    <3>1. CASE s = {}
      BY <3>1 DEF Fold
    <3>2. CASE s # {}
      <4> DEFINE x == CHOOSE x \in s : TRUE
      <4>1. x \in s
        BY <3>2
      <4> HIDE DEF x
      <4>2. s \ {x} \in SUBSET D /\ Cardinality(s \ {x}) <= n - 1
        <5>1. Cardinality(s) \in Nat /\ Cardinality(s \ {x}) = Cardinality(s) - 1
          BY <4>1, SmallerSet
        <5> QED BY <2>3, <2>7, <5>1
      <4>3. h[s \ {x}] = g[s \ {x}]
        BY <4>2
      <4> HIDE DEF h
      <4> QED BY <3>2, <4>3 DEF Fold, x
    <3> QED BY <3>1, <3>2
  <2>8. Upto(n, h)
    <3> SUFFICES ASSUME NEW s \in SUBSET D, Cardinality(s) <= n PROVE h[s] = Fold(w, h, s)
      BY <2>6
    <3>1. CASE Cardinality(s) <= n - 1
      BY <2>4, <2>7, <3>1
    <3>2. CASE ~(Cardinality(s) <= n - 1)
      BY <2>7, <3>2
    <3> QED BY <3>1, <3>2
  <2> QED BY <2>1, <2>6, <2>8
<1>2. PICK g \in [SUBSET D -> Nat] : Upto(Cardinality(D), g)
  <2>1. Cardinality(D) \in Nat
    BY FS_CardinalityType
  <2> QED BY <1>1, <2>1
<1>3. \A s \in SUBSET D : Cardinality(s) <= Cardinality(D)
  BY FS_Subset
<1> QED BY <1>2, <1>3 DEF Folds

(* The order does not matter: any member may be taken first.                *)
LEMMA AnyFirst ==
    ASSUME NEW D, IsFiniteSet(D), NEW w \in [D -> Nat], NEW g, Folds(w, g, D)
    PROVE  \A s \in SUBSET D : \A x \in s : g[s] = w[x] + g[s \ {x}]
<1> DEFINE Fails(s) == \E x \in s : g[s] # w[x] + g[s \ {x}]
           Off == {n \in Nat : \E s \in SUBSET D : Cardinality(s) = n /\ Fails(s)}
<1>0. g \in [SUBSET D -> Nat]
  BY DEF Folds
<1>1. Off = {}
  <2> SUFFICES ASSUME Off # {} PROVE FALSE
    OBVIOUS
  <2>1. PICK n \in Off : \A m \in Off : n <= m
    <3>1. Off \subseteq Nat
      OBVIOUS
    <3> QED BY <3>1, LeastNatural
  <2>2. PICK s \in SUBSET D : Cardinality(s) = n /\ Fails(s)
    BY <2>1
  <2>3. PICK x \in s : g[s] # w[x] + g[s \ {x}]
    BY <2>2
  <2> DEFINE c == CHOOSE c \in s : TRUE
  <2>4. c \in s /\ g[s] = w[c] + g[s \ {c}]
    BY DEF Folds, Fold
  <2> HIDE DEF c
  <2>5. c # x
    BY <2>3, <2>4
  <2>6. ASSUME NEW y \in s, NEW z \in s \ {y} PROVE g[s \ {y}] = w[z] + g[(s \ {y}) \ {z}]
    <3>1. s \ {y} \in SUBSET D /\ Cardinality(s \ {y}) = n - 1 /\ Cardinality(s \ {y}) \in Nat
      BY <2>2, SmallerSet
    <3>2. n - 1 \notin Off
      BY <2>1
    <3> QED BY <3>1, <3>2
  <2>7. g[s \ {c}] = w[x] + g[(s \ {c}) \ {x}] /\ g[s \ {x}] = w[c] + g[(s \ {x}) \ {c}]
    BY <2>4, <2>5, <2>6
  <2>8. g[(s \ {c}) \ {x}] = g[(s \ {x}) \ {c}]
    <3>1. (s \ {c}) \ {x} = (s \ {x}) \ {c}
      OBVIOUS
    <3> QED BY <3>1
  <2>9. w[x] \in Nat /\ w[c] \in Nat /\ g[(s \ {c}) \ {x}] \in Nat
    <3>1. x \in D /\ c \in D /\ (s \ {c}) \ {x} \in SUBSET D
      BY <2>4
    <3> QED BY <1>0, <3>1
  <2> QED BY <2>3, <2>4, <2>7, <2>8, <2>9
<1> SUFFICES ASSUME NEW s \in SUBSET D, NEW x \in s PROVE g[s] = w[x] + g[s \ {x}]
  OBVIOUS
<1>2. Cardinality(s) \in Nat
  BY SmallerSet
<1> QED BY <1>1, <1>2

(* Two sums agree where their terms do.                                     *)
LEMMA SumsAgree ==
    ASSUME NEW D, IsFiniteSet(D), NEW v \in [D -> Nat], NEW g, Folds(v, g, D),
           NEW E, IsFiniteSet(E), NEW w \in [E -> Nat], NEW h, Folds(w, h, E)
    PROVE  \A s \in SUBSET (D \cap E) : (\A x \in s : v[x] = w[x]) => g[s] = h[s]
<1> DEFINE Differs(s) == (\A x \in s : v[x] = w[x]) /\ g[s] # h[s]
           Off == {n \in Nat : \E s \in SUBSET (D \cap E) : Cardinality(s) = n /\ Differs(s)}
<1>1. Off = {}
  <2> SUFFICES ASSUME Off # {} PROVE FALSE
    OBVIOUS
  <2>1. PICK n \in Off : \A m \in Off : n <= m
    <3>1. Off \subseteq Nat
      OBVIOUS
    <3> QED BY <3>1, LeastNatural
  <2>2. PICK s \in SUBSET (D \cap E) : Cardinality(s) = n /\ Differs(s)
    BY <2>1
  <2>3. s # {}
    <3> SUFFICES ASSUME s = {} PROVE FALSE
      OBVIOUS
    <3>1. g[s] = 0 /\ h[s] = 0
      BY DEF Folds, Fold
    <3> QED BY <2>2, <3>1
  <2>4. PICK x \in s : TRUE
    BY <2>3
  <2>5. s \in SUBSET D /\ s \in SUBSET E /\ s \ {x} \in SUBSET (D \cap E)
    OBVIOUS
  <2>6. g[s] = v[x] + g[s \ {x}] /\ h[s] = w[x] + h[s \ {x}]
    BY <2>4, <2>5, AnyFirst
  <2>7. Cardinality(s \ {x}) = n - 1 /\ Cardinality(s \ {x}) \in Nat
    BY <2>2, <2>4, <2>5, SmallerSet
  <2>8. n - 1 \notin Off
    BY <2>1
  <2>9. g[s \ {x}] = h[s \ {x}]
    BY <2>2, <2>5, <2>7, <2>8
  <2> QED BY <2>2, <2>4, <2>6, <2>9
<1> SUFFICES ASSUME NEW s \in SUBSET (D \cap E), \A x \in s : v[x] = w[x] PROVE g[s] = h[s]
  OBVIOUS
<1>2. Cardinality(s) \in Nat
  BY SmallerSet
<1> QED BY <1>1, <1>2

-----------------------------------------------------------------------------
(* The rows of an index, and what Bytes makes of them.                      *)
Rows == UNION {[S -> Frame] : S \in SUBSET Ids}

LEMMA RowsFacts ==
    ASSUME NEW r
    PROVE  /\ r \in Rows => /\ r \in [DOMAIN r -> Frame] /\ DOMAIN r \subseteq Ids
                            /\ IsFiniteSet(DOMAIN r)
           /\ \A S \in SUBSET Ids : r \in [S -> Frame] => r \in Rows
<1>1. IsFiniteSet(Ids)
  BY Bounds, FS_Interval DEF Ids
<1>2. ASSUME r \in Rows
      PROVE  r \in [DOMAIN r -> Frame] /\ DOMAIN r \subseteq Ids
  <2>1. PICK S \in SUBSET Ids : r \in [S -> Frame]
    BY <1>2 DEF Rows
  <2> QED BY <2>1
<1>3. \A S \in SUBSET Ids : r \in [S -> Frame] => r \in Rows
  BY DEF Rows
<1> QED BY <1>1, <1>2, <1>3, FS_Subset

SizeOf(r) == [i \in DOMAIN r |-> r[i].bytes]

LEMMA FrameSize == \A r \in Rows : SizeOf(r) \in [DOMAIN r -> Nat]
<1> SUFFICES ASSUME NEW r \in Rows, NEW i \in DOMAIN r PROVE r[i].bytes \in Nat
  BY DEF SizeOf
<1>1. r[i] \in Frame
  BY RowsFacts
<1> QED BY <1>1, Bounds DEF Frame

LEMMA BytesIsFold ==
    ASSUME NEW r \in Rows
    PROVE  \E g : Folds(SizeOf(r), g, DOMAIN r) /\ Bytes(r) = g[DOMAIN r]
<1> DEFINE D == DOMAIN r
           w == SizeOf(r)
           Iter(g) == g = [s \in SUBSET D |->
                             IF s = {} THEN 0
                             ELSE LET x == CHOOSE x \in s : TRUE IN r[x].bytes + g[s \ {x}]]
           it == CHOOSE g : Iter(g)
<1>1. IsFiniteSet(D) /\ w \in [D -> Nat]
  BY RowsFacts, FrameSize
<1>2. \A s \in SUBSET D : s # {} => (CHOOSE x \in s : TRUE) \in D
  OBVIOUS
<1>3. \A i \in D : w[i] = r[i].bytes
  BY DEF SizeOf
<1>4. ASSUME NEW g, Folds(w, g, D) PROVE Iter(g)
  <2>1. g = [s \in SUBSET D |-> g[s]]
    BY <1>4 DEF Folds
  <2>2. ASSUME NEW s \in SUBSET D
        PROVE  g[s] = IF s = {} THEN 0
                      ELSE LET x == CHOOSE x \in s : TRUE IN r[x].bytes + g[s \ {x}]
    BY <1>2, <1>3, <1>4 DEF Folds, Fold
  <2> QED BY <2>1, <2>2
<1>5. PICK f : Folds(w, f, D)
  BY <1>1, FoldExists
<1>6. Iter(it)
  <2>1. Iter(f)
    BY <1>4, <1>5
  <2> HIDE DEF Iter
  <2> QED BY <2>1
<1>7. Bytes(r) = it[D]
  BY DEF Bytes, MapThenSumSet, MapThenFoldSet
<1> HIDE DEF it
<1>8. \A s \in SUBSET D : it[s] = IF s = {} THEN 0
                                  ELSE LET x == CHOOSE x \in s : TRUE IN r[x].bytes + it[s \ {x}]
  BY <1>6
<1>9. \A s \in SUBSET D : it[s] = f[s]
  <2> DEFINE Off == {n \in Nat : \E s \in SUBSET D : Cardinality(s) = n /\ it[s] # f[s]}
  <2>1. Off = {}
    <3> SUFFICES ASSUME Off # {} PROVE FALSE
      OBVIOUS
    <3>1. PICK n \in Off : \A m \in Off : n <= m
      <4>1. Off \subseteq Nat
        OBVIOUS
      <4> QED BY <4>1, LeastNatural
    <3>2. PICK s \in SUBSET D : Cardinality(s) = n /\ it[s] # f[s]
      BY <3>1
    <3>3. s # {}
      BY <1>5, <1>8, <3>2 DEF Folds, Fold
    <3> DEFINE x == CHOOSE x \in s : TRUE
    <3>4. x \in s
      BY <3>3
    <3>5. it[s] = r[x].bytes + it[s \ {x}] /\ f[s] = w[x] + f[s \ {x}]
      BY <1>5, <1>8, <3>3 DEF Folds, Fold
    <3> HIDE DEF x
    <3>6. s \ {x} \in SUBSET D /\ Cardinality(s \ {x}) = n - 1 /\ Cardinality(s \ {x}) \in Nat
      BY <1>1, <3>2, <3>4, SmallerSet
    <3>7. n - 1 \notin Off
      BY <3>1
    <3>8. it[s \ {x}] = f[s \ {x}]
      BY <3>6, <3>7
    <3>9. r[x].bytes = w[x]
      BY <1>3, <3>4
    <3> QED BY <3>2, <3>5, <3>8, <3>9
  <2> SUFFICES ASSUME NEW s \in SUBSET D PROVE it[s] = f[s]
    OBVIOUS
  <2>2. Cardinality(s) \in Nat
    BY <1>1, SmallerSet
  <2> QED BY <2>1, <2>2
<1>10. it[D] = f[D]
  BY <1>9
<1> QED BY <1>5, <1>7, <1>10

LEMMA BytesFacts ==
    ASSUME NEW r \in Rows
    PROVE  /\ Bytes(r) \in Nat
           /\ DOMAIN r = {} => Bytes(r) = 0
           /\ \A i \in DOMAIN r : /\ Without(r, {i}) \in Rows
                                  /\ Bytes(r) = r[i].bytes + Bytes(Without(r, {i}))
<1> DEFINE D == DOMAIN r
<1>1. IsFiniteSet(D) /\ D \subseteq Ids /\ r \in [D -> Frame] /\ SizeOf(r) \in [D -> Nat]
  BY RowsFacts, FrameSize
<1>2. PICK g : Folds(SizeOf(r), g, D) /\ Bytes(r) = g[D]
  BY BytesIsFold
<1>3. Bytes(r) \in Nat /\ (D = {} => Bytes(r) = 0)
  BY <1>2 DEF Folds, Fold
<1>4. ASSUME NEW i \in D
      PROVE  /\ Without(r, {i}) \in Rows
             /\ Bytes(r) = r[i].bytes + Bytes(Without(r, {i}))
  <2> DEFINE q == Without(r, {i})
  <2>1. DOMAIN q = D \ {i} /\ q \in [D \ {i} -> Frame] /\ \A k \in D \ {i} : q[k] = r[k]
    BY <1>1 DEF Without
  <2> HIDE DEF q
  <2>2. q \in Rows /\ D \ {i} \in SUBSET Ids
    BY <1>1, <2>1, RowsFacts
  <2>3. IsFiniteSet(DOMAIN q) /\ SizeOf(q) \in [DOMAIN q -> Nat]
    BY <2>2, RowsFacts, FrameSize
  <2>4. PICK h : Folds(SizeOf(q), h, DOMAIN q) /\ Bytes(q) = h[DOMAIN q]
    BY <2>2, BytesIsFold
  <2>5. \A k \in D \ {i} : SizeOf(q)[k] = SizeOf(r)[k]
    BY <2>1 DEF SizeOf
  <2>6. DOMAIN q \in SUBSET (D \cap DOMAIN q)
    BY <2>1
  <2>7. g[DOMAIN q] = h[DOMAIN q]
    BY <1>1, <1>2, <2>1, <2>3, <2>4, <2>5, <2>6, SumsAgree
  <2>8. g[D] = SizeOf(r)[i] + g[D \ {i}] /\ SizeOf(r)[i] = r[i].bytes
    <3>1. D \in SUBSET D
      OBVIOUS
    <3> QED BY <1>1, <1>2, <3>1, AnyFirst DEF SizeOf
  <2> QED BY <1>2, <2>1, <2>2, <2>4, <2>7, <2>8 DEF q
<1> QED BY <1>3, <1>4

(* A part of the rows weighs no more than the whole.                        *)
LEMMA PartWeighsLess ==
    ASSUME NEW r \in Rows, NEW q \in Rows, DOMAIN q \subseteq DOMAIN r,
           \A i \in DOMAIN q : q[i] = r[i]
    PROVE  Bytes(q) <= Bytes(r)
<1> DEFINE Part(S) == [i \in S |-> r[i]]
           Heavy == {n \in Nat : \E S \in SUBSET DOMAIN r :
                        DOMAIN q \subseteq S /\ Cardinality(S) = n /\ ~(Bytes(q) <= Bytes(Part(S)))}
<1>1. IsFiniteSet(DOMAIN r) /\ DOMAIN r \subseteq Ids /\ r \in [DOMAIN r -> Frame]
  BY RowsFacts
<1>2. \A S \in SUBSET DOMAIN r : Part(S) \in Rows /\ DOMAIN Part(S) = S
  <2> SUFFICES ASSUME NEW S \in SUBSET DOMAIN r PROVE Part(S) \in Rows
    OBVIOUS
  <2>1. Part(S) \in [S -> Frame] /\ S \in SUBSET Ids
    BY <1>1
  <2> QED BY <2>1, RowsFacts
<1>3. \A S \in SUBSET DOMAIN r : Bytes(Part(S)) \in Nat
  BY <1>2, BytesFacts
<1>4. Bytes(q) \in Nat
  BY BytesFacts
<1>5. q = Part(DOMAIN q)
  <2>1. q \in [DOMAIN q -> Frame]
    BY RowsFacts
  <2> QED BY <2>1
<1>6. Heavy = {}
  <2> SUFFICES ASSUME Heavy # {} PROVE FALSE
    OBVIOUS
  <2>1. PICK n \in Heavy : \A m \in Heavy : n <= m
    <3>1. Heavy \subseteq Nat
      OBVIOUS
    <3> QED BY <3>1, LeastNatural
  <2>2. PICK S \in SUBSET DOMAIN r :
            DOMAIN q \subseteq S /\ Cardinality(S) = n /\ ~(Bytes(q) <= Bytes(Part(S)))
    BY <2>1
  <2>3. S # DOMAIN q
    BY <1>4, <1>5, <2>2
  <2>4. PICK i \in S : i \notin DOMAIN q
    BY <2>2, <2>3
  <2> DEFINE T == S \ {i}
  <2>5. T \in SUBSET DOMAIN r /\ DOMAIN q \subseteq T
    BY <2>2, <2>4
  <2>6. Cardinality(T) = n - 1 /\ Cardinality(T) \in Nat
    BY <1>1, <2>2, <2>4, <2>5, SmallerSet
  <2>7. n - 1 \notin Heavy
    BY <2>1
  <2>8. Bytes(q) <= Bytes(Part(T))
    BY <2>5, <2>6, <2>7
  <2>9. Without(Part(S), {i}) = Part(T)
    BY <1>2, <2>4 DEF Without
  <2>10. Bytes(Part(S)) = Part(S)[i].bytes + Bytes(Without(Part(S), {i}))
    BY <1>2, <2>4, BytesFacts
  <2>11. Part(S)[i].bytes \in Nat
    <3>1. Part(S)[i] \in Frame
      BY <1>1, <2>4
    <3> QED BY <3>1, Bounds DEF Frame
  <2>12. Bytes(Part(S)) \in Nat /\ Bytes(Part(T)) \in Nat
    BY <1>3, <2>5
  <2> QED BY <1>4, <2>2, <2>8, <2>9, <2>10, <2>11, <2>12
<1>7. r = Part(DOMAIN r)
  BY <1>1
<1>8. Cardinality(DOMAIN r) \in Nat
  BY <1>1, FS_CardinalityType
<1> QED BY <1>6, <1>7, <1>8

-----------------------------------------------------------------------------
(* The invariant.  Ids and arrivals are in one order, and what has arrived  *)
(* has been counted.                                                        *)
InOrder(rows) ==
    /\ \A i \in DOMAIN rows : i <= rows[i].shot /\ rows[i].shot <= shots
    /\ \A i, k \in DOMAIN rows : i < k => rows[i].shot < rows[k].shot

Ordered == InOrder(work.rows) /\ InOrder(db.rows) /\ InOrder(durable.rows)

Shapes ==
    /\ work \in Base /\ db \in Base /\ durable \in Base
    /\ files \in SUBSET Shots
    /\ frontier \in 0..MaxShots
    /\ phase \in {"idle", "written", "evicting", "marked", "purging", "clearing", "down"}
    /\ incoming \in Frame \cup {NoFrame}
    /\ shots \in 0..MaxShots
    /\ tickets \in SUBSET Ticket
    /\ candidates \in SUBSET Shots

Phases ==
    /\ phase \in {"idle", "written", "clearing", "down"} => work = db
    /\ IF phase \in {"written", "evicting", "marked"}
       THEN incoming \in Frame /\ incoming.shot = shots
       ELSE incoming = NoFrame
    /\ phase \in {"idle", "written", "marked", "down"} => doomed = {}
    /\ doomed \subseteq DOMAIN work.rows
    /\ phase = "written" => \A i \in DOMAIN work.rows : work.rows[i].shot < shots
    /\ phase = "purging" => \A i \in doomed : ~work.rows[i].motion

Counted == total \in Nat /\ count \in Nat /\ motionCount \in Nat /\ CountersExact

Marked ==
    /\ db.frontier = LastOf(db.stripped) /\ durable.frontier = LastOf(durable.stripped)
    /\ phase \in {"idle", "written", "evicting", "purging", "clearing"} =>
          frontier = db.frontier /\ work.frontier = db.frontier
    /\ phase = "purging" => work.stripped = db.stripped
    /\ phase = "evicting" => db.stripped \subseteq work.stripped
    /\ phase = "marked" => frontier = work.frontier /\ work.frontier = LastOf(work.stripped)

Capped ==
    /\ Bytes(db.rows) <= MaxBytes /\ Bytes(durable.rows) <= MaxBytes
    /\ phase = "evicting" => Bytes(Without(work.rows, doomed)) <= MaxBytes
    /\ phase \in {"marked", "purging"} => Bytes(work.rows) <= MaxBytes

VerdictsHeld(d) == \A v \in d.verdicts : v.id \in DOMAIN d.rows

Attached ==
    /\ VerdictsHeld(work) /\ VerdictsHeld(db) /\ VerdictsHeld(durable)
    /\ world.faults \subseteq {"write"} =>
          files = IF phase = "clearing" THEN {work.rows[i].shot : i \in doomed}
                  ELSE IF phase = "written" THEN FilesOf(work.rows) \cup {incoming.shot}
                  ELSE FilesOf(work.rows)

Foremost ==
    phase = "evicting" =>
        \A i \in doomed, k \in DOMAIN work.rows :
            Before(work.rows, work.stage, k, i) => k \in doomed

AddsTo(id) ==
    /\ id \in Ids \ DOMAIN db.rows
    /\ DOMAIN work.rows \subseteq DOMAIN db.rows \cup {id}
    /\ \A i \in DOMAIN work.rows : work.rows[i] = IF i = id THEN incoming ELSE db.rows[i]

Underway ==
    /\ phase \in {"evicting", "marked"} => \E id \in Ids : AddsTo(id)
    /\ phase = "purging" =>
          /\ DOMAIN work.rows \subseteq DOMAIN db.rows
          /\ \A i \in DOMAIN work.rows : work.rows[i] = db.rows[i]
          /\ \A i \in DOMAIN db.rows \ DOMAIN work.rows : ~db.rows[i].motion

IInv == Shapes /\ Ordered /\ Phases /\ Counted /\ Marked /\ Capped /\ Attached /\ Foremost /\ Underway

-----------------------------------------------------------------------------
(* What is true of sets of ids and of the fields of a database.             *)
LEMMA IdFacts ==
    /\ IsFiniteSet(Ids) /\ Ids \subseteq Nat /\ Ids \subseteq 0..MaxShots /\ Ids = Shots
    /\ \A S \in SUBSET Ids : IsFiniteSet(S) /\ Cardinality(S) \in Nat
<1>1. IsFiniteSet(Ids) /\ Ids \subseteq Nat /\ Ids \subseteq 0..MaxShots /\ Ids = Shots
  BY Bounds, FS_Interval DEF Ids, Shots
<1> QED BY <1>1, FS_Subset, FS_CardinalityType

LEMMA ExtremeIds ==
    ASSUME NEW S, S \subseteq Ids, S # {}
    PROVE  /\ Max(S) \in S /\ Min(S) \in S
           /\ \A i \in S : i \in Nat /\ Min(S) <= i /\ i <= Max(S)
<1>1. S \subseteq Nat /\ S \subseteq 0..MaxShots /\ MaxShots \in Nat
  BY IdFacts, Bounds
<1> QED BY <1>1, MaxFacts, MinFacts

LEMMA FrameFacts ==
    \A f \in Frame : /\ f.shot \in Nat /\ f.shot \in Shots /\ f.bytes \in Nat /\ f.motion \in BOOLEAN
                     /\ f # NoFrame
<1> SUFFICES ASSUME NEW f \in Frame
             PROVE  /\ f.shot \in Nat /\ f.shot \in Shots /\ f.bytes \in Nat /\ f.motion \in BOOLEAN
                    /\ f # NoFrame
  OBVIOUS
<1>1. f.shot \in Shots /\ f.bytes \in Nat /\ f.motion \in BOOLEAN
  BY Bounds DEF Frame
<1>2. f.shot \in Nat /\ f.shot # 0
  BY <1>1, Bounds DEF Shots
<1> QED BY <1>1, <1>2 DEF NoFrame

LEMMA BaseFacts ==
    \A d \in Base : /\ d.rows \in Rows /\ d.verdicts \in SUBSET Ticket
                    /\ d.frontier \in 0..MaxShots /\ d.frontier \in Nat
                    /\ d.stage \in Stages /\ d.stripped \in SUBSET Ids
                    /\ DOMAIN d.rows \subseteq Ids /\ d.rows \in [DOMAIN d.rows -> Frame]
<1> SUFFICES ASSUME NEW d \in Base
             PROVE  /\ d.rows \in Rows /\ d.verdicts \in SUBSET Ticket
                    /\ d.frontier \in 0..MaxShots /\ d.frontier \in Nat
                    /\ d.stage \in Stages /\ d.stripped \in SUBSET Ids
                    /\ DOMAIN d.rows \subseteq Ids /\ d.rows \in [DOMAIN d.rows -> Frame]
  OBVIOUS
<1>1. d.rows \in Rows
  BY DEF Base, Rows
<1>2. /\ d.verdicts \in SUBSET Ticket /\ d.frontier \in 0..MaxShots
      /\ d.stage \in Stages /\ d.stripped \in SUBSET Ids
  BY DEF Base
<1>3. d.frontier \in Nat
  BY <1>2, Bounds
<1> QED BY <1>1, <1>2, <1>3, RowsFacts

(* The fields of a database an operation has written, and its type.         *)
LEMMA BaseWritten ==
    ASSUME NEW d \in Base
    PROVE  /\ \A r \in Rows :
                 /\ [d EXCEPT !.rows = r] \in Base
                 /\ [d EXCEPT !.rows = r].rows = r
                 /\ [d EXCEPT !.rows = r].verdicts = d.verdicts
                 /\ [d EXCEPT !.rows = r].frontier = d.frontier
                 /\ [d EXCEPT !.rows = r].stage = d.stage
                 /\ [d EXCEPT !.rows = r].stripped = d.stripped
           /\ \A V \in SUBSET Ticket :
                 /\ [d EXCEPT !.verdicts = V] \in Base
                 /\ [d EXCEPT !.verdicts = V].rows = d.rows
                 /\ [d EXCEPT !.verdicts = V].verdicts = V
                 /\ [d EXCEPT !.verdicts = V].frontier = d.frontier
                 /\ [d EXCEPT !.verdicts = V].stage = d.stage
                 /\ [d EXCEPT !.verdicts = V].stripped = d.stripped
           /\ \A m \in 0..MaxShots :
                 /\ [d EXCEPT !.frontier = m] \in Base
                 /\ [d EXCEPT !.frontier = m].rows = d.rows
                 /\ [d EXCEPT !.frontier = m].verdicts = d.verdicts
                 /\ [d EXCEPT !.frontier = m].frontier = m
                 /\ [d EXCEPT !.frontier = m].stage = d.stage
                 /\ [d EXCEPT !.frontier = m].stripped = d.stripped
           /\ \A s \in Stages :
                 /\ [d EXCEPT !.stage = s] \in Base
                 /\ [d EXCEPT !.stage = s].rows = d.rows
                 /\ [d EXCEPT !.stage = s].verdicts = d.verdicts
                 /\ [d EXCEPT !.stage = s].frontier = d.frontier
                 /\ [d EXCEPT !.stage = s].stage = s
                 /\ [d EXCEPT !.stage = s].stripped = d.stripped
BY DEF Base, Rows

LEMMA FreshFacts ==
    /\ Fresh.rows = Empty /\ Fresh.verdicts = {} /\ Fresh.frontier = 0 /\ Fresh.stripped = {}
    /\ Fresh \in Base /\ DOMAIN Empty = {} /\ Empty \in Rows
    /\ Bytes(Empty) = 0 /\ MotionRows(Empty) = {} /\ FilesOf(Empty) = {} /\ Cardinality({}) = 0
<1>1. DOMAIN Empty = {} /\ Empty \in [{} -> Frame]
  BY DEF Empty
<1>2. Empty \in Rows
  <2>1. {} \in SUBSET Ids
    OBVIOUS
  <2> QED BY <1>1, <2>1, RowsFacts
<1>3. Fresh \in Base
  <2>1. 0 \in 0..MaxShots /\ "tuning" \in Stages
    BY Bounds, StagesAssumption
  <2> QED BY <1>2, <2>1 DEF Fresh, Base, Rows
<1> QED BY <1>1, <1>2, <1>3, BytesFacts, FS_EmptySet DEF Fresh, MotionRows, FilesOf

LEMMA AddedRow ==
    ASSUME NEW r \in Rows, NEW id \in Ids, id \notin DOMAIN r, NEW f \in Frame,
           NEW q, q = [i \in DOMAIN r \cup {id} |-> IF i = id THEN f ELSE r[i]]
    PROVE  /\ q \in Rows /\ DOMAIN q = DOMAIN r \cup {id}
           /\ q[id] = f /\ \A i \in DOMAIN r : q[i] = r[i]
           /\ Bytes(q) = Bytes(r) + f.bytes
           /\ Cardinality(DOMAIN q) = Cardinality(DOMAIN r) + 1
           /\ Cardinality(MotionRows(q)) = Cardinality(MotionRows(r)) + (IF f.motion THEN 1 ELSE 0)
           /\ FilesOf(q) = FilesOf(r) \cup {f.shot}
<1>1. DOMAIN r \subseteq Ids /\ r \in [DOMAIN r -> Frame]
  BY RowsFacts
<1>2. DOMAIN q = DOMAIN r \cup {id} /\ q[id] = f /\ \A i \in DOMAIN r : q[i] = r[i]
  OBVIOUS
<1>3. q \in Rows
  <2>1. q \in [DOMAIN r \cup {id} -> Frame] /\ DOMAIN r \cup {id} \in SUBSET Ids
    BY <1>1
  <2> QED BY <2>1, RowsFacts
<1>4. Bytes(q) = Bytes(r) + f.bytes
  <2>1. Without(q, {id}) = r
    <3>1. r = [i \in DOMAIN r |-> r[i]] /\ DOMAIN q \ {id} = DOMAIN r
      BY <1>1, <1>2
    <3> QED BY <1>2, <3>1 DEF Without
  <2>2. Bytes(q) = q[id].bytes + Bytes(Without(q, {id}))
    BY <1>2, <1>3, BytesFacts
  <2> QED BY <1>2, <2>1, <2>2, BytesFacts, FrameFacts
<1>5. Cardinality(DOMAIN q) = Cardinality(DOMAIN r) + 1
  BY <1>1, <1>2, IdFacts, FS_AddElement
<1>6. Cardinality(MotionRows(q)) = Cardinality(MotionRows(r)) + (IF f.motion THEN 1 ELSE 0)
  <2>1. MotionRows(r) \in SUBSET Ids /\ id \notin MotionRows(r)
    BY <1>1 DEF MotionRows
  <2>2. MotionRows(q) = IF f.motion THEN MotionRows(r) \cup {id} ELSE MotionRows(r)
    BY <1>2 DEF MotionRows
  <2>3. IsFiniteSet(MotionRows(r)) /\ Cardinality(MotionRows(r)) \in Nat
    BY <2>1, IdFacts
  <2>4. Cardinality(MotionRows(r) \cup {id}) = Cardinality(MotionRows(r)) + 1
    BY <2>1, <2>3, FS_AddElement
  <2> QED BY <2>2, <2>3, <2>4
<1>7. FilesOf(q) = FilesOf(r) \cup {f.shot}
  BY <1>2 DEF FilesOf
<1> QED BY <1>2, <1>3, <1>4, <1>5, <1>6, <1>7

LEMMA RemovedRow ==
    ASSUME NEW r \in Rows, NEW j \in DOMAIN r
    PROVE  LET q == Without(r, {j}) IN
           /\ q \in Rows /\ DOMAIN q = DOMAIN r \ {j} /\ \A i \in DOMAIN q : q[i] = r[i]
           /\ Bytes(q) = Bytes(r) - r[j].bytes /\ Bytes(q) \in Nat
           /\ Cardinality(DOMAIN q) = Cardinality(DOMAIN r) - 1 /\ Cardinality(DOMAIN q) \in Nat
           /\ Cardinality(MotionRows(q)) = Cardinality(MotionRows(r)) - (IF r[j].motion THEN 1 ELSE 0)
           /\ Cardinality(MotionRows(q)) \in Nat
           /\ r[j] \in Frame
<1> DEFINE q == Without(r, {j})
<1>1. DOMAIN r \subseteq Ids /\ r \in [DOMAIN r -> Frame]
  BY RowsFacts
<1>2. DOMAIN q = DOMAIN r \ {j} /\ \A i \in DOMAIN q : q[i] = r[i]
  BY DEF Without
<1>3. q \in Rows /\ Bytes(r) = r[j].bytes + Bytes(q) /\ Bytes(q) \in Nat /\ Bytes(r) \in Nat
  BY BytesFacts
<1>4. r[j] \in Frame /\ r[j].bytes \in Nat
  BY <1>1, FrameFacts
<1>5. Cardinality(DOMAIN q) = Cardinality(DOMAIN r) - 1 /\ Cardinality(DOMAIN q) \in Nat
  <2>1. DOMAIN q \in SUBSET Ids /\ IsFiniteSet(DOMAIN r)
    BY <1>1, <1>2, IdFacts
  <2>2. Cardinality(DOMAIN r \ {j}) = Cardinality(DOMAIN r) - 1
    BY <2>1, FS_RemoveElement
  <2>3. Cardinality(DOMAIN q) = Cardinality(DOMAIN r \ {j})
    BY <1>2
  <2> QED BY <2>1, <2>2, <2>3, IdFacts
<1>6. /\ Cardinality(MotionRows(q)) = Cardinality(MotionRows(r)) - (IF r[j].motion THEN 1 ELSE 0)
      /\ Cardinality(MotionRows(q)) \in Nat
  <2>1. MotionRows(r) \in SUBSET Ids /\ MotionRows(q) \in SUBSET Ids
    BY <1>1, <1>2 DEF MotionRows
  <2>2. MotionRows(q) = MotionRows(r) \ {j} /\ (j \in MotionRows(r) <=> r[j].motion)
    BY <1>2 DEF MotionRows
  <2>3. /\ IsFiniteSet(MotionRows(r)) /\ Cardinality(MotionRows(r)) \in Nat
        /\ Cardinality(MotionRows(q)) \in Nat
    BY <2>1, IdFacts
  <2>4. CASE r[j].motion
    <3>1. Cardinality(MotionRows(r) \ {j}) = Cardinality(MotionRows(r)) - 1
      BY <2>2, <2>3, <2>4, FS_RemoveElement
    <3>2. Cardinality(MotionRows(q)) = Cardinality(MotionRows(r) \ {j})
      BY <2>2
    <3> QED BY <2>3, <2>4, <3>1, <3>2
  <2>5. CASE ~r[j].motion
    <3>1. MotionRows(q) = MotionRows(r)
      BY <2>2, <2>5
    <3>2. Cardinality(MotionRows(q)) = Cardinality(MotionRows(r))
      BY <3>1
    <3> QED BY <2>3, <2>5, <3>2
  <2> QED BY <2>4, <2>5
<1>7. Bytes(q) = Bytes(r) - r[j].bytes
  BY <1>3, <1>4
<1> QED BY <1>2, <1>3, <1>4, <1>5, <1>6, <1>7

-----------------------------------------------------------------------------
(* The victims of an eviction.                                              *)
Part(r, S) == [i \in S |-> r[i]]

LEMMA PartFacts ==
    ASSUME NEW r \in Rows, NEW S \in SUBSET DOMAIN r
    PROVE  /\ Part(r, S) \in Rows /\ DOMAIN Part(r, S) = S /\ \A i \in S : Part(r, S)[i] = r[i]
           /\ Without(r, S) = Part(r, DOMAIN r \ S)
           /\ Without(r, S) \in Rows /\ DOMAIN Without(r, S) = DOMAIN r \ S
           /\ \A i \in DOMAIN r \ S : Without(r, S)[i] = r[i]
           /\ Bytes(Part(r, S)) \in Nat /\ Bytes(Without(r, S)) \in Nat
<1>1. \A T \in SUBSET DOMAIN r : Part(r, T) \in Rows
  <2> SUFFICES ASSUME NEW T \in SUBSET DOMAIN r PROVE Part(r, T) \in Rows
    OBVIOUS
  <2>1. Part(r, T) \in [T -> Frame] /\ T \in SUBSET Ids
    BY RowsFacts DEF Part
  <2> QED BY <2>1, RowsFacts
<1>2. Without(r, S) = Part(r, DOMAIN r \ S)
  BY DEF Without, Part
<1>3. Part(r, S) \in Rows /\ Without(r, S) \in Rows
  BY <1>1, <1>2
<1> QED BY <1>2, <1>3, BytesFacts DEF Part

(* Rows weigh what any part of them and the rest weigh together.            *)
LEMMA BytesSplit ==
    ASSUME NEW r \in Rows
    PROVE  \A S \in SUBSET DOMAIN r : Bytes(r) = Bytes(Part(r, S)) + Bytes(Without(r, S))
<1> DEFINE Splits(S) == Bytes(r) = Bytes(Part(r, S)) + Bytes(Without(r, S))
           Off == {n \in Nat : \E S \in SUBSET DOMAIN r : Cardinality(S) = n /\ ~Splits(S)}
<1>1. IsFiniteSet(DOMAIN r) /\ DOMAIN r \subseteq Ids /\ r \in [DOMAIN r -> Frame]
  BY RowsFacts
<1>2. Off = {}
  <2> SUFFICES ASSUME Off # {} PROVE FALSE
    OBVIOUS
  <2>1. PICK n \in Off : \A m \in Off : n <= m
    <3>1. Off \subseteq Nat
      OBVIOUS
    <3> QED BY <3>1, LeastNatural
  <2>2. PICK S \in SUBSET DOMAIN r : Cardinality(S) = n /\ ~Splits(S)
    BY <2>1
  <2>3. S # {}
    <3> SUFFICES ASSUME S = {} PROVE FALSE
      OBVIOUS
    <3>1. DOMAIN Part(r, S) = {} /\ Part(r, S) \in Rows
      BY PartFacts
    <3>2. Bytes(Part(r, S)) = 0
      BY <3>1, BytesFacts
    <3>3. Without(r, S) = r
      BY <1>1 DEF Without
    <3>4. Bytes(Without(r, S)) = Bytes(r) /\ Bytes(r) \in Nat
      BY <3>3, BytesFacts
    <3> QED BY <2>2, <3>2, <3>4
  <2>4. PICK x \in S : TRUE
    BY <2>3
  <2> DEFINE T == S \ {x}
  <2>5. T \in SUBSET DOMAIN r /\ Cardinality(T) = n - 1 /\ Cardinality(T) \in Nat
    BY <1>1, <2>2, <2>4, SmallerSet
  <2>6. n - 1 \notin Off
    BY <2>1
  <2>7. Splits(T)
    BY <2>5, <2>6
  <2>8. Bytes(Part(r, S)) = r[x].bytes + Bytes(Part(r, T))
    <3>1. Without(Part(r, S), {x}) = Part(r, T)
      BY DEF Without, Part
    <3>2. /\ Part(r, S) \in Rows /\ x \in DOMAIN Part(r, S) /\ Part(r, S)[x] = r[x]
      <4>1. /\ Part(r, S) \in Rows /\ DOMAIN Part(r, S) = S
            /\ \A i \in S : Part(r, S)[i] = r[i]
        BY PartFacts
      <4> QED BY <2>4, <4>1
    <3>3. Bytes(Part(r, S)) = Part(r, S)[x].bytes + Bytes(Without(Part(r, S), {x}))
      BY <3>2, BytesFacts
    <3> QED BY <3>1, <3>2, <3>3
  <2>9. Bytes(Without(r, T)) = r[x].bytes + Bytes(Without(r, S))
    <3>1. Without(Without(r, T), {x}) = Without(r, S)
      <4>1. DOMAIN Without(r, T) = DOMAIN r \ T /\ (DOMAIN r \ T) \ {x} = DOMAIN r \ S
        BY <2>4 DEF Without
      <4>2. \A i \in DOMAIN r \ S : Without(r, T)[i] = r[i]
        BY <2>4 DEF Without
      <4> QED BY <4>1, <4>2 DEF Without
    <3>2. Without(r, T) \in Rows /\ x \in DOMAIN Without(r, T) /\ Without(r, T)[x] = r[x]
      <4>1. /\ Without(r, T) \in Rows /\ DOMAIN Without(r, T) = DOMAIN r \ T
            /\ \A i \in DOMAIN r \ T : Without(r, T)[i] = r[i]
        BY <2>5, PartFacts
      <4>2. x \in DOMAIN r \ T
        BY <2>4
      <4> QED BY <4>1, <4>2
    <3>3. Bytes(Without(r, T)) = Without(r, T)[x].bytes + Bytes(Without(Without(r, T), {x}))
      BY <3>2, BytesFacts
    <3> QED BY <3>1, <3>2, <3>3
  <2>10. /\ Bytes(Part(r, T)) \in Nat /\ Bytes(Without(r, S)) \in Nat /\ r[x].bytes \in Nat
    BY <1>1, <2>4, <2>5, PartFacts, FrameFacts
  <2>11. Bytes(r) = Bytes(Part(r, T)) + (r[x].bytes + Bytes(Without(r, S)))
    BY <2>7, <2>9
  <2> QED BY <2>2, <2>8, <2>10, <2>11
<1> SUFFICES ASSUME NEW S \in SUBSET DOMAIN r PROVE Splits(S)
  OBVIOUS
<1>3. Cardinality(S) \in Nat
  BY <1>1, SmallerSet
<1> QED BY <1>2, <1>3

(* The order of eviction has a first row, and is transitive.                *)
LEMMA FirstRow ==
    ASSUME NEW r \in Rows, InOrder(r), NEW stage, NEW S \in SUBSET DOMAIN r, S # {}
    PROVE  \E i \in S : \A k \in S : ~Before(r, stage, k, i)
<1>1. /\ S \subseteq Ids
      /\ \A i \in S : i \in Nat /\ r[i].shot \in Nat /\ r[i].motion \in BOOLEAN
  BY RowsFacts, IdFacts, FrameFacts
<1>2. \A i, k \in S : i < k => r[i].shot < r[k].shot
  BY DEF InOrder
<1> DEFINE Still == {i \in S : ~r[i].motion}
<1>3. CASE KeepsAll(stage) \/ Still = {}
  <2>1. Min(S) \in S /\ \A k \in S : Min(S) <= k
    BY <1>1, ExtremeIds
  <2> HIDE DEF KeepsAll
  <2>2. ASSUME NEW k \in S PROVE ~Before(r, stage, k, Min(S))
    BY <1>1, <1>3, <2>1 DEF Before
  <2> QED BY <2>1, <2>2
<1>4. CASE ~KeepsAll(stage) /\ Still # {}
  <2>1. Still \subseteq Ids
    BY <1>1
  <2>2. Min(Still) \in Still /\ \A k \in Still : Min(Still) <= k
    BY <1>4, <2>1, ExtremeIds
  <2> DEFINE m == Min(Still)
  <2>3. m \in S /\ ~r[m].motion /\ \A k \in S : ~r[k].motion => m <= k
    BY <2>2
  <2> HIDE DEF m, KeepsAll
  <2>4. ASSUME NEW k \in S PROVE ~Before(r, stage, k, m)
    <3>1. ~r[k].motion => ~(r[k].shot < r[m].shot)
      BY <1>1, <1>2, <2>3
    <3> QED BY <1>1, <1>4, <2>3, <3>1 DEF Before
  <2> QED BY <2>3, <2>4
<1> QED BY <1>3, <1>4

LEMMA BeforeTransitive ==
    ASSUME NEW r \in Rows, NEW stage, NEW i \in DOMAIN r, NEW k \in DOMAIN r, NEW x \in DOMAIN r,
           Before(r, stage, x, k), Before(r, stage, k, i)
    PROVE  Before(r, stage, x, i)
<1>1. /\ i \in Nat /\ k \in Nat /\ x \in Nat
      /\ r[i].shot \in Nat /\ r[k].shot \in Nat /\ r[x].shot \in Nat
      /\ r[i].motion \in BOOLEAN /\ r[k].motion \in BOOLEAN /\ r[x].motion \in BOOLEAN
  BY RowsFacts, IdFacts, FrameFacts
<1>2. CASE KeepsAll(stage)
  BY <1>1, <1>2 DEF Before
<1>3. CASE ~KeepsAll(stage)
  <2> HIDE DEF KeepsAll
  <2>1. CASE r[i].motion /\ r[x].motion
    <3>1. r[k].motion
      BY <1>1, <1>3, <2>1 DEF Before
    <3> QED BY <1>1, <2>1, <3>1 DEF Before
  <2>2. CASE ~r[i].motion /\ ~r[x].motion
    BY <1>1, <1>3, <2>2 DEF Before
  <2>3. CASE r[i].motion /\ ~r[x].motion
    BY <1>1, <1>3, <2>3 DEF Before
  <2>4. CASE ~r[i].motion /\ r[x].motion
    BY <1>1, <1>3, <2>4 DEF Before
  <2> QED BY <1>1, <2>1, <2>2, <2>3, <2>4
<1> QED BY <1>2, <1>3

(* Without its victims the store is within its cap: of the rows left, the   *)
(* first was spared because those before it were enough.                    *)
LEMMA VictimsFit ==
    ASSUME NEW r \in Rows, InOrder(r), NEW stage
    PROVE  /\ Victims(r, stage, Bytes(r)) \in SUBSET DOMAIN r
           /\ Bytes(Without(r, Victims(r, stage, Bytes(r)))) <= MaxBytes
<1> DEFINE V == Victims(r, stage, Bytes(r))
           Left == DOMAIN r \ V
           Ahead(i) == {x \in DOMAIN r : Before(r, stage, x, i)}
<1>1. V \in SUBSET DOMAIN r
      /\ \A i \in Left : ~(Bytes(r) - Bytes(Part(r, Ahead(i))) > MaxBytes)
  BY DEF Victims, Part
<1> HIDE DEF V
<1>2. Without(r, V) \in Rows /\ DOMAIN Without(r, V) = Left /\ \A i \in Left : Without(r, V)[i] = r[i]
  BY <1>1, PartFacts
<1>3. CASE Left = {}
  <2>1. Bytes(Without(r, V)) = 0
    BY <1>2, <1>3, BytesFacts
  <2> QED BY <1>1, <2>1, Bounds DEF V
<1>4. CASE Left # {}
  <2>1. PICK i \in Left : \A k \in Left : ~Before(r, stage, k, i)
    BY <1>4, FirstRow
  <2> DEFINE A == Ahead(i)
  <2>2. A \in SUBSET DOMAIN r /\ Left \subseteq DOMAIN r \ A
    BY <2>1
  <2>3. ~(Bytes(r) - Bytes(Part(r, A)) > MaxBytes)
    BY <1>1, <2>1
  <2> HIDE DEF A, Ahead, Left
  <2>4. /\ Without(r, A) \in Rows /\ DOMAIN Without(r, A) = DOMAIN r \ A
        /\ \A k \in DOMAIN r \ A : Without(r, A)[k] = r[k]
        /\ Bytes(Without(r, A)) \in Nat /\ Bytes(Part(r, A)) \in Nat
    BY <2>2, PartFacts
  <2>5. Bytes(Without(r, V)) <= Bytes(Without(r, A))
    BY <1>2, <2>2, <2>4, PartWeighsLess
  <2>6. Bytes(r) = Bytes(Part(r, A)) + Bytes(Without(r, A))
    BY <2>2, BytesSplit
  <2>7. Bytes(Without(r, V)) \in Nat
    BY <1>2, BytesFacts
  <2>8. Bytes(Without(r, A)) <= MaxBytes
    BY <2>3, <2>4, <2>6, Bounds
  <2>9. Bytes(Without(r, V)) <= MaxBytes
    BY <2>4, <2>5, <2>7, <2>8, Bounds
  <2> QED BY <1>1, <2>9 DEF V
<1> QED BY <1>3, <1>4

(* Whatever precedes a victim is a victim.                                  *)
LEMMA VictimsForemost ==
    ASSUME NEW r \in Rows, NEW stage,
           NEW i \in Victims(r, stage, Bytes(r)), NEW k \in DOMAIN r, Before(r, stage, k, i)
    PROVE  k \in Victims(r, stage, Bytes(r))
<1> DEFINE Ahead(x) == {y \in DOMAIN r : Before(r, stage, y, x)}
<1>1. i \in DOMAIN r /\ Bytes(r) - Bytes(Part(r, Ahead(i))) > MaxBytes
  BY DEF Victims, Part
<1>2. Ahead(k) \subseteq Ahead(i)
  BY <1>1, BeforeTransitive
<1>3. Ahead(i) \in SUBSET DOMAIN r /\ Ahead(k) \in SUBSET DOMAIN r
  OBVIOUS
<1>4. Bytes(Part(r, Ahead(k))) <= Bytes(Part(r, Ahead(i)))
  <2> DEFINE A == Ahead(i)  B == Ahead(k)
  <2> HIDE DEF A, B
  <2>1. A \in SUBSET DOMAIN r /\ B \in SUBSET DOMAIN r /\ B \subseteq A
    BY <1>2, <1>3 DEF A, B
  <2>2. /\ Part(r, A) \in Rows /\ Part(r, B) \in Rows
        /\ DOMAIN Part(r, B) \subseteq DOMAIN Part(r, A)
        /\ \A x \in DOMAIN Part(r, B) : Part(r, B)[x] = Part(r, A)[x]
    <3>1. /\ Part(r, A) \in Rows /\ DOMAIN Part(r, A) = A
          /\ \A x \in A : Part(r, A)[x] = r[x]
      BY <2>1, PartFacts
    <3>2. /\ Part(r, B) \in Rows /\ DOMAIN Part(r, B) = B
          /\ \A x \in B : Part(r, B)[x] = r[x]
      BY <2>1, PartFacts
    <3> QED BY <2>1, <3>1, <3>2
  <2>3. Bytes(Part(r, B)) <= Bytes(Part(r, A))
    BY <2>2, PartWeighsLess
  <2> QED BY <2>3 DEF A, B
<1>5. Bytes(r) \in Nat /\ Bytes(Part(r, Ahead(k))) \in Nat /\ Bytes(Part(r, Ahead(i))) \in Nat
  BY <1>3, BytesFacts, PartFacts
<1>6. Bytes(r) - Bytes(Part(r, Ahead(k))) > MaxBytes
  BY <1>1, <1>4, <1>5, Bounds
<1> QED BY <1>6 DEF Victims, Part

-----------------------------------------------------------------------------
(* The invariant holds at first, and every action keeps it.                 *)
LEMMA InvInit == Init => IInv
<1> SUFFICES ASSUME Init PROVE IInv
  OBVIOUS
<1>1. /\ work = Fresh /\ db = Fresh /\ durable = Fresh /\ files = {}
      /\ total = 0 /\ count = 0 /\ motionCount = 0 /\ frontier = 0
      /\ phase = "idle" /\ incoming = NoFrame /\ doomed = {} /\ shots = 0
      /\ tickets = {} /\ candidates = {}
  BY DEF Init
<1> USE FreshFacts
<1>2. Shapes
  BY <1>1, Bounds DEF Shapes
<1>3. Ordered
  BY <1>1 DEF Ordered, InOrder
<1>4. Phases
  BY <1>1 DEF Phases
<1>5. Counted
  <2>1. Bytes(work.rows) = 0 /\ Cardinality(DOMAIN work.rows) = 0
    BY <1>1
  <2>2. Cardinality(MotionRows(work.rows)) = 0
    BY <1>1
  <2> QED BY <1>1, <2>1, <2>2 DEF Counted, CountersExact
<1>6. Marked
  BY <1>1 DEF Marked, LastOf
<1>7. Capped
  BY <1>1, Bounds DEF Capped
<1>8. Attached
  BY <1>1 DEF Attached, VerdictsHeld
<1>9. Foremost /\ Underway
  BY <1>1 DEF Foremost, Underway
<1> QED BY <1>2, <1>3, <1>4, <1>5, <1>6, <1>7, <1>8, <1>9 DEF IInv

LEMMA StateFacts ==
    ASSUME IInv
    PROVE  /\ \A d \in {work, db, durable} :
                 /\ d \in Base /\ d.rows \in Rows /\ DOMAIN d.rows \subseteq Ids
                 /\ \A i \in DOMAIN d.rows : /\ d.rows[i] \in Frame /\ d.rows[i].shot \in Nat
                                             /\ i \in Nat /\ i \in Ids /\ d.rows[i].motion \in BOOLEAN
                 /\ d.stripped \in SUBSET Ids /\ d.frontier \in Nat /\ d.verdicts \in SUBSET Ticket
           /\ shots \in Nat /\ shots <= MaxShots /\ MaxShots \in Nat
<1>1. work \in Base /\ db \in Base /\ durable \in Base /\ shots \in 0..MaxShots
  BY DEF IInv, Shapes
<1>2. \A d \in Base : /\ d.rows \in Rows /\ DOMAIN d.rows \subseteq Ids
                      /\ d.rows \in [DOMAIN d.rows -> Frame]
                      /\ d.stripped \in SUBSET Ids /\ d.frontier \in Nat /\ d.verdicts \in SUBSET Ticket
  BY BaseFacts
<1>3. \A d \in Base : \A i \in DOMAIN d.rows : /\ d.rows[i] \in Frame /\ d.rows[i].shot \in Nat
                                               /\ i \in Nat /\ i \in Ids /\ d.rows[i].motion \in BOOLEAN
  BY <1>2, FrameFacts, IdFacts
<1> QED BY <1>1, <1>2, <1>3, Bounds

(* What stays true as long as no database and no counter is written.        *)
LEMMA BaseKept ==
    ASSUME IInv, UNCHANGED base, UNCHANGED counters, shots' \in Nat, shots <= shots'
    PROVE  /\ work' \in Base /\ db' \in Base /\ durable' \in Base
           /\ Ordered'
           /\ total' \in Nat /\ count' \in Nat /\ motionCount' \in Nat
           /\ phase # "down" => CountersExact'
           /\ VerdictsHeld(work)' /\ VerdictsHeld(db)' /\ VerdictsHeld(durable)'
<1>1. work' = work /\ db' = db /\ durable' = durable
      /\ total' = total /\ count' = count /\ motionCount' = motionCount
  BY DEF base, counters
<1>2. Shapes /\ Ordered /\ Counted /\ Attached
  BY DEF IInv
<1>3. Ordered'
  <2>1. \A d \in {work, db, durable} : InOrder(d.rows)
    BY <1>2 DEF Ordered
  <2>2. ASSUME NEW d \in {work, db, durable}, NEW i \in DOMAIN d.rows
        PROVE  i <= d.rows[i].shot /\ d.rows[i].shot <= shots'
    <3>1. d.rows[i].shot \in Nat /\ shots \in Nat
      BY StateFacts
    <3> QED BY <2>1, <3>1 DEF InOrder
  <2> QED BY <1>1, <2>1, <2>2 DEF Ordered, InOrder
<1>4. phase # "down" => CountersExact'
  BY <1>1, <1>2 DEF Counted, CountersExact
<1>5. VerdictsHeld(work)' /\ VerdictsHeld(db)' /\ VerdictsHeld(durable)'
  BY <1>1, <1>2 DEF Attached, VerdictsHeld
<1> QED BY <1>1, <1>2, <1>3, <1>4, <1>5 DEF Shapes, Counted

LEMMA AddWriteStep ==
    ASSUME IInv, NEW b \in Sizes, NEW m \in BOOLEAN, AddWrite(b, m)
    PROVE  IInv'
<1>1. /\ phase = "idle" /\ shots < MaxShots /\ shots' = shots + 1
      /\ incoming' = [shot |-> shots + 1, bytes |-> b, motion |-> m]
      /\ files' = files \cup {shots + 1} /\ phase' = "written"
      /\ work' = work /\ db' = db /\ durable' = durable /\ frontier' = frontier /\ doomed' = doomed
      /\ tickets' = tickets /\ candidates' = candidates /\ world' = world
  BY DEF AddWrite, base
<1>2. UNCHANGED base /\ UNCHANGED counters
  BY DEF AddWrite
<1>3. shots \in Nat /\ MaxShots \in Nat /\ shots + 1 \in Shots /\ shots' \in Nat /\ shots <= shots'
      /\ shots' \in 0..MaxShots
  BY <1>1, StateFacts DEF Shots
<1>4. incoming' \in Frame /\ incoming'.shot = shots'
  BY <1>1, <1>3 DEF Frame
<1>5. Shapes /\ Phases /\ Marked /\ Capped /\ Attached /\ Ordered
  BY DEF IInv
<1>6. Shapes'
  BY <1>1, <1>2, <1>3, <1>4, <1>5, BaseKept DEF Shapes
<1>7. Phases'
  <2>1. \A i \in DOMAIN work.rows : work.rows[i].shot < shots'
    BY <1>1, <1>3, <1>5, StateFacts DEF Ordered, InOrder
  <2> QED BY <1>1, <1>4, <1>5, <2>1 DEF Phases
<1>8. Counted' /\ Ordered'
  BY <1>1, <1>2, <1>3, BaseKept DEF Counted
<1>9. Marked'
  BY <1>1, <1>5 DEF Marked
<1>10. Capped'
  BY <1>1, <1>5 DEF Capped
<1>11. Attached'
  <2>1. world.faults \subseteq {"write"} => files = FilesOf(work.rows)
    BY <1>1, <1>5 DEF Attached
  <2>2. incoming'.shot = shots + 1
    BY <1>1
  <2> QED BY <1>1, <1>2, <1>3, <2>1, <2>2, BaseKept DEF Attached
<1>12. Foremost' /\ Underway'
  BY <1>1 DEF Foremost, Underway
<1> QED BY <1>6, <1>7, <1>8, <1>9, <1>10, <1>11, <1>12 DEF IInv

LEMMA PurgeStartStep ==
    ASSUME IInv, NEW until \in Ids, PurgeStart(until)
    PROVE  IInv'
<1>1. /\ phase = "idle" /\ doomed' = PurgeBatch(until) /\ phase' = "purging"
      /\ work' = work /\ db' = db /\ durable' = durable /\ frontier' = frontier
      /\ files' = files /\ incoming' = incoming /\ shots' = shots
      /\ tickets' = tickets /\ candidates' = candidates /\ world' = world
  BY DEF PurgeStart, base, outside
<1>2. UNCHANGED base /\ UNCHANGED counters
  BY DEF PurgeStart
<1>3. shots' \in Nat /\ shots <= shots'
  BY <1>1, StateFacts
<1>4. Shapes /\ Phases /\ Marked /\ Capped /\ Attached
  BY DEF IInv
<1>5. doomed' \subseteq DOMAIN work.rows /\ \A i \in doomed' : ~work.rows[i].motion
  BY <1>1 DEF PurgeBatch
<1>6. work = db
  BY <1>1, <1>4 DEF Phases
<1>7. Shapes'
  BY <1>1, <1>4 DEF Shapes
<1>8. Phases'
  BY <1>1, <1>4, <1>5 DEF Phases
<1>9. Counted' /\ Ordered'
  BY <1>1, <1>2, <1>3, BaseKept DEF Counted
<1>10. Marked'
  BY <1>1, <1>4, <1>6 DEF Marked
<1>11. Capped'
  BY <1>1, <1>4, <1>6 DEF Capped
<1>12. Attached'
  BY <1>1, <1>2, <1>3, <1>4, BaseKept DEF Attached
<1>13. Foremost' /\ Underway'
  BY <1>1, <1>6 DEF Foremost, Underway
<1> QED BY <1>7, <1>8, <1>9, <1>10, <1>11, <1>12, <1>13 DEF IInv

LEMMA ClearStartStep == IInv /\ ClearStart => IInv'
<1> SUFFICES ASSUME IInv, ClearStart PROVE IInv'
  OBVIOUS
<1>1. /\ phase = "idle" /\ doomed' = DOMAIN work.rows /\ phase' = "clearing"
      /\ work' = work /\ db' = db /\ durable' = durable /\ frontier' = frontier
      /\ files' = files /\ incoming' = incoming /\ shots' = shots
      /\ tickets' = tickets /\ candidates' = candidates /\ world' = world
  BY DEF ClearStart, base, outside
<1>2. UNCHANGED base /\ UNCHANGED counters
  BY DEF ClearStart
<1>3. shots' \in Nat /\ shots <= shots'
  BY <1>1, StateFacts
<1>4. Shapes /\ Phases /\ Marked /\ Capped /\ Attached
  BY DEF IInv
<1>5. Shapes'
  BY <1>1, <1>4 DEF Shapes
<1>6. Phases'
  BY <1>1, <1>4 DEF Phases
<1>7. Counted' /\ Ordered'
  BY <1>1, <1>2, <1>3, BaseKept DEF Counted
<1>8. Marked'
  BY <1>1, <1>4 DEF Marked
<1>9. Capped'
  BY <1>1, <1>4 DEF Capped
<1>10. Attached'
  <2>1. world.faults \subseteq {"write"} => files = {work.rows[i].shot : i \in DOMAIN work.rows}
    BY <1>1, <1>4 DEF Attached, FilesOf
  <2> QED BY <1>1, <1>2, <1>3, <2>1, BaseKept DEF Attached
<1>11. Foremost' /\ Underway'
  BY <1>1 DEF Foremost, Underway
<1> QED BY <1>5, <1>6, <1>7, <1>8, <1>9, <1>10, <1>11 DEF IInv

LEMMA ClearUnlinkStep ==
    ASSUME IInv, NEW j \in Ids, ClearUnlink(j)
    PROVE  IInv'
<1>1. /\ phase = "clearing" /\ j \in doomed /\ doomed' = doomed \ {j} /\ phase' = phase
      /\ files' = files \ {work.rows[j].shot}
      /\ work' = work /\ db' = db /\ durable' = durable /\ frontier' = frontier
      /\ incoming' = incoming /\ shots' = shots
      /\ tickets' = tickets /\ candidates' = candidates /\ world' = world
  BY DEF ClearUnlink, base, outside
<1>2. UNCHANGED base /\ UNCHANGED counters
  BY DEF ClearUnlink
<1>3. shots' \in Nat /\ shots <= shots'
  BY <1>1, StateFacts
<1>4. Shapes /\ Phases /\ Marked /\ Capped /\ Attached /\ Ordered
  BY DEF IInv
<1>5. Shapes'
  BY <1>1, <1>4 DEF Shapes
<1>6. Phases'
  BY <1>1, <1>4 DEF Phases
<1>7. Counted' /\ Ordered'
  BY <1>1, <1>2, <1>3, BaseKept DEF Counted
<1>8. Marked'
  BY <1>1, <1>4 DEF Marked
<1>9. Capped'
  BY <1>1, <1>4 DEF Capped
<1>10. Attached'
  <2>1. world.faults \subseteq {"write"} => files = {work.rows[i].shot : i \in doomed}
    BY <1>1, <1>4 DEF Attached
  <2>2. \A i \in doomed \ {j} : work.rows[i].shot # work.rows[j].shot
    <3>1. /\ doomed \subseteq DOMAIN work.rows
          /\ \A i \in DOMAIN work.rows : i \in Nat /\ work.rows[i].shot \in Nat
      BY <1>4, StateFacts DEF Phases
    <3>2. \A i, k \in DOMAIN work.rows : i < k => work.rows[i].shot < work.rows[k].shot
      BY <1>4 DEF Ordered, InOrder
    <3> QED BY <1>1, <3>1, <3>2
  <2>3. world.faults \subseteq {"write"} => files' = {work.rows[i].shot : i \in doomed \ {j}}
    BY <1>1, <2>1, <2>2
  <2> QED BY <1>1, <1>2, <1>3, <2>3, BaseKept DEF Attached
<1>11. Foremost' /\ Underway'
  BY <1>1 DEF Foremost, Underway
<1> QED BY <1>5, <1>6, <1>7, <1>8, <1>9, <1>10, <1>11 DEF IInv

(* A step that touches neither the connection nor the commit: a listing, a  *)
(* walk, a sweep of files no row refers to, a checkpoint.                   *)
LEMMA QuietStep ==
    ASSUME IInv,
           work' = work, db' = db, durable' \in {durable, db}, UNCHANGED counters,
           frontier' = frontier, UNCHANGED lock, shots' = shots, world' = world,
           files' \in SUBSET Shots, world.faults \subseteq {"write"} => files' = files,
           tickets' \in SUBSET Ticket, candidates' \in SUBSET Shots
    PROVE  IInv'
<1>1. phase' = phase /\ incoming' = incoming /\ doomed' = doomed
      /\ total' = total /\ count' = count /\ motionCount' = motionCount
  BY DEF lock, counters
<1>2. Shapes /\ Ordered /\ Phases /\ Counted /\ Marked /\ Capped /\ Attached /\ Foremost /\ Underway
  BY DEF IInv
<1>3. Shapes'
  BY <1>1, <1>2 DEF Shapes
<1>4. Ordered'
  BY <1>2 DEF Ordered, InOrder
<1>5. Phases'
  BY <1>1, <1>2 DEF Phases
<1>6. Counted'
  BY <1>1, <1>2 DEF Counted, CountersExact
<1>7. Marked'
  BY <1>1, <1>2 DEF Marked
<1>8. Capped'
  BY <1>1, <1>2 DEF Capped
<1>9. Attached'
  BY <1>1, <1>2 DEF Attached, VerdictsHeld
<1>10. Foremost'
  BY <1>1, <1>2 DEF Foremost
<1>11. Underway'
  BY <1>1, <1>2 DEF Underway, AddsTo
<1> QED BY <1>3, <1>4, <1>5, <1>6, <1>7, <1>8, <1>9, <1>10, <1>11 DEF IInv

LEMMA ReadStep ==
    ASSUME IInv, NEW i \in Ids, Read(i)
    PROVE  IInv'
<1>1. Shapes
  BY DEF IInv
<1>2. i \in DOMAIN work.rows /\ work.rows[i].shot \in Shots
  BY StateFacts, FrameFacts DEF Read
<1>3. tickets' \in SUBSET Ticket
  BY <1>1, <1>2 DEF Read, Ticket, Shapes
<1> QED BY <1>1, <1>3, QuietStep DEF Read, base, Shapes

LEMMA WalkFileStep ==
    ASSUME IInv, NEW s \in Shots, WalkFile(s)
    PROVE  IInv'
<1>1. Shapes
  BY DEF IInv
<1> QED BY <1>1, QuietStep DEF WalkFile, base, Shapes

LEMMA DeleteOrphansStep == IInv /\ DeleteOrphans => IInv'
<1> SUFFICES ASSUME IInv, DeleteOrphans PROVE IInv'
  OBVIOUS
<1>1. Shapes /\ Attached
  BY DEF IInv
<1>2. world.faults \subseteq {"write"} => files = FilesOf(work.rows)
  BY <1>1 DEF Attached, DeleteOrphans
<1>3. files' \in SUBSET Shots /\ (world.faults \subseteq {"write"} => files' = files)
  BY <1>1, <1>2 DEF DeleteOrphans, Shapes
<1> QED BY <1>1, <1>3, QuietStep DEF DeleteOrphans, base, Shapes

LEMMA CheckpointStep == IInv /\ Checkpoint => IInv'
<1> SUFFICES ASSUME IInv, Checkpoint PROVE IInv'
  OBVIOUS
<1>1. Shapes
  BY DEF IInv
<1> QED BY <1>1, QuietStep DEF Checkpoint, outside, Shapes

LEMMA RestartStep == IInv /\ Restart => IInv'
<1> SUFFICES ASSUME IInv, Restart PROVE IInv'
  OBVIOUS
<1>1. /\ phase = "down" /\ phase' = "idle" /\ frontier' = db.frontier
      /\ total' = Bytes(db.rows) /\ count' = Cardinality(DOMAIN db.rows)
      /\ motionCount' = Cardinality(MotionRows(db.rows))
      /\ work' = work /\ db' = db /\ durable' = durable /\ files' = files
      /\ incoming' = incoming /\ doomed' = doomed /\ shots' = shots
      /\ tickets' = tickets /\ candidates' = candidates /\ world' = world
  BY DEF Restart, Resync, base, outside
<1>2. Shapes /\ Ordered /\ Phases /\ Marked /\ Capped /\ Attached
  BY DEF IInv
<1>3. work = db
  BY <1>1, <1>2 DEF Phases
<1>4. db.rows \in Rows /\ DOMAIN db.rows \in SUBSET Ids /\ MotionRows(db.rows) \in SUBSET Ids
  BY StateFacts DEF MotionRows
<1>5. Shapes'
  <2>1. db.frontier \in 0..MaxShots
    BY <1>2, BaseFacts DEF Shapes
  <2> QED BY <1>1, <1>2, <2>1 DEF Shapes
<1>6. Ordered'
  BY <1>1, <1>2 DEF Ordered, InOrder
<1>7. Phases'
  BY <1>1, <1>2 DEF Phases
<1>8. Counted'
  <2>1. total' \in Nat /\ count' \in Nat /\ motionCount' \in Nat
    BY <1>1, <1>4, BytesFacts, IdFacts
  <2> QED BY <1>1, <1>3, <2>1 DEF Counted, CountersExact
<1>9. Marked'
  BY <1>1, <1>2, <1>3 DEF Marked
<1>10. Capped'
  BY <1>1, <1>2 DEF Capped
<1>11. Attached'
  BY <1>1, <1>2 DEF Attached, VerdictsHeld
<1>12. Foremost' /\ Underway'
  BY <1>1 DEF Foremost, Underway
<1> QED BY <1>5, <1>6, <1>7, <1>8, <1>9, <1>10, <1>11, <1>12 DEF IInv

(* A settled state: the lock is free or the process dead, the connection    *)
(* and the commit are one database d, of which little is asked.             *)
Settles(d) ==
    /\ d \in Base /\ InOrder(d.rows) /\ VerdictsHeld(d)
    /\ Bytes(d.rows) <= MaxBytes /\ d.frontier = LastOf(d.stripped)

LEMMA SettledStep ==
    ASSUME IInv, NEW d, Settles(d), work' = d, db' = d, durable' \in {durable, d},
           phase' \in {"idle", "down"}, incoming' = NoFrame, doomed' = {},
           phase' = "idle" => frontier' = d.frontier, frontier' \in 0..MaxShots,
           shots' = shots, world' = world, Counted',
           files' \in SUBSET Shots, world.faults \subseteq {"write"} => files' = FilesOf(d.rows),
           tickets' \in SUBSET Ticket, candidates' \in SUBSET Shots
    PROVE  IInv'
<1>1. Shapes /\ Ordered /\ Marked /\ Capped /\ Attached
  BY DEF IInv
<1>2. Shapes'
  BY <1>1 DEF Shapes, Settles
<1>3. Ordered'
  BY <1>1 DEF Ordered, InOrder, Settles
<1>4. Phases'
  BY DEF Phases
<1>5. Marked'
  BY <1>1 DEF Marked, Settles
<1>6. Capped'
  BY <1>1 DEF Capped, Settles
<1>7. Attached'
  BY <1>1 DEF Attached, VerdictsHeld, Settles
<1>8. Foremost' /\ Underway'
  BY DEF Foremost, Underway
<1> QED BY <1>2, <1>3, <1>4, <1>5, <1>6, <1>7, <1>8 DEF IInv

LEMMA Committed ==
    ASSUME IInv
    PROVE  Settles(db) /\ Settles(durable)
<1>1. Shapes /\ Ordered /\ Marked /\ Capped /\ Attached
  BY DEF IInv
<1> QED BY <1>1 DEF Settles, Shapes, Ordered, Marked, Capped, Attached

LEMMA ResyncCounts ==
    ASSUME NEW d, d \in Base, Resync(d), work' = d
    PROVE  Counted'
<1>1. d.rows \in Rows /\ DOMAIN d.rows \in SUBSET Ids /\ MotionRows(d.rows) \in SUBSET Ids
  BY BaseFacts DEF MotionRows
<1>2. total' \in Nat /\ count' \in Nat /\ motionCount' \in Nat
  BY <1>1, BytesFacts, IdFacts DEF Resync
<1> QED BY <1>2 DEF Counted, CountersExact, Resync

LEMMA FailStep == IInv /\ (WriteFails \/ CommitFails) => IInv'
<1> SUFFICES ASSUME IInv, WriteFails \/ CommitFails PROVE IInv'
  OBVIOUS
<1>1. /\ work' = db /\ db' = db /\ durable' = durable
      /\ phase' = "idle" /\ incoming' = NoFrame /\ doomed' = {}
      /\ frontier' = IF incoming = NoFrame THEN frontier ELSE db.frontier
      /\ files' = files \ {incoming.shot}
      /\ shots' = shots /\ tickets' = tickets /\ candidates' = candidates /\ world' = world
      /\ Resync(db)
  BY DEF WriteFails, CommitFails, Recover, Release, outside
<1>2. Shapes /\ Phases /\ Marked /\ Attached
  BY DEF IInv
<1>3. Settles(db) /\ db \in Base /\ Counted'
  BY <1>1, Committed, ResyncCounts DEF Settles
<1>4. frontier' = db.frontier /\ frontier' \in 0..MaxShots
  <2>1. incoming = NoFrame => phase = "purging"
    BY <1>2, FrameFacts DEF Phases, WriteFails, CommitFails
  <2>2. db.frontier \in 0..MaxShots
    BY <1>3, BaseFacts
  <2> QED BY <1>1, <1>2, <2>1, <2>2 DEF Marked
<1>5. world.faults \subseteq {"write"} => files' = FilesOf(db.rows)
  <2> SUFFICES ASSUME world.faults \subseteq {"write"} PROVE files' = FilesOf(db.rows)
    OBVIOUS
  <2>1. phase = "written"
    BY DEF WriteFails, CommitFails
  <2>2. files = FilesOf(work.rows) \cup {incoming.shot}
    BY <1>2, <2>1 DEF Attached
  <2>3. work = db /\ \A i \in DOMAIN work.rows : work.rows[i].shot # incoming.shot
    BY <1>2, <2>1, StateFacts DEF Phases
  <2> QED BY <1>1, <2>2, <2>3 DEF FilesOf
<1> QED BY <1>1, <1>2, <1>3, <1>4, <1>5, SettledStep DEF Shapes

LEMMA DieStep == IInv /\ (Crash \/ PowerCut) => IInv'
<1> SUFFICES ASSUME IInv, NEW d \in {db, durable}, Die(d), ~(world.faults \subseteq {"write"})
             PROVE  IInv'
  BY DEF Crash, PowerCut
<1>1. /\ phase' = "down" /\ incoming' = NoFrame /\ doomed' = {}
      /\ work' = d /\ db' = d /\ durable' = d /\ tickets' = {} /\ candidates' = {}
      /\ files' = files /\ frontier' = frontier /\ shots' = shots /\ world' = world
      /\ total' = total /\ count' = count /\ motionCount' = motionCount
  BY DEF Die, counters
<1>2. Shapes /\ Counted
  BY DEF IInv
<1>3. Counted'
  BY <1>1, <1>2 DEF Counted, CountersExact
<1>4. Settles(d)
  BY Committed
<1> QED BY <1>1, <1>2, <1>3, <1>4, SettledStep DEF Shapes

LEMMA ClearCommitStep == IInv /\ ClearCommit => IInv'
<1> SUFFICES ASSUME IInv, ClearCommit PROVE IInv'
  OBVIOUS
<1> DEFINE d == [Fresh EXCEPT !.stage = work.stage]
<1>1. /\ phase = "clearing" /\ doomed = {}
      /\ work' = d /\ db' = d /\ durable' = durable
      /\ total' = 0 /\ count' = 0 /\ motionCount' = 0
      /\ phase' = "idle" /\ incoming' = NoFrame /\ doomed' = {} /\ frontier' = 0
      /\ files' = files /\ shots' = shots
      /\ tickets' = tickets /\ candidates' = candidates /\ world' = world
  BY DEF ClearCommit, Release, outside
<1>2. Shapes /\ Attached
  BY DEF IInv
<1>3. /\ d \in Base /\ d.rows = Empty /\ d.verdicts = {} /\ d.frontier = 0 /\ d.stripped = {}
  <2>1. work.stage \in Stages
    BY <1>2, BaseFacts DEF Shapes
  <2> QED BY <2>1, FreshFacts, BaseWritten
<1> HIDE DEF d
<1>4. Settles(d)
  BY <1>3, FreshFacts, Bounds DEF Settles, InOrder, VerdictsHeld, LastOf
<1>5. Counted'
  <2>1. work'.rows = Empty
    BY <1>1, <1>3
  <2>2. Cardinality(DOMAIN work'.rows) = 0 /\ Bytes(work'.rows) = 0
    BY <2>1, FreshFacts
  <2>3. Cardinality(MotionRows(work'.rows)) = 0
    BY <2>1, FreshFacts
  <2> QED BY <1>1, <2>2, <2>3 DEF Counted, CountersExact
<1>6. world.faults \subseteq {"write"} => files' = FilesOf(d.rows)
  BY <1>1, <1>2, <1>3, FreshFacts DEF Attached
<1>7. 0 \in 0..MaxShots
  BY Bounds
<1> QED BY <1>1, <1>2, <1>3, <1>4, <1>5, <1>6, <1>7, SettledStep DEF Shapes

(* A stage or a verdict written at rest, the rows as they were.             *)
LEMMA AnnotatedStep ==
    ASSUME IInv, phase = "idle", NEW d \in Base,
           d.rows = work.rows, d.frontier = work.frontier, d.stripped = work.stripped,
           VerdictsHeld(d), work' = d, db' = d, durable' = durable, UNCHANGED counters,
           files' = files, frontier' = frontier, UNCHANGED lock, shots' = shots,
           world' = world, tickets' \in SUBSET Ticket, candidates' = candidates
    PROVE  IInv'
<1>1. Shapes /\ Ordered /\ Phases /\ Counted /\ Marked /\ Capped /\ Attached
  BY DEF IInv
<1>2. work = db /\ incoming = NoFrame /\ doomed = {} /\ frontier = db.frontier
  BY <1>1 DEF Phases, Marked
<1>3. Settles(d)
  BY <1>1, <1>2 DEF Settles, Ordered, Marked, Capped
<1>4. Counted'
  BY <1>1 DEF Counted, CountersExact, counters, lock
<1>5. world.faults \subseteq {"write"} => files' = FilesOf(d.rows)
  BY <1>1 DEF Attached
<1> QED BY <1>1, <1>2, <1>3, <1>4, <1>5, SettledStep DEF Shapes, lock

LEMMA SetStageStep ==
    ASSUME IInv, NEW s \in Stages, SetStage(s)
    PROVE  IInv'
<1>1. Shapes /\ Attached
  BY DEF IInv
<1> DEFINE d == [work EXCEPT !.stage = s]
<1>2. d \in Base /\ d.rows = work.rows /\ d.verdicts = work.verdicts
      /\ d.frontier = work.frontier /\ d.stripped = work.stripped
  BY <1>1, BaseWritten DEF Shapes
<1>3. work' = d /\ db' = d
  BY DEF SetStage
<1> HIDE DEF d
<1>4. VerdictsHeld(d)
  BY <1>1, <1>2 DEF Attached, VerdictsHeld
<1> QED BY <1>1, <1>2, <1>3, <1>4, AnnotatedStep DEF SetStage, outside, Shapes

LEMMA WriteVerdictStep ==
    ASSUME IInv, NEW t \in tickets, WriteVerdict(t)
    PROVE  IInv'
<1>1. Shapes /\ Attached /\ t \in Ticket
  BY DEF IInv, Shapes
<1>2. /\ phase = "idle" /\ tickets' = tickets \ {t} /\ db' = work' /\ durable' = durable
      /\ work' = IF t.id \in DOMAIN work.rows
                 THEN [work EXCEPT !.verdicts = {v \in @ : v.id # t.id} \cup {t}] ELSE work
      /\ files' = files /\ frontier' = frontier /\ shots' = shots
      /\ candidates' = candidates /\ world' = world
  BY DEF WriteVerdict
<1>3. UNCHANGED counters /\ UNCHANGED lock
  BY DEF WriteVerdict
<1>4. CASE t.id \notin DOMAIN work.rows
  BY <1>1, <1>2, <1>3, <1>4, AnnotatedStep DEF Attached, Shapes
<1>5. CASE t.id \in DOMAIN work.rows
  <2> DEFINE V == {v \in work.verdicts : v.id # t.id} \cup {t}
             d == [work EXCEPT !.verdicts = V]
  <2>1. V \in SUBSET Ticket
    BY <1>1, StateFacts
  <2>2. d \in Base /\ d.rows = work.rows /\ d.verdicts = V
        /\ d.frontier = work.frontier /\ d.stripped = work.stripped
    BY <1>1, <2>1, BaseWritten DEF Shapes
  <2>3. work' = d
    BY <1>2, <1>5
  <2>4. \A v \in V : v.id \in DOMAIN work.rows
    BY <1>1, <1>5 DEF Attached, VerdictsHeld
  <2> HIDE DEF d, V
  <2>5. VerdictsHeld(d)
    BY <2>2, <2>4 DEF VerdictsHeld
  <2> QED BY <1>1, <1>2, <1>3, <2>2, <2>3, <2>5, AnnotatedStep DEF Shapes
<1> QED BY <1>4, <1>5

(* The row an add inserts takes an id above every other.                    *)
LEMMA NewIdFacts ==
    ASSUME IInv, phase = "written"
    PROVE  /\ NewId(work.rows) \in Ids /\ NewId(work.rows) \notin DOMAIN work.rows
           /\ \A i \in DOMAIN work.rows : i < NewId(work.rows)
           /\ NewId(work.rows) <= shots /\ shots \in Ids
<1> DEFINE D == DOMAIN work.rows
<1>1. /\ incoming \in Frame /\ incoming.shot = shots
      /\ \A i \in D : work.rows[i].shot < shots /\ i <= work.rows[i].shot
  BY DEF IInv, Phases, Ordered, InOrder
<1>2. shots \in Shots /\ shots \in Nat /\ shots <= MaxShots /\ MaxShots \in Nat /\ shots \in Ids
  BY <1>1, FrameFacts, StateFacts, IdFacts
<1>3. D \subseteq Ids /\ \A i \in D : i \in Nat /\ work.rows[i].shot \in Nat
  BY StateFacts
<1>4. CASE D = {}
  <2>1. NewId(work.rows) = 1
    BY <1>4 DEF NewId
  <2> QED BY <1>2, <1>4, <2>1 DEF Ids
<1>5. CASE D # {}
  <2>1. Max(D) \in D /\ \A i \in D : i <= Max(D)
    BY <1>3, <1>5, ExtremeIds
  <2> DEFINE m == Max(D)
  <2>2. NewId(work.rows) = m + 1
    BY <1>5 DEF NewId
  <2> HIDE DEF m
  <2>3. m \in Nat /\ m < shots
    BY <1>1, <1>2, <1>3, <2>1 DEF m
  <2>4. \A i \in D : i < m + 1
    BY <1>3, <2>1, <2>3 DEF m
  <2>5. m + 1 \in Ids /\ m + 1 <= shots /\ m + 1 \notin D
    BY <1>2, <2>3, <2>4 DEF Ids
  <2> QED BY <1>2, <2>2, <2>4, <2>5
<1> QED BY <1>4, <1>5

LEMMA AddInsertStep == IInv /\ AddInsert => IInv'
<1> SUFFICES ASSUME IInv, AddInsert PROVE IInv'
  OBVIOUS
<1>4. PICK id \in Ids : /\ id = NewId(work.rows) /\ id <= shots
                        /\ id \notin DOMAIN work.rows /\ \A i \in DOMAIN work.rows : i < id
  BY NewIdFacts DEF AddInsert
<1> DEFINE q == [i \in DOMAIN work.rows \cup {id} |-> IF i = id THEN incoming ELSE work.rows[i]]
<1>1. /\ phase = "written" /\ phase' = "evicting"
      /\ work' = [work EXCEPT !.rows = q]
      /\ total' = total + incoming.bytes
      /\ doomed' = Victims(q, work.stage, total + incoming.bytes)
      /\ count' = count + 1
      /\ motionCount' = motionCount + (IF incoming.motion THEN 1 ELSE 0)
      /\ db' = db /\ durable' = durable /\ files' = files /\ frontier' = frontier
      /\ incoming' = incoming /\ shots' = shots
      /\ tickets' = tickets /\ candidates' = candidates /\ world' = world
  BY <1>4 DEF AddInsert, outside
<1>2. Shapes /\ Ordered /\ Phases /\ Counted /\ Marked /\ Capped /\ Attached
  BY DEF IInv
<1>3. /\ work = db /\ incoming \in Frame /\ incoming.shot = shots
      /\ incoming.bytes \in Nat /\ incoming.motion \in BOOLEAN
      /\ work.rows \in Rows
  BY <1>1, <1>2, FrameFacts, StateFacts DEF Phases
<1>5. /\ q \in Rows /\ DOMAIN q = DOMAIN work.rows \cup {id}
      /\ q[id] = incoming /\ \A i \in DOMAIN work.rows : q[i] = work.rows[i]
      /\ Bytes(q) = Bytes(work.rows) + incoming.bytes
      /\ Cardinality(DOMAIN q) = Cardinality(DOMAIN work.rows) + 1
      /\ Cardinality(MotionRows(q))
            = Cardinality(MotionRows(work.rows)) + (IF incoming.motion THEN 1 ELSE 0)
      /\ FilesOf(q) = FilesOf(work.rows) \cup {incoming.shot}
  <2>1. q = [i \in DOMAIN work.rows \cup {id} |-> IF i = id THEN incoming ELSE work.rows[i]]
    OBVIOUS
  <2> HIDE DEF q
  <2> QED BY <1>3, <1>4, <2>1, AddedRow
<1> HIDE DEF q
<1>6. /\ work' \in Base /\ work'.rows = q /\ work'.verdicts = work.verdicts
      /\ work'.frontier = work.frontier /\ work'.stage = work.stage
      /\ work'.stripped = work.stripped
  BY <1>1, <1>2, <1>5, BaseWritten DEF Shapes
<1>7. InOrder(q)
  <2>1. \A i \in DOMAIN work.rows : /\ i \in Nat /\ i <= work.rows[i].shot
                                    /\ work.rows[i].shot \in Nat /\ work.rows[i].shot < shots
    BY <1>1, <1>2, StateFacts DEF Ordered, InOrder, Phases
  <2>2. id \in Nat /\ shots \in Nat
    BY <1>4, IdFacts, StateFacts
  <2>3. ASSUME NEW i \in DOMAIN q PROVE i <= q[i].shot /\ q[i].shot <= shots
    <3>1. CASE i = id
      <4>1. q[i] = q[id] /\ q[id] = incoming
        BY <1>5, <3>1
      <4>2. q[i].shot = shots
        BY <1>3, <4>1
      <4>3. i <= shots
        BY <1>4, <2>2, <3>1
      <4>4. i \in Nat /\ shots \in Nat
        BY <2>2, <3>1
      <4> QED BY <4>2, <4>3, <4>4
    <3>2. CASE i # id
      <4>1. i \in DOMAIN work.rows /\ q[i] = work.rows[i]
        BY <1>5, <2>3, <3>2
      <4> QED BY <2>1, <2>2, <4>1
    <3> QED BY <3>1, <3>2
  <2>4. ASSUME NEW i \in DOMAIN q, NEW k \in DOMAIN q, i < k PROVE q[i].shot < q[k].shot
    <3>1. i # id
      BY <1>4, <1>5, <2>1, <2>2, <2>4
    <3>2. CASE k = id
      BY <1>3, <1>5, <2>1, <3>1, <3>2
    <3>3. CASE k # id
      BY <1>2, <1>5, <2>4, <3>1, <3>3 DEF Ordered, InOrder
    <3> QED BY <3>2, <3>3
  <2> QED BY <2>3, <2>4 DEF InOrder
<1>8. total = Bytes(work.rows) /\ count = Cardinality(DOMAIN work.rows)
      /\ motionCount = Cardinality(MotionRows(work.rows))
      /\ total \in Nat /\ count \in Nat /\ motionCount \in Nat
  BY <1>1, <1>2 DEF Counted, CountersExact
<1>9. doomed' = Victims(q, work.stage, Bytes(q))
  BY <1>1, <1>5, <1>8
<1>10. doomed' \in SUBSET DOMAIN q /\ Bytes(Without(q, doomed')) <= MaxBytes
  BY <1>5, <1>7, <1>9, VictimsFit
<1>11. Shapes'
  BY <1>1, <1>2, <1>6 DEF Shapes
<1>12. Ordered'
  <2>1. InOrder(work'.rows)
    BY <1>6, <1>7
  <2> QED BY <1>1, <1>2, <2>1 DEF Ordered, InOrder
<1>13. Phases'
  BY <1>1, <1>3, <1>6, <1>10 DEF Phases
<1>14. Counted'
  <2>1. total' = Bytes(work'.rows) /\ count' = Cardinality(DOMAIN work'.rows)
        /\ motionCount' = Cardinality(MotionRows(work'.rows))
    BY <1>1, <1>5, <1>6, <1>8
  <2>2. total' \in Nat /\ count' \in Nat /\ motionCount' \in Nat
    BY <1>1, <1>3, <1>8
  <2> QED BY <2>1, <2>2 DEF Counted, CountersExact
<1>15. Marked'
  BY <1>1, <1>2, <1>3, <1>6 DEF Marked
<1>16. Capped'
  BY <1>1, <1>2, <1>6, <1>10 DEF Capped
<1>17. Attached'
  <2>1. VerdictsHeld(work)'
    BY <1>2, <1>5, <1>6 DEF Attached, VerdictsHeld
  <2>2. world.faults \subseteq {"write"} => files = FilesOf(q)
    BY <1>1, <1>2, <1>5 DEF Attached
  <2>3. FilesOf(work'.rows) = FilesOf(q)
    BY <1>6
  <2> QED BY <1>1, <1>2, <2>1, <2>2, <2>3 DEF Attached, VerdictsHeld
<1>18. Foremost'
  <2>1. \A i \in doomed', k \in DOMAIN q : Before(q, work.stage, k, i) => k \in doomed'
    BY <1>5, <1>9, VictimsForemost
  <2> QED BY <1>6, <2>1 DEF Foremost
<1>19. Underway'
  <2>1. AddsTo(id)'
    BY <1>1, <1>3, <1>4, <1>5, <1>6 DEF AddsTo
  <2> QED BY <1>1, <1>4, <2>1 DEF Underway
<1> QED BY <1>11, <1>12, <1>13, <1>14, <1>15, <1>16, <1>17, <1>18, <1>19 DEF IInv

(* One victim goes: of an eviction or of a purge.                           *)
LEMMA DeletedFacts ==
    ASSUME IInv, NEW j \in doomed, phase \in {"evicting", "purging"}, DeleteFrame(j),
           db' = db, durable' = durable, shots' = shots, phase' = phase, incoming' = incoming,
           doomed' = doomed \ {j}, frontier' = frontier, world' = world,
           tickets' = tickets, candidates' = candidates
    PROVE  /\ j \in DOMAIN work.rows /\ work'.rows = Without(work.rows, {j})
           /\ DOMAIN work'.rows = DOMAIN work.rows \ {j}
           /\ \A i \in DOMAIN work'.rows : work'.rows[i] = work.rows[i]
           /\ work'.frontier = work.frontier /\ work'.stage = work.stage
           /\ work.stripped \subseteq work'.stripped
           /\ phase = "purging" => work'.stripped = work.stripped
           /\ Shapes' /\ Ordered' /\ Phases' /\ Counted' /\ Attached'
<1>1. Shapes /\ Ordered /\ Phases /\ Counted /\ Attached
  BY DEF IInv
<1>2. j \in DOMAIN work.rows /\ work.rows \in Rows /\ work \in Base
  BY <1>1, StateFacts DEF Phases
<1> DEFINE q == Without(work.rows, {j})
           V == {v \in work.verdicts : v.id # j}
           T == IF work.rows[j].motion \/ KeepsAll(work.stage) \/ phase # "evicting"
                THEN work.stripped ELSE work.stripped \cup {j}
<1>3. /\ files' = files \ {work.rows[j].shot}
      /\ work' = [work EXCEPT !.rows = q, !.verdicts = V, !.stripped = T]
      /\ total' = total - work.rows[j].bytes /\ count' = count - 1
      /\ motionCount' = motionCount - (IF work.rows[j].motion THEN 1 ELSE 0)
  BY DEF DeleteFrame
<1>4. /\ q \in Rows /\ DOMAIN q = DOMAIN work.rows \ {j} /\ \A i \in DOMAIN q : q[i] = work.rows[i]
      /\ Bytes(q) = Bytes(work.rows) - work.rows[j].bytes /\ Bytes(q) \in Nat
      /\ Cardinality(DOMAIN q) = Cardinality(DOMAIN work.rows) - 1 /\ Cardinality(DOMAIN q) \in Nat
      /\ Cardinality(MotionRows(q))
            = Cardinality(MotionRows(work.rows)) - (IF work.rows[j].motion THEN 1 ELSE 0)
      /\ Cardinality(MotionRows(q)) \in Nat
  BY <1>2, RemovedRow
<1>5. V \in SUBSET Ticket /\ T \in SUBSET Ids /\ work.stripped \subseteq T
      /\ (phase = "purging" => T = work.stripped)
  BY <1>2, StateFacts
<1> HIDE DEF q, V, T
<1>6. /\ work' \in Base /\ work'.rows = q /\ work'.verdicts = V /\ work'.stripped = T
      /\ work'.frontier = work.frontier /\ work'.stage = work.stage
  BY <1>2, <1>3, <1>4, <1>5 DEF Base, Rows
<1>7. Shapes'
  BY <1>1, <1>3, <1>6 DEF Shapes
<1>8. Ordered'
  <2>1. InOrder(work'.rows)
    BY <1>1, <1>4, <1>6 DEF Ordered, InOrder
  <2> QED BY <1>1, <2>1 DEF Ordered, InOrder
<1>9. Phases'
  BY <1>1, <1>4, <1>6 DEF Phases
<1>10. Counted'
  <2>1. total = Bytes(work.rows) /\ count = Cardinality(DOMAIN work.rows)
        /\ motionCount = Cardinality(MotionRows(work.rows))
    BY <1>1 DEF Counted, CountersExact
  <2>2. total' = Bytes(q) /\ count' = Cardinality(DOMAIN q)
        /\ motionCount' = Cardinality(MotionRows(q))
    BY <1>3, <1>4, <2>1
  <2>3. total' = Bytes(work'.rows) /\ count' = Cardinality(DOMAIN work'.rows)
        /\ motionCount' = Cardinality(MotionRows(work'.rows))
    BY <1>6, <2>2
  <2> QED BY <1>4, <2>2, <2>3 DEF Counted, CountersExact
<1>11. Attached'
  <2>1. VerdictsHeld(work)'
    BY <1>1, <1>4, <1>6 DEF Attached, VerdictsHeld, V
  <2>2. \A i \in DOMAIN q : q[i].shot # work.rows[j].shot
    <3>1. \A i \in DOMAIN work.rows : i \in Nat /\ work.rows[i].shot \in Nat
      BY StateFacts
    <3>2. \A i, k \in DOMAIN work.rows : i < k => work.rows[i].shot < work.rows[k].shot
      BY <1>1 DEF Ordered, InOrder
    <3> QED BY <1>2, <1>4, <3>1, <3>2
  <2>3. FilesOf(q) = FilesOf(work.rows) \ {work.rows[j].shot}
    BY <1>2, <1>4, <2>2 DEF FilesOf
  <2>4. FilesOf(work'.rows) = FilesOf(q)
    BY <1>6
  <2>5. world.faults \subseteq {"write"} => files' = FilesOf(work'.rows)
    BY <1>1, <1>3, <2>3, <2>4 DEF Attached
  <2> QED BY <1>1, <2>1, <2>5 DEF Attached, VerdictsHeld
<1> QED BY <1>2, <1>4, <1>5, <1>6, <1>7, <1>8, <1>9, <1>10, <1>11 DEF q

LEMMA EvictOneStep ==
    ASSUME IInv, NEW j \in Ids, EvictOne(j)
    PROVE  IInv'
<1>1. /\ phase = "evicting" /\ j \in doomed /\ doomed' = doomed \ {j}
      /\ DeleteFrame(j)
      /\ db' = db /\ durable' = durable /\ frontier' = frontier /\ phase' = phase
      /\ incoming' = incoming /\ shots' = shots
      /\ tickets' = tickets /\ candidates' = candidates /\ world' = world
  BY DEF EvictOne, outside
<1>2. /\ j \in DOMAIN work.rows /\ work'.rows = Without(work.rows, {j})
      /\ DOMAIN work'.rows = DOMAIN work.rows \ {j}
      /\ \A i \in DOMAIN work'.rows : work'.rows[i] = work.rows[i]
      /\ work'.frontier = work.frontier /\ work'.stage = work.stage
      /\ work.stripped \subseteq work'.stripped
      /\ Shapes' /\ Ordered' /\ Phases' /\ Counted' /\ Attached'
  BY <1>1, DeletedFacts
<1>3. Phases /\ Marked /\ Capped /\ Foremost /\ Underway
  BY DEF IInv
<1>4. Marked'
  BY <1>1, <1>2, <1>3 DEF Marked
<1>5. Capped'
  <2>1. Without(work'.rows, doomed') = Without(work.rows, doomed)
    <3>1. DOMAIN work'.rows \ doomed' = DOMAIN work.rows \ doomed
      BY <1>1, <1>2
    <3> QED BY <1>2, <3>1 DEF Without
  <2>2. Bytes(Without(work'.rows, doomed')) = Bytes(Without(work.rows, doomed))
    BY <2>1
  <2> QED BY <1>1, <1>3, <2>2 DEF Capped
<1>6. Foremost'
  <2>1. ASSUME NEW i \in doomed', NEW k \in DOMAIN work'.rows, Before(work'.rows, work'.stage, k, i)
        PROVE  k \in doomed'
    <3>1. /\ i \in doomed /\ i \in DOMAIN work'.rows /\ k \in DOMAIN work.rows /\ k # j
      BY <1>1, <1>2, <1>3, <2>1 DEF Phases
    <3>2. work'.rows[i] = work.rows[i] /\ work'.rows[k] = work.rows[k] /\ work'.stage = work.stage
      BY <1>2, <2>1, <3>1
    <3>3. Before(work.rows, work.stage, k, i)
      BY <2>1, <3>2 DEF Before
    <3> QED BY <1>1, <1>3, <3>1, <3>3 DEF Foremost
  <2> QED BY <2>1 DEF Foremost
<1>7. Underway'
  <2>1. PICK id \in Ids : AddsTo(id)
    BY <1>1, <1>3 DEF Underway
  <2>2. AddsTo(id)'
    BY <1>1, <1>2, <2>1 DEF AddsTo
  <2> QED BY <1>1, <2>2 DEF Underway
<1> QED BY <1>2, <1>4, <1>5, <1>6, <1>7 DEF IInv

LEMMA PurgeOneStep ==
    ASSUME IInv, NEW j \in Ids, PurgeOne(j)
    PROVE  IInv'
<1>1. /\ phase = "purging" /\ j \in doomed /\ doomed' = doomed \ {j}
      /\ DeleteFrame(j)
      /\ db' = db /\ durable' = durable /\ frontier' = frontier /\ phase' = phase
      /\ incoming' = incoming /\ shots' = shots
      /\ tickets' = tickets /\ candidates' = candidates /\ world' = world
  BY DEF PurgeOne, outside
<1>2. /\ j \in DOMAIN work.rows /\ work'.rows = Without(work.rows, {j})
      /\ DOMAIN work'.rows = DOMAIN work.rows \ {j}
      /\ \A i \in DOMAIN work'.rows : work'.rows[i] = work.rows[i]
      /\ work'.frontier = work.frontier /\ work'.stripped = work.stripped
      /\ Shapes' /\ Ordered' /\ Phases' /\ Counted' /\ Attached'
  BY <1>1, DeletedFacts
<1>3. Phases /\ Marked /\ Capped /\ Underway
  BY DEF IInv
<1>4. Marked'
  BY <1>1, <1>2, <1>3 DEF Marked
<1>5. Capped'
  <2>1. work.rows \in Rows /\ work'.rows \in Rows
    <3>1. work.rows \in Rows
      BY StateFacts
    <3> QED BY <1>2, <3>1, BytesFacts
  <2>2. Bytes(work'.rows) <= Bytes(work.rows)
    BY <1>2, <2>1, PartWeighsLess
  <2>3. Bytes(work'.rows) \in Nat /\ Bytes(work.rows) \in Nat
    BY <2>1, BytesFacts
  <2>4. Bytes(work'.rows) <= MaxBytes
    BY <1>1, <1>3, <2>2, <2>3, Bounds DEF Capped
  <2> QED BY <1>1, <1>3, <2>4 DEF Capped
<1>6. Foremost'
  BY <1>1 DEF Foremost
<1>7. Underway'
  <2>1. /\ DOMAIN work.rows \subseteq DOMAIN db.rows
        /\ \A i \in DOMAIN work.rows : work.rows[i] = db.rows[i]
        /\ \A i \in DOMAIN db.rows \ DOMAIN work.rows : ~db.rows[i].motion
        /\ ~work.rows[j].motion
    BY <1>1, <1>3 DEF Underway, Phases
  <2> QED BY <1>1, <1>2, <2>1 DEF Underway
<1> QED BY <1>2, <1>4, <1>5, <1>6, <1>7 DEF IInv

(* The marker is the last id the preferential path ever dropped.            *)
LEMMA MarkFrontierStep == IInv /\ MarkFrontier => IInv'
<1> SUFFICES ASSUME IInv, MarkFrontier PROVE IInv'
  OBVIOUS
<1> DEFINE lost == work.stripped \ db.stripped
           mark == LastOf(lost)
<1>1. /\ phase = "evicting" /\ doomed = {} /\ phase' = "marked"
      /\ IF mark > frontier
         THEN frontier' = mark /\ work' = [work EXCEPT !.frontier = mark]
         ELSE frontier' = frontier /\ work' = work
      /\ db' = db /\ durable' = durable /\ files' = files /\ incoming' = incoming
      /\ doomed' = doomed /\ shots' = shots
      /\ total' = total /\ count' = count /\ motionCount' = motionCount
      /\ tickets' = tickets /\ candidates' = candidates /\ world' = world
  BY DEF MarkFrontier, counters, outside, LastOf
<1>2. Shapes /\ Ordered /\ Phases /\ Counted /\ Marked /\ Capped /\ Attached /\ Underway
  BY DEF IInv
<1>3. /\ work.stripped \in SUBSET Ids /\ db.stripped \subseteq work.stripped
      /\ frontier = LastOf(db.stripped) /\ work.frontier = frontier /\ lost \in SUBSET Ids
  BY <1>1, <1>2, StateFacts DEF Marked
<1>4. \A S \in SUBSET Ids : /\ LastOf(S) \in 0..MaxShots /\ LastOf(S) \in Nat
                            /\ \A i \in S : i <= LastOf(S) /\ i \in Nat /\ i > 0
                            /\ S # {} => LastOf(S) \in S
                            /\ S = {} => LastOf(S) = 0
  <2>1. \A S \in SUBSET Ids : /\ LastOf(S) \in 0..MaxShots
                              /\ \A i \in S : i <= LastOf(S)
                              /\ S # {} => LastOf(S) \in S
                              /\ S = {} => LastOf(S) = 0
    BY Bounds, LastFacts DEF Ids, LastOf
  <2> QED BY <2>1, Bounds DEF Ids
<1> HIDE DEF mark, lost
<1>5. mark \in 0..MaxShots /\ mark \in Nat /\ frontier \in Nat
  BY <1>3, <1>4 DEF mark, Marked
<1>6. /\ work' \in Base /\ work'.rows = work.rows /\ work'.verdicts = work.verdicts
      /\ work'.stage = work.stage /\ work'.stripped = work.stripped
      /\ work'.frontier = frontier' /\ frontier' \in 0..MaxShots
      /\ frontier' = IF mark > frontier THEN mark ELSE frontier
  <2>1. work \in Base /\ frontier \in 0..MaxShots
    BY <1>2 DEF Shapes
  <2>2. frontier' = IF mark > frontier THEN mark ELSE frontier
    BY <1>1
  <2>3. CASE mark > frontier
    <3>1. work' = [work EXCEPT !.frontier = mark]
      BY <1>1, <2>3
    <3>2. work' \in Base /\ work'.rows = work.rows /\ work'.verdicts = work.verdicts
          /\ work'.stage = work.stage /\ work'.stripped = work.stripped /\ work'.frontier = mark
      BY <1>5, <2>1, <3>1, BaseWritten
    <3> QED BY <1>5, <2>2, <2>3, <3>2
  <2>4. CASE ~(mark > frontier)
    <3>1. work' = work
      BY <1>1, <2>4
    <3> QED BY <1>3, <2>1, <2>2, <2>4, <3>1
  <2> QED BY <2>3, <2>4
<1>7. frontier' = LastOf(work.stripped)
  <2> DEFINE last == LastOf(work.stripped)
  <2>1. \A i \in work.stripped : i <= last /\ i \in Nat
    BY <1>3, <1>4
  <2>2. last \in Nat /\ (work.stripped # {} => last \in work.stripped)
        /\ (work.stripped = {} => last = 0)
    BY <1>3, <1>4
  <2>3. /\ \A i \in lost : i <= mark
        /\ lost # {} => mark \in work.stripped
        /\ lost = {} => mark = 0
    BY <1>3, <1>4 DEF mark, lost
  <2>4. /\ \A i \in db.stripped : i <= frontier
        /\ db.stripped # {} => frontier \in work.stripped
        /\ db.stripped = {} => frontier = 0
    <3>1. db.stripped \in SUBSET Ids
      BY <1>3
    <3> QED BY <1>3, <1>4, <3>1
  <2> HIDE DEF last
  <2>5. \A i \in work.stripped : i \in lost \/ i \in db.stripped
    BY DEF lost
  <2>6. last <= frontier'
    <3>1. CASE work.stripped = {}
      BY <1>5, <1>6, <2>2, <3>1
    <3>2. CASE work.stripped # {}
      BY <1>5, <1>6, <2>2, <2>3, <2>4, <2>5, <3>2
    <3> QED BY <3>1, <3>2
  <2>7. frontier' <= last
    <3>1. mark <= last
      BY <1>5, <2>1, <2>2, <2>3
    <3>2. frontier <= last
      BY <1>5, <2>1, <2>2, <2>4
    <3> QED BY <1>5, <1>6, <2>2, <3>1, <3>2
  <2>8. frontier' = last
    BY <1>5, <1>6, <2>2, <2>6, <2>7
  <2> QED BY <2>8 DEF last
<1>8. Shapes'
  BY <1>1, <1>2, <1>6 DEF Shapes
<1>9. Ordered'
  BY <1>1, <1>2, <1>6 DEF Ordered, InOrder
<1>10. Phases'
  BY <1>1, <1>2, <1>6 DEF Phases
<1>11. Counted'
  <2>1. total = Bytes(work'.rows) /\ count = Cardinality(DOMAIN work'.rows)
        /\ motionCount = Cardinality(MotionRows(work'.rows))
    BY <1>1, <1>2, <1>6 DEF Counted, CountersExact
  <2> QED BY <1>1, <1>2, <2>1 DEF Counted, CountersExact
<1>12. Marked'
  BY <1>1, <1>2, <1>6, <1>7 DEF Marked
<1>13. Capped'
  <2>1. Without(work.rows, doomed) = work.rows
    <3>1. work.rows \in [DOMAIN work.rows -> Frame] /\ DOMAIN work.rows \ doomed = DOMAIN work.rows
      BY <1>1, RowsFacts, StateFacts
    <3> QED BY <3>1 DEF Without
  <2>2. Bytes(work.rows) <= MaxBytes
    BY <1>1, <1>2, <2>1 DEF Capped
  <2>3. Bytes(work'.rows) <= MaxBytes
    BY <1>6, <2>2
  <2> QED BY <1>1, <1>2, <2>3 DEF Capped
<1>14. Attached'
  <2>1. FilesOf(work'.rows) = FilesOf(work.rows)
    BY <1>6
  <2> QED BY <1>1, <1>2, <1>6, <2>1 DEF Attached, VerdictsHeld
<1>15. Foremost'
  BY <1>1 DEF Foremost
<1>16. Underway'
  <2>1. PICK id \in Ids : AddsTo(id)
    BY <1>1, <1>2 DEF Underway
  <2>2. AddsTo(id)'
    BY <1>1, <1>6, <2>1 DEF AddsTo
  <2> QED BY <1>1, <2>2 DEF Underway
<1> QED BY <1>8, <1>9, <1>10, <1>11, <1>12, <1>13, <1>14, <1>15, <1>16 DEF IInv

LEMMA CommitStep == IInv /\ Commit => IInv'
<1> SUFFICES ASSUME IInv, Commit PROVE IInv'
  OBVIOUS
<1>1. /\ phase = "marked" \/ (phase = "purging" /\ doomed = {})
      /\ work' = work /\ db' = work /\ durable' = durable /\ files' = files
      /\ phase' = "idle" /\ incoming' = NoFrame /\ doomed' = {} /\ frontier' = frontier
      /\ total' = total /\ count' = count /\ motionCount' = motionCount
      /\ shots' = shots /\ tickets' = tickets /\ candidates' = candidates /\ world' = world
  BY DEF Commit, Release, counters, outside
<1>2. Shapes /\ Ordered /\ Phases /\ Counted /\ Marked /\ Capped /\ Attached
  BY DEF IInv
<1>3. work.frontier = LastOf(work.stripped) /\ frontier = work.frontier
  BY <1>1, <1>2 DEF Marked
<1>4. Settles(work)
  BY <1>1, <1>2, <1>3 DEF Settles, Shapes, Ordered, Attached, Capped
<1>5. Counted'
  BY <1>1, <1>2 DEF Counted, CountersExact
<1>6. world.faults \subseteq {"write"} => files' = FilesOf(work.rows)
  BY <1>1, <1>2 DEF Attached
<1> QED BY <1>1, <1>2, <1>3, <1>4, <1>5, <1>6, SettledStep DEF Shapes

LEMMA InvStep == IInv /\ [Next]_vars => IInv'
<1> SUFFICES ASSUME IInv, [Next]_vars PROVE IInv'
  OBVIOUS
<1>1. CASE UNCHANGED vars
  <2>1. Shapes
    BY DEF IInv
  <2>2. UNCHANGED counters /\ UNCHANGED lock
    BY <1>1 DEF vars, counters, lock
  <2> QED BY <1>1, <2>1, <2>2, QuietStep DEF vars, Shapes
<1>2. CASE Adding
  BY <1>2, AddWriteStep, AddInsertStep, MarkFrontierStep, CommitStep, EvictOneStep DEF Adding
<1>3. CASE Purging
  BY <1>3, PurgeStartStep, PurgeOneStep DEF Purging
<1>4. CASE Clearing
  BY <1>4, ClearStartStep, ClearUnlinkStep, ClearCommitStep DEF Clearing
<1>5. CASE Sweeping
  BY <1>5, ReadStep, WriteVerdictStep DEF Sweeping
<1>6. CASE OrphanSweep
  BY <1>6, WalkFileStep, DeleteOrphansStep DEF OrphanSweep
<1>7. CASE Trouble
  BY <1>7, FailStep, DieStep, CheckpointStep, RestartStep DEF Trouble
<1>8. CASE \E s \in Stages : SetStage(s)
  BY <1>8, SetStageStep
<1> QED BY <1>1, <1>2, <1>3, <1>4, <1>5, <1>6, <1>7, <1>8 DEF Next

LEMMA Invariant == Spec => []IInv
BY InvInit, InvStep, PTL DEF Spec

(* Every variable of the store keeps its type: ids stay within the number   *)
(* of frames that arrived although SQLite gives them again, counters never  *)
(* go below zero, and what is doomed is a set of rows that exist.           *)
THEOREM TypeCorrect == Spec => []TypeOK
<1>1. IInv => TypeOK
  <2> SUFFICES ASSUME IInv PROVE TypeOK
    OBVIOUS
  <2>1. Shapes /\ Counted /\ Phases
    BY DEF IInv
  <2>2. doomed \in SUBSET Ids
    BY <2>1, StateFacts DEF Phases
  <2> QED BY <2>1, <2>2 DEF TypeOK, Shapes, Counted
<1> QED BY <1>1, Invariant, PTL

(* The counters and the frontier in memory are what the database holds and  *)
(* what a restart would load, through every interleaving of adds, failures, *)
(* purges, clears and crashes.                                              *)
THEOREM MirrorsStayExact == Spec => []MirrorsExact
<1>1. IInv => MirrorsExact
  <2> SUFFICES ASSUME IInv PROVE MirrorsExact
    OBVIOUS
  <2>1. Counted /\ Marked
    BY DEF IInv
  <2> QED BY <2>1 DEF Counted, Marked, MirrorsExact, FrontierCovers, LastOf
<1> QED BY <1>1, Invariant, PTL

(* At rest the committed frames weigh at most max_bytes, for every cap,     *)
(* every mixture of sizes and every stage: a frame too big to keep evicts   *)
(* itself.                                                                  *)
THEOREM StaysUnderCap == Spec => []UnderCap
<1>1. IInv => UnderCap
  BY DEF IInv, Capped, UnderCap
<1> QED BY <1>1, Invariant, PTL

(* No verdict outlives its frame; and where nothing fails once a file has   *)
(* been unlinked, files and rows are in one-to-one correspondence at rest.  *)
THEOREM RowsFilesVerdictsAgree == Spec => []NothingOutlivesItsRow
<1>1. IInv => NothingOutlivesItsRow
  <2> SUFFICES ASSUME IInv PROVE NothingOutlivesItsRow
    OBVIOUS
  <2>1. Attached /\ Phases
    BY DEF IInv
  <2> QED BY <2>1 DEF Attached, Phases, VerdictsHeld, NothingOutlivesItsRow
<1> QED BY <1>1, Invariant, PTL

-----------------------------------------------------------------------------
(* The action property and the refinement.                                  *)
VictimIsForemost ==
    phase = "evicting" /\ phase' = "evicting" =>
        \A i \in DOMAIN work.rows \ DOMAIN work'.rows :
            IF KeepsAll(work.stage)
            THEN \A k \in DOMAIN work.rows : i <= k
            ELSE work.rows[i].motion => MotionRows(work.rows) = DOMAIN work.rows

LEMMA EvictsForemost ==
    ASSUME IInv, NEW j \in Ids, EvictOne(j)
    PROVE  VictimIsForemost
<1>1. /\ phase = "evicting" /\ j \in doomed /\ work'.rows = Without(work.rows, {j})
      /\ \A k \in doomed \ {j} : Before(work.rows, work.stage, j, k)
  <2>1. DeleteFrame(j) /\ db' = db /\ durable' = durable /\ shots' = shots /\ phase' = phase
        /\ incoming' = incoming /\ doomed' = doomed \ {j} /\ frontier' = frontier
        /\ world' = world /\ tickets' = tickets /\ candidates' = candidates
        /\ phase = "evicting" /\ j \in doomed
        /\ \A k \in doomed \ {j} : Before(work.rows, work.stage, j, k)
    BY DEF EvictOne, outside
  <2> QED BY <2>1, DeletedFacts
<1>2. Foremost /\ Phases
  BY DEF IInv
<1>3. DOMAIN work.rows \ DOMAIN work'.rows = {j} /\ j \in DOMAIN work.rows
  BY <1>1, <1>2 DEF Without, Phases
<1>4. \A k \in DOMAIN work.rows : /\ k \in Nat /\ work.rows[k].motion \in BOOLEAN
                                  /\ work.rows[k].shot \in Nat
  BY StateFacts
<1>5. \A k \in DOMAIN work.rows : ~(k # j /\ Before(work.rows, work.stage, k, j)
                                         /\ ~Before(work.rows, work.stage, j, k))
  BY <1>1, <1>2, <1>3 DEF Foremost
<1>6. CASE KeepsAll(work.stage)
  <2>1. \A k \in DOMAIN work.rows : j <= k
    BY <1>3, <1>4, <1>5, <1>6 DEF Before
  <2> QED BY <1>3, <1>6, <2>1 DEF VictimIsForemost
<1>7. CASE ~KeepsAll(work.stage)
  <2> SUFFICES ASSUME work.rows[j].motion PROVE MotionRows(work.rows) = DOMAIN work.rows
    BY <1>3, <1>7 DEF VictimIsForemost
  <2> HIDE DEF KeepsAll
  <2>1. ASSUME NEW k \in DOMAIN work.rows, ~work.rows[k].motion PROVE FALSE
    <3>1. k # j
      BY <2>1
    <3>2. Before(work.rows, work.stage, k, j)
      BY <1>3, <1>4, <1>7, <2>1 DEF Before
    <3>3. ~Before(work.rows, work.stage, j, k)
      BY <1>3, <1>4, <1>7, <2>1 DEF Before
    <3> QED BY <1>5, <3>1, <3>2, <3>3
  <2> QED BY <1>4, <2>1 DEF MotionRows
<1> QED BY <1>6, <1>7

LEMMA EvictionSteps ==
    ASSUME IInv, [Next]_vars
    PROVE  VictimIsForemost
<1>1. CASE \E j \in Ids : EvictOne(j)
  BY <1>1, EvictsForemost
<1>2. CASE work' = work
  BY <1>2 DEF VictimIsForemost
<1>3. CASE ~(phase = "evicting" /\ phase' = "evicting")
  BY <1>3 DEF VictimIsForemost
<1>4. UNCHANGED vars => work' = work
  BY DEF vars
<1>5. Adding => \/ \E j \in Ids : EvictOne(j)
                \/ ~(phase = "evicting" /\ phase' = "evicting")
  BY DEF Adding, AddWrite, AddInsert, MarkFrontier, Commit, Release
<1>6. (Purging \/ Clearing \/ Sweeping) =>
          \/ work' = work \/ ~(phase = "evicting" /\ phase' = "evicting")
  BY DEF Purging, Clearing, Sweeping, PurgeStart, PurgeOne, ClearStart, ClearCommit, ClearUnlink,
         Read, WriteVerdict
<1>7. (OrphanSweep \/ Trouble) =>
          \/ work' = work \/ ~(phase = "evicting" /\ phase' = "evicting")
  BY DEF OrphanSweep, Trouble, DeleteOrphans, WalkFile, WriteFails, CommitFails, Crash, PowerCut,
         Die, Checkpoint, Restart, Release, base
<1>8. (\E s \in Stages : SetStage(s)) => ~(phase = "evicting" /\ phase' = "evicting")
  BY DEF SetStage
<1> QED BY <1>1, <1>2, <1>3, <1>4, <1>5, <1>6, <1>7, <1>8 DEF Next

(* Whatever has arrived, a frame with motion is evicted outside tuning only *)
(* when no other kind is left, and in tuning the oldest row is the one that *)
(* goes.                                                                    *)
THEOREM EvictsInOrder == Spec => VictimOrder
<1>1. IInv /\ [Next]_vars => [VictimIsForemost]_vars
  BY EvictionSteps
<1>2. Spec => [][VictimIsForemost]_vars
  BY <1>1, Invariant, PTL DEF Spec
<1> QED BY <1>2 DEF VictimOrder, VictimIsForemost

(* Steps of the index.                                                      *)
LEMMA SameEmpty == Empty = Index!Empty
BY DEF Empty, Index!Empty

LEMMA Indexed ==
    /\ (UNCHANGED <<db, durable>>) => UNCHANGED Index!vars
    /\ \A id \in Ids, f \in Frame : Index!Add(id, f) => Index!Next
    /\ Index!Purge => Index!Next
    /\ Index!Clear => Index!Next
    /\ Index!Save => Index!Next
    /\ Index!Lose => Index!Next
BY DEF Index!Next, Index!vars

LEMMA CommitImplements ==
    ASSUME IInv, Commit
    PROVE  Index!Next
<1>1. db' = work /\ durable' = durable
  BY DEF Commit
<1>2. Phases /\ Underway
  BY DEF IInv
<1>3. work.rows \in [DOMAIN work.rows -> Frame] /\ DOMAIN work.rows \in SUBSET Ids
      /\ DOMAIN db.rows \subseteq Ids
  BY RowsFacts, StateFacts
<1>4. CASE phase = "marked"
  <2>1. PICK id \in Ids : AddsTo(id)
    BY <1>2, <1>4 DEF Underway
  <2>2. incoming \in Frame
    BY <1>2, <1>4 DEF Phases
  <2> DEFINE w == Index!With(db.rows, id, incoming)
  <2>3. DOMAIN w = DOMAIN db.rows \cup {id}
        /\ \A i \in DOMAIN w : w[i] = IF i = id THEN incoming ELSE db.rows[i]
    BY DEF Index!With
  <2> HIDE DEF w
  <2>4. work.rows = Index!Keep(w, DOMAIN work.rows)
    <3>1. DOMAIN w \cap DOMAIN work.rows = DOMAIN work.rows
      BY <2>1, <2>3 DEF AddsTo
    <3>2. \A i \in DOMAIN work.rows : work.rows[i] = w[i]
      BY <2>1, <2>3 DEF AddsTo
    <3> QED BY <1>3, <3>1, <3>2 DEF Index!Keep
  <2>5. Index!Add(id, incoming)
    <3>1. id \notin DOMAIN db.rows
      BY <2>1 DEF AddsTo
    <3>2. db'.rows = Index!Keep(w, DOMAIN work.rows) /\ durable'.rows = durable.rows
      BY <1>1, <2>4
    <3> QED BY <1>3, <3>1, <3>2 DEF Index!Add, w
  <2> QED BY <2>2, <2>5, Indexed
<1>5. CASE phase = "purging"
  <2>1. /\ DOMAIN work.rows \subseteq DOMAIN db.rows
        /\ \A i \in DOMAIN work.rows : work.rows[i] = db.rows[i]
        /\ \A i \in DOMAIN db.rows \ DOMAIN work.rows : ~db.rows[i].motion
    BY <1>2, <1>5 DEF Underway
  <2>2. work.rows = Index!Keep(db.rows, DOMAIN work.rows)
    <3>1. DOMAIN db.rows \cap DOMAIN work.rows = DOMAIN work.rows
      BY <2>1
    <3> QED BY <1>3, <2>1, <3>1 DEF Index!Keep
  <2>3. db'.rows = Index!Keep(db.rows, DOMAIN work.rows) /\ durable'.rows = durable.rows
    BY <1>1, <2>2
  <2>4. Index!Purge
    BY <1>3, <2>1, <2>3 DEF Index!Purge
  <2> QED BY <2>4, Indexed
<1> QED BY <1>4, <1>5 DEF Commit

LEMMA IndexStep ==
    ASSUME IInv, [Next]_vars
    PROVE  [Index!Next]_(Index!vars)
<1>1. CASE UNCHANGED <<db, durable>>
  BY <1>1, Indexed
<1>2. CASE Commit
  BY <1>2, CommitImplements
<1>3. CASE ClearCommit
  <2>1. db' = [Fresh EXCEPT !.stage = work.stage] /\ durable' = durable
    BY <1>3 DEF ClearCommit
  <2>2. db'.rows = Empty
    BY <2>1 DEF Fresh
  <2>3. Index!Clear
    BY <2>1, <2>2, SameEmpty DEF Index!Clear
  <2> QED BY <2>3, Indexed
<1>4. CASE Checkpoint \/ Crash
  <2>1. db' = db /\ durable' = db
    BY <1>4 DEF Checkpoint, Crash, Die
  <2>2. Index!Save
    BY <2>1 DEF Index!Save
  <2> QED BY <2>2, Indexed
<1>5. CASE PowerCut
  <2>1. db' = durable /\ durable' = durable
    BY <1>5 DEF PowerCut, Die
  <2>2. Index!Lose
    BY <2>1 DEF Index!Lose
  <2> QED BY <2>2, Indexed
<1>6. CASE Sweeping \/ \E s \in Stages : SetStage(s)
  <2>1. db'.rows = db.rows /\ durable' = durable
    <3>1. Shapes /\ Phases
      BY DEF IInv
    <3>2. phase = "idle" => work = db /\ work \in Base
      BY <3>1 DEF Phases, Shapes
    <3>3. ASSUME NEW s \in Stages, SetStage(s) PROVE db'.rows = db.rows /\ durable' = durable
      BY <3>2, <3>3, BaseWritten DEF SetStage
    <3>4. ASSUME NEW t \in tickets, WriteVerdict(t) PROVE db'.rows = db.rows /\ durable' = durable
      <4>1. CASE t.id \notin DOMAIN work.rows
        BY <3>2, <3>4, <4>1 DEF WriteVerdict
      <4>2. CASE t.id \in DOMAIN work.rows
        <5>1. db' = [work EXCEPT !.verdicts = {v \in work.verdicts : v.id # t.id} \cup {t}]
          BY <3>4, <4>2 DEF WriteVerdict
        <5>2. {v \in work.verdicts : v.id # t.id} \cup {t} \in SUBSET Ticket
          BY <3>1, <3>4, StateFacts DEF Shapes
        <5> QED BY <3>2, <3>4, <5>1, <5>2, BaseWritten DEF WriteVerdict
      <4> QED BY <4>1, <4>2
    <3>5. ASSUME NEW i \in Ids, Read(i) PROVE db'.rows = db.rows /\ durable' = durable
      BY <3>5 DEF Read, base
    <3> QED BY <1>6, <3>3, <3>4, <3>5 DEF Sweeping
  <2>2. UNCHANGED Index!vars
    BY <2>1 DEF Index!vars
  <2> QED BY <2>2
<1>7. UNCHANGED vars => UNCHANGED <<db, durable>>
  BY DEF vars
<1>8. Adding => UNCHANGED <<db, durable>> \/ Commit
  BY DEF Adding, AddWrite, AddInsert, MarkFrontier, EvictOne, base
<1>9. (Purging \/ OrphanSweep) => UNCHANGED <<db, durable>>
  BY DEF Purging, PurgeStart, PurgeOne, OrphanSweep, DeleteOrphans, WalkFile, base
<1>10. Clearing => UNCHANGED <<db, durable>> \/ ClearCommit
  BY DEF Clearing, ClearStart, ClearUnlink, base
<1>11. Trouble => UNCHANGED <<db, durable>> \/ Checkpoint \/ Crash \/ PowerCut
  BY DEF Trouble, WriteFails, CommitFails, Restart, base
<1> QED BY <1>1, <1>2, <1>3, <1>4, <1>5, <1>6, <1>7, <1>8, <1>9, <1>10, <1>11 DEF Next

(* The committed index changes by one whole operation at a time: an add     *)
(* with what it evicts, a purge of frames without motion, a clear, a save,  *)
(* a loss back to the last save; a crashed or failed one is not seen.       *)
THEOREM StoreImplementsFrameIndex == Spec => ImplementsFrameIndex
<1>1. Init => Index!Init
  <2> SUFFICES ASSUME Init PROVE Index!Init
    OBVIOUS
  <2>1. db.rows = Empty /\ durable.rows = Empty
    BY FreshFacts DEF Init
  <2> QED BY <2>1, SameEmpty DEF Index!Init
<1>2. IInv /\ [Next]_vars => [Index!Next]_(Index!vars)
  BY IndexStep
<1>3. Spec => Index!Spec
  BY <1>1, <1>2, Invariant, PTL DEF Spec, Index!Spec
<1> QED BY <1>3 DEF ImplementsFrameIndex
==============================================================================
