------------------------- MODULE LiveIdentify_proofs -------------------------
(***************************************************************************)
(* The naming worker never passes a visit over and never takes one that    *)
(* could still grow, whatever the number of frames, threads, visits a tick *)
(* and faults.  Unlike the oracle worker's, its epoch is not advanced by a *)
(* start: a thread told to stop may still be in a tick beside its          *)
(* successor, and may set the watermark back.  What survives that is a     *)
(* fact about every id that is, or may still become, the watermark or its  *)
(* saved copy (IsMark): everything due up to it is tried, and the least of *)
(* them apart it is a motion frame, which no purge takes.                  *)
(***************************************************************************)
EXTENDS LiveIdentify, WellFoundedInduction, FiniteSetTheorems, TLAPS

(* A nonempty set of naturals has a least element, and a greatest one if it *)
(* is bounded.                                                              *)
LEMMA LeastNatural ==
    ASSUME NEW S, S \subseteq Nat, S # {}
    PROVE  \E m \in S : \A y \in S : m <= y
<1>1. PICK m \in S : \A y \in S : <<y, m>> \notin OpToRel(<, Nat)
  BY NatLessThanWellFounded, WFMin
<1>2. \A y \in S : y \in Nat /\ m \in Nat /\ ~(y < m)
  BY <1>1 DEF OpToRel
<1> QED BY <1>2

LEMMA MinFacts ==
    ASSUME NEW S, S \subseteq Nat, S # {}
    PROVE  Min(S) \in S /\ \A y \in S : Min(S) <= y
BY LeastNatural DEF Min

LEMMA MaxFacts ==
    ASSUME NEW n \in Nat, NEW S, S \subseteq 0..n, S # {}
    PROVE  Max(S) \in S /\ \A y \in S : y <= Max(S)
<1> DEFINE T == {n - y : y \in S}
<1>1. T \subseteq Nat
  BY \A y \in S : n - y \in Nat
<1>2. T # {}
  OBVIOUS
<1>3. PICK m \in T : \A z \in T : m <= z
  <2> HIDE DEF T
  <2> QED BY <1>1, <1>2, LeastNatural
<1>4. PICK x \in S : \A y \in S : n - x <= n - y
  BY <1>3
<1>5. Max(S) \in S /\ \A y \in S : Max(S) >= y
  <2>1. \A y \in S : x >= y
    BY <1>4
  <2> QED BY <2>1 DEF Max
<1> QED BY <1>5

(* The last id of a set of frames numbered from 1.                          *)
LastOf(S) == IF S = {} THEN 0 ELSE Max(S)

LEMMA LastFacts ==
    ASSUME NEW n \in Nat
    PROVE  \A S \in SUBSET (1..n) : /\ LastOf(S) \in 0..n
                                    /\ \A i \in S : i <= LastOf(S)
                                    /\ S # {} => LastOf(S) \in S
<1>1. ASSUME NEW S \in SUBSET (1..n), S # {} PROVE Max(S) \in S /\ \A i \in S : i <= Max(S)
  <2>1. S \subseteq 0..n
    OBVIOUS
  <2> QED BY <1>1, <2>1, MaxFacts
<1>2. \A S \in SUBSET (1..n) : S # {} => LastOf(S) \in 1..n
  BY <1>1 DEF LastOf
<1> QED BY <1>1, <1>2 DEF LastOf

-----------------------------------------------------------------------------

Busy == {"visit", "detecting", "identifying", "done"}
Holding == Busy \cup {"snapped", "saving"}

(* A tick with visits in its hands has taken whole, nonempty ones; a start  *)
(* has a thread to start; a save belongs to the present epoch.              *)
StepsOK ==
    /\ \A w \in Workers :
          /\ tick[w].pc \in Busy => tick[w].spans # {}
          /\ tick[w].pc \notin Busy \cup {"saving"} => tick[w].spans = {}
          /\ {} \notin tick[w].spans
          /\ tick[w].now <= now
    /\ starting.pc # "none" => latest < Threads
    /\ running => latest > 0

TypeInv == TypeOK /\ StepsOK

(* What the properties are claimed for: the newest frames are not purged    *)
(* below the watermark, no clear falls between an advance and its save and  *)
(* no crash into a clear, and a frame is stored with the clock it shows.    *)
Orderly == "purge" \notin Allowed /\ "race" \notin Allowed /\ "late" \notin Allowed

(* Ids are given out one after the other, in the order of their stamps.     *)
Timeline ==
    /\ rows = 1..LastId
    /\ \A i \in rows : at[i] <= now
    /\ \A i, j \in rows : i < j => at[i] <= at[j]

Routes ==
    /\ starting.pc = "none" \/ clearing.pc = "none"
    /\ starting.pc \in {"read", "saved"} => seedHorizon /\ starting.to <= LastId
    /\ starting.pc = "saved" => stored = starting.to
    /\ starting.pc = "seeded" => ~seedHorizon
    /\ clearing.pc \in {"read", "reset"} => clearing.to <= LastId
    /\ clearing.pc = "reset" => ~seedHorizon

(* Before the first start has seeded the watermark no thread has worked.    *)
Unseeded ==
    seedHorizon =>
        /\ watermark = 0 /\ ~running /\ \A w \in Workers : tick[w].pc = "none"
        /\ starting.pc # "saved" => stored = None

EpochsPast ==
    \A w \in Workers : /\ tick[w].epoch <= epoch
                       /\ tick[w].pc = "saving" => tick[w].epoch = epoch

Calm == clearing.pc \in {"none", "reset"}
Held(w) == tick[w].pc \in Holding /\ tick[w].epoch = epoch

Base(x) ==
    \/ ~seedHorizon /\ x = watermark
    \/ stored # None /\ x = stored /\ clearing.pc # "reset"
    \/ clearing.pc = "reset" /\ x = clearing.to
    \/ \E w \in Workers : Held(w) /\ x = tick[w].lo

IsMark(x) == Base(x) \/ \E w \in Workers : Held(w) /\ \E v \in tick[w].spans : x = Max(v)

Tried(i) == i \in named \cup failed

MarksHonest ==
    Calm =>
        /\ \A x \in 0..MaxId : IsMark(x) => x <= LastId
        /\ \A x, y \in 0..MaxId : IsMark(x) /\ IsMark(y) /\ y < x => x \in moving
        /\ \A x \in 0..MaxId : Base(x) => \A i \in due : i <= x => Tried(i)

VisitsWhole(w) ==
    /\ \A v \in tick[w].spans :
          /\ v \subseteq moving
          /\ at[Max(v)] < tick[w].now - Gap
          /\ \A i \in moving : i > Max(v) => at[i] - at[Max(v)] > Gap
    /\ \A u, v \in tick[w].spans : u = v \/ Max(u) < Min(v) \/ Max(v) < Min(u)
    /\ \A v \in tick[w].spans : \A i \in due :
          i <= Max(v) => Tried(i) \/ \E u \in tick[w].spans : i \in u
    /\ tick[w].pc = "identifying" => \A i \in due \cap Visit(w) : i \in seen \cup failed
    /\ tick[w].pc = "done" => \A i \in due \cap Visit(w) : Tried(i)

VisitsHonest == Calm => \A w \in Workers : Held(w) => VisitsWhole(w)

IInv == Timeline /\ Routes /\ Unseeded /\ EpochsPast /\ MarksHonest /\ VisitsHonest

-----------------------------------------------------------------------------
LEMMA LastIdFacts ==
    ASSUME TypeOK
    PROVE  /\ LastId \in 0..MaxId
           /\ \A i \in rows : i <= LastId
           /\ rows # {} => LastId \in rows
<1>1. LastId = LastOf(rows) /\ rows \in SUBSET (1..MaxId)
  BY DEF LastId, LastOf, TypeOK, Ids
<1> QED BY <1>1, LastFacts, BoundsAssumption

LEMMA LastIdFactsNext ==
    ASSUME TypeOK'
    PROVE  /\ LastId' \in 0..MaxId
           /\ \A i \in rows' : i <= LastId'
           /\ rows' # {} => LastId' \in rows'
<1>1. LastId' = LastOf(rows') /\ rows' \in SUBSET (1..MaxId)
  BY DEF LastId, LastOf, TypeOK, Ids
<1> QED BY <1>1, LastFacts, BoundsAssumption

(* First and last frame of a visit.                                         *)
LEMMA Ends ==
    ASSUME NEW v, v \subseteq Ids, v # {}
    PROVE  /\ Min(v) \in v /\ Max(v) \in v
           /\ Min(v) \in Ids /\ Max(v) \in Ids
           /\ \A i \in v : i \in Nat /\ Min(v) <= i /\ i <= Max(v)
<1>1. v \subseteq Nat /\ v \subseteq 0..MaxId /\ MaxId \in Nat
  BY BoundsAssumption DEF Ids
<1>2. Min(v) \in v /\ \A i \in v : Min(v) <= i
  BY <1>1, MinFacts
<1>3. Max(v) \in v /\ \A i \in v : i <= Max(v)
  BY <1>1, MaxFacts
<1> QED BY <1>1, <1>2, <1>3

(* The visit a tick works on is the first of those in its hands.            *)
Foremost(spans) == CHOOSE v \in spans : \A u \in spans : Min(v) <= Min(u)

LEMMA ForemostFacts ==
    ASSUME NEW S, S \subseteq SUBSET Ids, S # {}, {} \notin S
    PROVE  /\ Foremost(S) \in S /\ \A u \in S : Min(Foremost(S)) <= Min(u)
<1> DEFINE M == {Min(v) : v \in S}
<1>1. M \subseteq Nat /\ M # {}
  <2>1. \A v \in S : Min(v) \in Nat
    <3> TAKE v \in S
    <3>1. v \subseteq Ids /\ v # {}
      OBVIOUS
    <3>2. Min(v) \in Ids
      BY <3>1, Ends
    <3> QED BY <3>2 DEF Ids
  <2> QED BY <2>1
<1> HIDE DEF M
<1>2. PICK m \in M : \A y \in M : m <= y
  BY <1>1, LeastNatural
<1>3. PICK v \in S : m = Min(v)
  BY <1>2 DEF M
<1>4. \A u \in S : Min(v) <= Min(u)
  BY <1>2, <1>3 DEF M
<1> QED BY <1>3, <1>4 DEF Foremost

-----------------------------------------------------------------------------
LEMMA TypeInit == Init => TypeInv
<1> SUFFICES ASSUME Init PROVE TypeInv
  OBVIOUS
<1>1. MaxId \in Nat /\ MaxTime \in Nat /\ MaxFaults \in Nat /\ Threads \in Nat
  BY BoundsAssumption, SlicesAssumption
<1>2. Resting \in Ticks /\ Resting.pc = "none" /\ Resting.spans = {} /\ Resting.now = 0
  BY <1>1 DEF Resting, Ticks
<1>3. tick \in [Workers -> Ticks] /\ \A w \in Workers : tick[w] = Resting
  BY <1>2 DEF Init
<1>4. /\ starting \in [pc : {"none", "read", "saved", "seeded"}, to : 0..MaxId]
      /\ clearing \in [pc : {"none", "wiped", "read", "reset"}, to : 0..MaxId]
  BY <1>1 DEF Init, Idle
<1>5. now \in 0..MaxTime /\ watermark \in 0..MaxId /\ epoch \in Nat /\ latest \in 0..Threads
      /\ faults \in 0..MaxFaults /\ at \in [Ids -> 0..MaxTime]
  BY <1>1 DEF Init
<1>6. TypeOK
  BY <1>3, <1>4, <1>5 DEF TypeOK, Init
<1>7. StepsOK
  BY <1>2, <1>3 DEF StepsOK, Busy, Init, Idle
<1> QED BY <1>6, <1>7 DEF TypeInv

(* Thread w goes to the tick t, the others stay.                            *)
TickOK(t) ==
    /\ t.pc \in Busy => t.spans # {}
    /\ t.pc \notin Busy \cup {"saving"} => t.spans = {}
    /\ {} \notin t.spans
    /\ t.now <= now

Moves(w, t) == t \in Ticks /\ TickOK(t) /\ To(w, t)

LEMMA MovesType ==
    ASSUME TypeInv, NEW w \in Workers, NEW t, Moves(w, t), now' = now
    PROVE  /\ tick' \in [Workers -> Ticks]
           /\ \A u \in Workers :
                 /\ tick'[u].pc \in Busy => tick'[u].spans # {}
                 /\ tick'[u].pc \notin Busy \cup {"saving"} => tick'[u].spans = {}
                 /\ {} \notin tick'[u].spans
                 /\ tick'[u].now <= now'
           /\ tick'[w] = t
           /\ \A u \in Workers : u # w => tick'[u] = tick[u]
<1>1. tick \in [Workers -> Ticks] /\ t \in Ticks /\ tick' = [tick EXCEPT ![w] = t]
  BY DEF TypeInv, TypeOK, Moves, To
<1>2. tick'[w] = t /\ \A u \in Workers : u # w => tick'[u] = tick[u]
  BY <1>1
<1>3. tick' \in [Workers -> Ticks]
  BY <1>1
<1>4. ASSUME NEW u \in Workers
      PROVE  /\ tick'[u].pc \in Busy => tick'[u].spans # {}
             /\ tick'[u].pc \notin Busy \cup {"saving"} => tick'[u].spans = {}
             /\ {} \notin tick'[u].spans
             /\ tick'[u].now <= now'
  <2>1. CASE u = w
    BY <1>2, <2>1 DEF Moves, TickOK
  <2>2. CASE u # w
    BY <1>2, <2>2 DEF TypeInv, StepsOK
  <2> QED BY <2>1, <2>2
<1> QED BY <1>2, <1>3, <1>4

(* Where a tick ends.                                                       *)
Resteds == {Resting, [Resting EXCEPT !.pc = "waiting"]}

LEMMA RestMoves ==
    ASSUME TypeInv, NEW w \in Workers
    PROVE  /\ Rest(w) => \E t \in Resteds : Moves(w, t)
           /\ To(w, Resting) => Moves(w, Resting)
           /\ To(w, [Resting EXCEPT !.pc = "waiting"]) => Moves(w, [Resting EXCEPT !.pc = "waiting"])
           /\ \A t \in Resteds : t \in Ticks /\ t.pc \in {"none", "waiting"} /\ t.spans = {} /\ t.epoch = 0
<1>1. MaxId \in Nat /\ MaxTime \in Nat /\ now \in Nat
  BY BoundsAssumption DEF TypeInv, TypeOK
<1>2. \A t \in Resteds : t \in Ticks /\ t.pc \in {"none", "waiting"} /\ t.spans = {} /\ t.epoch = 0
                         /\ t.now = 0
  BY <1>1 DEF Resteds, Resting, Ticks
<1>3. \A t \in Resteds : TickOK(t)
  BY <1>1, <1>2 DEF TickOK, Busy
<1>4. ASSUME NEW t \in Resteds, To(w, t) PROVE Moves(w, t)
  BY <1>2, <1>3, <1>4 DEF Moves
<1>5. Resting \in Resteds /\ [Resting EXCEPT !.pc = "waiting"] \in Resteds
  BY DEF Resteds
<1>6. Rest(w) => \E t \in Resteds : To(w, t)
  BY <1>5 DEF Rest
<1> QED BY <1>2, <1>4, <1>5, <1>6

IndexOK ==
    /\ rows \subseteq Ids /\ at \in [Ids -> 0..MaxTime] /\ moving \subseteq rows
    /\ seen \subseteq rows /\ named \subseteq seen
    /\ due \subseteq rows \cap moving /\ failed \subseteq rows

RoutesOK ==
    /\ starting \in [pc : {"none", "read", "saved", "seeded"}, to : 0..MaxId]
    /\ clearing \in [pc : {"none", "wiped", "read", "reset"}, to : 0..MaxId]

LEMMA FaultType == TypeOK /\ Fault => faults' \in 0..MaxFaults
BY BoundsAssumption DEF TypeOK, Fault

LEMMA StoreType ==
    ASSUME TypeInv, Arrives \/ PurgeNewest \/ Clock
    PROVE  TypeInv'
<1>0. /\ MaxId \in Nat /\ MaxTime \in Nat /\ Gap \in Nat /\ now \in 0..MaxTime
      /\ LastId \in 0..MaxId
  BY BoundsAssumption, LastIdFacts DEF TypeInv, TypeOK
<1>1. ASSUME NEW moves \in BOOLEAN, NEW lag \in {0, 1}, now >= lag, Arrive(moves, now - lag)
      PROVE  TypeInv'
  <2>1. now - lag \in 0..MaxTime /\ LastId + 1 \in Ids
    BY <1>0, <1>1 DEF Arrive, Ids
  <2>2. IndexOK'
    BY <1>1, <2>1 DEF Arrive, IndexOK, TypeInv, TypeOK
  <2> QED BY <1>1, <2>2
          DEF Arrive, IndexOK, TypeInv, TypeOK, StepsOK, mark, manager, routes
<1>2. CASE Arrives
  <2>1. PICK moves \in BOOLEAN, lag \in {0, 1} : now >= lag /\ Arrive(moves, now - lag)
    BY <1>2 DEF Arrives
  <2> QED BY <1>1, <2>1
<1>3. CASE PurgeNewest
  <2>1. Delete(LastId) /\ LastId \in Ids
    BY <1>3 DEF PurgeNewest, TypeInv, TypeOK
  <2>2. IndexOK'
    BY <1>0, <2>1 DEF Delete, IndexOK, TypeInv, TypeOK
  <2> QED BY <2>1, <2>2
          DEF Delete, IndexOK, TypeInv, TypeOK, StepsOK, mark, manager, routes
<1>4. CASE Clock
  <2>1. now' \in 0..MaxTime /\ \A w \in Workers : tick[w].now <= now'
    <3>1. \A w \in Workers : tick[w].now \in Nat /\ tick[w].now <= now
      BY DEF TypeInv, TypeOK, StepsOK, Ticks
    <3> QED BY <1>0, <1>4, <3>1 DEF Clock
  <2> QED BY <1>4, <2>1 DEF Clock, TypeInv, TypeOK, StepsOK, index, mark, manager, routes
<1> QED BY <1>2, <1>3, <1>4

TicksOK ==
    /\ tick \in [Workers -> Ticks]
    /\ \A u \in Workers :
          /\ tick[u].pc \in Busy => tick[u].spans # {}
          /\ tick[u].pc \notin Busy \cup {"saving"} => tick[u].spans = {}
          /\ {} \notin tick[u].spans
          /\ tick[u].now <= now

LEMMA RoutesType ==
    ASSUME TypeInv, StartReads \/ StartGoesOn \/ Stop \/ Crash \/ ClearWipes \/ ClearGoesOn
    PROVE  TypeInv'
<1>0. /\ MaxId \in Nat /\ MaxTime \in Nat /\ Gap \in Nat /\ now \in 0..MaxTime
      /\ LastId \in 0..MaxId /\ IndexOK /\ RoutesOK /\ TicksOK
      /\ starting.to \in 0..MaxId /\ clearing.to \in 0..MaxId
      /\ watermark \in 0..MaxId /\ stored \in (0..MaxId) \cup {None} /\ epoch \in Nat
      /\ seedHorizon \in BOOLEAN
  BY BoundsAssumption, LastIdFacts DEF TypeInv, TypeOK, IndexOK, RoutesOK, TicksOK, StepsOK
<1>1. CASE StartReads
  <2>1. RoutesOK'
    BY <1>0, <1>1 DEF StartReads, RoutesOK
  <2> QED BY <1>1, <2>1 DEF StartReads, RoutesOK, TypeInv, TypeOK, StepsOK, index, mark, manager
<1>2. CASE StartSaves
  <2>1. RoutesOK' /\ starting'.pc = "saved"
    BY <1>0, <1>2 DEF StartSaves, RoutesOK
  <2>2. IndexOK'
    BY <1>0, <1>2 DEF StartSaves, IndexOK
  <2>3. stored' \in (0..MaxId) \cup {None}
    BY <1>0, <1>2 DEF StartSaves
  <2> QED BY <1>2, <2>1, <2>2, <2>3
          DEF StartSaves, RoutesOK, IndexOK, TypeInv, TypeOK, StepsOK, manager
<1>3. CASE StartSeeds
  <2>1. RoutesOK' /\ starting'.pc = "seeded"
    BY <1>0, <1>3 DEF StartSeeds, RoutesOK
  <2>2. watermark' \in 0..MaxId
    BY <1>0, <1>3 DEF StartSeeds
  <2> QED BY <1>3, <2>1, <2>2
          DEF StartSeeds, RoutesOK, TypeInv, TypeOK, StepsOK, index, manager
<1>4. CASE StartSpawns
  <2>1. latest + 1 \in Workers /\ latest' \in 0..Threads /\ latest' > 0
    BY <1>4, SlicesAssumption DEF StartSpawns, TypeInv, TypeOK, StepsOK, Workers
  <2>2. Moves(latest + 1, [Resting EXCEPT !.pc = "waiting"])
    BY <1>4, <2>1, RestMoves DEF StartSpawns, To
  <2>3. TicksOK'
    BY <1>4, <2>1, <2>2, MovesType DEF StartSpawns, TicksOK
  <2>4. RoutesOK' /\ starting'.pc = "none"
    BY <1>0, <1>4 DEF StartSpawns, RoutesOK, Idle
  <2> QED BY <1>4, <2>1, <2>3, <2>4
          DEF StartSpawns, RoutesOK, TicksOK, TypeInv, TypeOK, StepsOK, index, mark
<1>5. CASE Stop
  <2>1. latest \in Workers
    BY <1>5 DEF Stop, TypeInv, TypeOK, StepsOK, Workers
  <2>2. TicksOK'
    <3>1. CASE tick[latest].pc = "waiting"
      <4>1. Moves(latest, Resting)
        BY <1>5, <2>1, <3>1, RestMoves DEF Stop, To
      <4> QED BY <1>5, <2>1, <4>1, MovesType DEF Stop, TicksOK
    <3>2. CASE tick[latest].pc # "waiting"
      BY <1>0, <1>5, <3>2 DEF Stop, TicksOK
    <3> QED BY <3>1, <3>2
  <2> QED BY <1>5, <2>1, <2>2 DEF Stop, TicksOK, TypeInv, TypeOK, StepsOK, index, mark, routes
<1>6. CASE Crash
  <2>1. RoutesOK'
    BY <1>0, <1>6 DEF Crash, RoutesOK, Idle
  <2>2. Resting \in Ticks /\ Resting.pc = "none" /\ Resting.spans = {} /\ Resting.now = 0
    BY <1>0 DEF Resting, Ticks
  <2>3. tick' \in [Workers -> Ticks] /\ \A u \in Workers : tick'[u] = Resting
    BY <1>6, <2>2 DEF Crash
  <2>4. TicksOK'
    BY <1>0, <1>6, <2>2, <2>3 DEF Crash, TicksOK, Busy
  <2>5. watermark' \in 0..MaxId /\ epoch' \in Nat /\ seedHorizon' \in BOOLEAN
    BY <1>0, <1>6 DEF Crash
  <2>6. faults' \in 0..MaxFaults
    BY <1>6, FaultType DEF Crash, TypeInv
  <2> QED BY <1>6, <2>1, <2>4, <2>5, <2>6
          DEF Crash, RoutesOK, TicksOK, TypeInv, TypeOK, StepsOK, index
<1>7. CASE ClearWipes
  <2>1. RoutesOK'
    BY <1>0, <1>7 DEF ClearWipes, RoutesOK
  <2>2. IndexOK'
    BY <1>0, <1>7 DEF ClearWipes, IndexOK
  <2>3. faults' \in 0..MaxFaults
    BY <1>7, FaultType DEF ClearWipes, TypeInv
  <2> QED BY <1>7, <2>1, <2>2, <2>3
          DEF ClearWipes, RoutesOK, IndexOK, TypeInv, TypeOK, StepsOK, mark, manager
<1>8. CASE ClearReads
  <2>1. RoutesOK'
    BY <1>0, <1>8 DEF ClearReads, RoutesOK
  <2> QED BY <1>8, <2>1 DEF ClearReads, RoutesOK, TypeInv, TypeOK, StepsOK, index, mark, manager
<1>9. CASE ClearResets
  <2>1. RoutesOK'
    BY <1>0, <1>9 DEF ClearResets, RoutesOK, Idle
  <2>2. IndexOK'
    BY <1>0, <1>9 DEF ClearResets, IndexOK
  <2>3. watermark' \in 0..MaxId /\ epoch' \in Nat
    BY <1>0, <1>9 DEF ClearResets, Reset
  <2> QED BY <1>9, <2>1, <2>2, <2>3
          DEF ClearResets, RoutesOK, IndexOK, TypeInv, TypeOK, StepsOK, manager
<1>10. CASE ClearSaves
  <2>1. RoutesOK'
    BY <1>0, <1>10 DEF ClearSaves, RoutesOK, Idle
  <2>2. stored' \in (0..MaxId) \cup {None}
    BY <1>0, <1>10 DEF ClearSaves
  <2> QED BY <1>10, <2>1, <2>2
          DEF ClearSaves, RoutesOK, TypeInv, TypeOK, StepsOK, index, manager
<1> QED BY <1>1, <1>2, <1>3, <1>4, <1>5, <1>6, <1>7, <1>8, <1>9, <1>10
        DEF StartGoesOn, ClearGoesOn

-----------------------------------------------------------------------------
(* Every closed visit has a first frame.                                    *)
LEMMA ClosedNonempty ==
    ASSUME TypeOK, NEW since \in 0..MaxId, NEW time \in 0..MaxTime
    PROVE  /\ ClosedVisits(since, time) \subseteq SUBSET Ids
           /\ {} \notin ClosedVisits(since, time)
<1> DEFINE motion == {i \in rows \cap moving : i > since}
           Opens == {i \in motion : \A j \in motion : j < i => at[i] - at[j] > Gap}
           Cluster(i) == {j \in motion : j >= i /\ \A k \in Opens : ~(i < k /\ k <= j)}
<1>1. ClosedVisits(since, time) = {c \in {Cluster(i) : i \in Opens} : at[Max(c)] < time - Gap}
  BY DEF ClosedVisits
<1>2. motion \subseteq Ids /\ Opens \subseteq motion
  BY DEF TypeOK
<1>3. ASSUME NEW i \in Opens PROVE i \in Cluster(i) /\ Cluster(i) \subseteq Ids
  <2>1. i \in motion /\ i \in Nat /\ \A k \in Opens : k \in Nat
    BY <1>2 DEF Ids
  <2> HIDE DEF motion, Opens
  <2>2. i >= i /\ \A k \in Opens : ~(i < k /\ k <= i)
    BY <2>1
  <2>3. i \in Cluster(i)
    BY <2>1, <2>2
  <2>4. Cluster(i) \subseteq motion
    OBVIOUS
  <2> QED BY <1>2, <2>3, <2>4
<1> HIDE DEF Cluster, Opens
<1> QED BY <1>1, <1>3

LEMMA VisitType ==
    ASSUME TypeInv, NEW w \in Workers, tick[w].pc \in Busy
    PROVE  /\ Visit(w) \in tick[w].spans /\ Visit(w) \subseteq Ids /\ Visit(w) # {}
           /\ Max(Visit(w)) \in 0..MaxId /\ Inside(w) \subseteq rows
           /\ Visit(w) = Foremost(tick[w].spans)
           /\ \A u \in tick[w].spans : Min(Visit(w)) <= Min(u)
<1>1. tick[w].spans \subseteq SUBSET Ids /\ tick[w].spans # {} /\ {} \notin tick[w].spans
  BY DEF TypeInv, TypeOK, StepsOK, Ticks
<1>2. Visit(w) = Foremost(tick[w].spans)
  BY DEF Visit, Foremost
<1>3. Visit(w) \in tick[w].spans /\ \A u \in tick[w].spans : Min(Visit(w)) <= Min(u)
  BY <1>1, <1>2, ForemostFacts
<1>4. Visit(w) \subseteq Ids /\ Visit(w) # {}
  BY <1>1, <1>3
<1>5. Max(Visit(w)) \in Ids
  BY <1>4, Ends
<1>6. Max(Visit(w)) \in 0..MaxId
  BY <1>5, BoundsAssumption DEF Ids
<1> QED BY <1>2, <1>3, <1>4, <1>6 DEF Inside

(* The visits a tick takes in hand at its window.                           *)
FirstOf(closed) == {v \in closed : Cardinality({u \in closed : Min(u) < Min(v)}) < PerTick}

LEMMA TicksType ==
    ASSUME TypeInv, NEW w \in Workers, Ticking(w) \/ DetectedButOne(w) \/ Raises(w)
    PROVE  TypeInv'
<1>0. /\ MaxId \in Nat /\ MaxTime \in Nat /\ now \in 0..MaxTime /\ now \in Nat
      /\ LastId \in 0..MaxId /\ tick[w] \in Ticks /\ epoch \in Nat
      /\ watermark \in 0..MaxId /\ stored \in (0..MaxId) \cup {None}
      /\ TickOK(tick[w]) /\ IndexOK
  BY BoundsAssumption, LastIdFacts DEF TypeInv, TypeOK, StepsOK, TickOK, IndexOK
<1>1. ASSUME NEW t, Moves(w, t), IndexOK', watermark' \in 0..MaxId,
             stored' \in (0..MaxId) \cup {None}, faults' \in 0..MaxFaults,
             UNCHANGED <<now, seedHorizon, epoch, manager, routes, busy>>
      PROVE  TypeInv'
  <2>1. TicksOK'
    BY <1>1, MovesType DEF TicksOK
  <2> QED BY <1>1, <2>1 DEF TypeInv, TypeOK, StepsOK, IndexOK, TicksOK, manager, routes
<1>2. ASSUME NEW t, Moves(w, t), UNCHANGED <<index, now, mark, manager, routes, busy, faults>>
      PROVE  TypeInv'
  <2>1. IndexOK' /\ watermark' \in 0..MaxId /\ stored' \in (0..MaxId) \cup {None}
    BY <1>0, <1>2 DEF IndexOK, index, mark
  <2>2. faults' \in 0..MaxFaults
    BY <1>2 DEF TypeInv, TypeOK
  <2> QED BY <1>1, <1>2, <2>1, <2>2 DEF mark
<1>3. ASSUME Rest(w), UNCHANGED <<index, now, mark, manager, routes, busy, faults>>
      PROVE  TypeInv'
  BY <1>2, <1>3, RestMoves
<1>4. ASSUME NEW t \in Ticks, t.spans = tick[w].spans, t.now = tick[w].now,
             t.pc \in Busy, tick[w].pc \in Busy, To(w, t)
      PROVE  Moves(w, t)
  BY <1>0, <1>4 DEF Moves, TickOK
<1>5. ASSUME tick[w].pc \in Busy,
             UNCHANGED <<rows, at, moving, due>>, seen' \subseteq rows, seen \subseteq seen',
             named' \subseteq seen', failed' \subseteq rows
      PROVE  IndexOK'
  BY <1>0, <1>5 DEF IndexOK
<1>6. CASE Wake(w)
  <2>1. [tick[w] EXCEPT !.pc = "awake", !.now = now] \in Ticks
    BY <1>0 DEF Ticks
  <2>2. TickOK([tick[w] EXCEPT !.pc = "awake", !.now = now])
    BY <1>0, <1>6 DEF Wake, TickOK, Busy, Ticks
  <2> QED BY <1>2, <1>6, <2>1, <2>2 DEF Wake, Moves
<1>7. CASE Snapshot(w)
  <2>1. [tick[w] EXCEPT !.pc = "snapped", !.epoch = epoch, !.lo = watermark] \in Ticks
    BY <1>0 DEF Ticks
  <2>2. TickOK([tick[w] EXCEPT !.pc = "snapped", !.epoch = epoch, !.lo = watermark])
    BY <1>0, <1>7 DEF Snapshot, TickOK, Busy, Ticks
  <2> QED BY <1>2, <1>7, <2>1, <2>2 DEF Snapshot, Moves
<1>8. CASE Window(w)
  <2> DEFINE closed == ClosedVisits(tick[w].lo, tick[w].now)
             first == FirstOf(closed)
             t == [tick[w] EXCEPT !.pc = "visit", !.spans = first]
  <2>1. first \subseteq SUBSET Ids /\ {} \notin first
    <3>1. tick[w].lo \in 0..MaxId /\ tick[w].now \in 0..MaxTime
      BY <1>0 DEF Ticks
    <3>2. closed \subseteq SUBSET Ids /\ {} \notin closed
      BY <3>1, ClosedNonempty DEF TypeInv
    <3> HIDE DEF closed
    <3> QED BY <3>2 DEF FirstOf
  <2>2. /\ UNCHANGED <<index, now, mark, manager, routes, busy, faults>>
        /\ IF first = {} THEN Rest(w) ELSE To(w, t)
    BY <1>8 DEF Window, FirstOf
  <2> HIDE DEF first
  <2>3. CASE first = {}
    BY <1>3, <2>2, <2>3
  <2>4. CASE first # {}
    <3>1. t \in Ticks
      BY <1>0, <2>1 DEF Ticks
    <3>2. TickOK(t)
      BY <1>0, <2>1, <2>4 DEF TickOK, Ticks, Busy
    <3> QED BY <1>2, <2>2, <2>4, <3>1, <3>2 DEF Moves
  <2> QED BY <2>3, <2>4
<1>9. CASE Clamp(w)
  <2>1. IndexOK' /\ watermark' \in 0..MaxId /\ stored' \in (0..MaxId) \cup {None}
    BY <1>0, <1>9 DEF Clamp, IndexOK, index
  <2>2. faults' \in 0..MaxFaults
    BY <1>9 DEF Clamp, TypeInv, TypeOK
  <2> DEFINE t == [tick[w] EXCEPT !.pc = "saving", !.lo = LastId]
  <2>3. t \in Ticks /\ TickOK(t)
    BY <1>0, <1>9 DEF Clamp, TickOK, Busy, Ticks
  <2>4. To(w, t) => Moves(w, t)
    BY <2>3 DEF Moves
  <2> QED BY <1>1, <1>9, <2>1, <2>2, <2>4, RestMoves DEF Clamp
<1>10. CASE Yield(w)
  BY <1>3, <1>10 DEF Yield
<1>11. CASE Detect(w)
  <2>1. [tick[w] EXCEPT !.pc = "detecting"] \in Ticks
    BY <1>0 DEF Ticks
  <2>2. Moves(w, [tick[w] EXCEPT !.pc = "detecting"])
    BY <1>0, <1>4, <1>11, <2>1 DEF Detect, Ticks, Busy
  <2> QED BY <1>2, <1>11, <2>2 DEF Detect
<1>12. CASE Detected(w) \/ DetectedButOne(w)
  <2>1. tick[w].pc = "detecting" /\ tick[w].pc \in Busy /\ Inside(w) \subseteq rows
    BY <1>12, VisitType DEF Detected, DetectedButOne, Busy
  <2>2. IndexOK'
    BY <1>0, <1>5, <1>12, <2>1 DEF Detected, DetectedButOne, IndexOK
  <2>3. watermark' \in 0..MaxId /\ stored' \in (0..MaxId) \cup {None}
    BY <1>0, <1>12 DEF Detected, DetectedButOne, mark
  <2>4. faults' \in 0..MaxFaults
    BY <1>12, FaultType DEF Detected, DetectedButOne, TypeInv, TypeOK
  <2>5. [tick[w] EXCEPT !.pc = "identifying"] \in Ticks
    BY <1>0 DEF Ticks
  <2>6. To(w, [tick[w] EXCEPT !.pc = "identifying"])
          => Moves(w, [tick[w] EXCEPT !.pc = "identifying"])
    BY <1>0, <1>4, <2>1, <2>5 DEF Ticks, Busy
  <2>7. \E t : Moves(w, t)
    BY <1>12, <2>6, RestMoves DEF Detected, DetectedButOne
  <2> QED BY <1>1, <1>12, <2>2, <2>3, <2>4, <2>7 DEF Detected, DetectedButOne, mark
<1>13. CASE Identified(w) \/ Cancelled(w)
  <2>1. tick[w].pc = "identifying" /\ tick[w].pc \in Busy
    BY <1>13 DEF Identified, Cancelled, Busy
  <2>2. IndexOK'
    BY <1>0, <1>5, <1>13, <2>1 DEF Identified, Cancelled, IndexOK
  <2>3. watermark' \in 0..MaxId /\ stored' \in (0..MaxId) \cup {None} /\ faults' \in 0..MaxFaults
    BY <1>0, <1>13 DEF Identified, Cancelled, mark, TypeInv, TypeOK
  <2>4. [tick[w] EXCEPT !.pc = "done"] \in Ticks
    BY <1>0 DEF Ticks
  <2>5. To(w, [tick[w] EXCEPT !.pc = "done"]) => Moves(w, [tick[w] EXCEPT !.pc = "done"])
    BY <1>0, <1>4, <2>1, <2>4 DEF Ticks, Busy
  <2>6. \E t : Moves(w, t)
    BY <1>13, <2>5, RestMoves DEF Identified, Cancelled
  <2> QED BY <1>1, <1>13, <2>2, <2>3, <2>6 DEF Identified, Cancelled, mark
<1>14. CASE Advance(w)
  <2> DEFINE t == [tick[w] EXCEPT !.pc = "saving", !.lo = Max(Visit(w)),
                                  !.spans = @ \ {Visit(w)}]
  <2>1. Max(Visit(w)) \in 0..MaxId
    BY <1>14, VisitType DEF Advance, Busy
  <2>2. t \in Ticks
    BY <1>0, <2>1 DEF Ticks
  <2>3. TickOK(t)
    BY <1>0, <2>2 DEF TickOK, Busy, Ticks
  <2>4. To(w, t) => Moves(w, t)
    BY <2>2, <2>3 DEF Moves
  <2>5. IndexOK' /\ watermark' \in 0..MaxId /\ stored' \in (0..MaxId) \cup {None}
    BY <1>0, <1>14, <2>1 DEF Advance, IndexOK, index
  <2>6. faults' \in 0..MaxFaults
    BY <1>14 DEF Advance, TypeInv, TypeOK
  <2>7. \E u : Moves(w, u)
    BY <1>14, <2>4, RestMoves DEF Advance
  <2> QED BY <1>1, <1>14, <2>5, <2>6, <2>7 DEF Advance
<1>15. CASE Save(w)
  <2> DEFINE t == [tick[w] EXCEPT !.pc = "visit"]
  <2>1. t \in Ticks
    BY <1>0 DEF Ticks
  <2>2. tick[w].spans # {} /\ To(w, t) => Moves(w, t)
    BY <1>0, <2>1 DEF Moves, TickOK, Ticks, Busy
  <2>3. IndexOK' /\ watermark' \in 0..MaxId /\ stored' \in (0..MaxId) \cup {None}
    BY <1>0, <1>15 DEF Save, IndexOK, index, Ticks
  <2>4. faults' \in 0..MaxFaults
    BY <1>15 DEF Save, TypeInv, TypeOK
  <2>5. \E u : Moves(w, u)
    BY <1>15, <2>2, RestMoves DEF Save
  <2> QED BY <1>1, <1>15, <2>3, <2>4, <2>5 DEF Save
<1>16. CASE Raises(w)
  <2>1. IndexOK' /\ watermark' \in 0..MaxId /\ stored' \in (0..MaxId) \cup {None}
    BY <1>0, <1>16 DEF Raises, IndexOK, index, mark
  <2>2. faults' \in 0..MaxFaults
    BY <1>16, FaultType DEF Raises, TypeInv
  <2> QED BY <1>1, <1>16, <2>1, <2>2, RestMoves DEF Raises, mark
<1> QED BY <1>6, <1>7, <1>8, <1>9, <1>10, <1>11, <1>12, <1>13, <1>14, <1>15, <1>16 DEF Ticking

LEMMA TypeStep == TypeInv /\ [Next]_vars => TypeInv'
<1> SUFFICES ASSUME TypeInv, [Next]_vars PROVE TypeInv'
  OBVIOUS
<1>1. CASE JobStarts \/ JobEnds
  <2>1. faults' \in 0..MaxFaults
    <3>1. CASE JobStarts
      BY <3>1, FaultType DEF JobStarts, TypeInv
    <3>2. CASE JobEnds
      BY <3>2 DEF JobEnds, TypeInv, TypeOK
    <3> QED BY <1>1, <3>1, <3>2
  <2>2. busy' \in BOOLEAN
    BY <1>1 DEF JobStarts, JobEnds
  <2>3. UNCHANGED <<index, now, mark, manager, routes, tick>>
    BY <1>1 DEF JobStarts, JobEnds
  <2> QED BY <2>1, <2>2, <2>3 DEF TypeInv, TypeOK, StepsOK, index, mark, manager, routes
<1>2. CASE UNCHANGED vars
  BY <1>2 DEF vars, TypeInv, TypeOK, StepsOK
<1> QED BY <1>1, <1>2, StoreType, RoutesType, TicksType DEF Next

(* Every variable keeps its type, and a tick in the middle of its visits    *)
(* never holds an empty one.                                                *)
THEOREM TypeCorrect == Spec => []TypeInv
<1> QED BY TypeInit, TypeStep, PTL DEF Spec

-----------------------------------------------------------------------------
(* The parts of closed_visits: the motion frames past a watermark, those    *)
(* that open a visit, and the visit one opens.                              *)
Motion(since) == {i \in rows \cap moving : i > since}
Opens(since) == {i \in Motion(since) : \A j \in Motion(since) : j < i => at[i] - at[j] > Gap}
Cluster(since, i) ==
    {j \in Motion(since) : j >= i /\ \A k \in Opens(since) : ~(i < k /\ k <= j)}

LEMMA ClosedIs ==
    ASSUME NEW since, NEW time
    PROVE  ClosedVisits(since, time)
             = {c \in {Cluster(since, i) : i \in Opens(since)} : at[Max(c)] < time - Gap}
BY DEF ClosedVisits, Motion, Opens, Cluster

LEMMA ClusterFacts ==
    ASSUME TypeOK, NEW s \in 0..MaxId, NEW o \in Opens(s)
    PROVE  LET c == Cluster(s, o)
           IN  /\ c \subseteq Motion(s) /\ c \subseteq Ids /\ o \in c /\ Min(c) = o
               /\ Max(c) \in c
               /\ \A k \in Opens(s) : o < k => Max(c) < k /\ at[k] - at[Max(c)] > Gap
<1> DEFINE c == Cluster(s, o)
<1>0. Motion(s) \subseteq Ids /\ Opens(s) \subseteq Motion(s)
  BY DEF Motion, Opens, TypeOK
<1>1. Motion(s) \subseteq Ids /\ Opens(s) \subseteq Motion(s) /\ Motion(s) \subseteq Nat
  BY <1>0 DEF Ids
<1>2. o \in Nat /\ \A k \in Opens(s) : k \in Nat
  BY <1>1
<1>3. o >= o /\ \A k \in Opens(s) : ~(o < k /\ k <= o)
  BY <1>2
<1>4. o \in c /\ c \subseteq Motion(s)
  BY <1>1, <1>3 DEF Cluster
<1>5. \A j \in c : j >= o /\ \A k \in Opens(s) : ~(o < k /\ k <= j)
  BY DEF Cluster
<1> HIDE DEF c
<1>6. c \subseteq Ids /\ c # {}
  BY <1>1, <1>4
<1>7. /\ Min(c) \in c /\ Max(c) \in c /\ Min(c) \in Ids /\ Max(c) \in Ids
      /\ \A i \in c : i \in Nat /\ Min(c) <= i /\ i <= Max(c)
  BY <1>6, Ends
<1>8. Min(c) = o
  <2>1. Min(c) <= o /\ Min(c) >= o /\ Min(c) \in Nat
    BY <1>4, <1>5, <1>7
  <2> QED BY <1>2, <2>1
<1>9. ASSUME NEW k \in Opens(s), o < k PROVE Max(c) < k /\ at[k] - at[Max(c)] > Gap
  <2>1. k \in Nat /\ Max(c) \in Nat /\ ~(k <= Max(c))
    BY <1>2, <1>5, <1>7, <1>9
  <2>2. Max(c) < k
    BY <2>1
  <2>3. Max(c) \in Motion(s)
    BY <1>4, <1>7
  <2> QED BY <2>2, <2>3 DEF Opens
<1> QED BY <1>4, <1>6, <1>7, <1>8, <1>9 DEF c

(* Every motion frame past the watermark lies in a visit that one opened.   *)
LEMMA OpenerOf ==
    ASSUME TypeOK, NEW s \in 0..MaxId, NEW i \in Motion(s)
    PROVE  \E o \in Opens(s) : o <= i /\ i \in Cluster(s, o)
<1>1. Motion(s) \subseteq Ids /\ Opens(s) \subseteq Motion(s) /\ Motion(s) # {}
  BY DEF Motion, Opens, TypeOK
<1>2. /\ Min(Motion(s)) \in Motion(s)
      /\ \A j \in Motion(s) : j \in Nat /\ Min(Motion(s)) <= j
  BY <1>1, Ends
<1>3. Min(Motion(s)) \in Opens(s)
  <2>1. \A j \in Motion(s) : ~(j < Min(Motion(s)))
    BY <1>2
  <2> QED BY <1>2, <2>1 DEF Opens
<1> DEFINE before == {k \in Opens(s) : k <= i}
           o == Max(before)
<1>4. before \subseteq Ids /\ before # {} /\ before \subseteq Opens(s)
  BY <1>1, <1>2, <1>3
<1>5. \A k \in Opens(s) : k <= i => k \in before
  OBVIOUS
<1> HIDE DEF before
<1>6. o \in before /\ \A k \in before : k \in Nat /\ k <= o
  BY <1>4, Ends
<1>7. o \in Opens(s) /\ o <= i
  BY <1>6 DEF before
<1>8. i \in Nat /\ o \in Nat
  BY <1>2, <1>6
<1> HIDE DEF o
<1>9. ASSUME NEW k \in Opens(s) PROVE k \in Nat /\ ~(o < k /\ k <= i)
  <2>1. k \in Nat
    BY <1>1, <1>2
  <2>2. k <= i => k <= o
    BY <1>5, <1>6
  <2> QED BY <1>8, <2>1, <2>2
<1>10. i \in Cluster(s, o)
  BY <1>7, <1>8, <1>9 DEF Cluster
<1> QED BY <1>7, <1>10

LEMMA ClosedFacts ==
    ASSUME TypeOK, Timeline, NEW s \in 0..MaxId, NEW time \in 0..MaxTime
    PROVE  LET closed == ClosedVisits(s, time)
           IN  /\ \A v \in closed :
                     /\ v \subseteq Motion(s) /\ v # {}
                     /\ at[Max(v)] < time - Gap
                     /\ \A i \in moving : i > Max(v) => at[i] - at[Max(v)] > Gap
               /\ \A u, v \in closed : u = v \/ Max(u) < Min(v) \/ Max(v) < Min(u)
               /\ \A v \in closed : \A i \in Motion(s) :
                     i <= Max(v) => \E u \in closed : i \in u /\ (u = v \/ Min(u) < Min(v))
<1> DEFINE closed == ClosedVisits(s, time)
<1>0. /\ Gap \in Nat /\ Motion(s) \subseteq Ids /\ Motion(s) \subseteq rows /\ Opens(s) \subseteq Motion(s)
      /\ \A i \in rows : i \in Ids /\ i \in Nat /\ at[i] \in Nat
      /\ \A i, j \in rows : i < j => at[i] <= at[j]
      /\ moving \subseteq rows /\ s \in Nat /\ time \in Nat
  <2>1. Gap \in Nat /\ s \in Nat /\ time \in Nat /\ MaxTime \in Nat
    BY BoundsAssumption
  <2>2. \A i \in rows : i \in Ids /\ i \in Nat /\ at[i] \in Nat
    BY <2>1 DEF TypeOK, Ids
  <2>3. \A i, j \in rows : i < j => at[i] <= at[j]
    BY DEF Timeline
  <2>4. Motion(s) \subseteq rows /\ Opens(s) \subseteq Motion(s) /\ moving \subseteq rows
    BY DEF Motion, Opens, TypeOK
  <2> QED BY <2>1, <2>2, <2>3, <2>4
<1>1. \A v \in closed : at[Max(v)] < time - Gap /\ \E o \in Opens(s) : v = Cluster(s, o)
  BY ClosedIs
<1>2. \A o \in Opens(s) : at[Max(Cluster(s, o))] < time - Gap => Cluster(s, o) \in closed
  BY ClosedIs
<1> HIDE DEF closed
<1>3. ASSUME NEW v \in closed
      PROVE  /\ v \subseteq Motion(s) /\ v # {}
             /\ at[Max(v)] < time - Gap
             /\ \A i \in moving : i > Max(v) => at[i] - at[Max(v)] > Gap
  <2>1. PICK o \in Opens(s) : v = Cluster(s, o)
    BY <1>1
  <2>2. /\ v \subseteq Motion(s) /\ o \in v /\ Max(v) \in v
        /\ \A k \in Opens(s) : o < k => Max(v) < k /\ at[k] - at[Max(v)] > Gap
    BY <2>1, ClusterFacts
  <2>3. ASSUME NEW i \in moving, i > Max(v) PROVE at[i] - at[Max(v)] > Gap
    <3>1. /\ Max(v) \in Motion(s) /\ Max(v) \in Nat /\ Max(v) > s /\ i \in Nat /\ i \in rows
          /\ o \in Nat /\ o <= Max(v)
      <4>1. v \subseteq Ids /\ v # {}
        BY <1>0, <2>2
      <4> QED BY <1>0, <2>2, <4>1, Ends DEF Motion
    <3>2. i \in Motion(s)
      BY <1>0, <2>3, <3>1 DEF Motion
    <3>3. PICK k \in Opens(s) : k <= i /\ i \in Cluster(s, k)
      BY <3>2, OpenerOf
    <3>4. k \in rows /\ k \in Nat
      BY <1>0
    <3>5. k > o
      <4> SUFFICES ASSUME k <= o PROVE FALSE
        BY <3>1, <3>4
      <4>1. CASE k = o
        <5>1. i \in v
          BY <2>1, <3>3, <4>1
        <5>2. i <= Max(v)
          BY <1>0, <2>2, <5>1, Ends
        <5> QED BY <2>3, <3>1, <5>2
      <4>2. CASE k < o
        <5>1. ~(k < o /\ o <= i)
          BY <3>3 DEF Cluster
        <5> QED BY <2>3, <3>1, <4>2, <5>1
      <4> QED BY <3>1, <3>4, <4>1, <4>2
    <3>6. at[k] - at[Max(v)] > Gap
      BY <2>2, <3>1, <3>4, <3>5
    <3>7. at[i] >= at[k]
      <4>1. CASE k = i
        BY <1>0, <3>1, <4>1
      <4>2. CASE k < i
        BY <1>0, <3>1, <3>4, <4>2
      <4> QED BY <3>1, <3>3, <3>4, <4>1, <4>2
    <3>8. at[i] \in Nat /\ at[k] \in Nat /\ at[Max(v)] \in Nat
      BY <1>0, <3>1, <3>4
    <3> QED BY <1>0, <3>6, <3>7, <3>8
  <2> QED BY <1>1, <2>2, <2>3
<1>4. ASSUME NEW u \in closed, NEW v \in closed
      PROVE  u = v \/ Max(u) < Min(v) \/ Max(v) < Min(u)
  <2>1. PICK o \in Opens(s) : u = Cluster(s, o)
    BY <1>1
  <2>2. PICK k \in Opens(s) : v = Cluster(s, k)
    BY <1>1
  <2>3. Min(u) = o /\ Min(v) = k /\ (o < k => Max(u) < k) /\ (k < o => Max(v) < o)
    BY <2>1, <2>2, ClusterFacts
  <2>4. o \in Nat /\ k \in Nat
    BY <1>0
  <2>5. CASE o = k
    BY <2>1, <2>2, <2>5
  <2>6. CASE o # k
    BY <2>3, <2>4, <2>6
  <2> QED BY <2>5, <2>6
<1>5. ASSUME NEW v \in closed, NEW i \in Motion(s), i <= Max(v)
      PROVE  \E u \in closed : i \in u /\ (u = v \/ Min(u) < Min(v))
  <2>1. PICK o \in Opens(s) : v = Cluster(s, o)
    BY <1>1
  <2>2. PICK k \in Opens(s) : k <= i /\ i \in Cluster(s, k)
    BY OpenerOf
  <2>3. o \in Nat /\ k \in Nat /\ i \in Nat
    BY <1>0
  <2>4. CASE k = o
    BY <2>1, <2>2, <2>4
  <2>5. CASE k > o
    <3>1. Max(v) < k /\ Max(v) \in Motion(s)
      BY <2>1, <2>3, <2>5, ClusterFacts
    <3>2. Max(v) \in Nat
      BY <1>0, <3>1
    <3> QED BY <1>5, <2>2, <2>3, <3>1, <3>2
  <2>6. CASE k < o
    <3> DEFINE u == Cluster(s, k)
    <3>1. /\ Max(u) < o /\ Max(u) \in Motion(s) /\ Min(u) = k
      BY <2>3, <2>6, ClusterFacts
    <3>2. Max(v) \in Motion(s) /\ Max(v) \in Nat /\ Min(v) = o /\ o <= Max(v)
      <4>1. v \subseteq Motion(s) /\ o \in v /\ Max(v) \in v /\ Min(v) = o
        BY <2>1, ClusterFacts
      <4>2. v \subseteq Ids
        BY <1>0, <4>1
      <4> QED BY <4>1, <4>2, Ends
    <3>3. at[Max(u)] <= at[Max(v)]
      BY <1>0, <2>3, <3>1, <3>2
    <3>4. at[Max(u)] < time - Gap
      <4>1. at[Max(u)] \in Nat /\ at[Max(v)] \in Nat /\ at[Max(v)] < time - Gap
        BY <1>0, <1>1, <3>1, <3>2
      <4> QED BY <1>0, <3>3, <4>1
    <3>5. u \in closed
      BY <1>2, <3>4
    <3> QED BY <2>2, <2>6, <3>1, <3>2, <3>5
  <2> QED BY <2>3, <2>4, <2>5, <2>6
<1> QED BY <1>3, <1>4, <1>5 DEF closed

LEMMA FirstFacts ==
    ASSUME NEW C, C \subseteq SUBSET Ids, {} \notin C,
           NEW v \in FirstOf(C), NEW u \in C, Min(u) < Min(v)
    PROVE  u \in FirstOf(C)
<1> DEFINE Before(x) == {y \in C : Min(y) < Min(x)}
<1>1. IsFiniteSet(C)
  <2>1. MaxId \in Nat
    BY BoundsAssumption
  <2>2. IsFiniteSet(Ids)
    BY <2>1, FS_Interval DEF Ids
  <2>3. IsFiniteSet(SUBSET Ids)
    BY <2>2, FS_SUBSET
  <2> QED BY <2>3, FS_Subset
<1>2. \A x \in C : Min(x) \in Nat
  <2> TAKE x \in C
  <2>1. x \subseteq Ids /\ x # {}
    OBVIOUS
  <2>2. Min(x) \in Ids
    BY <2>1, Ends
  <2> QED BY <2>2 DEF Ids
<1>3. v \in C /\ Cardinality(Before(v)) < PerTick
  BY DEF FirstOf
<1>4. Before(u) \subseteq Before(v)
  BY <1>2, <1>3
<1>5. IsFiniteSet(Before(v)) /\ Before(v) \subseteq C
  BY <1>1, FS_Subset
<1> HIDE DEF Before
<1>6. /\ IsFiniteSet(Before(u)) /\ Cardinality(Before(u)) <= Cardinality(Before(v))
      /\ Cardinality(Before(u)) \in Nat /\ Cardinality(Before(v)) \in Nat
  BY <1>4, <1>5, FS_Subset, FS_CardinalityType
<1>7. PerTick \in Nat
  BY SlicesAssumption
<1>8. Cardinality(Before(u)) < PerTick
  BY <1>3, <1>6, <1>7
<1> QED BY <1>8 DEF FirstOf, Before

-----------------------------------------------------------------------------
LEMMA InitIInv == Init => IInv
<1> SUFFICES ASSUME Init PROVE IInv
  OBVIOUS
<1>1. LastId = 0 /\ rows = {}
  BY DEF Init, LastId
<1>2. Timeline
  BY <1>1 DEF Timeline
<1>3. Routes /\ Unseeded /\ EpochsPast
  BY DEF Init, Routes, Unseeded, EpochsPast, Idle, Resting
<1>4. \A w \in Workers : ~Held(w)
  BY DEF Init, Held, Holding, Busy, Resting
<1>5. \A x \in 0..MaxId : ~IsMark(x) /\ ~Base(x)
  BY <1>4 DEF Init, IsMark, Base, Idle
<1> QED BY <1>2, <1>3, <1>4, <1>5 DEF IInv, MarksHonest, VisitsHonest

(* A frame due after a step was due before and keeps what it had, or is     *)
(* newer than every frame there was.                                        *)
DueKept ==
    \A i \in due' : \/ i > LastId
                    \/ /\ i \in due
                       /\ Tried(i) => Tried(i)'
                       /\ i \in seen \cup failed => i \in seen' \cup failed'

(* Motion frames stay as they are, and a new one is stamped now.            *)
MotionKept ==
    /\ moving \subseteq moving'
    /\ \A i \in moving : at'[i] = at[i]
    /\ \A i \in moving' : i \notin moving => i > LastId /\ at'[i] = now

(* No id becomes a mark, none is lost.                                      *)
MarksShrink ==
    \A x \in 0..MaxId : (IsMark(x)' => IsMark(x) /\ x <= LastId') /\ (Base(x)' => Base(x))

LEMMA MarksStay ==
    ASSUME TypeInv, TypeInv', MarksHonest, Calm' => Calm /\ MarksShrink, DueKept,
           moving \subseteq moving'
    PROVE  MarksHonest'
<1> SUFFICES ASSUME Calm'
             PROVE  /\ \A x \in 0..MaxId : IsMark(x)' => x <= LastId'
                    /\ \A x, y \in 0..MaxId : IsMark(x)' /\ IsMark(y)' /\ y < x => x \in moving'
                    /\ \A x \in 0..MaxId : Base(x)' => \A i \in due' : i <= x => Tried(i)'
  BY DEF MarksHonest
<1>1. /\ \A x \in 0..MaxId : IsMark(x) => x <= LastId
      /\ \A x, y \in 0..MaxId : IsMark(x) /\ IsMark(y) /\ y < x => x \in moving
      /\ \A x \in 0..MaxId : Base(x) => \A i \in due : i <= x => Tried(i)
  BY DEF MarksHonest
<1>2. \A x \in 0..MaxId : (IsMark(x)' => IsMark(x) /\ x <= LastId') /\ (Base(x)' => Base(x))
  BY DEF MarksShrink
<1>3. LastId \in Nat /\ due' \subseteq Nat /\ \A x \in 0..MaxId : x \in Nat
  <2>1. LastId \in Nat /\ MaxId \in Nat
    BY LastIdFacts, BoundsAssumption DEF TypeInv
  <2>2. due' \subseteq Ids
    BY DEF TypeInv, TypeOK
  <2> QED BY <2>1, <2>2 DEF Ids
<1>4. ASSUME NEW x \in 0..MaxId, Base(x)', NEW i \in due', i <= x PROVE Tried(i)'
  <2>1. Base(x) /\ IsMark(x) /\ x <= LastId
    BY <1>1, <1>2, <1>4 DEF IsMark
  <2>2. ~(i > LastId)
    BY <1>3, <1>4, <2>1
  <2>3. i \in due /\ (Tried(i) => Tried(i)')
    BY <2>2 DEF DueKept
  <2> QED BY <1>1, <1>4, <2>1, <2>3
<1> QED BY <1>1, <1>2, <1>4

(* A tick no step of this kind touches keeps its visits whole.              *)
LEMMA VisitsStay ==
    ASSUME TypeInv, TypeInv', Timeline, NEW u \in Workers, VisitsWhole(u), tick'[u] = tick[u],
           DueKept, MotionKept
    PROVE  VisitsWhole(u)'
<1>0. /\ tick[u] \in Ticks /\ {} \notin tick[u].spans /\ tick[u].now <= now /\ tick[u].now \in Nat
      /\ tick[u].spans \subseteq SUBSET Ids
      /\ LastId \in Nat /\ now \in Nat /\ Gap \in Nat /\ MaxTime \in Nat
      /\ moving \subseteq Ids /\ moving \subseteq rows
      /\ \A i \in rows : i <= LastId /\ at[i] \in Nat
  BY LastIdFacts, BoundsAssumption DEF TypeInv, TypeOK, StepsOK, Ticks
<1>1. Visit(u)' = Visit(u)
  BY DEF Visit
<1>2. ASSUME NEW v \in tick[u].spans
      PROVE  /\ v \subseteq moving /\ Max(v) \in moving /\ Max(v) \in Nat /\ Max(v) <= LastId
             /\ at[Max(v)] < tick[u].now - Gap /\ at[Max(v)] \in Nat
             /\ \A i \in moving : i > Max(v) => at[i] - at[Max(v)] > Gap
             /\ \A i \in v : i \in Nat /\ i <= Max(v)
  <2>1. v \subseteq moving /\ v # {} /\ v \subseteq Ids
    BY <1>0 DEF VisitsWhole
  <2>2. Max(v) \in v /\ \A i \in v : i \in Nat /\ i <= Max(v)
    BY <2>1, Ends
  <2> QED BY <1>0, <2>1, <2>2 DEF VisitsWhole
<1>3. ASSUME NEW v \in tick[u].spans
      PROVE  /\ v \subseteq moving'
             /\ at'[Max(v)] < tick[u].now - Gap
             /\ \A i \in moving' : i > Max(v) => at'[i] - at'[Max(v)] > Gap
  <2>1. at'[Max(v)] = at[Max(v)] /\ v \subseteq moving'
    BY <1>2 DEF MotionKept
  <2>2. ASSUME NEW i \in moving', i > Max(v) PROVE at'[i] - at'[Max(v)] > Gap
    <3>1. CASE i \in moving
      BY <1>2, <2>1, <2>2, <3>1 DEF MotionKept
    <3>2. CASE i \notin moving
      <4>1. at'[i] = now
        BY <3>2 DEF MotionKept
      <4> QED BY <1>0, <1>2, <2>1, <4>1
    <3> QED BY <3>1, <3>2
  <2> QED BY <1>2, <2>1, <2>2
<1>4. ASSUME NEW v \in tick[u].spans, NEW i \in due', i <= Max(v)
      PROVE  Tried(i)' \/ \E x \in tick[u].spans : i \in x
  <2>1. i \in Nat
    BY DEF TypeInv, TypeOK, Ids
  <2>2. ~(i > LastId)
    BY <1>0, <1>2, <1>4, <2>1
  <2>3. i \in due /\ (Tried(i) => Tried(i)')
    BY <2>2 DEF DueKept
  <2>4. Tried(i) \/ \E x \in tick[u].spans : i \in x
    BY <1>4, <2>3 DEF VisitsWhole
  <2> QED BY <2>3, <2>4
<1>5. ASSUME tick[u].pc \in Busy, NEW i \in due' \cap Visit(u)
      PROVE  i \in due /\ (Tried(i) => Tried(i)')
             /\ (i \in seen \cup failed => i \in seen' \cup failed')
  <2>1. Visit(u) \in tick[u].spans
    BY <1>5, VisitType
  <2>2. i \in Nat /\ i <= Max(Visit(u)) /\ Max(Visit(u)) <= LastId /\ Max(Visit(u)) \in Nat
    BY <1>2, <1>5, <2>1
  <2>3. ~(i > LastId)
    BY <1>0, <2>2
  <2> QED BY <2>3 DEF DueKept
<1>6. tick[u].pc = "identifying" => \A i \in due' \cap Visit(u) : i \in seen' \cup failed'
  BY <1>5 DEF VisitsWhole, Busy
<1>7. tick[u].pc = "done" => \A i \in due' \cap Visit(u) : Tried(i)'
  BY <1>5 DEF VisitsWhole, Busy
<1>8. \A v, x \in tick[u].spans : x = v \/ Max(x) < Min(v) \/ Max(v) < Min(x)
  BY DEF VisitsWhole
<1> QED BY <1>1, <1>3, <1>4, <1>6, <1>7, <1>8 DEF VisitsWhole

-----------------------------------------------------------------------------
(* The store and the clock.                                                 *)
LEMMA SameMarks ==
    ASSUME UNCHANGED <<mark, clearing, tick>>
    PROVE  /\ Calm' = Calm
           /\ \A x \in 0..MaxId : (IsMark(x)' <=> IsMark(x)) /\ (Base(x)' <=> Base(x))
           /\ \A w \in Workers : Held(w)' <=> Held(w)
BY DEF mark, Calm, IsMark, Base, Held

LEMMA StoreIInv ==
    ASSUME Orderly, TypeInv, TypeInv', IInv, Arrives \/ PurgeNewest \/ Clock
    PROVE  IInv'
<1>0. /\ LastId \in Nat /\ LastId' \in Nat /\ MaxId \in Nat /\ now \in Nat
      /\ \A i \in rows : i \in Nat /\ i <= LastId
      /\ rows # {} => LastId \in rows
      /\ \A i \in rows' : i \in Nat /\ i <= LastId'
      /\ rows' # {} => LastId' \in rows'
      /\ moving \subseteq rows /\ due \subseteq moving /\ at \in [Ids -> 0..MaxTime]
      /\ rows \subseteq Ids /\ Ids \subseteq Nat
  <2>1. MaxId \in Nat /\ MaxTime \in Nat
    BY BoundsAssumption
  <2>2. LastId \in 0..MaxId /\ LastId' \in 0..MaxId
    BY LastIdFacts, LastIdFactsNext DEF TypeInv
  <2>3. rows \subseteq Ids /\ rows' \subseteq Ids /\ Ids \subseteq Nat
    BY DEF TypeInv, TypeOK, Ids
  <2> QED BY <2>1, <2>2, <2>3, LastIdFacts, LastIdFactsNext DEF TypeInv, TypeOK
<1>1. /\ UNCHANGED <<mark, routes, tick, running>> /\ clearing' = clearing /\ starting' = starting
  BY DEF Arrives, Arrive, PurgeNewest, Delete, Clock, routes, manager
<1>2. ASSUME Timeline', Calm => LastId <= LastId' \/ \A x \in 0..MaxId : IsMark(x) => x <= LastId',
             DueKept, MotionKept, Routes'
      PROVE  IInv'
  <2>1. Unseeded' /\ EpochsPast'
    BY <1>1 DEF IInv, Unseeded, EpochsPast, mark
  <2>2. Calm' => Calm /\ MarksShrink
    <3> SUFFICES ASSUME Calm' PROVE Calm /\ MarksShrink
      OBVIOUS
    <3>1. Calm /\ \A x \in 0..MaxId : (IsMark(x)' <=> IsMark(x)) /\ (Base(x)' <=> Base(x))
      BY <1>1, SameMarks
    <3>2. \A x \in 0..MaxId : IsMark(x) => x <= LastId /\ x \in Nat
      BY <1>0, <3>1 DEF IInv, MarksHonest
    <3>3. \A x \in 0..MaxId : IsMark(x) => x <= LastId'
      BY <1>0, <1>2, <3>1, <3>2
    <3> QED BY <3>1, <3>3 DEF MarksShrink
  <2>3. MarksHonest'
    BY <1>2, <2>2, MarksStay DEF IInv, MotionKept
  <2>4. VisitsHonest'
    <3> SUFFICES ASSUME Calm', NEW w \in Workers, Held(w)' PROVE VisitsWhole(w)'
      BY DEF VisitsHonest
    <3>1. VisitsWhole(w)
      BY <1>1, SameMarks DEF IInv, VisitsHonest
    <3> QED BY <1>1, <1>2, <3>1, VisitsStay DEF IInv
  <2> QED BY <1>2, <2>1, <2>3, <2>4 DEF IInv
<1>3. CASE Arrives
  <2>1. PICK moves \in BOOLEAN : Arrive(moves, now)
    <3>1. PICK m \in BOOLEAN, lag \in {0} : Arrive(m, now - lag)
      BY <1>3 DEF Arrives, Orderly
    <3>2. now - lag = now
      BY <1>0
    <3> QED BY <3>1, <3>2
  <2> DEFINE n == LastId + 1
  <2>2. /\ rows' = rows \cup {n} /\ at' = [at EXCEPT ![n] = now]
        /\ moving' = (IF moves THEN moving \cup {n} ELSE moving)
        /\ due' = (IF moves THEN due \cup {n} ELSE due)
        /\ \A i \in rows : at[i] <= now
        /\ UNCHANGED <<seen, named, failed, now>>
    BY <2>1 DEF Arrive
  <2>3. n \in Nat /\ n > LastId /\ n \notin rows /\ n \in Ids
    <3>1. LastId < MaxId
      BY <2>1 DEF Arrive
    <3>2. n \in Ids
      BY <1>0, <3>1 DEF Ids
    <3> QED BY <1>0, <3>2
  <2>4. at'[n] = now /\ \A i \in rows : at'[i] = at[i]
    BY <1>0, <2>2, <2>3
  <2>5. LastId' = n
    <3>1. n <= LastId' /\ LastId' \in rows'
      BY <1>0, <2>2
    <3>2. LastId' = n \/ LastId' <= LastId
      BY <1>0, <2>2, <3>1
    <3> QED BY <1>0, <2>3, <3>1, <3>2
  <2> HIDE DEF n
  <2>6. Timeline'
    <3>1. rows' = 1..LastId'
      <4>1. rows = 1..LastId /\ n = LastId + 1
        BY DEF IInv, Timeline, n
      <4>2. 1..n = (1..LastId) \cup {n}
        BY <1>0, <2>3, <4>1
      <4> QED BY <2>2, <2>5, <4>1, <4>2
    <3>2. \A i \in rows' : at'[i] <= now'
      BY <1>0, <2>2, <2>4
    <3>3. ASSUME NEW i \in rows', NEW j \in rows', i < j PROVE at'[i] <= at'[j]
      <4>1. CASE j = n
        BY <1>0, <2>2, <2>4, <4>1, <3>2
      <4>2. CASE j # n
        <5>1. j \in rows /\ j <= LastId /\ i # n /\ i \in rows
          BY <1>0, <2>2, <2>3, <3>3, <4>2
        <5> QED BY <2>4, <3>3, <5>1 DEF IInv, Timeline
      <4> QED BY <4>1, <4>2
    <3> QED BY <3>1, <3>2, <3>3 DEF Timeline
  <2>7. DueKept
    <3> SUFFICES ASSUME NEW i \in due'
                 PROVE  \/ i > LastId
                        \/ i \in due /\ (Tried(i) => Tried(i)')
                             /\ (i \in seen \cup failed => i \in seen' \cup failed')
      BY DEF DueKept
    <3>1. i = n \/ i \in due
      BY <2>2
    <3> QED BY <2>2, <2>3, <3>1 DEF Tried
  <2>8. MotionKept
    BY <1>0, <2>2, <2>3, <2>4 DEF MotionKept
  <2>9. LastId <= LastId'
    BY <1>0, <2>3, <2>5
  <2>10. Routes'
    <3>1. \A x \in 0..MaxId : x <= LastId => x <= LastId'
      BY <1>0, <2>9
    <3>2. starting.to \in 0..MaxId /\ clearing.to \in 0..MaxId
      BY DEF TypeInv, TypeOK
    <3> QED BY <1>1, <3>1, <3>2 DEF IInv, Routes, mark
  <2> QED BY <1>2, <2>6, <2>7, <2>8, <2>9, <2>10
<1>4. CASE PurgeNewest
  <2>1. /\ LastId \in rows /\ LastId \notin moving /\ starting = Idle /\ clearing = Idle
        /\ LastId > watermark
        /\ rows' = rows \ {LastId} /\ moving' = moving \ {LastId} /\ seen' = seen \ {LastId}
        /\ named' = named \ {LastId} /\ due' = due \ {LastId} /\ failed' = failed \ {LastId}
        /\ at' = [at EXCEPT ![LastId] = 0] /\ now' = now
    BY <1>4 DEF PurgeNewest, Delete, Orderly
  <2>2. \A i \in rows : i # LastId => at'[i] = at[i]
    BY <1>0, <2>1
  <2>3. LastId' = LastId - 1 /\ rows' = 1..LastId'
    <3>1. rows' = 1..(LastId - 1) /\ LastId \in 1..LastId
      <4>1. rows = 1..LastId
        BY DEF IInv, Timeline
      <4>2. (1..LastId) \ {LastId} = 1..(LastId - 1)
        BY <1>0
      <4> QED BY <2>1, <4>1, <4>2
    <3>2. CASE LastId = 1
      <4>1. rows' = {}
        BY <3>1, <3>2
      <4>2. LastId' = 0
        BY <4>1 DEF LastId
      <4> QED BY <3>1, <3>2, <4>2
    <3>3. CASE LastId # 1
      <4>1. LastId - 1 \in rows'
        BY <1>0, <3>1, <3>3
      <4>2. LastId - 1 <= LastId' /\ LastId' \in 1..(LastId - 1)
        BY <1>0, <3>1, <4>1
      <4>3. LastId' = LastId - 1
        BY <1>0, <4>2
      <4> QED BY <3>1, <4>3
    <3> QED BY <3>2, <3>3
  <2>4. Timeline'
    BY <2>1, <2>2, <2>3 DEF IInv, Timeline
  <2>5. DueKept
    BY <2>1 DEF DueKept, Tried
  <2>6. MotionKept
    <3>1. moving' = moving
      BY <2>1
    <3> QED BY <1>0, <2>1, <2>2, <3>1 DEF MotionKept
  <2>7. Routes'
    BY <1>1, <2>1 DEF IInv, Routes, mark, Idle
  <2>8. ASSUME NEW x \in 0..MaxId, IsMark(x) PROVE x <= LastId'
    <3>1. Calm /\ clearing.pc = "none" /\ starting.pc = "none"
      BY <2>1 DEF Calm, Idle
    <3>2. ~seedHorizon
      <4> SUFFICES ASSUME seedHorizon PROVE FALSE
        BY DEF TypeInv, TypeOK
      <4>1. stored = None /\ \A w \in Workers : ~Held(w)
        BY <3>1 DEF IInv, Unseeded, Held, Holding, Busy
      <4> QED BY <2>8, <3>1, <4>1 DEF IsMark, Base
    <3>3. IsMark(watermark) /\ watermark \in 0..MaxId
      BY <3>2 DEF IsMark, Base, TypeInv, TypeOK
    <3>4. x <= LastId /\ (watermark < x => x \in moving)
      BY <2>8, <3>1, <3>3 DEF IInv, MarksHonest
    <3>5. x # LastId
      BY <1>0, <2>1, <3>4
    <3> QED BY <1>0, <2>3, <3>4, <3>5
  <2> QED BY <1>2, <2>4, <2>5, <2>6, <2>7, <2>8
<1>5. CASE Clock
  <2>1. now' = now + 1 /\ UNCHANGED index
    BY <1>5 DEF Clock
  <2>2. LastId' = LastId
    BY <2>1 DEF LastId, index
  <2>3. Timeline'
    <3>1. \A i \in rows : at[i] \in Nat /\ at[i] <= now
      BY <1>0, BoundsAssumption DEF IInv, Timeline
    <3>2. \A i \in rows : at[i] <= now'
      BY <1>0, <2>1, <3>1
    <3> QED BY <2>1, <2>2, <3>2 DEF IInv, Timeline, index
  <2>4. DueKept /\ MotionKept
    BY <2>1 DEF DueKept, MotionKept, index, Tried
  <2>5. Routes'
    BY <1>1, <2>2 DEF IInv, Routes, mark
  <2>6. LastId <= LastId'
    BY <1>0, <2>2
  <2> QED BY <1>2, <2>3, <2>4, <2>5, <2>6
<1> QED BY <1>3, <1>4, <1>5

-----------------------------------------------------------------------------
(* Thread w moves to the tick t while the frames stay.                      *)
LEMMA ThreadKeeps ==
    ASSUME TypeInv, TypeInv', IInv, NEW w \in Workers, NEW t, Moves(w, t), ~seedHorizon,
           t.epoch <= epoch, t.pc = "saving" => t.epoch = epoch,
           UNCHANGED <<rows, at, moving, due, now, seedHorizon, epoch, clearing>>,
           seen \subseteq seen', named \subseteq named', failed \subseteq failed',
           Routes', MarksHonest', Calm /\ Held(w)' => VisitsWhole(w)'
    PROVE  IInv'
<1>1. tick'[w] = t /\ \A u \in Workers : u # w => tick'[u] = tick[u]
  BY MovesType
<1>2. Timeline'
  <2>1. LastId' = LastId
    BY DEF LastId
  <2> QED BY <2>1 DEF IInv, Timeline
<1>3. Unseeded'
  BY DEF Unseeded
<1>4. EpochsPast'
  BY <1>1 DEF IInv, EpochsPast
<1>5. DueKept /\ MotionKept
  BY DEF DueKept, MotionKept, Tried
<1>6. VisitsHonest'
  <2> SUFFICES ASSUME Calm', NEW u \in Workers, Held(u)' PROVE VisitsWhole(u)'
    BY DEF VisitsHonest
  <2>1. Calm
    BY DEF Calm
  <2>2. CASE u = w
    BY <2>1, <2>2
  <2>3. CASE u # w
    <3>1. tick'[u] = tick[u] /\ Held(u)
      BY <1>1, <2>3 DEF Held
    <3>2. VisitsWhole(u)
      BY <2>1, <3>1 DEF IInv, VisitsHonest
    <3> QED BY <1>5, <3>1, <3>2, VisitsStay DEF IInv
  <2> QED BY <2>2, <2>3
<1> QED BY <1>2, <1>3, <1>4, <1>6 DEF IInv

(* It makes no new mark when what it holds afterwards were marks before.    *)
LEMMA TickShrinks ==
    ASSUME TypeInv, TypeInv', IInv, NEW w \in Workers, NEW t, Moves(w, t),
           UNCHANGED <<rows, moving, due, now, seedHorizon, epoch, clearing>>,
           seen \subseteq seen', named \subseteq named', failed \subseteq failed',
           watermark' = watermark, stored' = stored \/ (Calm => Base(stored')),
           t.pc \in Holding /\ t.epoch = epoch /\ Calm =>
              Base(t.lo) /\ \A v \in t.spans : IsMark(Max(v))
    PROVE  MarksHonest'
<1>1. tick'[w] = t /\ \A u \in Workers : u # w => tick'[u] = tick[u]
  BY MovesType
<1>2. DueKept /\ moving \subseteq moving' /\ LastId' = LastId
  BY DEF DueKept, Tried, LastId
<1>3. ASSUME Calm', NEW x \in 0..MaxId, Base(x)' PROVE Base(x)
  <2>1. Calm
    BY <1>3 DEF Calm
  <2>2. CASE ~seedHorizon' /\ x = watermark'
    BY <2>2 DEF Base
  <2>3. CASE stored' # None /\ x = stored' /\ clearing'.pc # "reset"
    BY <2>1, <2>3 DEF Base
  <2>4. CASE clearing'.pc = "reset" /\ x = clearing'.to
    BY <2>4 DEF Base
  <2>5. CASE \E u \in Workers : Held(u)' /\ x = tick'[u].lo
    <3>1. PICK u \in Workers : Held(u)' /\ x = tick'[u].lo
      BY <2>5
    <3>2. CASE u = w
      BY <1>1, <2>1, <3>1, <3>2 DEF Held
    <3>3. CASE u # w
      BY <1>1, <3>1, <3>3 DEF Held, Base
    <3> QED BY <3>2, <3>3
  <2> QED BY <1>3, <2>2, <2>3, <2>4, <2>5 DEF Base
<1>4. ASSUME Calm', NEW x \in 0..MaxId, IsMark(x)' PROVE IsMark(x)
  <2>1. Calm
    BY <1>4 DEF Calm
  <2>2. CASE Base(x)'
    BY <1>3, <1>4, <2>2 DEF IsMark
  <2>3. CASE \E u \in Workers : Held(u)' /\ \E v \in tick'[u].spans : x = Max(v)
    <3>1. PICK u \in Workers : Held(u)' /\ \E v \in tick'[u].spans : x = Max(v)
      BY <2>3
    <3>2. CASE u = w
      BY <1>1, <2>1, <3>1, <3>2 DEF Held
    <3>3. CASE u # w
      BY <1>1, <3>1, <3>3 DEF Held, IsMark
    <3> QED BY <3>2, <3>3
  <2> QED BY <1>4, <2>2, <2>3 DEF IsMark
<1>5. Calm' => Calm /\ MarksShrink
  <2> SUFFICES ASSUME Calm' PROVE Calm /\ MarksShrink
    OBVIOUS
  <2>1. Calm
    BY DEF Calm
  <2>2. \A x \in 0..MaxId : IsMark(x) => x <= LastId'
    BY <1>2, <2>1 DEF IInv, MarksHonest
  <2> QED BY <1>3, <1>4, <2>1, <2>2 DEF MarksShrink
<1> QED BY <1>2, <1>5, MarksStay DEF IInv

(* A tick that ends.                                                        *)
LEMMA RestKeeps ==
    ASSUME TypeInv, TypeInv', IInv, NEW w \in Workers, NEW t \in Resteds, Moves(w, t), ~seedHorizon,
           UNCHANGED <<rows, at, moving, due, now, watermark, stored, seedHorizon, epoch, clearing>>,
           seen \subseteq seen', named \subseteq named', failed \subseteq failed', Routes'
    PROVE  IInv'
<1>1. t.pc \in {"none", "waiting"} /\ t.epoch = 0 /\ t.pc \notin Holding /\ t.pc # "saving"
  BY RestMoves DEF Holding, Busy
<1>2. 0 <= epoch
  BY DEF TypeInv, TypeOK
<1>3. ~Held(w)'
  BY <1>1, MovesType DEF Held
<1>4. MarksHonest'
  BY <1>1, TickShrinks
<1> QED BY <1>1, <1>2, <1>3, <1>4, ThreadKeeps

-----------------------------------------------------------------------------
(* Start, stop, clear, and a new process.                                   *)
LEMMA FramesStay ==
    ASSUME TypeInv, TypeInv', IInv, UNCHANGED <<rows, at, moving, seen, named, failed, now>>,
           due' \subseteq due, Routes', Unseeded', EpochsPast', MarksHonest',
           \A w \in Workers : Calm' /\ Held(w)' => Calm /\ Held(w) /\ tick'[w] = tick[w]
    PROVE  IInv'
<1>1. Timeline'
  <2>1. LastId' = LastId
    BY DEF LastId
  <2> QED BY <2>1 DEF IInv, Timeline
<1>2. DueKept /\ MotionKept
  BY DEF DueKept, MotionKept, Tried
<1>3. VisitsHonest'
  <2> SUFFICES ASSUME Calm', NEW u \in Workers, Held(u)' PROVE VisitsWhole(u)'
    BY DEF VisitsHonest
  <2>1. tick'[u] = tick[u] /\ VisitsWhole(u)
    BY DEF IInv, VisitsHonest
  <2> QED BY <1>2, <2>1, VisitsStay DEF IInv
<1> QED BY <1>1, <1>3 DEF IInv

LEMMA QuietKeeps ==
    ASSUME TypeInv, TypeInv', IInv, UNCHANGED <<index, now, mark, clearing, tick>>,
           Routes', Unseeded'
    PROVE  IInv'
<1>1. /\ Calm' = Calm /\ \A w \in Workers : Held(w)' <=> Held(w)
      /\ \A x \in 0..MaxId : (IsMark(x)' <=> IsMark(x)) /\ (Base(x)' <=> Base(x))
  <2>1. \A w \in Workers : Held(w)' <=> Held(w)
    BY DEF Held, mark
  <2> QED BY <2>1, SameMarks
<1>2. LastId' = LastId /\ DueKept /\ due' = due
  BY DEF LastId, DueKept, Tried, index
<1>3. Calm' => Calm /\ MarksShrink
  BY <1>1, <1>2 DEF MarksShrink, IInv, MarksHonest
<1>4. MarksHonest'
  BY <1>2, <1>3, MarksStay DEF IInv, index
<1>5. EpochsPast'
  BY DEF IInv, EpochsPast, mark
<1> QED BY <1>1, <1>2, <1>4, <1>5, FramesStay DEF index

LEMMA StartIInv ==
    ASSUME TypeInv, TypeInv', IInv, StartReads \/ StartGoesOn \/ Stop
    PROVE  IInv'
<1>0. /\ LastId \in 0..MaxId /\ LastId \in Nat
      /\ starting.to \in 0..MaxId /\ clearing.to \in 0..MaxId /\ seedHorizon \in BOOLEAN
      /\ starting \in [pc : {"none", "read", "saved", "seeded"}, to : 0..MaxId]
      /\ None \notin 0..MaxId
  BY LastIdFacts, BoundsAssumption, NoneAssumption DEF TypeInv, TypeOK
<1>1. CASE StartReads
  <2>1. UNCHANGED <<index, now, mark, clearing, tick, running>> /\ LastId' = LastId
    BY <1>1 DEF StartReads, manager, LastId, index
  <2>2. /\ clearing.pc = "none" /\ starting' = [pc |-> IF seedHorizon THEN "read" ELSE "seeded", to |-> LastId]
        /\ starting.pc = "none"
    BY <1>1 DEF StartReads
  <2>3. Routes'
    BY <1>0, <2>1, <2>2 DEF Routes, mark
  <2>4. Unseeded'
    BY <2>1, <2>2 DEF IInv, Unseeded, mark
  <2> QED BY <2>1, <2>3, <2>4, QuietKeeps
<1>2. CASE StartSaves
  <2>1. /\ starting.pc = "read" /\ stored' = starting.to /\ due' = {i \in due : i > starting.to}
        /\ starting' = [starting EXCEPT !.pc = "saved"]
        /\ UNCHANGED <<rows, at, moving, seen, named, failed, now, watermark, seedHorizon, epoch,
                       running, clearing, tick>>
    BY <1>2 DEF StartSaves, manager
  <2>2. /\ seedHorizon /\ clearing.pc = "none" /\ starting.to <= LastId
        /\ starting'.pc = "saved" /\ starting'.to = starting.to /\ LastId' = LastId
    BY <1>0, <2>1 DEF IInv, Routes, LastId
  <2>3. Routes' /\ Unseeded' /\ EpochsPast'
    BY <2>1, <2>2 DEF IInv, Routes, Unseeded, EpochsPast
  <2>4. \A w \in Workers : ~Held(w)'
    BY <2>1, <2>2 DEF IInv, Unseeded, Held, Holding, Busy
  <2>5. \A x \in 0..MaxId : (IsMark(x)' => x = starting.to) /\ (Base(x)' => x = starting.to)
    BY <2>1, <2>2, <2>4 DEF IsMark, Base
  <2>6. \A i \in due' : ~(i <= starting.to)
    <3>1. due' \subseteq Ids /\ starting.to \in Nat
      BY <1>0, BoundsAssumption DEF TypeInv, TypeOK
    <3> QED BY <2>1, <3>1 DEF Ids
  <2>7. starting.to \in Nat
    BY <1>0, BoundsAssumption
  <2>8. MarksHonest'
    BY <2>2, <2>5, <2>6, <2>7 DEF MarksHonest
  <2> QED BY <2>1, <2>3, <2>4, <2>8, FramesStay
<1>3. CASE StartSeeds
  <2>1. /\ starting.pc = "saved" /\ watermark' = starting.to /\ seedHorizon' = FALSE
        /\ starting' = [starting EXCEPT !.pc = "seeded"]
        /\ UNCHANGED <<index, now, stored, epoch, clearing, tick>>
    BY <1>3 DEF StartSeeds
  <2>2. /\ seedHorizon /\ clearing.pc = "none" /\ stored = starting.to /\ stored # None
        /\ starting'.pc = "seeded" /\ LastId' = LastId
    BY <1>0, <2>1 DEF IInv, Routes, LastId, index
  <2>3. Routes' /\ Unseeded' /\ EpochsPast'
    BY <2>1, <2>2 DEF IInv, Routes, Unseeded, EpochsPast
  <2>4. \A w \in Workers : ~Held(w)'
    BY <2>1, <2>2 DEF IInv, Unseeded, Held, Holding, Busy
  <2>5. \A x \in 0..MaxId : (IsMark(x)' => Base(x)) /\ (Base(x)' => Base(x))
    BY <2>1, <2>2, <2>4 DEF IsMark, Base
  <2>6. Calm /\ MarksShrink
    <3>1. Calm
      BY <2>2 DEF Calm
    <3> QED BY <2>2, <2>5, <3>1 DEF IInv, MarksHonest, MarksShrink, IsMark
  <2>7. DueKept
    BY <2>1 DEF DueKept, Tried, index
  <2>8. MarksHonest'
    BY <2>1, <2>6, <2>7, MarksStay DEF IInv, index
  <2> QED BY <2>1, <2>3, <2>4, <2>8, FramesStay DEF index
<1>4. CASE StartSpawns
  <2>1. /\ starting.pc = "seeded" /\ starting' = Idle /\ UNCHANGED <<index, now, mark, clearing>>
        /\ tick' = [tick EXCEPT ![latest + 1] = [Resting EXCEPT !.pc = "waiting"]]
    BY <1>4 DEF StartSpawns
  <2>2. ~seedHorizon /\ LastId' = LastId
    BY <2>1 DEF IInv, Routes, LastId, index
  <2>3. latest + 1 \in Workers
    BY <2>1, SlicesAssumption DEF TypeInv, TypeOK, StepsOK, Workers
  <2> DEFINE t == [Resting EXCEPT !.pc = "waiting"]
  <2>4. Moves(latest + 1, t) /\ t \in Resteds
    BY <2>1, <2>3, RestMoves DEF To, Resteds
  <2>5. Routes'
    BY <2>1, <2>2 DEF IInv, Routes, Idle, mark
  <2> HIDE DEF t
  <2> QED BY <2>1, <2>2, <2>3, <2>4, <2>5, RestKeeps DEF index, mark
<1>5. CASE Stop
  <2>1. /\ running /\ UNCHANGED <<index, now, mark, routes, starting, clearing>>
        /\ tick' = IF tick[latest].pc = "waiting" THEN [tick EXCEPT ![latest] = Resting] ELSE tick
    BY <1>5 DEF Stop, routes
  <2>2. ~seedHorizon /\ LastId' = LastId
    BY <2>1 DEF IInv, Unseeded, LastId, index
  <2>3. latest \in Workers
    BY <2>1 DEF TypeInv, TypeOK, StepsOK, Workers
  <2>4. Routes' /\ Unseeded'
    BY <2>1, <2>2 DEF IInv, Routes, Unseeded, mark
  <2>5. CASE tick[latest].pc = "waiting"
    <3>1. Moves(latest, Resting) /\ Resting \in Resteds
      BY <2>1, <2>3, <2>5, RestMoves DEF To, Resteds
    <3> QED BY <2>1, <2>2, <2>3, <2>4, <3>1, RestKeeps DEF index, mark
  <2>6. CASE tick[latest].pc # "waiting"
    BY <2>1, <2>4, <2>6, QuietKeeps
  <2> QED BY <2>5, <2>6
<1> QED BY <1>1, <1>2, <1>3, <1>4, <1>5 DEF StartGoesOn

LEMMA ClearIInv ==
    ASSUME Orderly, TypeInv, TypeInv', IInv, ClearWipes \/ ClearGoesOn \/ Crash
    PROVE  IInv'
<1>0. /\ LastId \in 0..MaxId /\ LastId \in Nat
      /\ starting.to \in 0..MaxId /\ clearing.to \in 0..MaxId /\ clearing.to \in Nat
      /\ seedHorizon \in BOOLEAN /\ epoch \in Nat
      /\ clearing \in [pc : {"none", "wiped", "read", "reset"}, to : 0..MaxId]
      /\ None \notin 0..MaxId /\ \A w \in Workers : tick[w].epoch \in Nat
      /\ due' \subseteq Nat
  <2>1. MaxId \in Nat /\ LastId \in 0..MaxId
    BY LastIdFacts, BoundsAssumption DEF TypeInv
  <2>2. clearing.to \in 0..MaxId /\ starting.to \in 0..MaxId
    BY DEF TypeInv, TypeOK
  <2>3. due' \subseteq Nat
    <3>1. due' \subseteq Ids
      BY DEF TypeInv, TypeOK
    <3> QED BY <3>1 DEF Ids
  <2>4. \A w \in Workers : tick[w].epoch \in Nat
    BY DEF TypeInv, TypeOK, Ticks
  <2>5. /\ seedHorizon \in BOOLEAN /\ epoch \in Nat
        /\ clearing \in [pc : {"none", "wiped", "read", "reset"}, to : 0..MaxId]
    BY DEF TypeInv, TypeOK
  <2>6. LastId \in Nat /\ clearing.to \in Nat
    BY <2>1, <2>2
  <2> QED BY <2>1, <2>2, <2>3, <2>4, <2>5, <2>6, NoneAssumption
<1>1. CASE ClearWipes
  <2>1. /\ rows' = {} /\ starting.pc = "none" /\ clearing' = [pc |-> "wiped", to |-> 0]
        /\ UNCHANGED <<mark, running, starting, tick>>
    BY <1>1 DEF ClearWipes, manager
  <2>2. LastId' = 0
    BY <2>1 DEF LastId
  <2>3. Timeline'
    BY <2>1, <2>2 DEF Timeline
  <2>4. Routes' /\ Unseeded' /\ EpochsPast'
    BY <2>1 DEF IInv, Routes, Unseeded, EpochsPast, mark
  <2>5. ~Calm'
    BY <2>1 DEF Calm
  <2> QED BY <2>3, <2>4, <2>5 DEF IInv, MarksHonest, VisitsHonest
<1>2. CASE ClearReads
  <2>1. /\ clearing.pc = "wiped" /\ clearing' = [pc |-> "read", to |-> LastId]
        /\ UNCHANGED <<index, now, mark, running, starting, tick>>
    BY <1>2 DEF ClearReads, manager
  <2>2. LastId' = LastId /\ starting.pc = "none"
    BY <2>1 DEF LastId, index, IInv, Routes
  <2>3. Routes' /\ Unseeded' /\ EpochsPast'
    BY <1>0, <2>1, <2>2 DEF IInv, Routes, Unseeded, EpochsPast, mark
  <2>4. ~Calm'
    BY <2>1 DEF Calm
  <2>5. MarksHonest'
    BY <2>4 DEF MarksHonest
  <2> QED BY <2>1, <2>3, <2>4, <2>5, FramesStay DEF index
<1>3. CASE ClearResets
  <2>1. /\ clearing.pc = "read" /\ \A w \in Workers : tick[w].pc # "saving"
        /\ watermark' = (IF seedHorizon THEN watermark ELSE clearing.to) /\ epoch' = epoch + 1
        /\ due' = (IF seedHorizon THEN due ELSE {i \in due : i > clearing.to})
        /\ clearing' = (IF seedHorizon THEN Idle ELSE [clearing EXCEPT !.pc = "reset"])
        /\ UNCHANGED <<rows, at, moving, seen, named, failed, now, stored, seedHorizon,
                       running, starting, tick>>
    BY <1>3 DEF ClearResets, Reset, Orderly, manager
  <2>2. LastId' = LastId /\ starting.pc = "none" /\ clearing.to <= LastId
    BY <2>1 DEF LastId, IInv, Routes
  <2>3. Routes' /\ Unseeded'
    BY <1>0, <2>1, <2>2 DEF IInv, Routes, Unseeded, Idle
  <2>4. EpochsPast'
    BY <1>0, <2>1 DEF IInv, EpochsPast
  <2>5. \A w \in Workers : ~Held(w)'
    BY <1>0, <2>1 DEF IInv, EpochsPast, Held
  <2>6. due' \subseteq due
    BY <2>1
  <2>7. MarksHonest'
    <3>1. CASE seedHorizon
      <4>1. stored = None
        BY <2>2, <3>1 DEF IInv, Unseeded
      <4>2. \A x \in 0..MaxId : ~Base(x)' /\ ~IsMark(x)'
        BY <2>1, <2>5, <3>1, <4>1 DEF Base, IsMark, Idle
      <4> QED BY <4>2 DEF MarksHonest
    <3>2. CASE ~seedHorizon
      <4>1. clearing'.pc = "reset" /\ clearing'.to = clearing.to
        BY <1>0, <2>1, <3>2
      <4>2. \A x \in 0..MaxId : (IsMark(x)' => x = clearing.to) /\ (Base(x)' => x = clearing.to)
        BY <2>1, <2>5, <3>2, <4>1 DEF Base, IsMark
      <4>3. \A i \in due' : ~(i <= clearing.to)
        BY <1>0, <2>1, <3>2
      <4> QED BY <1>0, <2>2, <4>2, <4>3 DEF MarksHonest
    <3> QED BY <3>1, <3>2
  <2> QED BY <2>1, <2>3, <2>4, <2>5, <2>6, <2>7, FramesStay
<1>4. CASE ClearSaves
  <2>1. /\ clearing.pc = "reset" /\ stored' = clearing.to /\ clearing' = Idle
        /\ UNCHANGED <<index, now, watermark, seedHorizon, epoch, running, starting, tick>>
    BY <1>4 DEF ClearSaves, manager
  <2>2. LastId' = LastId /\ starting.pc = "none" /\ ~seedHorizon
    BY <2>1 DEF LastId, index, IInv, Routes
  <2>3. Routes' /\ Unseeded' /\ EpochsPast'
    BY <2>1, <2>2 DEF IInv, Routes, Unseeded, EpochsPast, Idle
  <2>4. \A w \in Workers : Held(w)' <=> Held(w)
    BY <2>1 DEF Held
  <2>5. \A x \in 0..MaxId : Base(x)' => Base(x)
    BY <2>1, <2>4 DEF Base, Idle
  <2>6. \A x \in 0..MaxId : IsMark(x)' => IsMark(x)
    BY <2>1, <2>4, <2>5 DEF IsMark
  <2>7. Calm /\ MarksShrink
    <3>1. Calm
      BY <2>1 DEF Calm
    <3> QED BY <2>2, <2>5, <2>6, <3>1 DEF IInv, MarksHonest, MarksShrink
  <2>8. DueKept
    BY <2>1 DEF DueKept, Tried, index
  <2>9. MarksHonest'
    BY <2>1, <2>7, <2>8, MarksStay DEF IInv, index
  <2> QED BY <2>1, <2>3, <2>4, <2>7, <2>9, FramesStay DEF index
<1>5. CASE Crash
  <2>1. /\ clearing.pc = "none" /\ tick' = [w \in Workers |-> Resting] /\ running' = FALSE
        /\ clearing' = Idle /\ watermark' = (IF stored = None THEN 0 ELSE stored)
        /\ seedHorizon' = (stored = None) /\ epoch' = 0
        /\ starting' = [pc |-> IF stored = None THEN "read" ELSE "seeded", to |-> LastId]
        /\ UNCHANGED <<index, now, stored>>
    BY <1>5 DEF Crash, Orderly
  <2>2. LastId' = LastId
    BY <2>1 DEF LastId, index
  <2>3. \A w \in Workers : tick'[w] = Resting /\ ~Held(w)'
    BY <2>1 DEF Held, Holding, Busy, Resting
  <2>4. Routes' /\ Unseeded' /\ EpochsPast'
    <3>1. Routes'
      <4>1. clearing'.pc = "none" /\ starting'.to <= LastId'
        BY <1>0, <2>1, <2>2 DEF Idle
      <4>2. stored = None => seedHorizon' /\ starting'.pc = "read"
        BY <2>1
      <4>3. stored # None => ~seedHorizon' /\ starting'.pc = "seeded"
        BY <2>1
      <4> QED BY <4>1, <4>2, <4>3 DEF Routes
    <3>2. Unseeded'
      BY <2>1, <2>3 DEF Unseeded, Resting
    <3>3. EpochsPast'
      BY <2>1, <2>3 DEF EpochsPast, Resting
    <3> QED BY <3>1, <3>2, <3>3
  <2>5. \A x \in 0..MaxId : (IsMark(x)' => Base(x)) /\ (Base(x)' => Base(x))
    BY <2>1, <2>3 DEF IsMark, Base, Idle
  <2>6. Calm /\ MarksShrink
    <3>1. Calm
      BY <2>1 DEF Calm
    <3> QED BY <2>2, <2>5, <3>1 DEF IInv, MarksHonest, MarksShrink, IsMark
  <2>7. DueKept
    BY <2>1 DEF DueKept, Tried, index
  <2>8. MarksHonest'
    BY <2>1, <2>6, <2>7, MarksStay DEF IInv, index
  <2> QED BY <2>1, <2>3, <2>4, <2>8, FramesStay DEF index
<1> QED BY <1>1, <1>2, <1>3, <1>4, <1>5 DEF ClearGoesOn

-----------------------------------------------------------------------------
(* The steps of a tick.                                                     *)
LEMMA ThreadFacts ==
    ASSUME TypeInv, IInv, NEW w \in Workers, tick[w].pc # "none"
    PROVE  /\ ~seedHorizon /\ Base(watermark) /\ tick[w] \in Ticks
           /\ tick[w].lo \in 0..MaxId /\ tick[w].epoch <= epoch /\ LastId \in 0..MaxId
           /\ Held(w) => Base(tick[w].lo) /\ \A v \in tick[w].spans : IsMark(Max(v))
<1>1. ~seedHorizon /\ tick[w] \in Ticks /\ tick[w].epoch <= epoch
  BY DEF IInv, Unseeded, EpochsPast, TypeInv, TypeOK
<1>2. tick[w].lo \in 0..MaxId
  BY <1>1 DEF Ticks
<1>3. Base(watermark)
  BY <1>1 DEF Base
<1>4. Held(w) => Base(tick[w].lo) /\ \A v \in tick[w].spans : IsMark(Max(v))
  BY DEF Base, IsMark
<1> QED BY <1>1, <1>2, <1>3, <1>4, LastIdFacts DEF TypeInv

(* A step that leaves the frames' state alone, but for what it tried.       *)
Steady == UNCHANGED <<rows, at, moving, due, now, seedHorizon, epoch, routes, clearing, starting>>
Gains == Steady /\ seen \subseteq seen' /\ named \subseteq named' /\ failed \subseteq failed'

LEMMA SteadyRoutes ==
    ASSUME IInv, ~seedHorizon, Steady PROVE Routes'
<1>1. LastId' = LastId
  BY DEF LastId, Steady
<1> QED BY <1>1 DEF IInv, Routes, Steady

(* A tick that works on with the visits it holds.                           *)
LEMMA WorkKeeps ==
    ASSUME TypeInv, TypeInv', IInv, NEW w \in Workers, tick[w].pc \in Busy,
           NEW pc \in Busy, To(w, [tick[w] EXCEPT !.pc = pc]),
           Gains, watermark' = watermark, stored' = stored,
           pc = "identifying" => \A i \in due \cap Visit(w) : i \in seen' \cup failed'
                                      \/ ~(Calm /\ Held(w)),
           pc = "done" => \A i \in due \cap Visit(w) : Tried(i)' \/ ~(Calm /\ Held(w))
    PROVE  IInv'
<1> DEFINE t == [tick[w] EXCEPT !.pc = pc]
<1>1. /\ tick[w] \in Ticks /\ TickOK(tick[w]) /\ tick[w].pc # "none" /\ pc # "saving"
      /\ tick[w].pc \in Holding /\ pc \in Holding
  BY DEF TypeInv, TypeOK, StepsOK, TickOK, Busy, Holding
<1>2. /\ t \in Ticks /\ t.pc = pc /\ t.spans = tick[w].spans /\ t.now = tick[w].now
      /\ t.epoch = tick[w].epoch /\ t.lo = tick[w].lo
  BY <1>1 DEF Ticks, Busy
<1>3. Moves(w, t)
  BY <1>1, <1>2 DEF Moves, TickOK
<1> HIDE DEF t
<1>4. tick'[w] = t
  BY <1>3, MovesType DEF Gains, Steady
<1>5. Held(w)' => Held(w)
  BY <1>1, <1>2, <1>4 DEF Held, Gains, Steady
<1>6. ~seedHorizon /\ t.epoch <= epoch /\ Routes'
  BY <1>1, <1>2, ThreadFacts, SteadyRoutes DEF Gains
<1>7. MarksHonest'
  <2>1. t.pc \in Holding /\ t.epoch = epoch => Base(t.lo) /\ \A v \in t.spans : IsMark(Max(v))
    BY <1>1, <1>2, ThreadFacts DEF Held
  <2> QED BY <1>3, <2>1, TickShrinks DEF Gains, Steady
<1>8. ASSUME Calm, Held(w)' PROVE VisitsWhole(w)'
  <2>1. VisitsWhole(w) /\ Held(w)
    BY <1>5, <1>8 DEF IInv, VisitsHonest
  <2>2. Visit(w)' = Visit(w)
    BY <1>2, <1>4 DEF Visit
  <2>3. \A i : Tried(i) => Tried(i)'
    BY DEF Tried, Gains
  <2>4. /\ \A v \in t.spans :
              /\ v \subseteq moving'
              /\ at'[Max(v)] < t.now - Gap
              /\ \A i \in moving' : i > Max(v) => at'[i] - at'[Max(v)] > Gap
        /\ \A u, v \in t.spans : u = v \/ Max(u) < Min(v) \/ Max(v) < Min(u)
        /\ \A v \in t.spans : \A i \in due' :
              i <= Max(v) => Tried(i)' \/ \E u \in t.spans : i \in u
    BY <1>2, <2>1, <2>3 DEF VisitsWhole, Gains, Steady
  <2>5. /\ pc = "identifying" => \A i \in due' \cap Visit(w) : i \in seen' \cup failed'
        /\ pc = "done" => \A i \in due' \cap Visit(w) : Tried(i)'
    BY <1>8, <2>1 DEF Gains, Steady
  <2> QED BY <1>2, <1>4, <2>2, <2>4, <2>5 DEF VisitsWhole
<1> QED BY <1>1, <1>2, <1>3, <1>6, <1>7, <1>8, ThreadKeeps DEF Gains, Steady

LEMMA RestsIInv ==
    ASSUME TypeInv, TypeInv', IInv, NEW w \in Workers, tick[w].pc # "none", Rest(w),
           Gains, watermark' = watermark, stored' = stored
    PROVE  IInv'
<1>1. PICK t \in Resteds : Moves(w, t)
  BY RestMoves
<1>2. ~seedHorizon /\ Routes'
  BY ThreadFacts, SteadyRoutes DEF Gains
<1> QED BY <1>1, <1>2, RestKeeps DEF Gains, Steady

LEMMA WorkIInv ==
    ASSUME TypeInv, TypeInv', IInv, NEW w \in Workers,
           \/ Yield(w) \/ Detect(w) \/ Detected(w) \/ DetectedButOne(w)
           \/ Identified(w) \/ Cancelled(w) \/ Raises(w)
    PROVE  IInv'
<1>1. UNCHANGED <<rows, at, moving, due, now, mark, routes, starting, clearing, watermark, stored>>
      /\ Steady
  BY DEF Yield, Detect, Detected, DetectedButOne, Identified, Cancelled, Raises,
         Steady, index, mark, routes
<1>2. Gains
  BY <1>1 DEF Yield, Detect, Detected, DetectedButOne, Identified, Cancelled, Raises,
              Gains, index
<1>3. tick[w].pc # "none" /\ watermark' = watermark /\ stored' = stored
  BY <1>1 DEF Yield, Detect, Detected, DetectedButOne, Identified, Cancelled, Raises
<1>4. ASSUME tick[w].pc \in Busy, NEW i \in due \cap Visit(w) PROVE i \in Inside(w)
  <2>1. Visit(w) \subseteq Ids /\ Visit(w) # {} /\ i \in rows
    BY <1>4, VisitType DEF TypeInv, TypeOK
  <2>2. i \in Nat /\ Min(Visit(w)) <= i /\ i <= Max(Visit(w))
    BY <2>1, Ends
  <2>3. Min(Visit(w)) \in Ids /\ Max(Visit(w)) \in Ids
    BY <2>1, Ends
  <2>4. i \in Min(Visit(w))..Max(Visit(w))
    BY <2>2, <2>3 DEF Ids
  <2> QED BY <2>1, <2>4 DEF Inside
<1>5. CASE Rest(w)
  BY <1>2, <1>3, <1>5, RestsIInv
<1>6. CASE Detect(w)
  <2>1. tick[w].pc \in Busy /\ To(w, [tick[w] EXCEPT !.pc = "detecting"]) /\ "detecting" \in Busy
    BY <1>6 DEF Detect, Busy
  <2> QED BY <1>2, <1>3, <2>1, WorkKeeps
<1>7. CASE ~Rest(w) /\ (Detected(w) \/ DetectedButOne(w))
  <2>1. /\ tick[w].pc \in Busy /\ To(w, [tick[w] EXCEPT !.pc = "identifying"])
        /\ "identifying" \in Busy
    BY <1>7 DEF Detected, DetectedButOne, Busy
  <2>2. \A i \in due \cap Inside(w) : i \in seen' \cup failed'
    BY <1>7 DEF Detected, DetectedButOne
  <2>3. \A i \in due \cap Visit(w) : i \in seen' \cup failed'
    BY <1>4, <2>1, <2>2
  <2> QED BY <1>2, <1>3, <2>1, <2>3, WorkKeeps
<1>8. CASE ~Rest(w) /\ (Identified(w) \/ Cancelled(w))
  <2>1. /\ tick[w].pc \in Busy /\ To(w, [tick[w] EXCEPT !.pc = "done"]) /\ "done" \in Busy
        /\ named' = named \cup (Inside(w) \cap seen) /\ failed' = failed
        /\ tick[w].pc = "identifying"
    BY <1>8 DEF Identified, Cancelled, Busy
  <2>2. \A i \in due \cap Visit(w) : Tried(i)' \/ ~(Calm /\ Held(w))
    <3> SUFFICES ASSUME NEW i \in due \cap Visit(w), Calm, Held(w) PROVE Tried(i)'
      OBVIOUS
    <3>1. i \in seen \cup failed
      BY <2>1 DEF IInv, VisitsHonest, VisitsWhole
    <3>2. i \in Inside(w)
      BY <1>4, <2>1
    <3> QED BY <2>1, <3>1, <3>2 DEF Tried
  <2> QED BY <1>2, <1>3, <2>1, <2>2, WorkKeeps
<1> QED BY <1>5, <1>6, <1>7, <1>8 DEF Yield, Raises

LEMMA WakeIInv ==
    ASSUME TypeInv, TypeInv', IInv, NEW w \in Workers, Wake(w) \/ Snapshot(w)
    PROVE  IInv'
<1>0. /\ tick[w] \in Ticks /\ TickOK(tick[w]) /\ now \in 0..MaxTime /\ now <= now
      /\ watermark \in 0..MaxId /\ epoch \in Nat /\ tick[w].pc # "none"
      /\ tick[w].pc \notin Busy \cup {"saving"} /\ tick[w].spans = {}
  <2>1. now \in Nat
    BY BoundsAssumption DEF TypeInv, TypeOK
  <2>2. tick[w].pc \in {"waiting", "awake"}
    BY DEF Wake, Snapshot
  <2> QED BY <2>1, <2>2 DEF TypeInv, TypeOK, StepsOK, TickOK, Busy
<1>1. Gains /\ watermark' = watermark /\ stored' = stored
  BY DEF Wake, Snapshot, Gains, Steady, index, mark, routes
<1>2. ~seedHorizon /\ Routes' /\ Base(watermark) /\ tick[w].epoch <= epoch
  BY <1>0, <1>1, ThreadFacts, SteadyRoutes DEF Gains
<1>3. CASE Wake(w)
  <2> DEFINE t == [tick[w] EXCEPT !.pc = "awake", !.now = now]
  <2>1. t \in Ticks /\ t.pc = "awake" /\ t.epoch <= epoch /\ t.pc \notin Holding /\ t.pc # "saving"
        /\ t.spans = {} /\ t.now = now
    BY <1>0, <1>2 DEF Ticks, Holding, Busy
  <2>2. Moves(w, t)
    BY <1>0, <1>3, <2>1 DEF Wake, Moves, TickOK, Busy
  <2> HIDE DEF t
  <2>3. ~Held(w)'
    BY <1>1, <2>1, <2>2, MovesType DEF Held, Gains, Steady
  <2>4. MarksHonest'
    BY <1>1, <2>1, <2>2, TickShrinks DEF Gains, Steady
  <2> QED BY <1>1, <1>2, <2>1, <2>2, <2>3, <2>4, ThreadKeeps DEF Gains, Steady
<1>4. CASE Snapshot(w)
  <2> DEFINE t == [tick[w] EXCEPT !.pc = "snapped", !.epoch = epoch, !.lo = watermark]
  <2>1. t \in Ticks /\ t.pc = "snapped" /\ t.epoch = epoch /\ t.lo = watermark /\ t.spans = {}
        /\ t.now = tick[w].now
    BY <1>0 DEF Ticks
  <2>2. Moves(w, t)
    BY <1>0, <1>4, <2>1 DEF Snapshot, Moves, TickOK, Busy
  <2> HIDE DEF t
  <2>3. tick'[w] = t
    BY <1>1, <2>2, MovesType DEF Gains, Steady
  <2>4. VisitsWhole(w)' /\ t.epoch <= epoch
    BY <1>0, <2>1, <2>3 DEF VisitsWhole
  <2>5. MarksHonest'
    BY <1>1, <1>2, <2>1, <2>2, TickShrinks DEF Gains, Steady
  <2> QED BY <1>1, <1>2, <2>1, <2>2, <2>4, <2>5, ThreadKeeps DEF Gains, Steady
<1> QED BY <1>3, <1>4

(* The window takes the first closed visits: each is whole, and nothing     *)
(* between the watermark and the last of them is left out.                  *)
LEMMA WindowIInv ==
    ASSUME TypeInv, TypeInv', IInv, NEW w \in Workers, Window(w)
    PROVE  IInv'
<1> DEFINE closed == ClosedVisits(tick[w].lo, tick[w].now)
           first == FirstOf(closed)
           t == [tick[w] EXCEPT !.pc = "visit", !.spans = first]
<1>0. /\ tick[w] \in Ticks /\ TickOK(tick[w]) /\ tick[w].pc = "snapped" /\ tick[w].pc # "none"
      /\ tick[w].lo \in 0..MaxId /\ tick[w].now \in 0..MaxTime /\ tick[w].lo \in Nat
      /\ tick[w].spans = {} /\ due \subseteq moving /\ moving \subseteq rows /\ rows \subseteq Ids
  <2>1. tick[w] \in Ticks /\ tick[w].pc = "snapped"
    BY DEF Window, TypeInv, TypeOK
  <2>2. tick[w].lo \in 0..MaxId /\ tick[w].now \in 0..MaxTime
    BY <2>1 DEF Ticks
  <2>3. tick[w].lo \in Nat
    BY <2>2, BoundsAssumption
  <2> QED BY <2>1, <2>2, <2>3 DEF TypeInv, TypeOK, StepsOK, TickOK, Busy
<1>1. Gains /\ watermark' = watermark /\ stored' = stored
  BY DEF Window, Gains, Steady, index, mark, routes
<1>2. IF first = {} THEN Rest(w) ELSE To(w, t)
  BY DEF Window, FirstOf
<1>3. ~seedHorizon /\ Routes' /\ tick[w].epoch <= epoch /\ (Held(w) => Base(tick[w].lo))
      /\ LastId \in 0..MaxId
  BY <1>0, <1>1, ThreadFacts, SteadyRoutes DEF Gains
<1>4. closed \subseteq SUBSET Ids /\ {} \notin closed
  BY <1>0, ClosedNonempty DEF TypeInv
<1>5. /\ \A v \in closed :
            /\ v \subseteq Motion(tick[w].lo) /\ v # {}
            /\ at[Max(v)] < tick[w].now - Gap
            /\ \A i \in moving : i > Max(v) => at[i] - at[Max(v)] > Gap
      /\ \A u, v \in closed : u = v \/ Max(u) < Min(v) \/ Max(v) < Min(u)
      /\ \A v \in closed : \A i \in Motion(tick[w].lo) :
            i <= Max(v) => \E u \in closed : i \in u /\ (u = v \/ Min(u) < Min(v))
  BY <1>0, ClosedFacts DEF TypeInv, IInv
<1> HIDE DEF closed
<1>6. first \subseteq closed
  BY DEF FirstOf
<1>7. \A v \in first : \A u \in closed : Min(u) < Min(v) => u \in first
  BY <1>4, FirstFacts
<1> HIDE DEF first
<1>8. CASE first = {}
  BY <1>0, <1>1, <1>2, <1>8, RestsIInv
<1>9. CASE first # {}
  <2>1. /\ t \in Ticks /\ t.pc = "visit" /\ t.spans = first /\ t.lo = tick[w].lo
        /\ t.epoch = tick[w].epoch /\ t.now = tick[w].now
    BY <1>0, <1>4, <1>6 DEF Ticks
  <2>2. Moves(w, t)
    BY <1>0, <1>2, <1>4, <1>6, <1>9, <2>1 DEF Moves, TickOK, Busy
  <2> HIDE DEF t
  <2>3. tick'[w] = t /\ \A u \in Workers : u # w => tick'[u] = tick[u]
    BY <1>1, <2>2, MovesType DEF Gains, Steady
  <2>4. Held(w)' => Held(w)
    BY <1>0, <1>1, <2>1, <2>3 DEF Held, Holding, Gains, Steady
  <2>5. ASSUME NEW v \in first
        PROVE  Max(v) \in moving /\ Max(v) > tick[w].lo /\ Max(v) \in Ids
    <3>1. v \subseteq Motion(tick[w].lo) /\ v \subseteq Ids /\ v # {}
      BY <1>4, <1>5, <1>6
    <3>2. Max(v) \in v /\ Max(v) \in Ids
      BY <3>1, Ends
    <3> QED BY <3>1, <3>2 DEF Motion
  <2>6. ASSUME Calm, Held(w)' PROVE VisitsWhole(w)'
    <3>1. Base(tick[w].lo) /\ Calm
      BY <1>3, <2>4, <2>6
    <3>2. ASSUME NEW v \in first, NEW i \in due, i <= Max(v)
          PROVE  Tried(i) \/ \E u \in first : i \in u
      <4>1. i \in Nat
        <5>1. i \in Ids
          BY <1>0
        <5> QED BY <5>1 DEF Ids
      <4>2. CASE i <= tick[w].lo
        BY <1>0, <3>1, <4>2 DEF IInv, MarksHonest
      <4>3. CASE i > tick[w].lo
        <5>1. i \in Motion(tick[w].lo)
          BY <1>0, <4>3 DEF Motion
        <5>2. PICK u \in closed : i \in u /\ (u = v \/ Min(u) < Min(v))
          BY <1>5, <1>6, <3>2, <5>1
        <5> QED BY <1>7, <5>2
      <4> QED BY <1>0, <4>1, <4>2, <4>3
    <3>3. \A v \in first : v \subseteq moving
      BY <1>5, <1>6 DEF Motion
    <3>4. /\ \A v \in first :
                /\ at[Max(v)] < tick[w].now - Gap
                /\ \A i \in moving : i > Max(v) => at[i] - at[Max(v)] > Gap
          /\ \A u, v \in first : u = v \/ Max(u) < Min(v) \/ Max(v) < Min(u)
      BY <1>5, <1>6
    <3>5. \A i : Tried(i)' <=> Tried(i)
      BY DEF Window, Tried, index
    <3>6. at' = at /\ moving' = moving /\ due' = due
      BY <1>1 DEF Gains, Steady
    <3> QED BY <2>1, <2>3, <3>2, <3>3, <3>4, <3>5, <3>6 DEF VisitsWhole
  <2>7. MarksHonest'
    <3> SUFFICES ASSUME Calm'
                 PROVE  /\ \A x \in 0..MaxId : IsMark(x)' => x <= LastId'
                        /\ \A x, y \in 0..MaxId :
                              IsMark(x)' /\ IsMark(y)' /\ y < x => x \in moving'
                        /\ \A x \in 0..MaxId : Base(x)' => \A i \in due' : i <= x => Tried(i)'
      BY DEF MarksHonest
    <3>1. Calm
      BY <1>1 DEF Calm, Gains, Steady
    <3>2. \A x \in 0..MaxId : Base(x)' => Base(x)
      <4> SUFFICES ASSUME NEW x \in 0..MaxId, Base(x)' PROVE Base(x)
        OBVIOUS
      <4>1. CASE \E u \in Workers : Held(u)' /\ x = tick'[u].lo
        <5>1. PICK u \in Workers : Held(u)' /\ x = tick'[u].lo
          BY <4>1
        <5>2. Held(u) /\ x = tick[u].lo
          BY <1>1, <2>1, <2>3, <2>4, <5>1 DEF Held, Gains, Steady
        <5> QED BY <5>2 DEF Base
      <4>2. CASE ~\E u \in Workers : Held(u)' /\ x = tick'[u].lo
        BY <1>1, <4>2 DEF Base, Gains, Steady
      <4> QED BY <4>1, <4>2
    <3>3. ASSUME NEW x \in 0..MaxId, IsMark(x)'
          PROVE  IsMark(x) \/ (Held(w) /\ \E v \in first : x = Max(v))
      <4>1. CASE Base(x)'
        BY <3>2, <4>1 DEF IsMark
      <4>2. CASE \E u \in Workers : Held(u)' /\ \E v \in tick'[u].spans : x = Max(v)
        <5>1. PICK u \in Workers : Held(u)' /\ \E v \in tick'[u].spans : x = Max(v)
          BY <4>2
        <5>2. CASE u = w
          BY <2>1, <2>3, <2>4, <5>1, <5>2
        <5>3. CASE u # w
          BY <1>1, <2>3, <5>1, <5>3 DEF IsMark, Held, Gains, Steady
        <5> QED BY <5>2, <5>3
      <4> QED BY <3>3, <4>1, <4>2 DEF IsMark
    <3>4. LastId' = LastId /\ moving' = moving /\ due' = due
      BY <1>1 DEF LastId, Gains, Steady
    <3>5. \A x \in 0..MaxId : IsMark(x)' => x <= LastId'
      <4> SUFFICES ASSUME NEW x \in 0..MaxId, IsMark(x)' PROVE x <= LastId
        BY <3>4
      <4>1. CASE IsMark(x)
        BY <3>1, <4>1 DEF IInv, MarksHonest
      <4>2. CASE \E v \in first : x = Max(v)
        BY <1>0, <2>5, <4>2, LastIdFacts DEF TypeInv
      <4> QED BY <3>3, <4>1, <4>2
    <3>6. ASSUME NEW x \in 0..MaxId, NEW y \in 0..MaxId, IsMark(x)', IsMark(y)', y < x
          PROVE  x \in moving
      <4>1. CASE \E v \in first : x = Max(v)
        BY <2>5, <4>1
      <4>2. CASE IsMark(x) /\ IsMark(y)
        BY <3>1, <3>6, <4>2 DEF IInv, MarksHonest
      <4>3. CASE IsMark(x) /\ Held(w) /\ \E v \in first : y = Max(v)
        <5>1. y > tick[w].lo /\ x \in Nat /\ y \in Nat
          BY <2>5, <4>3, BoundsAssumption
        <5>2. tick[w].lo < x
          BY <1>0, <3>6, <5>1
        <5>3. IsMark(tick[w].lo)
          BY <1>3, <4>3 DEF IsMark
        <5> QED BY <1>0, <3>1, <4>3, <5>2, <5>3 DEF IInv, MarksHonest
      <4> QED BY <3>3, <3>6, <4>1, <4>2, <4>3
    <3>7. \A i : Tried(i)' <=> Tried(i)
      BY DEF Window, Tried, index
    <3> QED BY <3>1, <3>2, <3>4, <3>5, <3>6, <3>7 DEF IInv, MarksHonest
  <2> QED BY <1>1, <1>3, <2>1, <2>2, <2>6, <2>7, ThreadKeeps DEF Gains, Steady
<1> QED BY <1>8, <1>9

(* Every mark is an id that is still there, so the watermark is clamped     *)
(* only while a clear runs.                                                 *)
LEMMA ClampIInv ==
    ASSUME TypeInv, TypeInv', IInv, NEW w \in Workers, Clamp(w)
    PROVE  IInv'
<1>0. /\ tick[w] \in Ticks /\ TickOK(tick[w]) /\ tick[w].pc = "snapped" /\ tick[w].pc # "none"
      /\ tick[w].lo \in 0..MaxId /\ tick[w].lo \in Nat /\ tick[w].spans = {}
      /\ tick[w].lo > LastId /\ LastId \in 0..MaxId /\ LastId \in Nat
  <2>1. tick[w] \in Ticks /\ tick[w].pc = "snapped"
    BY DEF Clamp, TypeInv, TypeOK
  <2>2. tick[w].lo \in 0..MaxId /\ LastId \in 0..MaxId
    BY <2>1, LastIdFacts DEF Ticks, TypeInv
  <2>3. tick[w].lo \in Nat /\ LastId \in Nat
    BY <2>2, BoundsAssumption
  <2> QED BY <2>1, <2>2, <2>3 DEF Clamp, TypeInv, TypeOK, StepsOK, TickOK, Busy
<1>1. Gains /\ stored' = stored
  BY DEF Clamp, Gains, Steady, index, routes
<1>2. ~seedHorizon /\ Routes' /\ tick[w].epoch <= epoch /\ (Held(w) => Base(tick[w].lo))
  BY <1>0, <1>1, ThreadFacts, SteadyRoutes DEF Gains
<1>3. CASE tick[w].epoch # epoch
  BY <1>0, <1>1, <1>3, RestsIInv DEF Clamp
<1>4. CASE tick[w].epoch = epoch
  <2> DEFINE t == [tick[w] EXCEPT !.pc = "saving", !.lo = LastId]
  <2>1. t \in Ticks /\ t.pc = "saving" /\ t.epoch = epoch /\ t.spans = {} /\ t.now = tick[w].now
    BY <1>0, <1>4 DEF Ticks
  <2>2. Moves(w, t)
    BY <1>0, <1>4, <2>1 DEF Clamp, Moves, TickOK, Busy
  <2>3. t.epoch <= epoch
    BY <1>2, <1>4, <2>1
  <2> HIDE DEF t
  <2>4. ~Calm
    <3> SUFFICES ASSUME Calm PROVE FALSE
      OBVIOUS
    <3>1. IsMark(tick[w].lo)
      BY <1>0, <1>2, <1>4 DEF Held, Holding, IsMark
    <3>2. tick[w].lo <= LastId
      BY <1>0, <3>1 DEF IInv, MarksHonest
    <3> QED BY <1>0, <3>2
  <2>5. MarksHonest'
    BY <1>1, <2>4 DEF MarksHonest, Calm, Gains, Steady
  <2> QED BY <1>1, <1>2, <2>1, <2>2, <2>3, <2>4, <2>5, ThreadKeeps DEF Gains, Steady
<1> QED BY <1>3, <1>4

(* The watermark goes to the end of the first visit in hand: all that is    *)
(* due up to there is tried, in the visit or before it.                     *)
LEMMA AdvanceIInv ==
    ASSUME TypeInv, TypeInv', IInv, NEW w \in Workers, Advance(w)
    PROVE  IInv'
<1> DEFINE to == Max(Visit(w))
           t == [tick[w] EXCEPT !.pc = "saving", !.lo = to, !.spans = @ \ {Visit(w)}]
<1>0. /\ tick[w] \in Ticks /\ TickOK(tick[w]) /\ tick[w].pc = "done" /\ tick[w].pc # "none"
      /\ tick[w].pc \in Busy /\ tick[w].spans \subseteq SUBSET Ids /\ {} \notin tick[w].spans
      /\ due \subseteq Ids
  <2>1. tick[w] \in Ticks /\ tick[w].pc = "done"
    BY DEF Advance, TypeInv, TypeOK
  <2>2. tick[w].spans \subseteq SUBSET Ids
    BY <2>1 DEF Ticks
  <2> QED BY <2>1, <2>2 DEF TypeInv, TypeOK, StepsOK, TickOK, Busy
<1>1. Gains /\ stored' = stored /\ index' = index
  BY DEF Advance, Gains, Steady, index, routes
<1>2. ~seedHorizon /\ Routes' /\ tick[w].epoch <= epoch
  BY <1>0, <1>1, ThreadFacts, SteadyRoutes DEF Gains
<1>3. /\ Visit(w) \in tick[w].spans /\ Visit(w) \subseteq Ids /\ Visit(w) # {} /\ to \in 0..MaxId
      /\ \A u \in tick[w].spans : Min(Visit(w)) <= Min(u)
  BY <1>0, VisitType
<1>4. CASE tick[w].epoch # epoch
  BY <1>0, <1>1, <1>4, RestsIInv DEF Advance
<1>5. CASE tick[w].epoch = epoch
  <2>1. /\ t \in Ticks /\ t.pc = "saving" /\ t.epoch = epoch /\ t.lo = to /\ t.now = tick[w].now
        /\ t.spans = tick[w].spans \ {Visit(w)}
    BY <1>0, <1>3, <1>5 DEF Ticks
  <2>2. Moves(w, t) /\ watermark' = to
    BY <1>0, <1>5, <2>1 DEF Advance, Moves, TickOK, Busy
  <2>3. t.epoch <= epoch
    BY <1>2, <1>5, <2>1
  <2> HIDE DEF t, to
  <2>4. tick'[w] = t /\ \A u \in Workers : u # w => tick'[u] = tick[u]
    BY <1>1, <2>2, MovesType DEF Gains, Steady
  <2>5. Held(w)
    BY <1>0, <1>5 DEF Held, Holding
  <2>6. ASSUME Calm PROVE VisitsWhole(w)
    BY <2>5, <2>6 DEF IInv, VisitsHonest
  <2>7. \A i : Tried(i)' <=> Tried(i)
    BY <1>1 DEF Tried, index
  <2>8. ASSUME Calm, NEW i \in due, i <= to PROVE Tried(i)
    <3>1. CASE \E u \in tick[w].spans : i \in u
      <4>1. PICK u \in tick[w].spans : i \in u
        BY <3>1
      <4>2. u = Visit(w) \/ Max(u) < Min(Visit(w)) \/ Max(Visit(w)) < Min(u)
        BY <1>3, <2>6, <2>8 DEF VisitsWhole
      <4>3. u \subseteq Ids /\ u # {}
        BY <1>0, <4>1
      <4>4. /\ Min(u) \in Ids /\ Max(u) \in Ids /\ i \in Nat /\ Min(u) <= i /\ i <= Max(u)
        BY <4>1, <4>3, Ends
      <4>5. Min(u) \in Nat /\ Max(u) \in Nat /\ Min(Visit(w)) \in Nat /\ Max(Visit(w)) \in Nat
        <5>1. Min(Visit(w)) \in Ids /\ Max(Visit(w)) \in Ids
          BY <1>3, Ends
        <5> QED BY <4>4, <5>1 DEF Ids
      <4>6. Min(Visit(w)) <= Min(u) /\ i <= Max(Visit(w))
        BY <1>3, <2>8, <4>1 DEF to
      <4>7. u = Visit(w)
        BY <4>2, <4>4, <4>5, <4>6
      <4> QED BY <1>0, <2>6, <2>8, <4>1, <4>7 DEF VisitsWhole
    <3>2. CASE ~\E u \in tick[w].spans : i \in u
      BY <1>3, <2>6, <2>8, <3>2 DEF VisitsWhole, to
    <3> QED BY <3>1, <3>2
  <2>9. ASSUME Calm PROVE VisitsWhole(w)'
    <3>1. at' = at /\ moving' = moving /\ due' = due
      BY <1>1 DEF Gains, Steady
    <3>2. ASSUME NEW v \in t.spans, NEW i \in due, i <= Max(v)
          PROVE  Tried(i) \/ \E u \in t.spans : i \in u
      <4>1. Tried(i) \/ \E u \in tick[w].spans : i \in u
        BY <2>1, <2>6, <2>9, <3>2 DEF VisitsWhole
      <4>2. i \in Visit(w) => Tried(i)
        BY <1>0, <2>6, <2>9 DEF VisitsWhole
      <4> QED BY <2>1, <4>1, <4>2
    <3>3. /\ \A v \in t.spans :
                /\ v \subseteq moving
                /\ at[Max(v)] < t.now - Gap
                /\ \A i \in moving : i > Max(v) => at[i] - at[Max(v)] > Gap
          /\ \A u, v \in t.spans : u = v \/ Max(u) < Min(v) \/ Max(v) < Min(u)
      BY <2>1, <2>6, <2>9 DEF VisitsWhole
    <3> QED BY <2>1, <2>4, <2>7, <3>1, <3>2, <3>3 DEF VisitsWhole
  <2>10. MarksHonest'
    <3> SUFFICES ASSUME Calm'
                 PROVE  /\ \A x \in 0..MaxId : IsMark(x)' => x <= LastId'
                        /\ \A x, y \in 0..MaxId :
                              IsMark(x)' /\ IsMark(y)' /\ y < x => x \in moving'
                        /\ \A x \in 0..MaxId : Base(x)' => \A i \in due' : i <= x => Tried(i)'
      BY DEF MarksHonest
    <3>1. Calm
      BY <1>1 DEF Calm, Gains, Steady
    <3>2. LastId' = LastId /\ moving' = moving /\ due' = due
      BY <1>1 DEF LastId, Gains, Steady
    <3>3. \A x \in 0..MaxId : Base(x)' => Base(x) \/ x = to
      <4> SUFFICES ASSUME NEW x \in 0..MaxId, Base(x)' PROVE Base(x) \/ x = to
        OBVIOUS
      <4>1. CASE \E u \in Workers : Held(u)' /\ x = tick'[u].lo
        <5>1. PICK u \in Workers : Held(u)' /\ x = tick'[u].lo
          BY <4>1
        <5>2. CASE u = w
          BY <2>1, <2>4, <5>1, <5>2
        <5>3. CASE u # w
          BY <1>1, <2>4, <5>1, <5>3 DEF Held, Gains, Steady, Base
        <5> QED BY <5>2, <5>3
      <4>2. CASE ~\E u \in Workers : Held(u)' /\ x = tick'[u].lo
        BY <1>1, <2>2, <4>2 DEF Base, Gains, Steady
      <4> QED BY <4>1, <4>2
    <3>4. IsMark(to)
      BY <1>3, <2>5 DEF IsMark, to
    <3>5. ASSUME NEW x \in 0..MaxId, IsMark(x)' PROVE IsMark(x)
      <4>1. CASE Base(x)'
        BY <3>3, <3>4, <4>1 DEF IsMark
      <4>2. CASE \E u \in Workers : Held(u)' /\ \E v \in tick'[u].spans : x = Max(v)
        <5>1. PICK u \in Workers : Held(u)' /\ \E v \in tick'[u].spans : x = Max(v)
          BY <4>2
        <5>2. CASE u = w
          BY <2>1, <2>4, <2>5, <5>1, <5>2 DEF IsMark
        <5>3. CASE u # w
          BY <1>1, <2>4, <5>1, <5>3 DEF IsMark, Held, Gains, Steady
        <5> QED BY <5>2, <5>3
      <4> QED BY <3>5, <4>1, <4>2 DEF IsMark
    <3>6. \A x \in 0..MaxId : Base(x)' => \A i \in due : i <= x => Tried(i)'
      BY <2>7, <2>8, <3>1, <3>3 DEF IInv, MarksHonest
    <3> QED BY <3>1, <3>2, <3>5, <3>6 DEF IInv, MarksHonest
  <2> QED BY <1>1, <1>2, <2>1, <2>2, <2>3, <2>9, <2>10, ThreadKeeps DEF Gains, Steady
<1> QED BY <1>4, <1>5

LEMMA SaveIInv ==
    ASSUME TypeInv, TypeInv', IInv, NEW w \in Workers, Save(w)
    PROVE  IInv'
<1>0. /\ tick[w] \in Ticks /\ TickOK(tick[w]) /\ tick[w].pc = "saving" /\ tick[w].pc # "none"
      /\ tick[w].epoch = epoch
  BY DEF Save, TypeInv, TypeOK, StepsOK, TickOK, IInv, EpochsPast
<1>1. Gains /\ watermark' = watermark /\ stored' = tick[w].lo
  BY DEF Save, Gains, Steady, index, routes
<1>2. Held(w)
  BY <1>0 DEF Held, Holding
<1>3. /\ ~seedHorizon /\ Routes' /\ tick[w].epoch <= epoch /\ Base(tick[w].lo)
      /\ \A v \in tick[w].spans : IsMark(Max(v))
  BY <1>0, <1>1, <1>2, ThreadFacts, SteadyRoutes DEF Gains
<1>4. Calm => Base(stored')
  BY <1>1, <1>3
<1>5. ASSUME NEW t, Moves(w, t), t.pc \notin Holding \/ (t.spans = tick[w].spans /\ t.lo = tick[w].lo)
      PROVE  MarksHonest'
  <2>1. t.pc \in Holding /\ t.epoch = epoch /\ Calm =>
              Base(t.lo) /\ \A v \in t.spans : IsMark(Max(v))
    BY <1>3, <1>5
  <2> QED BY <1>1, <1>4, <1>5, <2>1, TickShrinks DEF Gains, Steady
<1>6. CASE tick[w].spans = {}
  <2>1. PICK t \in Resteds : Moves(w, t)
    BY <1>6, RestMoves DEF Save
  <2>2. /\ t.pc \in {"none", "waiting"} /\ t.epoch = 0 /\ t.pc \notin Holding /\ t.pc # "saving"
    BY RestMoves DEF Holding, Busy
  <2>3. 0 <= epoch
    BY DEF TypeInv, TypeOK
  <2>4. MarksHonest'
    BY <1>5, <2>1, <2>2
  <2>5. ~Held(w)'
    BY <1>1, <2>1, <2>2, MovesType DEF Held, Gains, Steady
  <2> QED BY <1>1, <1>3, <2>1, <2>2, <2>3, <2>4, <2>5, ThreadKeeps DEF Gains, Steady
<1>7. CASE tick[w].spans # {}
  <2> DEFINE t == [tick[w] EXCEPT !.pc = "visit"]
  <2>1. /\ t \in Ticks /\ t.pc = "visit" /\ t.epoch = epoch /\ t.lo = tick[w].lo
        /\ t.now = tick[w].now /\ t.spans = tick[w].spans
    BY <1>0 DEF Ticks
  <2>2. Moves(w, t)
    BY <1>0, <1>7, <2>1 DEF Save, Moves, TickOK, Busy
  <2>3. t.epoch <= epoch
    BY <1>0, <1>3, <2>1
  <2> HIDE DEF t
  <2>4. tick'[w] = t
    BY <1>1, <2>2, MovesType DEF Gains, Steady
  <2>5. MarksHonest'
    BY <1>5, <2>1, <2>2
  <2>6. ASSUME Calm PROVE VisitsWhole(w)'
    <3>1. VisitsWhole(w)
      BY <1>2, <2>6 DEF IInv, VisitsHonest
    <3>2. UNCHANGED <<at, moving, due, named, failed, seen>>
      BY DEF Save, index
    <3> QED BY <2>1, <2>4, <3>1, <3>2 DEF VisitsWhole, Tried
  <2> QED BY <1>1, <1>3, <2>1, <2>2, <2>3, <2>5, <2>6, ThreadKeeps DEF Gains, Steady
<1> QED BY <1>6, <1>7

-----------------------------------------------------------------------------
LEMMA StepIInv ==
    ASSUME Orderly, TypeInv, TypeInv', IInv, [Next]_vars
    PROVE  IInv'
<1>1. CASE JobStarts \/ JobEnds \/ UNCHANGED vars
  <2>1. /\ UNCHANGED <<index, now, mark, clearing, tick>>
        /\ UNCHANGED <<starting, running>>
    BY <1>1 DEF JobStarts, JobEnds, vars, index, mark, manager, routes
  <2>2. LastId' = LastId
    BY <2>1 DEF LastId, index
  <2>3. Routes' /\ Unseeded'
    BY <2>1, <2>2 DEF IInv, Routes, Unseeded, mark
  <2> QED BY <2>1, <2>3, QuietKeeps
<1>2. CASE \E w \in Workers : Ticking(w) \/ DetectedButOne(w) \/ Raises(w)
  BY <1>2, WorkIInv, WakeIInv, WindowIInv, ClampIInv, AdvanceIInv, SaveIInv DEF Ticking
<1> QED BY <1>1, <1>2, StoreIInv, StartIInv, ClearIInv DEF Next

LEMMA Inductive == ASSUME Orderly PROVE Spec => [](TypeInv /\ IInv)
<1>1. Init => TypeInv /\ IInv
  BY TypeInit, InitIInv
<1>2. TypeInv /\ IInv /\ [Next]_vars => TypeInv' /\ IInv'
  BY TypeStep, StepIInv
<1> QED BY <1>1, <1>2, PTL DEF Spec

(* The watermark, in memory or saved, passes no motion frame the worker     *)
(* promised to name and has neither named nor tried: _advance_watermark,    *)
(* reset_watermark and start's seeding together, beside ticks of a stopped  *)
(* thread, clears and a process that dies.                                  *)
THEOREM NeverPassedOver == ASSUME Orderly PROVE Spec => []NothingPassedOver
<1>1. TypeInv /\ IInv => NothingPassedOver
  <2> SUFFICES ASSUME TypeInv, IInv, Settled, NEW i \in due,
                      i <= watermark \/ (stored # None /\ i <= stored)
               PROVE  i \in named \cup failed
    BY DEF NothingPassedOver
  <2>1. Calm /\ ~seedHorizon /\ clearing.pc = "none"
    BY DEF Settled, Calm
  <2>2. Base(watermark) /\ watermark \in 0..MaxId
    BY <2>1 DEF Base, TypeInv, TypeOK
  <2>3. stored # None => Base(stored) /\ stored \in 0..MaxId
    BY <2>1 DEF Base, TypeInv, TypeOK
  <2> QED BY <2>1, <2>2, <2>3 DEF IInv, MarksHonest, Tried
<1> QED BY <1>1, Inductive, PTL

(* A visit a tick holds takes no later motion frame: closed_visits leaves   *)
(* out the cluster that a frame could still extend.                         *)
THEOREM VisitNeverExtended == ASSUME Orderly PROVE Spec => []NeverExtended
<1>1. TypeInv /\ IInv => NeverExtended
  <2> SUFFICES ASSUME TypeInv, IInv, clearing.pc = "none", NEW w \in Workers,
                      tick[w].epoch = epoch, NEW v \in tick[w].spans,
                      NEW i \in rows \cap moving, i > Max(v)
               PROVE  at[i] - at[Max(v)] > Gap
    BY DEF NeverExtended
  <2>1. tick[w].pc \in Busy \cup {"saving"}
    BY DEF TypeInv, StepsOK
  <2>2. Calm /\ Held(w)
    BY <2>1 DEF Calm, Held, Holding
  <2> QED BY <2>2 DEF IInv, VisitsHonest, VisitsWhole
<1> QED BY <1>1, Inductive, PTL

==============================================================================
