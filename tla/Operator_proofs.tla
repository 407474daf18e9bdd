-------------------------- MODULE Operator_proofs --------------------------
(***************************************************************************)
(* What an operator's decisions are worth, for every value of the          *)
(* constants: the capture mode's (CaptureMode) and the labels' (Labels).   *)
(*                                                                         *)
(* CaptureMode: why the store admits every loss of a frame without motion. *)
(* What a thread or a request has read of the mode and not yet recorded is *)
(* the mode in force, so where no boundary is late the last entry of the   *)
(* log is.  The newest id goes down in a clear only, so the log is written *)
(* in the order it is read in; a frame skipped under its last entry lies   *)
(* in a span at once, and what eviction and a purge take stays behind the  *)
(* frontier or in the purge's window.                                      *)
(*                                                                         *)
(* Labels: why a decision outlives all but its own undo, why a mark goes   *)
(* for a label only and why a row's crop is its frame's.  While a route    *)
(* runs no id it holds is given out anew, so the frames it was shown, the  *)
(* recv_ts it read and the paths it prepared stay those of its frames; a   *)
(* row's path is its own frame's, and a move's is its row's; so a file     *)
(* goes, is written over or is found again only as that row's.             *)
(***************************************************************************)
EXTENDS CaptureMode, Labels, WellFoundedInduction, FiniteSetTheorems, TLAPS

(* A nonempty set of naturals has a least element, and a greatest one if it *)
(* is bounded.                                                              *)
LEMMA LeastNatural ==
    ASSUME NEW S, S \subseteq Nat, S # {}
    PROVE  \E m \in S : \A y \in S : m <= y
<1>1. PICK m \in S : \A y \in S : <<y, m>> \notin OpToRel(<, Nat)
  BY NatLessThanWellFounded, WFMin
<1>2. \A y \in S : y \in Nat /\ m \in Nat /\ ~(y < m)
  BY <1>1 DEF OpToRel
<1> QED BY <1>2

LEMMA MinFacts ==
    ASSUME NEW S, S \subseteq Nat, S # {}
    PROVE  Min(S) \in S /\ \A y \in S : Min(S) <= y
BY LeastNatural DEF Min

LEMMA MaxFacts ==
    ASSUME NEW n \in Nat, NEW S, S \subseteq 0..n, S # {}
    PROVE  Max(S) \in S /\ \A y \in S : y <= Max(S)
<1> DEFINE T == {n - y : y \in S}
<1>1. T \subseteq Nat
  BY \A y \in S : n - y \in Nat
<1>2. T # {}
  OBVIOUS
<1>3. PICK m \in T : \A z \in T : m <= z
  <2> HIDE DEF T
  <2> QED BY <1>1, <1>2, LeastNatural
<1>4. PICK x \in S : \A y \in S : n - x <= n - y
  BY <1>3
<1>5. Max(S) \in S /\ \A y \in S : Max(S) >= y
  <2>1. \A y \in S : x >= y
    BY <1>4
  <2> QED BY <2>1 DEF Max
<1> QED BY <1>5

-----------------------------------------------------------------------------
(* The newest id of a set of them.                                          *)
Newest(S) == IF S = {} THEN 0 ELSE Max(S)

LEMMA NewestFacts ==
    ASSUME NEW S, S \subseteq Ids
    PROVE  /\ Newest(S) \in 0..MaxId /\ \A i \in S : i \in Nat /\ 1 <= i /\ i <= Newest(S)
           /\ S # {} => Newest(S) \in S
<1>1. S \subseteq 0..MaxId /\ MaxId \in Nat /\ \A i \in S : i \in Nat /\ 1 <= i
  BY MaxIdAssumption DEF Ids
<1>2. CASE S = {}
  BY <1>1, <1>2 DEF Newest
<1>3. CASE S # {}
  <2>1. Max(S) \in S /\ \A y \in S : y <= Max(S)
    BY <1>1, <1>3, MaxFacts
  <2> PICK m : m = Max(S)
    OBVIOUS
  <2>2. m \in S /\ m \in 0..MaxId /\ \A y \in S : y <= m
    BY <1>1, <2>1
  <2>3. Newest(S) = m
    BY <1>3 DEF Newest
  <2> QED BY <1>1, <2>2, <2>3
<1> QED BY <1>2, <1>3

LEMMA LastIdIsNewest == LastId = Newest(rows)
BY DEF LastId, Newest

Stored == rows \subseteq Ids /\ still \subseteq rows /\ deleted \subseteq Ids /\ frontier \in 0..MaxId

(* What an insert does to the index: the new id, what is left of the rows,  *)
(* and what was evicted for it.                                             *)
Inserts(all, gone) ==
    /\ LastId + 1 \in Ids /\ all = rows \cup {LastId + 1} /\ gone \subseteq all
    /\ rows' = all \ gone /\ still' \subseteq (still \cup {LastId + 1}) \ gone
    /\ Newest(rows') >= LastId /\ (rows' # {} \/ rows = {})
    /\ frontier' \in 0..MaxId /\ frontier' >= frontier /\ deleted \subseteq deleted'
    /\ deleted' \subseteq Ids /\ \A p \in deleted' \ deleted : p <= frontier'

LEMMA CollectFacts ==
    ASSUME Stored, NEW moving \in BOOLEAN, Collect(moving)
    PROVE  \E all, gone : Inserts(all, gone) /\ still' \subseteq rows'
<1> DEFINE new == LastId + 1
           all == rows \cup {new}
           quiet == IF moving THEN still ELSE still \cup {new}
           prefer == stage # "tuning" /\ quiet # {}
           gone == IF Cardinality(all) <= Capacity THEN {}
                   ELSE IF prefer THEN {Min(quiet)} ELSE {Min(all)}
<1>1. /\ MaxId \in Nat /\ LastId = Newest(rows) /\ LastId \in 0..MaxId /\ LastId < MaxId
      /\ \A i \in rows : i \in Nat /\ 1 <= i /\ i <= LastId
  BY NewestFacts, LastIdIsNewest, MaxIdAssumption DEF Stored, Collect
<1>2. new \in Ids /\ all \subseteq Ids /\ quiet \subseteq all /\ all \subseteq Nat /\ quiet \subseteq Nat
      /\ all # {}
  <2>1. new \in Ids /\ Ids \subseteq Nat
    BY <1>1 DEF Ids
  <2> HIDE DEF new
  <2> QED BY <2>1 DEF Stored
<1>3. /\ rows' = all \ gone /\ still' = quiet \ gone
      /\ deleted' = IF prefer THEN deleted \cup gone ELSE deleted
      /\ frontier' = IF prefer /\ gone # {} /\ Max(gone) > frontier THEN Max(gone) ELSE frontier
  BY DEF Collect
<1>4. gone = {} \/ \E g \in all : /\ gone = {g} /\ Cardinality(all) > 1
                                  /\ prefer \/ \A i \in all : g <= i
  <2> SUFFICES ASSUME ~(Cardinality(all) <= Capacity)
               PROVE  \E g \in all : /\ gone = {g} /\ Cardinality(all) > 1
                                     /\ prefer \/ \A i \in all : g <= i
    OBVIOUS
  <2>1. Cardinality(all) > 1
    <3>1. IsFiniteSet(all)
      <4>1. IsFiniteSet(Ids)
        BY <1>1, FS_Interval DEF Ids
      <4> HIDE DEF all
      <4> QED BY <1>2, <4>1, FS_Subset
    <3>2. Cardinality(all) \in Nat
      BY <3>1, FS_CardinalityType
    <3> HIDE DEF all
    <3> QED BY <3>2, CapacityAssumption
  <2>2. prefer => Min(quiet) \in quiet
    <3> HIDE DEF quiet
    <3> QED BY <1>2, MinFacts DEF prefer
  <2>3. Min(all) \in all /\ \A i \in all : Min(all) <= i
    <3> HIDE DEF all
    <3> QED BY <1>2, MinFacts
  <2> HIDE DEF all, quiet, prefer
  <2> QED BY <1>2, <2>1, <2>2, <2>3
<1>5. \A g \in all : Max({g}) = g
  BY <1>2 DEF Max
<1> HIDE DEF gone
<1>6. rows' # {} \/ rows = {}
  <2>1. IsFiniteSet({}) /\ Cardinality({}) = 0
    BY FS_EmptySet
  <2>2. ASSUME NEW g \in all, Cardinality(all) > 1 PROVE all # {g}
    <3>1. Cardinality({g}) = 1
      BY FS_Singleton
    <3> HIDE DEF all
    <3> QED BY <2>2, <3>1
  <2> HIDE DEF all
  <2>3. gone # all
    BY <1>2, <1>4, <2>2
  <2> QED BY <1>3, <1>4, <2>3
<1>7. Newest(rows') >= LastId
  <2>1. rows' \subseteq Ids
    BY <1>2, <1>3
  <2>2. CASE new \in rows'
    BY <1>1, <2>1, <2>2, NewestFacts
  <2>3. CASE new \notin rows'
    <3>1. gone = {new}
      BY <1>3, <1>4, <2>3
    <3>2. rows' = rows
      BY <1>1, <1>3, <3>1
    <3> QED BY <1>1, <3>2
  <2> QED BY <2>2, <2>3
<1>8. frontier' \in 0..MaxId /\ frontier' >= frontier /\ \A p \in deleted' \ deleted : p <= frontier'
  <2>1. CASE ~prefer \/ gone = {}
    <3>1. frontier' = frontier /\ deleted' \subseteq deleted
      BY <1>3, <2>1
    <3>2. frontier \in 0..MaxId
      BY DEF Stored
    <3> QED BY <1>1, <3>1, <3>2
  <2>2. CASE prefer /\ gone # {}
    <3>1. PICK g \in all : gone = {g}
      BY <1>4, <2>2
    <3>2. Max(gone) = g /\ g \in 1..MaxId
      BY <1>2, <1>5, <3>1 DEF Ids
    <3>3. frontier' = (IF g > frontier THEN g ELSE frontier) /\ deleted' \subseteq deleted \cup {g}
      BY <1>3, <2>2, <3>1, <3>2
    <3>4. frontier \in 0..MaxId
      BY DEF Stored
    <3> QED BY <1>1, <3>2, <3>3, <3>4
  <2> QED BY <2>1, <2>2
<1>9. gone \subseteq all /\ deleted' \subseteq Ids /\ deleted \subseteq deleted'
  BY <1>2, <1>3, <1>4 DEF Stored
<1>10. still' \subseteq rows' /\ still' \subseteq (still \cup {new}) \ gone
  BY <1>2, <1>3
<1> QED BY <1>2, <1>3, <1>6, <1>7, <1>8, <1>9, <1>10 DEF Inserts

(* The batch a purge takes from a window: its oldest frames. *)
FirstOf(window) == {i \in window : Cardinality({k \in window : k < i}) < PurgeSize}

LEMMA BatchFacts ==
    ASSUME Stored, NEW window, window \subseteq Ids, FirstOf(window) # {}
    PROVE  /\ FirstOf(window) \subseteq window /\ Max(FirstOf(window)) \in FirstOf(window)
           /\ \A g \in FirstOf(window) : g <= Max(FirstOf(window))
           /\ \A i \in window \ FirstOf(window) : Max(FirstOf(window)) < i
<1> DEFINE Below(i) == {k \in window : k < i}
<1>1. MaxId \in Nat /\ window \subseteq 0..MaxId /\ \A i \in window : i \in Nat
  BY MaxIdAssumption DEF Ids
<1>2. /\ FirstOf(window) \subseteq window
      /\ \A i \in window : i \in FirstOf(window) <=> Cardinality(Below(i)) < PurgeSize
  BY DEF FirstOf
<1>3. \A i \in window : Cardinality(Below(i)) \in Nat /\ IsFiniteSet(Below(i))
  <2>1. IsFiniteSet(Ids)
    BY <1>1, FS_Interval DEF Ids
  <2>2. \A i \in window : Below(i) \subseteq Ids
    OBVIOUS
  <2> HIDE DEF Below
  <2> QED BY <2>1, <2>2, FS_Subset, FS_CardinalityType
<1>4. ASSUME NEW g \in FirstOf(window), NEW i \in window, i <= g PROVE i \in FirstOf(window)
  <2>1. i \in Nat /\ g \in Nat /\ g \in window /\ \A k \in window : k \in Nat
    BY <1>1, <1>2
  <2>2. Below(i) \subseteq Below(g)
    <3>1. \A k \in window : k < i => k < g
      BY <1>4, <2>1
    <3> QED BY <3>1
  <2> HIDE DEF Below
  <2>3. Cardinality(Below(i)) <= Cardinality(Below(g))
    BY <1>3, <2>1, <2>2, FS_Subset
  <2>4. Cardinality(Below(g)) < PurgeSize
    BY <1>2, <2>1
  <2> QED BY <1>2, <1>3, <2>1, <2>3, <2>4, PurgeSizeAssumption
<1>5. PICK m : m = Max(FirstOf(window))
  OBVIOUS
<1>6. m \in FirstOf(window) /\ \A g \in FirstOf(window) : g <= m
  BY <1>1, <1>2, <1>5, MaxFacts
<1>7. \A i \in window \ FirstOf(window) : m < i
  <2>1. m \in Nat /\ \A i \in window \ FirstOf(window) : i \in Nat /\ ~(i <= m)
    BY <1>1, <1>2, <1>4, <1>6
  <2> QED BY <2>1
<1> QED BY <1>2, <1>5, <1>6, <1>7

-----------------------------------------------------------------------------
Typed ==
    /\ TypeOK
    /\ purge.pc = "running" => purge.since \in Ids /\ purge.until \in Ids
    /\ \A r \in Requests : request[r].pc = "persisted" => request[r].stage # "same"

Entries == [at : 0..MaxId, on : BOOLEAN]

PurgeStates == [pc : {"none", "running"}, since : 0..MaxId, until : 0..MaxId, last : 0..MaxId]

RequestStates ==
    [pc : {"none", "flipped", "recorded", "persisted"},
     on : BOOLEAN, stage : {"same", "tuning", "collecting"}, changed : BOOLEAN]

LEMMA TypedFacts ==
    ASSUME Typed
    PROVE  /\ Stored /\ MaxId \in Nat /\ LastId = Newest(rows) /\ LastId \in 0..MaxId
           /\ \A i \in rows : i \in Nat /\ 1 <= i /\ i <= LastId
           /\ rows # {} => LastId \in rows
           /\ log \in Seq(Entries) /\ Len(log) \in Nat /\ DOMAIN log = 1..Len(log)
           /\ \A i \in DOMAIN log : /\ i \in Nat /\ log[i].at \in 0..MaxId /\ log[i].at \in Nat
                                    /\ log[i].on \in BOOLEAN
<1>1. Stored
  BY DEF Typed, TypeOK, Stored
<1>2. /\ LastId = Newest(rows) /\ LastId \in 0..MaxId /\ (rows # {} => LastId \in rows)
      /\ \A i \in rows : i \in Nat /\ 1 <= i /\ i <= LastId
  BY <1>1, NewestFacts, LastIdIsNewest DEF Stored
<1>3. log \in Seq(Entries) /\ Len(log) \in Nat /\ DOMAIN log = 1..Len(log)
  BY DEF Typed, TypeOK, Entries
<1>4. \A i \in DOMAIN log : log[i] \in Entries /\ i \in Nat
  BY <1>3
<1>5. \A i \in DOMAIN log : /\ i \in Nat /\ log[i].at \in 0..MaxId /\ log[i].at \in Nat
                            /\ log[i].on \in BOOLEAN
  BY <1>4 DEF Entries
<1> QED BY <1>1, <1>2, <1>3, <1>5, MaxIdAssumption

LEMMA RecordFacts ==
    ASSUME Typed, NEW on \in BOOLEAN, RecordMode(on)
    PROVE  /\ log' \in Seq(Entries) /\ Len(log') <= MaxLog
           /\ Len(log') = Len(log) + 1 /\ DOMAIN log' = 1..(Len(log) + 1)
           /\ log'[Len(log) + 1] = [at |-> LastId, on |-> on]
           /\ \A i \in 1..Len(log) : log'[i] = log[i]
<1>0. PICK e : e = [at |-> LastId, on |-> on]
  OBVIOUS
<1>1. e \in Entries
  BY <1>0, TypedFacts DEF Entries
<1>2. log' = Append(log, e) /\ Len(log) < MaxLog
  BY <1>0 DEF RecordMode
<1>3. log \in Seq(Entries)
  BY TypedFacts
<1> HIDE <1>0
<1>4. /\ log' \in Seq(Entries) /\ Len(log') <= MaxLog
      /\ Len(log') = Len(log) + 1 /\ DOMAIN log' = 1..(Len(log) + 1)
      /\ log'[Len(log) + 1] = e
      /\ \A i \in 1..Len(log) : log'[i] = log[i]
  BY <1>1, <1>2, <1>3, MaxLogAssumption
<1> QED BY <1>0, <1>4

LEMMA TypeInit == ASSUME Init PROVE Typed
<1>1. MaxId \in Nat /\ MaxLog \in Nat
  BY MaxIdAssumption, MaxLogAssumption
<1>2. log \in Seq([at : 0..MaxId, on : BOOLEAN]) /\ Len(log) <= MaxLog
  BY <1>1 DEF Init
<1>3. purge \in PurgeStates /\ purge.pc = "none"
  BY <1>1 DEF Init, NoPurge, PurgeStates
<1>4. request \in [Requests -> RequestStates] /\ \A r \in Requests : request[r].pc = "none"
  BY DEF Init, NoRequest, RequestStates
<1>5. /\ rows \subseteq Ids /\ still \subseteq rows /\ purges \subseteq [lo : Ids, hi : Ids]
      /\ frontier \in 0..MaxId /\ skipped \subseteq 0..MaxId /\ deleted \subseteq Ids
  BY <1>1 DEF Init
<1>6. /\ setting \in BOOLEAN /\ stage \in {"tuning", "collecting"}
      /\ flag \in BOOLEAN /\ running \in BOOLEAN
      /\ thread \in {"none", "started", "read", "streaming"} /\ seen \in BOOLEAN
      /\ wipe \in {"none", "wiped", "read"} /\ wipeSeen \in BOOLEAN /\ world \in Worlds
  BY DEF Init
<1> QED BY <1>2, <1>3, <1>4, <1>5, <1>6 DEF Typed, TypeOK, RequestStates, PurgeStates

IndexTyped == /\ rows \subseteq Ids /\ still \subseteq rows /\ deleted \subseteq Ids
              /\ frontier \in 0..MaxId
LogTyped == log \in Seq(Entries) /\ Len(log) <= MaxLog
SpansTyped == purges \subseteq [lo : Ids, hi : Ids]
PolicyTyped == setting \in BOOLEAN /\ stage \in {"tuning", "collecting"}
CaptureTyped == flag \in BOOLEAN /\ running \in BOOLEAN
WorkerTyped == thread \in {"none", "started", "read", "streaming"} /\ seen \in BOOLEAN
AskedTyped == /\ request \in [Requests -> RequestStates]
              /\ \A r \in Requests : request[r].pc = "persisted" => request[r].stage # "same"
WipeTyped == wipe \in {"none", "wiped", "read"} /\ wipeSeen \in BOOLEAN
PurgeTyped == /\ purge \in PurgeStates
              /\ purge.pc = "running" => purge.since \in Ids /\ purge.until \in Ids
SkippedTyped == skipped \subseteq 0..MaxId
WorldTyped == world \in Worlds

AllTyped ==
    /\ IndexTyped /\ LogTyped /\ SpansTyped /\ PolicyTyped /\ CaptureTyped /\ WorkerTyped
    /\ AskedTyped /\ WipeTyped /\ PurgeTyped /\ SkippedTyped /\ WorldTyped

LEMMA TypeParts == Typed <=> AllTyped
BY DEF AllTyped, Typed, TypeOK, Entries, PurgeStates, RequestStates, IndexTyped, LogTyped, SpansTyped,
       PolicyTyped, CaptureTyped, WorkerTyped, AskedTyped, WipeTyped, PurgeTyped, SkippedTyped,
       WorldTyped

LEMMA KeepTypes ==
    ASSUME Typed
    PROVE  /\ (UNCHANGED index => IndexTyped')
           /\ (UNCHANGED log => LogTyped')
           /\ (UNCHANGED purges => SpansTyped')
           /\ (UNCHANGED policy => PolicyTyped')
           /\ (UNCHANGED capture => CaptureTyped')
           /\ (UNCHANGED worker => WorkerTyped')
           /\ (UNCHANGED request => AskedTyped')
           /\ (UNCHANGED wiping => WipeTyped')
           /\ (UNCHANGED purge => PurgeTyped')
           /\ (UNCHANGED skipped => SkippedTyped')
           /\ (UNCHANGED world => WorldTyped')
           /\ (UNCHANGED traces => LogTyped' /\ SpansTyped')
<1>1. UNCHANGED index => IndexTyped'
  BY TypeParts DEF AllTyped, IndexTyped, index
<1>2. UNCHANGED log => LogTyped'
  BY TypeParts DEF AllTyped, LogTyped
<1>3. UNCHANGED purges => SpansTyped'
  BY TypeParts DEF AllTyped, SpansTyped
<1>4. UNCHANGED policy => PolicyTyped'
  BY TypeParts DEF AllTyped, PolicyTyped, policy
<1>5. UNCHANGED capture => CaptureTyped'
  BY TypeParts DEF AllTyped, CaptureTyped, capture
<1>6. UNCHANGED worker => WorkerTyped'
  BY TypeParts DEF AllTyped, WorkerTyped, worker
<1>7. UNCHANGED request => AskedTyped'
  BY TypeParts DEF AllTyped, AskedTyped
<1>8. UNCHANGED wiping => WipeTyped'
  BY TypeParts DEF AllTyped, WipeTyped, wiping
<1>9. UNCHANGED purge => PurgeTyped'
  BY TypeParts DEF AllTyped, PurgeTyped
<1>10. UNCHANGED skipped => SkippedTyped'
  BY TypeParts DEF AllTyped, SkippedTyped
<1>11. UNCHANGED world => WorldTyped'
  BY TypeParts DEF AllTyped, WorldTyped
<1>12. UNCHANGED traces => LogTyped' /\ SpansTyped'
  BY <1>2, <1>3 DEF traces
<1> QED BY <1>1, <1>2, <1>3, <1>4, <1>5, <1>6, <1>7, <1>8, <1>9, <1>10, <1>11, <1>12

LEMMA TypeStep == ASSUME Typed, [Next]_vars PROVE Typed'
<1> SUFFICES AllTyped'
  BY DEF AllTyped, Typed, TypeOK, Entries, PurgeStates, RequestStates, IndexTyped, LogTyped, SpansTyped,
         PolicyTyped, CaptureTyped, WorkerTyped, AskedTyped, WipeTyped, PurgeTyped, SkippedTyped,
         WorldTyped
<1>a. /\ IndexTyped /\ LogTyped /\ SpansTyped /\ PolicyTyped /\ CaptureTyped /\ WorkerTyped
      /\ AskedTyped /\ WipeTyped /\ PurgeTyped /\ SkippedTyped /\ WorldTyped
  BY TypeParts DEF AllTyped
<1>c. Stored /\ MaxId \in Nat /\ LastId \in 0..MaxId
  BY TypedFacts
<1>d. \A r \in Requests : request[r] \in RequestStates
  BY <1>a DEF AskedTyped
<1>1. CASE UNCHANGED vars
  <2>1. UNCHANGED <<index, traces, policy, capture, worker, wiping, request, purge, skipped, world>>
    BY <1>1 DEF vars, index, traces, policy, capture, worker, wiping
  <2> QED BY KeepTypes, <2>1 DEF AllTyped
<1>2. CASE Start
  <2>1. CaptureTyped' /\ WorkerTyped'
    BY <1>a, <1>2 DEF Start, CaptureTyped, WorkerTyped
  <2> QED BY KeepTypes, <1>2, <2>1 DEF Start, AllTyped
<1>3. CASE Stop
  <2>1. CaptureTyped'
    BY <1>a, <1>3 DEF Stop, CaptureTyped
  <2> QED BY KeepTypes, <1>3, <2>1 DEF Stop, AllTyped
<1>4. CASE ReadMode
  <2>1. WorkerTyped'
    BY <1>a, <1>4 DEF ReadMode, CaptureTyped, WorkerTyped
  <2> QED BY KeepTypes, <1>4, <2>1 DEF ReadMode, AllTyped
<1>5. CASE RecordStart
  <2>1. LogTyped'
    BY <1>a, <1>5, RecordFacts DEF RecordStart, WorkerTyped, LogTyped
  <2>2. WorkerTyped'
    BY <1>a, <1>5 DEF RecordStart, WorkerTyped
  <2> QED BY KeepTypes, <1>5, <2>1, <2>2 DEF RecordStart, AllTyped
<1>17. CASE ThreadEnds
  <2>1. WorkerTyped'
    BY <1>a, <1>17 DEF ThreadEnds, WorkerTyped
  <2> QED BY KeepTypes, <1>17, <2>1 DEF ThreadEnds, AllTyped
<1>18. CASE Skip
  <2>1. SkippedTyped'
    BY <1>a, <1>18, <1>c DEF SkippedTyped, Skip
  <2> QED BY KeepTypes, <1>18, <2>1 DEF Skip, AllTyped
<1>19. ASSUME NEW moving \in BOOLEAN, Collect(moving) PROVE AllTyped'
  <2>1. PICK all, gone : Inserts(all, gone) /\ still' \subseteq rows'
    BY <1>c, <1>19, CollectFacts
  <2>2. IndexTyped'
    BY <1>a, <2>1 DEF Inserts, IndexTyped
  <2> QED BY KeepTypes, <1>19, <2>2 DEF Collect, AllTyped
<1>6. ASSUME NEW r \in Requests, NEW s \in Settings, Flip(r, s) PROVE AllTyped'
  <2>1. s \in [on : BOOLEAN, stage : {"same", "tuning", "collecting"}]
    BY SettingsAssumption
  <2>2. PICK q : q = [pc |-> "flipped", on |-> s.on, stage |-> s.stage, changed |-> s.on # flag]
    OBVIOUS
  <2>3. q \in RequestStates /\ q.pc = "flipped"
    BY <2>1, <2>2 DEF RequestStates
  <2>4. request' = [request EXCEPT ![r] = q]
    BY <1>6, <2>2 DEF Flip
  <2>5. AskedTyped'
    BY <1>a, <2>3, <2>4 DEF AskedTyped
  <2>6. CaptureTyped'
    BY <1>a, <1>6, <2>1 DEF Flip, CaptureTyped
  <2> QED BY KeepTypes, <1>6, <2>5, <2>6 DEF Flip, AllTyped
<1>7. ASSUME NEW r \in Requests, RecordFlip(r) PROVE AllTyped'
  <2>1. PICK q : q = [request[r] EXCEPT !.pc = "recorded"]
    OBVIOUS
  <2>2. q \in RequestStates /\ q.pc = "recorded"
    BY <1>d, <2>1 DEF RequestStates
  <2>3. request' = [request EXCEPT ![r] = q]
    BY <1>7, <2>1 DEF RecordFlip
  <2>4. AskedTyped'
    BY <1>a, <2>2, <2>3 DEF AskedTyped
  <2>5. LogTyped'
    <3>1. CASE request[r].changed
      BY <1>7, <1>d, <3>1, RecordFacts DEF RecordFlip, RequestStates, LogTyped
    <3>2. CASE ~request[r].changed
      BY KeepTypes, <1>7, <3>2 DEF RecordFlip
    <3> QED BY <3>1, <3>2
  <2> QED BY KeepTypes, <1>7, <2>4, <2>5 DEF RecordFlip, AllTyped
<1>8. ASSUME NEW r \in Requests, PersistFlip(r) PROVE AllTyped'
  <2>1. NoRequest \in RequestStates /\ NoRequest.pc = "none"
    BY DEF NoRequest, RequestStates
  <2>2. PICK q : q = [request[r] EXCEPT !.pc = "persisted"]
    OBVIOUS
  <2>3. q \in RequestStates /\ q.stage = request[r].stage
    BY <1>d, <2>2 DEF RequestStates
  <2>4. AskedTyped'
    <3>1. CASE request[r].stage = "same"
      <4>1. request' = [request EXCEPT ![r] = NoRequest]
        BY <1>8, <3>1 DEF PersistFlip
      <4> QED BY <1>a, <2>1, <4>1 DEF AskedTyped
    <3>2. CASE request[r].stage # "same"
      <4>1. request' = [request EXCEPT ![r] = q]
        BY <1>8, <2>2, <3>2 DEF PersistFlip
      <4> QED BY <1>a, <2>3, <3>2, <4>1 DEF AskedTyped
    <3> QED BY <3>1, <3>2
  <2>5. PolicyTyped'
    BY <1>a, <1>8, <1>d DEF PersistFlip, RequestStates, PolicyTyped
  <2> QED BY KeepTypes, <1>8, <2>4, <2>5 DEF PersistFlip, AllTyped
<1>9. ASSUME NEW r \in Requests, SetStage(r) PROVE AllTyped'
  <2>1. NoRequest \in RequestStates /\ NoRequest.pc = "none"
    BY DEF NoRequest, RequestStates
  <2>2. request' = [request EXCEPT ![r] = NoRequest]
    BY <1>9 DEF SetStage
  <2>3. AskedTyped'
    BY <1>a, <2>1, <2>2 DEF AskedTyped
  <2>4. PolicyTyped'
    BY <1>a, <1>9, <1>d DEF AskedTyped, PolicyTyped, SetStage, RequestStates
  <2> QED BY KeepTypes, <1>9, <2>3, <2>4 DEF SetStage, AllTyped
<1>10. CASE Wipe
  <2>3. /\ rows' = {} /\ still' = {} /\ log' = <<>> /\ purges' = {}
        /\ frontier' = 0 /\ skipped' = {} /\ deleted' = {}
        /\ wipe' = "wiped" /\ wipeSeen' = wipeSeen
    BY <1>10 DEF Wipe
  <2>1. LogTyped'
    <3>1. <<>> \in Seq(Entries) /\ Len(<<>>) = 0
      OBVIOUS
    <3>2. log' \in Seq(Entries) /\ Len(log') <= MaxLog
      BY <2>3, <3>1, MaxLogAssumption
    <3> QED BY <3>2 DEF LogTyped
  <2>2. IndexTyped' /\ SpansTyped' /\ SkippedTyped' /\ WipeTyped'
    BY <1>a, <1>c, <2>3 DEF IndexTyped, SpansTyped, SkippedTyped, WipeTyped
  <2> QED BY KeepTypes, <1>10, <2>1, <2>2 DEF Wipe, AllTyped
<1>11. CASE WipeReadsMode
  <2>1. WipeTyped'
    BY <1>a, <1>11 DEF WipeReadsMode, WipeTyped, CaptureTyped
  <2> QED BY KeepTypes, <1>11, <2>1 DEF WipeReadsMode, AllTyped
<1>12. CASE WipeRecordsMode
  <2>1. LogTyped'
    BY <1>a, <1>12, RecordFacts DEF WipeTyped, WipeRecordsMode, LogTyped
  <2>2. WipeTyped'
    BY <1>a, <1>12 DEF WipeRecordsMode, WipeTyped
  <2> QED BY KeepTypes, <1>12, <2>1, <2>2 DEF WipeRecordsMode, AllTyped
<1>13. ASSUME NEW i \in Ids, PurgeResolve(i) PROVE AllTyped'
  <2>1. Min(rows) \in rows
    <3>1. rows # {}
      BY <1>13 DEF PurgeResolve
    <3>2. rows \subseteq Nat
      BY TypedFacts
    <3> QED BY <3>1, <3>2, MinFacts
  <2>2. PICK m \in Ids : m = Min(rows)
    BY <1>a, <2>1 DEF IndexTyped
  <2>3. purge' = [pc |-> "running", since |-> m, until |-> i, last |-> 0]
    BY <1>13, <2>2 DEF PurgeResolve
  <2>4. PurgeTyped'
    <3> HIDE <2>2
    <3> QED BY <1>c, <2>3 DEF PurgeTyped, PurgeStates, Ids
  <2> QED BY KeepTypes, <1>13, <2>4 DEF PurgeResolve, AllTyped
<1>14. CASE PurgeBatch
  <2> DEFINE window == {i \in still : i <= purge.until}
  <2>1. PICK gone : /\ gone = FirstOf(window)
                    /\ gone # {} /\ rows' = rows \ gone /\ still' = still \ gone
                    /\ deleted' = deleted \cup gone
                    /\ purge' = [purge EXCEPT !.last = Max(gone)]
    BY <1>14 DEF PurgeBatch, FirstOf
  <2>2. window \subseteq Ids
    BY <1>a DEF IndexTyped
  <2>3. gone \subseteq window /\ Max(gone) \in gone
    <3> HIDE DEF window
    <3> QED BY <1>c, <2>1, <2>2, BatchFacts
  <2>4. PICK m \in Ids : m = Max(gone)
    BY <2>2, <2>3
  <2>5. gone \subseteq Ids
    BY <2>2, <2>3
  <2>6. /\ rows' = rows \ gone /\ still' = still \ gone
        /\ deleted' = deleted \cup gone
        /\ purge' = [purge EXCEPT !.last = m]
    BY <2>1, <2>4
  <2>7. IndexTyped'
    <3>1. frontier' = frontier
      BY <1>14 DEF PurgeBatch
    <3> HIDE <2>1
    <3> QED BY <1>a, <2>5, <2>6, <3>1 DEF IndexTyped
  <2>8. PurgeTyped'
    <3> HIDE <2>1
    <3>1. m \in 0..MaxId
      BY <1>c DEF Ids
    <3> QED BY <1>a, <2>6, <3>1 DEF PurgeTyped, PurgeStates
  <2> QED BY KeepTypes, <1>14, <2>7, <2>8 DEF PurgeBatch, AllTyped
<1>15. ASSUME NEW canceled \in BOOLEAN, PurgeEnds(canceled) PROVE AllTyped'
  <2>1. purge \in PurgeStates /\ purge.since \in Ids /\ purge.until \in Ids
    BY <1>a, <1>15 DEF PurgeTyped, PurgeEnds
  <2>2. purge.last = 0 \/ purge.last \in Ids
    BY <1>c, <2>1 DEF PurgeStates, Ids
  <2>3. SpansTyped'
    BY <1>a, <1>15, <2>1, <2>2 DEF SpansTyped, PurgeEnds
  <2>4. PurgeTyped'
    BY <1>c, <1>15 DEF PurgeEnds, NoPurge, PurgeStates, PurgeTyped
  <2> QED BY KeepTypes, <1>15, <2>3, <2>4 DEF PurgeEnds, AllTyped
<1>16. CASE Restart
  <2>1. PurgeTyped'
    BY <1>c, <1>16 DEF Restart, NoPurge, PurgeStates, PurgeTyped
  <2>2. AskedTyped'
    BY <1>16 DEF Restart, NoRequest, RequestStates, AskedTyped
  <2>3. CaptureTyped' /\ WorkerTyped' /\ WipeTyped'
    BY <1>a, <1>16 DEF Restart, CaptureTyped, WorkerTyped, WipeTyped, PolicyTyped
  <2> QED BY KeepTypes, <1>16, <2>1, <2>2, <2>3 DEF Restart, AllTyped
<1> QED
  BY <1>1, <1>2, <1>3, <1>4, <1>5, <1>6, <1>7, <1>8, <1>9, <1>10, <1>11, <1>12, <1>13,
     <1>14, <1>15, <1>16, <1>17, <1>18, <1>19
  DEF Next, Collector, Operator, Clearing, Purging

(* What the capture flag, the mode log, the purge spans and the store's id   *)
(* axis may hold, whatever collector, operator, clear and purge interleave  *)
(* (collector.py, store.py's mode_changes and purge_spans).                 *)
THEOREM TypeCorrect == Spec => []TypeOK
<1>1. Init => Typed
  BY TypeInit
<1>2. Typed /\ [Next]_vars => Typed'
  BY TypeStep
<1>3. Typed => TypeOK
  BY DEF Typed
<1> QED BY <1>1, <1>2, <1>3, PTL DEF Spec
-----------------------------------------------------------------------------
(* What the two properties are proved for: one operator request at a time;  *)
(* no toggle between the collector's reading of the mode and its row, nor   *)
(* during a run that a clear may meet; a purge that leaves the newest frame *)
(* and meets no clear.                                                      *)
Orderly ==
    /\ \A r, s \in Requests : r = s
    /\ \A w \in Worlds :
         /\ "toggle start" \notin w /\ "purge tail" \notin w
         /\ {"wipe", "wipe live"} \subseteq w => "toggle live" \notin w
         /\ "purge" \in w => "wipe" \notin w

(* The log was written in the order it is read in, up to the newest frame.  *)
InOrder(l, last) ==
    /\ \A i, k \in DOMAIN l : i < k => l[i].at <= l[k].at
    /\ \A i \in DOMAIN l : l[i].at <= last

(* Every hand that holds a reading of the mode holds the one in force.      *)
Readings ==
    /\ thread = "read" => (seen <=> flag)
    /\ wipe # "none" => "wipe" \in world
    /\ wipe = "read" => "wipe live" \in world /\ (wipeSeen <=> flag)
    /\ wipe = "wiped" => "wipe live" \in world \/ ~running
    /\ \A r \in Requests : request[r].pc = "flipped" => (request[r].on <=> flag)

InForce ==
    thread = "streaming" /\ running /\ ~BoundaryIsLate =>
        Len(log) # 0 /\ (log[Len(log)].on <=> flag)

PurgeBehind == purge.pc = "running" => "purge" \in world /\ purge.until < LastId

ModeInv == InOrder(log, LastId) /\ Readings /\ InForce /\ PurgeBehind

(* A motion-only span of a log in order.                                    *)
Spanned(l, last, p) ==
    \E i \in DOMAIN l :
        /\ l[i].on /\ l[i].at <= p /\ p <= last
        /\ \A k \in DOMAIN l : i < k /\ ~l[k].on => p <= l[k].at

LEMMA SpannedIsSpan ==
    ASSUME Typed, InOrder(log, LastId), NEW p \in 0..MaxId, Spanned(log, LastId, p)
    PROVE  InMotionOnlySpan(p)
<1>1. PICK i \in DOMAIN log :
         /\ log[i].on /\ log[i].at <= p /\ p <= LastId
         /\ \A k \in DOMAIN log : i < k /\ ~log[k].on => p <= log[k].at
  BY DEF Spanned
<1>2. ASSUME NEW k \in SwitchOffs(i) PROVE k \in DOMAIN log /\ p <= log[k].at
  <2>1. k \in DOMAIN log /\ Precedes(i, k) /\ ~log[k].on
    BY <1>2 DEF SwitchOffs
  <2>2. i < k \/ p <= log[k].at
    <3>1. /\ i \in Nat /\ k \in Nat /\ log[i].at \in Nat /\ log[k].at \in Nat
          /\ log[i].at < log[k].at \/ (log[i].at = log[k].at /\ i < k)
      BY <2>1, TypedFacts DEF Precedes
    <3>2. k < i => log[k].at <= log[i].at
      BY <2>1 DEF InOrder
    <3>3. k # i
      BY <3>1
    <3> QED BY <3>1, <3>2, <3>3
  <2> QED BY <1>1, <2>1, <2>2
<1>3. p <= SegmentEnd(i)
  <2>1. CASE SwitchOffs(i) = {}
    BY <1>1, <2>1 DEF SegmentEnd
  <2>2. CASE SwitchOffs(i) # {}
    <3>0. PICK S : S = {log[k].at : k \in SwitchOffs(i)}
      OBVIOUS
    <3>1. S \subseteq Nat /\ S # {} /\ \A y \in S : p <= y
      BY <1>2, <2>2, <3>0, TypedFacts
    <3>2. SegmentEnd(i) = Min(S)
      BY <2>2, <3>0 DEF SegmentEnd
    <3> HIDE <3>0
    <3> QED BY <3>1, <3>2, MinFacts
  <2> QED BY <2>1, <2>2
<1> QED BY <1>1, <1>3 DEF InMotionOnlySpan

LEMMA InOrderReadsLast ==
    ASSUME Typed, InOrder(log, LastId), Len(log) # 0
    PROVE  /\ Len(log) \in DOMAIN log
           /\ \A k \in DOMAIN log \ {Len(log)} : Precedes(k, Len(log))
<1>1. Len(log) \in Nat /\ DOMAIN log = 1..Len(log)
  BY TypedFacts
<1>2. Len(log) \in DOMAIN log
  BY <1>1
<1>3. ASSUME NEW k \in DOMAIN log \ {Len(log)} PROVE Precedes(k, Len(log))
  <2>1. k < Len(log)
    BY <1>1
  <2>2. log[k].at <= log[Len(log)].at /\ log[k].at \in Nat /\ log[Len(log)].at \in Nat
    BY <1>2, <2>1, TypedFacts DEF InOrder
  <2> QED BY <2>1, <2>2 DEF Precedes
<1> QED BY <1>2, <1>3

(* One step of the log: wiped, left while the store grows, or one row more. *)
LEMMA LogStep ==
    ASSUME Orderly, Typed, PurgeBehind, [Next]_vars
    PROVE  \/ Wipe
           \/ log' = log /\ LastId' \in 0..MaxId /\ LastId' >= LastId
           \/ \E on \in BOOLEAN : RecordMode(on) /\ rows' = rows
<1>1. LastId \in 0..MaxId /\ MaxId \in Nat /\ Stored
  BY TypedFacts
<1>2. rows' = rows => LastId' = LastId
  BY DEF LastId
<1>3. CASE log' = log /\ rows' = rows
  BY <1>1, <1>2, <1>3
<1>4. CASE UNCHANGED vars
  BY <1>3, <1>4 DEF vars
<1>5. CASE Start \/ Stop \/ ReadMode \/ ThreadEnds \/ Skip
  BY <1>3, <1>5 DEF Start, Stop, ReadMode, ThreadEnds, Skip, index, traces
<1>6. CASE RecordStart
  <2>1. seen \in BOOLEAN
    BY DEF Typed, TypeOK
  <2> QED BY <1>6, <2>1 DEF RecordStart, index
<1>7. ASSUME NEW moving \in BOOLEAN, Collect(moving)
      PROVE  log' = log /\ LastId' \in 0..MaxId /\ LastId' >= LastId
  <2>1. PICK all, gone : Inserts(all, gone)
    BY <1>1, <1>7, CollectFacts
  <2>2. LastId' = Newest(rows')
    BY DEF LastId, Newest
  <2>3. rows' \subseteq Ids
    BY <1>1, <2>1 DEF Inserts, Stored
  <2>4. Newest(rows') \in 0..MaxId
    BY <2>3, NewestFacts
  <2> QED BY <1>7, <2>1, <2>2, <2>4 DEF Collect, Inserts, traces
<1>8. CASE Operator
  <2>1. ASSUME NEW r \in Requests, NEW s \in Settings, Flip(r, s) PROVE log' = log /\ rows' = rows
    BY <2>1 DEF Flip, index, traces
  <2>2. ASSUME NEW r \in Requests, PersistFlip(r) \/ SetStage(r) PROVE log' = log /\ rows' = rows
    BY <2>2 DEF PersistFlip, SetStage, index, traces
  <2>3. ASSUME NEW r \in Requests, RecordFlip(r), ~(log' = log /\ rows' = rows)
        PROVE  \E on \in BOOLEAN : RecordMode(on) /\ rows' = rows
    <3>1. request[r].on \in BOOLEAN
      BY DEF Typed, TypeOK
    <3> QED BY <2>3, <3>1 DEF RecordFlip, index
  <2> QED BY <1>3, <1>8, <2>1, <2>2, <2>3 DEF Operator
<1>9. CASE WipeReadsMode
  BY <1>3, <1>9 DEF WipeReadsMode, index, traces
<1>10. CASE WipeRecordsMode
  <2>1. wipeSeen \in BOOLEAN
    BY DEF Typed, TypeOK
  <2> QED BY <1>10, <2>1 DEF WipeRecordsMode, index
<1>11. ASSUME NEW i \in Ids, PurgeResolve(i) PROVE log' = log /\ rows' = rows
  BY <1>11 DEF PurgeResolve, index, traces
<1>12. CASE PurgeBatch
  <2>1. PICK gone : gone \subseteq {i \in still : i <= purge.until} /\ rows' = rows \ gone
    BY <1>12 DEF PurgeBatch
  <2>2. purge.until < LastId /\ purge.until \in Nat
    BY <1>1, <1>12 DEF PurgeBehind, PurgeBatch, Typed, TypeOK
  <2>3. LastId \in rows /\ LastId \notin gone
    <3>1. LastId \in rows
      BY <1>1, <2>2, TypedFacts DEF LastId
    <3> QED BY <1>1, <2>1, <2>2, <3>1
  <2>4. rows' \subseteq Ids /\ LastId \in rows'
    BY <1>1, <2>1, <2>3 DEF Stored
  <2>5. Newest(rows') \in 0..MaxId /\ LastId <= Newest(rows')
    BY <2>4, NewestFacts
  <2>6. LastId' = Newest(rows')
    BY DEF LastId, Newest
  <2>7. log' = log
    BY <1>12 DEF PurgeBatch, traces
  <2> QED BY <1>1, <2>5, <2>6, <2>7
<1>13. ASSUME NEW canceled \in BOOLEAN, PurgeEnds(canceled) PROVE log' = log /\ rows' = rows
  BY <1>13 DEF PurgeEnds, index
<1>14. CASE Restart
  BY <1>3, <1>14 DEF Restart, index, traces
<1> QED
  BY <1>3, <1>4, <1>5, <1>6, <1>7, <1>8, <1>9, <1>10, <1>11, <1>12, <1>13, <1>14
  DEF Next, Collector, Clearing, Purging

(* A step of the log keeps it in order, and keeps every span but on a clear. *)
LEMMA InOrderStep ==
    ASSUME Orderly, Typed, PurgeBehind, [Next]_vars, InOrder(log, LastId)
    PROVE  /\ InOrder(log', LastId')
           /\ Wipe \/ \A p \in 0..MaxId : Spanned(log, LastId, p) => Spanned(log', LastId', p)
<1>1. /\ LastId \in Nat /\ LastId \in 0..MaxId /\ Len(log) \in Nat /\ DOMAIN log = 1..Len(log)
      /\ \A i \in DOMAIN log : i \in Nat /\ log[i].at \in Nat
  BY TypedFacts
<1>2. CASE Wipe
  <2>1. log' = <<>>
    BY <1>2 DEF Wipe
  <2> QED BY <1>2, <2>1 DEF InOrder
<1>3. CASE log' = log /\ LastId' \in 0..MaxId /\ LastId' >= LastId
  <2>1. PICK m \in Nat : m = LastId' /\ LastId <= m
    BY <1>1, <1>3
  <2>2. InOrder(log, m)
    BY <1>1, <2>1 DEF InOrder
  <2>3. ASSUME NEW p \in 0..MaxId, Spanned(log, LastId, p) PROVE Spanned(log, m, p)
    <3>1. PICK i \in DOMAIN log :
            /\ log[i].on /\ log[i].at <= p /\ p <= LastId
            /\ \A k \in DOMAIN log : i < k /\ ~log[k].on => p <= log[k].at
      BY <2>3 DEF Spanned
    <3>2. p <= m
      BY <1>1, <2>1, <3>1
    <3> QED BY <3>1, <3>2 DEF Spanned
  <2> QED BY <1>3, <2>1, <2>2, <2>3
<1>4. ASSUME NEW on \in BOOLEAN, RecordMode(on), rows' = rows
      PROVE  /\ InOrder(log', LastId')
             /\ \A p \in 0..MaxId : Spanned(log, LastId, p) => Spanned(log', LastId', p)
  <2>1. PICK n \in Nat : n = Len(log)
    BY <1>1
  <2>2. PICK l : l = log'
    OBVIOUS
  <2>3. /\ LastId' = LastId /\ DOMAIN l = 1..(n + 1) /\ DOMAIN log = 1..n
        /\ \A i \in 1..n : l[i] = log[i]
        /\ l[n + 1].at = LastId /\ l[n + 1].on = on
    <3>1. LastId' = LastId
      BY <1>4 DEF LastId
    <3>2. /\ DOMAIN log' = 1..(Len(log) + 1)
          /\ log'[Len(log) + 1] = [at |-> LastId, on |-> on]
          /\ \A i \in 1..Len(log) : log'[i] = log[i]
      BY <1>4, RecordFacts
    <3>3. log'[Len(log) + 1].at = LastId /\ log'[Len(log) + 1].on = on
      BY <3>2
    <3> QED BY <1>1, <2>1, <2>2, <3>1, <3>2, <3>3
  <2>4. InOrder(l, LastId)
    <3>1. ASSUME NEW i \in DOMAIN l PROVE l[i].at <= LastId /\ l[i].at \in Nat
      BY <1>1, <2>3, <3>1 DEF InOrder
    <3>2. ASSUME NEW i \in DOMAIN l, NEW k \in DOMAIN l, i < k PROVE l[i].at <= l[k].at
      <4>1. CASE k = n + 1
        BY <2>3, <3>1, <4>1
      <4>2. CASE k # n + 1
        BY <2>3, <3>2, <4>2 DEF InOrder
      <4> QED BY <4>1, <4>2
    <3> QED BY <3>1, <3>2 DEF InOrder
  <2>5. ASSUME NEW p \in 0..MaxId, Spanned(log, LastId, p) PROVE Spanned(l, LastId, p)
    <3>1. PICK i \in 1..n :
            /\ log[i].on /\ log[i].at <= p /\ p <= LastId
            /\ \A k \in 1..n : i < k /\ ~log[k].on => p <= log[k].at
      BY <2>3, <2>5 DEF Spanned
    <3>2. i \in DOMAIN l /\ l[i].on /\ l[i].at <= p
      BY <2>3, <3>1
    <3>3. ASSUME NEW k \in DOMAIN l, i < k, ~l[k].on PROVE p <= l[k].at
      <4>1. CASE k = n + 1
        BY <2>3, <3>1, <4>1
      <4>2. CASE k # n + 1
        BY <2>3, <3>1, <3>3, <4>2
      <4> QED BY <4>1, <4>2
    <3> QED BY <3>1, <3>2, <3>3 DEF Spanned
  <2> QED BY <2>2, <2>3, <2>4, <2>5
<1> QED BY <1>2, <1>3, <1>4, LogStep
LEMMA ReadingsStep ==
    ASSUME Orderly, Typed, ModeInv, [Next]_vars
    PROVE  Readings'
<1>1. /\ thread = "read" => (seen <=> flag)
      /\ wipe # "none" => "wipe" \in world
      /\ wipe = "read" => "wipe live" \in world /\ (wipeSeen <=> flag)
      /\ wipe = "wiped" => "wipe live" \in world \/ ~running
      /\ \A r \in Requests : request[r].pc = "flipped" => (request[r].on <=> flag)
  BY DEF ModeInv, Readings
<1>2. world \in Worlds /\ request \in [Requests -> RequestStates]
  BY DEF Typed, TypeOK, RequestStates
<1>3. CASE UNCHANGED vars
  BY <1>1, <1>3 DEF vars, Readings
<1>4. CASE Start \/ Stop \/ ReadMode \/ ThreadEnds \/ Skip \/ RecordStart
  <2>1. UNCHANGED <<flag, wipe, wipeSeen, request, world>>
    BY <1>4 DEF Start, Stop, ReadMode, ThreadEnds, Skip, RecordStart, capture, wiping
  <2>2. thread' = "read" => (seen' <=> flag)
    BY <1>1, <1>4 DEF Start, Stop, ReadMode, ThreadEnds, Skip, RecordStart, worker
  <2>3. wipe = "wiped" => "wipe live" \in world \/ ~running'
    BY <1>1, <1>4 DEF Start, Stop, ReadMode, ThreadEnds, Skip, RecordStart, capture
  <2> QED BY <1>1, <2>1, <2>2, <2>3 DEF Readings
<1>5. ASSUME NEW moving \in BOOLEAN, Collect(moving) PROVE Readings'
  <2>1. UNCHANGED <<flag, wipe, wipeSeen, request, world, thread, seen, running>>
    BY <1>5 DEF Collect, capture, wiping, worker
  <2> QED BY <1>1, <2>1 DEF Readings
<1>6. ASSUME NEW r \in Requests, NEW s \in Settings, Flip(r, s) PROVE Readings'
  <2>1. UNCHANGED <<wipe, wipeSeen, world, thread, seen, running>> /\ (flag' <=> s.on)
    BY <1>6 DEF Flip, wiping, worker
  <2>2. thread # "read" /\ wipe # "read"
    BY <1>1, <1>2, <1>6 DEF Flip, Orderly
  <2>3. ASSUME NEW q \in Requests PROVE request'[q].on <=> s.on
    <3>1. q = r
      BY DEF Orderly
    <3> QED BY <1>2, <1>6, <3>1 DEF Flip
  <2> QED BY <1>1, <2>1, <2>2, <2>3 DEF Readings
<1>7. ASSUME NEW r \in Requests, RecordFlip(r) \/ PersistFlip(r) \/ SetStage(r) PROVE Readings'
  <2>1. UNCHANGED <<wipe, wipeSeen, world, thread, seen, flag, running>>
    BY <1>7 DEF RecordFlip, PersistFlip, SetStage, wiping, worker, capture
  <2>2. ASSUME NEW q \in Requests PROVE request'[q].pc # "flipped"
    <3>1. q = r
      BY DEF Orderly
    <3>2. CASE RecordFlip(r)
      <4>1. request' = [request EXCEPT ![r].pc = "recorded"]
        BY <3>2 DEF RecordFlip
      <4> QED BY <1>2, <3>1, <4>1 DEF RequestStates
    <3>3. CASE PersistFlip(r)
      <4>1. \/ request' = [request EXCEPT ![r] = NoRequest]
            \/ request' = [request EXCEPT ![r].pc = "persisted"]
        BY <3>3 DEF PersistFlip
      <4> QED BY <1>2, <3>1, <4>1 DEF RequestStates, NoRequest
    <3>4. CASE SetStage(r)
      <4>1. request' = [request EXCEPT ![r] = NoRequest]
        BY <3>4 DEF SetStage
      <4> QED BY <1>2, <3>1, <4>1 DEF NoRequest
    <3> QED BY <1>7, <3>2, <3>3, <3>4
  <2> QED BY <1>1, <2>1, <2>2 DEF Readings
<1>8. CASE Wipe \/ WipeReadsMode \/ WipeRecordsMode
  <2>1. UNCHANGED <<flag, request, world, thread, seen, running>>
    BY <1>8 DEF Wipe, WipeReadsMode, WipeRecordsMode, worker, capture
  <2>2. /\ wipe' # "none" => "wipe" \in world
        /\ wipe' = "read" => "wipe live" \in world /\ (wipeSeen' <=> flag)
        /\ wipe' = "wiped" => "wipe live" \in world \/ ~running
    <3>1. CASE Wipe
      BY <3>1 DEF Wipe
    <3>2. CASE WipeReadsMode
      <4>1. /\ wipe = "wiped" /\ wipeSeen' = flag /\ wipe' # "wiped"
            /\ wipe' = "read" => running
        BY <3>2 DEF WipeReadsMode
      <4> QED BY <1>1, <4>1
    <3>3. CASE WipeRecordsMode
      BY <3>3 DEF WipeRecordsMode
    <3> QED BY <1>8, <3>1, <3>2, <3>3
  <2> QED BY <1>1, <2>1, <2>2 DEF Readings
<1>9. CASE Purging
  <2>1. UNCHANGED <<flag, wipe, wipeSeen, request, world, thread, seen, running>>
    BY <1>9 DEF Purging, PurgeResolve, PurgeBatch, PurgeEnds, capture, wiping, worker
  <2> QED BY <1>1, <2>1 DEF Readings
<1>10. CASE Restart
  <2>1. thread' = "none" /\ wipe' = "none" /\ \A r \in Requests : request'[r].pc = "none"
    BY <1>10 DEF Restart, NoRequest
  <2> QED BY <2>1 DEF Readings
<1> QED
  BY <1>3, <1>4, <1>5, <1>6, <1>7, <1>8, <1>9, <1>10 DEF Next, Collector, Operator, Clearing

(* Where a boundary is not late afterwards, it is in the log or was before. *)
LEMMA InForceStep ==
    ASSUME Orderly, Typed, ModeInv, [Next]_vars
    PROVE  InForce'
<1> SUFFICES ASSUME thread' = "streaming", running', ~BoundaryIsLate'
             PROVE  Len(log') # 0 /\ (log'[Len(log')].on <=> flag')
  BY DEF InForce
<1>1. wipe' = "none" /\ \A r \in Requests : ~(request'[r].pc = "flipped" /\ request'[r].changed)
  BY DEF BoundaryIsLate
<1>2. world \in Worlds /\ request \in [Requests -> RequestStates] /\ Readings /\ InForce
  BY DEF ModeInv, Typed, TypeOK, RequestStates
<1>3. ASSUME log' = log, flag' <=> flag, thread = "streaming", running, ~BoundaryIsLate
      PROVE  Len(log') # 0 /\ (log'[Len(log')].on <=> flag')
  BY <1>2, <1>3 DEF InForce
<1>4. ASSUME NEW on \in BOOLEAN, RecordMode(on), on <=> flag'
      PROVE  Len(log') # 0 /\ (log'[Len(log')].on <=> flag')
  <2>1. Len(log) \in Nat /\ Len(log') = Len(log) + 1 /\ log'[Len(log) + 1].on = on
    <3>1. log'[Len(log) + 1] = [at |-> LastId, on |-> on] /\ Len(log') = Len(log) + 1
      BY <1>4, RecordFacts
    <3>2. [at |-> LastId, on |-> on].on = on
      OBVIOUS
    <3> QED BY <3>1, <3>2, TypedFacts
  <2> QED BY <1>4, <2>1
<1>5. ASSUME UNCHANGED <<log, flag, thread, running, wipe, request>>
      PROVE  Len(log') # 0 /\ (log'[Len(log')].on <=> flag')
  BY <1>1, <1>3, <1>5 DEF BoundaryIsLate
<1>6. CASE UNCHANGED vars
  BY <1>5, <1>6 DEF vars
<1>7. CASE Start \/ Stop \/ ReadMode \/ ThreadEnds
  BY <1>7 DEF Start, Stop, ReadMode, ThreadEnds
<1>8. CASE Skip
  BY <1>5, <1>8 DEF Skip, traces, capture, worker, wiping
<1>9. CASE RecordStart
  <2>1. seen \in BOOLEAN /\ (seen <=> flag) /\ flag' = flag
    BY <1>2, <1>9 DEF Readings, RecordStart, capture, Typed, TypeOK
  <2> QED BY <1>4, <1>9, <2>1 DEF RecordStart
<1>10. ASSUME NEW moving \in BOOLEAN, Collect(moving)
       PROVE  Len(log') # 0 /\ (log'[Len(log')].on <=> flag')
  BY <1>5, <1>10 DEF Collect, traces, capture, worker, wiping
<1>11. ASSUME NEW r \in Requests, NEW s \in Settings, Flip(r, s)
       PROVE  Len(log') # 0 /\ (log'[Len(log')].on <=> flag')
  <2>1. \A q \in Requests : q = r
    BY DEF Orderly
  <2>2. request'[r] = [pc |-> "flipped", on |-> s.on, stage |-> s.stage, changed |-> s.on # flag]
    BY <1>2, <1>11 DEF Flip
  <2>3. s.on = flag /\ flag' = s.on
    <3>1. request'[r].pc = "flipped" /\ request'[r].changed = (s.on # flag)
      BY <2>2
    <3>2. ~(s.on # flag)
      BY <1>1, <3>1
    <3> QED BY <1>11, <3>2 DEF Flip
  <2>4. UNCHANGED <<log, thread, running, wipe>> /\ request[r].pc = "none"
    BY <1>11 DEF Flip, traces, worker, wiping
  <2>5. ~BoundaryIsLate
    BY <1>1, <2>1, <2>4 DEF BoundaryIsLate
  <2> QED BY <1>3, <2>3, <2>4, <2>5
<1>12. ASSUME NEW r \in Requests, RecordFlip(r)
       PROVE  Len(log') # 0 /\ (log'[Len(log')].on <=> flag')
  <2>1. \A q \in Requests : q = r
    BY DEF Orderly
  <2>2. UNCHANGED <<flag, running, thread, wipe>>
    BY <1>12 DEF RecordFlip, capture, worker, wiping
  <2>3. CASE request[r].changed
    <3>1. request[r].on \in BOOLEAN /\ (request[r].on <=> flag)
      BY <1>2, <1>12 DEF Readings, RecordFlip, RequestStates
    <3> QED BY <1>4, <1>12, <2>2, <2>3, <3>1 DEF RecordFlip
  <2>4. CASE ~request[r].changed
    <3>1. ~BoundaryIsLate
      BY <1>1, <2>1, <2>2, <2>4 DEF BoundaryIsLate
    <3> QED BY <1>3, <1>12, <2>2, <2>4, <3>1 DEF RecordFlip
  <2> QED BY <2>3, <2>4
<1>13. ASSUME NEW r \in Requests, PersistFlip(r) \/ SetStage(r)
       PROVE  Len(log') # 0 /\ (log'[Len(log')].on <=> flag')
  <2>1. \A q \in Requests : q = r
    BY DEF Orderly
  <2>2. UNCHANGED <<log, flag, running, thread, wipe>> /\ request[r].pc # "flipped"
    BY <1>13 DEF PersistFlip, SetStage, traces, capture, worker, wiping
  <2>3. ~BoundaryIsLate
    BY <1>1, <2>1, <2>2 DEF BoundaryIsLate
  <2> QED BY <1>3, <2>2, <2>3
<1>14. CASE Wipe
  BY <1>1, <1>14 DEF Wipe
<1>15. CASE WipeReadsMode
  BY <1>1, <1>15 DEF WipeReadsMode, capture
<1>16. CASE WipeRecordsMode
  <2>1. wipeSeen \in BOOLEAN /\ (wipeSeen <=> flag) /\ flag' = flag
    BY <1>2, <1>16 DEF Readings, WipeRecordsMode, capture, Typed, TypeOK
  <2> QED BY <1>4, <1>16, <2>1 DEF WipeRecordsMode
<1>17. CASE Purging
  BY <1>5, <1>17 DEF Purging, PurgeResolve, PurgeBatch, PurgeEnds, traces, capture, worker, wiping
<1>18. CASE Restart
  BY <1>18 DEF Restart
<1> QED
  BY <1>6, <1>7, <1>8, <1>9, <1>10, <1>11, <1>12, <1>13, <1>14, <1>15, <1>16, <1>17, <1>18
  DEF Next, Collector, Operator, Clearing

LEMMA PurgeBehindStep ==
    ASSUME Orderly, Typed, ModeInv, [Next]_vars
    PROVE  PurgeBehind'
<1>1. /\ purge.pc = "running" => "purge" \in world /\ purge.until < LastId
      /\ Readings /\ PurgeBehind /\ world \in Worlds /\ LastId \in 0..MaxId
      /\ purge.until \in 0..MaxId /\ MaxId \in Nat
  BY TypedFacts DEF ModeInv, PurgeBehind, Typed, TypeOK
<1>2. ASSUME NEW i \in Ids, PurgeResolve(i) PROVE PurgeBehind'
  <2>1. i < LastId /\ LastId' = LastId /\ purge'.until = i /\ "purge" \in world /\ world' = world
    <3>1. "purge tail" \notin world
      BY <1>1 DEF Orderly
    <3> QED BY <1>2, <3>1 DEF PurgeResolve, index, LastId
  <2> QED BY <2>1 DEF PurgeBehind
<1>3. ASSUME world' = world, purge'.pc = "running" => purge.pc = "running" /\ purge'.until = purge.until,
             ~Wipe
      PROVE  PurgeBehind'
  <2>1. LastId' = LastId \/ (LastId' \in 0..MaxId /\ LastId' >= LastId)
    BY <1>1, <1>3, LogStep DEF LastId
  <2> QED BY <1>1, <1>3, <2>1 DEF PurgeBehind
<1>4. CASE Wipe
  BY <1>1, <1>4 DEF Wipe, PurgeBehind, Orderly
<1>5. ~Wipe => PurgeBehind' \/ \E i \in Ids : PurgeResolve(i)
  <2>1. CASE UNCHANGED vars
    BY <1>3, <2>1 DEF vars
  <2>2. CASE Collector
    BY <1>3, <2>2 DEF Collector, Start, Stop, ReadMode, RecordStart, ThreadEnds, Skip, Collect
  <2>3. CASE Operator
    BY <1>3, <2>3 DEF Operator, Flip, RecordFlip, PersistFlip, SetStage
  <2>4. CASE WipeReadsMode \/ WipeRecordsMode
    BY <1>3, <2>4 DEF WipeReadsMode, WipeRecordsMode
  <2>5. CASE PurgeBatch
    <3>1. purge'.pc = purge.pc /\ purge'.until = purge.until /\ world' = world
      BY <2>5 DEF PurgeBatch, Typed, TypeOK
    <3> QED BY <1>3, <2>5, <3>1 DEF PurgeBatch
  <2>6. ASSUME NEW canceled \in BOOLEAN, PurgeEnds(canceled) PROVE ~Wipe => PurgeBehind'
    BY <1>3, <2>6 DEF PurgeEnds, NoPurge
  <2>7. CASE Restart
    BY <1>3, <2>7 DEF Restart, NoPurge
  <2> QED BY <2>1, <2>2, <2>3, <2>4, <2>5, <2>6, <2>7 DEF Next, Clearing, Purging
<1> QED BY <1>2, <1>4, <1>5

LEMMA ModeInit == ASSUME Init PROVE ModeInv
BY DEF Init, ModeInv, InOrder, Readings, InForce, PurgeBehind, NoRequest, NoPurge

LEMMA ModeStep ==
    ASSUME Orderly, Typed, ModeInv, [Next]_vars
    PROVE  ModeInv'
<1>1. InOrder(log, LastId)'
  BY InOrderStep DEF ModeInv
<1> QED BY <1>1, ReadingsStep, InForceStep, PurgeBehindStep DEF ModeInv

(* While frames are collected and no request is under way, the last boundary *)
(* in the order motion_only_spans reads the log is the mode in force.       *)
THEOREM LogIsInForce == Orderly => (Spec => []ReadsModeInForce)
<1> SUFFICES ASSUME Orderly PROVE Spec => []ReadsModeInForce
  OBVIOUS
<1>1. Init => Typed /\ ModeInv
  BY TypeInit, ModeInit
<1>2. Typed /\ ModeInv /\ [Next]_vars => (Typed /\ ModeInv)'
  BY TypeStep, ModeStep
<1>3. ASSUME Typed, ModeInv PROVE ReadsModeInForce
  <2> SUFFICES ASSUME Quiet, thread = "streaming", running
               PROVE  \E i \in DOMAIN log : /\ \A k \in DOMAIN log \ {i} : Precedes(k, i)
                                            /\ log[i].on = flag
    BY DEF ReadsModeInForce
  <2>1. ~BoundaryIsLate
    BY DEF Quiet, BoundaryIsLate, NoRequest
  <2>2. Len(log) # 0 /\ (log[Len(log)].on <=> flag) /\ InOrder(log, LastId)
    BY <1>3, <2>1 DEF ModeInv, InForce
  <2>3. /\ Len(log) \in DOMAIN log
        /\ \A k \in DOMAIN log \ {Len(log)} : Precedes(k, Len(log))
    BY <1>3, <2>2, InOrderReadsLast
  <2>4. log[Len(log)].on = flag
    <3>1. log[Len(log)].on \in BOOLEAN /\ flag \in BOOLEAN
      BY <1>3, <2>3, TypedFacts DEF Typed, TypeOK
    <3> QED BY <2>2, <3>1
  <2> QED BY <2>3, <2>4
<1> QED BY <1>1, <1>2, <1>3, PTL DEF Spec
-----------------------------------------------------------------------------
(* A frame skipped before its boundary's row is written is in no trace, and *)
(* a purge that dies before its span leaves none.                           *)
Admitting ==
    \A w \in Worlds : "count gaps" \notin w /\ ("purge" \in w => "die" \notin w)

SkipsFlagged == \A p \in skipped : Spanned(log, LastId, p)

(* A running purge has stripped its window from since to last, and the      *)
(* window holds every stored frame up to its end.                           *)
PurgeInHand ==
    purge.pc = "running" =>
        /\ purge.since <= purge.until /\ purge.last <= purge.until
        /\ \A i \in rows : purge.since <= i
        /\ \A i \in still : i <= purge.until => purge.last < i

LossesFlagged ==
    \A p \in deleted :
        \/ p <= frontier
        \/ \E s \in purges : s.lo <= p /\ p <= s.hi
        \/ purge.pc = "running" /\ purge.since <= p /\ p <= purge.last

LossInv == SkipsFlagged /\ PurgeInHand /\ LossesFlagged

LEMMA SkipsStep ==
    ASSUME Orderly, Admitting, Typed, ModeInv, SkipsFlagged, [Next]_vars
    PROVE  SkipsFlagged'
<1>1. /\ InOrder(log, LastId) /\ InForce /\ PurgeBehind /\ skipped \subseteq 0..MaxId
      /\ world \in Worlds
  BY DEF ModeInv, Typed, TypeOK
<1>2. Wipe \/ \A p \in 0..MaxId : Spanned(log, LastId, p) => Spanned(log', LastId', p)
  BY <1>1, InOrderStep
<1>3. CASE Wipe
  BY <1>3 DEF Wipe, SkipsFlagged
<1>4. CASE skipped' = skipped /\ ~Wipe
  BY <1>1, <1>2, <1>4 DEF SkipsFlagged
<1>5. CASE Skip
  <2>1. log' = log /\ LastId' = LastId
    BY <1>5 DEF Skip, traces, index, LastId
  <2>2. CASE BoundaryIsLate
    <3>1. skipped' = skipped
      BY <1>1, <1>5, <2>2 DEF Skip, Admitting
    <3> QED BY <2>1, <3>1 DEF SkipsFlagged
  <2>3. CASE ~BoundaryIsLate
    <3>1. skipped' = skipped \cup {LastId}
      BY <1>5, <2>3 DEF Skip
    <3>2. Len(log) # 0 /\ log[Len(log)].on
      BY <1>1, <1>5, <2>3 DEF InForce, Skip
    <3>3. Spanned(log, LastId, LastId)
      <4>1. /\ Len(log) \in Nat /\ DOMAIN log = 1..Len(log) /\ LastId \in Nat
            /\ \A i \in DOMAIN log : i \in Nat
        BY TypedFacts
      <4>2. PICK n \in Nat : n = Len(log)
        BY <4>1
      <4>3. n \in DOMAIN log /\ log[n].on /\ log[n].at <= LastId
        BY <1>1, <3>2, <4>1, <4>2 DEF InOrder
      <4>4. \A k \in DOMAIN log : ~(n < k)
        BY <4>1, <4>2
      <4> QED BY <4>1, <4>3, <4>4 DEF Spanned
    <3> QED BY <2>1, <3>1, <3>3 DEF SkipsFlagged
  <2> QED BY <2>2, <2>3
<1>6. skipped' = skipped \/ Skip \/ Wipe
  BY DEF vars, Next, Collector, Operator, Clearing, Purging, Start, Stop, ReadMode, RecordStart,
         ThreadEnds, Collect, Flip, RecordFlip, PersistFlip, SetStage, WipeReadsMode,
         WipeRecordsMode, PurgeResolve, PurgeBatch, PurgeEnds, Restart
<1> QED BY <1>3, <1>4, <1>5, <1>6

LEMMA LossStep ==
    ASSUME Orderly, Admitting, Typed, ModeInv, PurgeInHand, LossesFlagged, [Next]_vars
    PROVE  PurgeInHand' /\ LossesFlagged'
<1>1. /\ MaxId \in Nat /\ frontier \in 0..MaxId /\ deleted \subseteq Ids /\ rows \subseteq Ids
      /\ still \subseteq rows /\ LastId \in 0..MaxId /\ \A i \in rows : i <= LastId
      /\ purge \in PurgeStates /\ \A i \in Ids : i \in Nat /\ 1 <= i
  BY TypedFacts DEF Typed, TypeOK, PurgeStates, Ids
<1>2. /\ purge.pc = "running" => "purge" \in world /\ purge.until < LastId
      /\ world \in Worlds
  BY DEF ModeInv, PurgeBehind, Typed, TypeOK
<1>3. ASSUME UNCHANGED <<rows, still, frontier, deleted, purges, purge>>
      PROVE  PurgeInHand' /\ LossesFlagged'
  BY <1>3 DEF PurgeInHand, LossesFlagged
<1>4. CASE UNCHANGED vars
  BY <1>3, <1>4 DEF vars
<1>5. CASE Start \/ Stop \/ ReadMode \/ RecordStart \/ ThreadEnds \/ Skip
  BY <1>3, <1>5 DEF Start, Stop, ReadMode, RecordStart, ThreadEnds, Skip, index, traces
<1>6. CASE Operator
  BY <1>3, <1>6 DEF Operator, Flip, RecordFlip, PersistFlip, SetStage, index, traces
<1>7. CASE WipeReadsMode \/ WipeRecordsMode
  BY <1>3, <1>7 DEF WipeReadsMode, WipeRecordsMode, index, traces
<1>8. CASE Wipe
  <2>1. purge.pc # "running" /\ purge' = purge /\ deleted' = {}
    BY <1>2, <1>8 DEF Wipe, Orderly
  <2> QED BY <2>1 DEF PurgeInHand, LossesFlagged
<1>9. CASE Restart
  <2>1. purge.pc # "running" /\ purge'.pc = "none"
    BY <1>2, <1>9 DEF Restart, NoPurge, Admitting
  <2>2. UNCHANGED <<deleted, frontier, purges>>
    BY <1>9 DEF Restart, index, traces
  <2> QED BY <2>1, <2>2 DEF PurgeInHand, LossesFlagged
<1>10. ASSUME NEW moving \in BOOLEAN, Collect(moving) PROVE PurgeInHand' /\ LossesFlagged'
  <2>1. PICK all, gone : Inserts(all, gone)
    BY <1>10, CollectFacts, TypedFacts
  <2>2. purge' = purge /\ purges' = purges
    BY <1>10 DEF Collect, traces
  <2>3. rows' \subseteq rows \cup {LastId + 1} /\ still' \subseteq still \cup {LastId + 1}
    BY <2>1 DEF Inserts
  <2>4. PurgeInHand'
    <3> SUFFICES ASSUME purge.pc = "running"
                 PROVE  /\ purge.since <= purge.until /\ purge.last <= purge.until
                        /\ \A i \in rows' : purge.since <= i
                        /\ \A i \in still' : i <= purge.until => purge.last < i
      BY <2>2 DEF PurgeInHand
    <3>1. /\ purge.since \in Nat /\ purge.until \in Nat /\ purge.last \in Nat /\ LastId \in Nat
          /\ purge.since <= purge.until /\ purge.last <= purge.until /\ purge.until < LastId
      BY <1>1, <1>2 DEF PurgeStates, PurgeInHand
    <3>2. purge.since <= LastId + 1 /\ ~(LastId + 1 <= purge.until)
      BY <3>1
    <3>3. \A i \in rows : purge.since <= i
      BY DEF PurgeInHand
    <3>4. \A i \in still : i <= purge.until => purge.last < i
      BY DEF PurgeInHand
    <3> QED BY <2>3, <3>1, <3>2, <3>3, <3>4
  <2>5. LossesFlagged'
    <3>1. /\ frontier' \in 0..MaxId /\ frontier <= frontier'
          /\ \A p \in deleted' \ deleted : p <= frontier'
      BY <1>1, <2>1 DEF Inserts
    <3>2. \A p \in deleted : p <= frontier => p <= frontier'
      BY <1>1, <3>1
    <3> QED BY <2>2, <3>1, <3>2 DEF LossesFlagged
  <2> QED BY <2>4, <2>5
<1>11. ASSUME NEW until \in Ids, PurgeResolve(until) PROVE PurgeInHand' /\ LossesFlagged'
  <2>1. rows # {} /\ until \in rows
    BY <1>11 DEF PurgeResolve
  <2>2. Min(rows) \in rows /\ \A i \in rows : Min(rows) <= i
    BY <1>1, <2>1, MinFacts
  <2>3. PICK m \in rows : m = Min(rows)
    BY <2>2
  <2>4. purge' = [pc |-> "running", since |-> m, until |-> until, last |-> 0]
    BY <1>11, <2>3 DEF PurgeResolve
  <2>5. UNCHANGED <<rows, still, frontier, deleted, purges>> /\ purge.pc = "none"
    BY <1>11 DEF PurgeResolve, index, traces, NoPurge
  <2>6. purge'.since = m /\ purge'.until = until /\ purge'.last = 0
    BY <2>4
  <2>7. PurgeInHand'
    <3>1. /\ m <= until /\ 0 <= until /\ \A i \in rows : m <= i /\ 0 < i
      BY <1>1, <2>1, <2>2, <2>3
    <3> QED BY <1>1, <2>5, <2>6, <3>1 DEF PurgeInHand
  <2>8. LossesFlagged'
    BY <2>5 DEF LossesFlagged
  <2> QED BY <2>7, <2>8
<1>12. CASE PurgeBatch
  <2> DEFINE window == {i \in still : i <= purge.until}
  <2>1. PICK gone : /\ gone = FirstOf(window)
                    /\ gone # {} /\ rows' = rows \ gone /\ still' = still \ gone
                    /\ deleted' = deleted \cup gone
                    /\ purge' = [purge EXCEPT !.last = Max(gone)]
    BY <1>12 DEF PurgeBatch, FirstOf
  <2>2. window \subseteq Ids
    BY <1>1
  <2>3. /\ gone \subseteq window /\ Max(gone) \in gone /\ \A g \in gone : g <= Max(gone)
        /\ \A i \in window \ gone : Max(gone) < i
    <3> HIDE DEF window
    <3> QED BY <2>1, <2>2, BatchFacts, TypedFacts
  <2>4. PICK m \in gone : /\ m = Max(gone) /\ \A g \in gone : g <= m
                          /\ \A i \in window \ gone : m < i
    BY <2>3
  <2>5. /\ rows' \subseteq rows /\ still' = still \ gone /\ deleted' = deleted \cup gone
        /\ purge' = [purge EXCEPT !.last = m]
    BY <2>1, <2>4
  <2>6. /\ purge.pc = "running" /\ UNCHANGED <<frontier, purges>>
    BY <1>12 DEF PurgeBatch, traces
  <2>7. /\ gone \subseteq still /\ \A g \in gone : g <= purge.until
    BY <2>3
  <2>8. \A i \in still' : i <= purge.until => m < i
    BY <2>4, <2>5
  <2> HIDE <2>1
  <2> HIDE DEF window
  <2>9. /\ purge'.pc = "running" /\ purge'.since = purge.since /\ purge'.until = purge.until
        /\ purge'.last = m
    BY <1>1, <2>5, <2>6 DEF PurgeStates
  <2>10. PurgeInHand'
    BY <2>4, <2>5, <2>6, <2>7, <2>8, <2>9 DEF PurgeInHand
  <2>11. purge.last <= m
    <3>1. purge.last < m /\ purge.last \in Nat /\ m \in Nat
      BY <1>1, <2>4, <2>6, <2>7 DEF PurgeInHand, PurgeStates
    <3> QED BY <3>1
  <2>12. ASSUME NEW p \in deleted, purge.since <= p, p <= purge.last PROVE p <= m
    BY <1>1, <2>4, <2>7, <2>11, <2>12 DEF PurgeStates
  <2>13. ASSUME NEW p \in gone PROVE purge.since <= p /\ p <= m
    BY <1>1, <2>4, <2>6, <2>7 DEF PurgeInHand
  <2>14. LossesFlagged'
    BY <2>5, <2>6, <2>9, <2>12, <2>13 DEF LossesFlagged
  <2> QED BY <2>10, <2>14
<1>13. ASSUME NEW canceled \in BOOLEAN, PurgeEnds(canceled) PROVE PurgeInHand' /\ LossesFlagged'
  <2>1. purge'.pc = "none" /\ UNCHANGED <<deleted, frontier>> /\ purge.pc = "running"
    BY <1>13 DEF PurgeEnds, NoPurge, index
  <2>2. PurgeInHand'
    BY <2>1 DEF PurgeInHand
  <2>3. purges \subseteq purges'
    BY <1>13 DEF PurgeEnds
  <2>4. ASSUME NEW p \in deleted, purge.since <= p, p <= purge.last
        PROVE  \E s \in purges' : s.lo <= p /\ p <= s.hi
    <3>1. p \in Nat /\ 1 <= p /\ purge.last \in Nat /\ purge.until \in Nat /\ purge.last <= purge.until
      BY <1>1, <2>1 DEF PurgeStates, PurgeInHand
    <3>2. purge.last # 0
      BY <2>4, <3>1
    <3>3. PICK s : s = [lo |-> purge.since, hi |-> IF canceled THEN purge.last ELSE purge.until]
      OBVIOUS
    <3>4. s \in purges'
      BY <1>13, <3>2, <3>3 DEF PurgeEnds
    <3>5. s.lo = purge.since /\ (s.hi = purge.last \/ s.hi = purge.until)
      BY <3>3
    <3> QED BY <2>4, <3>1, <3>4, <3>5
  <2>5. LossesFlagged'
    BY <2>1, <2>3, <2>4 DEF LossesFlagged
  <2> QED BY <2>2, <2>5
<1> QED
  BY <1>4, <1>5, <1>6, <1>7, <1>8, <1>9, <1>10, <1>11, <1>12, <1>13
  DEF Next, Collector, Clearing, Purging

LEMMA LossInit == ASSUME Init PROVE LossInv
BY DEF Init, LossInv, SkipsFlagged, PurgeInHand, LossesFlagged, NoPurge

(* No request, clear or purge being under way, every frame that the         *)
(* collector skipped, eviction preferred or a purge deleted lies in a span  *)
(* that motion_only_spans reports: a window across it reads as unmeasurable. *)
THEOREM LossesAreFlagged == Orderly /\ Admitting => (Spec => []EveryLossIsFlagged)
<1> SUFFICES ASSUME Orderly, Admitting PROVE Spec => []EveryLossIsFlagged
  OBVIOUS
<1>1. Init => Typed /\ ModeInv /\ LossInv
  BY TypeInit, ModeInit, LossInit
<1>2. Typed /\ ModeInv /\ LossInv /\ [Next]_vars => (Typed /\ ModeInv /\ LossInv)'
  BY TypeStep, ModeStep, SkipsStep, LossStep DEF LossInv
<1>3. ASSUME Typed, ModeInv, LossInv PROVE EveryLossIsFlagged
  <2> SUFFICES ASSUME Quiet
               PROVE  /\ \A p \in skipped : Unmeasurable(p)
                      /\ \A p \in deleted : Unmeasurable(p)
    BY DEF EveryLossIsFlagged
  <2>1. ASSUME NEW p \in skipped PROVE Unmeasurable(p)
    <3>1. p \in 0..MaxId /\ Spanned(log, LastId, p) /\ InOrder(log, LastId)
      BY <1>3 DEF LossInv, SkipsFlagged, ModeInv, Typed, TypeOK
    <3> QED BY <1>3, <3>1, SpannedIsSpan DEF Unmeasurable
  <2>2. ASSUME NEW p \in deleted PROVE Unmeasurable(p)
    <3>1. 1 <= p
      BY <1>3 DEF Typed, TypeOK, Ids
    <3>2. purge.pc = "none"
      BY DEF Quiet, NoPurge
    <3> QED BY <1>3, <3>1, <3>2 DEF LossInv, LossesFlagged, Unmeasurable
  <2> QED BY <2>1, <2>2
<1> QED BY <1>1, <1>2, <1>3, PTL DEF Spec

-----------------------------------------------------------------------------
(* The last of a bounded set of naturals. *)
LEMMA LastOfBounded ==
    ASSUME NEW n \in Nat, NEW S, S \subseteq 0..n
    PROVE  Last(S) \in 0..n /\ (\A i \in S : i <= Last(S)) /\ (S # {} => Last(S) \in S)
<1>1. CASE S = {}
  BY <1>1 DEF Last
<1>2. CASE S # {}
  <2>1. Max(S) \in S /\ \A y \in S : y <= Max(S)
    BY <1>2, MaxFacts
  <2> QED BY <1>2, <2>1 DEF Last
<1> QED BY <1>1, <1>2

LEMMA WithIs ==
    ASSUME NEW f, NEW x, NEW v
    PROVE  /\ DOMAIN With(f, x, v) = DOMAIN f \cup {x} /\ With(f, x, v)[x] = v
           /\ \A y \in DOMAIN f \ {x} : With(f, x, v)[y] = f[y]
BY DEF With

LEMMA ByFrameIs ==
    ASSUME NEW B, NEW f
    PROVE  f \in ByFrame(B) => /\ DOMAIN f \subseteq FrameIds /\ f \in [DOMAIN f -> B]
                               /\ \A i \in DOMAIN f : f[i] \in B
BY DEF ByFrame

LEMMA IsByFrame ==
    ASSUME NEW B, NEW S \in SUBSET FrameIds, NEW f \in [S -> B]
    PROVE  f \in ByFrame(B)
BY DEF ByFrame

LEMMA NothingByFrame == \A B : <<>> \in ByFrame(B)
<1> SUFFICES ASSUME NEW B PROVE <<>> \in [{} -> B]
  BY IsByFrame
<1> QED OBVIOUS

-----------------------------------------------------------------------------
Busy(s) == requests[s].pc # "idle"

(* How far a route has come says what it holds.                             *)
Formed(q) ==
    /\ IsFiniteSet(q.rows) /\ DOMAIN q.sources \subseteq DOMAIN q.wants
    /\ q.pc \in {"delete", "unlink", "span", "read"} => q.rows = {} /\ DOMAIN q.sources = {}
    /\ q.pc \in {"delete", "span"} => q.removed = {}
    /\ q.pc \in {"delete", "unlink"} => q.op \in {"relabel", "undo"}
    /\ q.pc = "flags" => q.op = "confirm"

FramesTyped ==
    /\ clock \in 0..MaxTime
    /\ Live \subseteq FrameIds /\ \A i \in Live : frames[i] \in [ts : FrameIds, box : Boxes]
    /\ \A i \in Live : i <= frames[i].ts /\ frames[i].ts <= clock
ItemsTyped ==
    /\ items \subseteq Items /\ \A r \in items : r.ts <= clock
    /\ \E n \in Nat : \A r \in items : r.id <= n
FilesTyped ==
    /\ DOMAIN files \subseteq Paths
    /\ \A p \in DOMAIN files : files[p] \in [ts : FrameIds, box : Boxes \cup {NULL}, margin : {0, 10}]
FlagsTyped ==
    /\ flags \subseteq [id : Nat, lo : Nat, hi : Nat]
    /\ \E n \in Nat : \A f \in flags : f.id <= n
RoutesTyped ==
    /\ requests \in [Slots -> Routes \cup {Idle}]
    /\ \A s \in Slots : Busy(s) => Formed(requests[s])
JobTyped == recut \in Jobs \cup {NoJob}
LoadTyped == budget \in [Budgeted -> Nat] /\ load \in Loads

LabelsTyped ==
    FramesTyped /\ ItemsTyped /\ FilesTyped /\ FlagsTyped /\ RoutesTyped /\ JobTyped /\ LoadTyped

LEMMA LabelsTypeInit == ASSUME LabelsInit PROVE LabelsTyped
<1>1. load.frames \in 0..MaxTime /\ load.budget \in [Budgeted -> Nat] /\ MaxTime \in Nat
  BY LoadsAssumption, MaxTimeAssumption DEF LabelsInit
<1>2. FramesTyped
  BY <1>1 DEF LabelsInit, FramesTyped, Live, FrameIds, Boxes
<1>3. ItemsTyped /\ FlagsTyped
  BY DEF LabelsInit, ItemsTyped, FlagsTyped
<1>4. FilesTyped
  <2>1. files = <<>> /\ DOMAIN files = {}
    BY DEF LabelsInit
  <2> QED BY <2>1 DEF FilesTyped
<1>5. RoutesTyped
  BY DEF LabelsInit, RoutesTyped, Idle, Busy
<1>6. JobTyped /\ LoadTyped
  BY <1>1 DEF LabelsInit, JobTyped, LoadTyped
<1> QED BY <1>2, <1>3, <1>4, <1>5, <1>6 DEF LabelsTyped

(* What a step leaves alone keeps its types. *)
LEMMA LabelsKeep ==
    ASSUME LabelsTyped
    PROVE  /\ UNCHANGED <<clock, frames>> => FramesTyped'
           /\ UNCHANGED <<clock, items>> => ItemsTyped'
           /\ UNCHANGED files => FilesTyped'
           /\ UNCHANGED flags => FlagsTyped'
           /\ UNCHANGED requests => RoutesTyped'
           /\ UNCHANGED recut => JobTyped'
           /\ UNCHANGED <<budget, load>> => LoadTyped'
BY DEF LabelsTyped, FramesTyped, ItemsTyped, FilesTyped, FlagsTyped, RoutesTyped, JobTyped, LoadTyped,
       Live, Busy

LEMMA SpendKeeps ==
    ASSUME LabelsTyped, NEW what \in Budgeted, Spend(what), UNCHANGED load
    PROVE  /\ LoadTyped' /\ budget[what] > 0 /\ budget'[what] = budget[what] - 1
           /\ \A w \in Budgeted \ {what} : budget'[w] = budget[w]
           /\ \A w \in Budgeted : budget'[w] \in Nat /\ budget[w] \in Nat /\ budget'[w] <= budget[w]
BY DEF LabelsTyped, LoadTyped, Spend

(* A route's new state, the other routes being left alone. *)
Turns(s, v) == requests' = [requests EXCEPT ![s] = v]

LEMMA TurnsKeeps ==
    ASSUME LabelsTyped, NEW s \in Slots, NEW v \in Routes \cup {Idle}, Turns(s, v),
           v.pc # "idle" => Formed(v)
    PROVE  /\ RoutesTyped' /\ requests'[s] = v
           /\ \A t \in Slots \ {s} : requests'[t] = requests[t]
BY DEF LabelsTyped, RoutesTyped, Turns, Busy
LEMMA LiveTyped ==
    ASSUME LabelsTyped
    PROVE  /\ MaxTime \in Nat /\ clock \in 0..MaxTime /\ Live \subseteq 0..clock
           /\ Last(Live) \in 0..clock /\ (\A i \in Live : i <= Last(Live))
           /\ (Live # {} => Last(Live) \in Live)
           /\ \A i \in Live : i \in FrameIds /\ i \in Nat /\ frames[i].ts \in Nat /\ frames[i].ts \in FrameIds
<1>1. MaxTime \in Nat /\ clock \in 0..MaxTime
  BY MaxTimeAssumption DEF LabelsTyped, FramesTyped
<1>2. \A i \in Live : i \in FrameIds /\ i \in Nat /\ frames[i].ts \in Nat /\ frames[i].ts \in FrameIds
  BY <1>1 DEF LabelsTyped, FramesTyped, FrameIds
<1>3. Live \subseteq 0..clock
  BY <1>1, <1>2 DEF LabelsTyped, FramesTyped
<1>4. /\ Last(Live) \in 0..clock /\ (\A i \in Live : i <= Last(Live))
      /\ (Live # {} => Last(Live) \in Live)
  <2>1. clock \in Nat
    BY <1>1
  <2> QED BY <1>3, <2>1, LastOfBounded
<1> QED BY <1>1, <1>2, <1>3, <1>4

LEMMA LiveTypedNext ==
    ASSUME LabelsTyped'
    PROVE  /\ clock' \in 0..MaxTime /\ Live' \subseteq 0..clock'
           /\ Last(Live)' \in 0..clock' /\ (\A i \in Live' : i <= Last(Live)')
           /\ (Live' # {} => Last(Live)' \in Live')
           /\ \A i \in Live' : i \in FrameIds /\ i \in Nat /\ frames'[i].ts \in Nat /\ frames'[i].ts \in FrameIds
<1>1. MaxTime \in Nat /\ clock' \in 0..MaxTime
  BY MaxTimeAssumption DEF LabelsTyped, FramesTyped
<1>2. \A i \in Live' : i \in FrameIds /\ i \in Nat /\ frames'[i].ts \in Nat /\ frames'[i].ts \in FrameIds
  BY <1>1 DEF LabelsTyped, FramesTyped, FrameIds
<1>3. Live' \subseteq 0..clock'
  BY <1>1, <1>2 DEF LabelsTyped, FramesTyped
<1>4. /\ Last(Live') \in 0..clock' /\ (\A i \in Live' : i <= Last(Live'))
      /\ (Live' # {} => Last(Live') \in Live')
  <2>1. clock' \in Nat
    BY <1>1
  <2> QED BY <1>3, <2>1, LastOfBounded
<1>5. Last(Live)' = Last(Live')
  BY DEF Last
<1> QED BY <1>1, <1>2, <1>3, <1>4, <1>5

(* What the steps around the routes do to the frames. *)
LEMMA ArriveIs ==
    ASSUME LabelsTyped, Arrive
    PROVE  /\ LabelsTyped' /\ clock' = clock + 1 /\ Live' = Live \cup {Last(Live) + 1}
           /\ Last(Live) + 1 \notin Live /\ Last(Live) + 1 \in Nat
           /\ frames'[Last(Live) + 1] = [ts |-> clock + 1, box |-> "b1"]
           /\ \A i \in Live : frames'[i] = frames[i]
           /\ UNCHANGED <<items, files, flags, stored, requests, recut, load>>
           /\ \A w \in Budgeted \ {"arrive"} : budget'[w] = budget[w]
<1> DEFINE n == Last(Live) + 1
<1>1. /\ clock' = clock + 1 /\ clock < MaxTime /\ Spend("arrive")
      /\ frames' = With(frames, n, [ts |-> clock + 1, box |-> "b1"])
      /\ UNCHANGED <<items, files, flags, stored, requests, recut, load>>
  BY DEF Arrive
<1>2. Last(Live) \in 0..clock /\ \A i \in Live : i \in Nat /\ i <= Last(Live)
  BY LiveTyped
<1>3. MaxTime \in Nat /\ clock \in Nat
  BY LiveTyped
<1>4. n \notin Live /\ n \in FrameIds /\ n <= clock + 1 /\ n \in Nat
  BY <1>1, <1>2, <1>3 DEF FrameIds
<1>5. /\ Live' = Live \cup {n} /\ frames'[n] = [ts |-> clock + 1, box |-> "b1"]
      /\ \A i \in Live : frames'[i] = frames[i]
  <2> PICK v : v = [ts |-> clock + 1, box |-> "b1"]
    OBVIOUS
  <2>1. frames' = With(frames, n, v) /\ n \notin DOMAIN frames
    BY <1>1, <1>4 DEF Live
  <2>2. v = [ts |-> clock + 1, box |-> "b1"]
    OBVIOUS
  <2> HIDE DEF n
  <2>3. DOMAIN frames' = DOMAIN frames \cup {n} /\ frames'[n] = v /\ \A i \in DOMAIN frames : frames'[i] = frames[i]
    BY <2>1 DEF With
  <2> QED BY <2>2, <2>3 DEF Live
<1>6. FramesTyped'
  <2>1. clock' \in 0..MaxTime /\ Live' \subseteq FrameIds
    BY <1>1, <1>3, <1>4, <1>5 DEF LabelsTyped, FramesTyped
  <2>2. \A i \in Live : /\ frames'[i] \in [ts : FrameIds, box : Boxes]
                        /\ i <= frames'[i].ts /\ frames'[i].ts <= clock'
    BY <1>1, <1>3, <1>5 DEF LabelsTyped, FramesTyped, FrameIds
  <2>3. /\ frames'[n] \in [ts : FrameIds, box : Boxes]
        /\ n <= frames'[n].ts /\ frames'[n].ts <= clock'
    BY <1>1, <1>3, <1>4, <1>5 DEF FrameIds, Boxes
  <2> QED BY <1>5, <2>1, <2>2, <2>3 DEF FramesTyped
<1>7. ItemsTyped'
  <2>1. items' = items /\ \A r \in items : r.ts \in Nat
    BY <1>1, <1>3 DEF LabelsTyped, ItemsTyped, Items, FrameIds
  <2> QED BY <1>1, <1>3, <2>1 DEF LabelsTyped, ItemsTyped
<1>8. LoadTyped' /\ \A w \in Budgeted \ {"arrive"} : budget'[w] = budget[w]
  BY <1>1, SpendKeeps DEF Budgeted
<1> QED BY <1>1, <1>4, <1>5, <1>6, <1>7, <1>8, LabelsKeep DEF LabelsTyped

LEMMA EvictIs ==
    ASSUME LabelsTyped, Evict
    PROVE  /\ LabelsTyped' /\ Live' \subseteq Live
           /\ \A i \in Live' : frames'[i] = frames[i]
           /\ ~load.race => Last(Live') = Last(Live)
           /\ UNCHANGED <<clock, items, files, flags, stored, requests, recut, load>>
           /\ \A w \in Budgeted \ {"evict"} : budget'[w] = budget[w]
<1>1. /\ Spend("evict") /\ NewestStays /\ Live # {}
      /\ frames' = [i \in Live \ {Min(Live)} |-> frames[i]]
      /\ UNCHANGED <<clock, items, files, flags, stored, requests, recut, load>>
  BY DEF Evict, KeptItems
<1>2. Live' = Live \ {Min(Live)} /\ \A i \in Live' : frames'[i] = frames[i]
  BY <1>1 DEF Live
<1>3. FramesTyped'
  BY <1>1, <1>2 DEF LabelsTyped, FramesTyped
<1>4. LoadTyped' /\ \A w \in Budgeted \ {"evict"} : budget'[w] = budget[w]
  BY <1>1, SpendKeeps DEF Budgeted
<1>5. LabelsTyped'
  BY <1>1, <1>3, <1>4, LabelsKeep DEF LabelsTyped
<1>6. ASSUME ~load.race PROVE Last(Live') = Last(Live)
  <2>1. Last(Live) \in Live' /\ Last(Live) \in Nat
    BY <1>1, <1>2, <1>6, LiveTyped DEF NewestStays
  <2>2. Last(Live') \in Live' /\ \A i \in Live' : i <= Last(Live') /\ Last(Live') \in Nat
    <3>1. Live' \subseteq 0..clock /\ Live' # {} /\ clock \in Nat
      BY <1>2, <2>1, LiveTyped
    <3>2. clock \in Nat /\ Last(Live') \in 0..clock /\ Last(Live') \in Live' /\ \A i \in Live' : i <= Last(Live')
      BY <3>1, LastOfBounded
    <3> QED BY <3>2
  <2>3. Last(Live') <= Last(Live)
    BY <1>2, <2>2, LiveTyped
  <2> QED BY <2>1, <2>2, <2>3
<1> QED BY <1>1, <1>2, <1>4, <1>5, <1>6

LEMMA ClearIs ==
    ASSUME LabelsTyped, Clear
    PROVE  /\ LabelsTyped' /\ Live' = {} /\ budget["clear"] > 0
           /\ ~load.race => \A s \in Slots : ~Busy(s)
           /\ UNCHANGED <<clock, items, files, stored, requests, recut, load>>
           /\ \A w \in Budgeted \ {"clear"} : budget'[w] = budget[w]
<1>1. /\ Spend("clear") /\ frames' = <<>> /\ flags' = {} /\ (load.race \/ NoRoute)
      /\ UNCHANGED <<clock, items, files, stored, requests, recut, load>>
  BY DEF Clear, KeptItems
<1>2. Live' = {}
  <2>1. frames' = <<>> /\ DOMAIN <<>> = {}
    BY <1>1
  <2> QED BY <2>1 DEF Live
<1>3. FramesTyped' /\ FlagsTyped'
  BY <1>1, <1>2 DEF LabelsTyped, FramesTyped, FlagsTyped
<1>4. LoadTyped' /\ budget["clear"] > 0 /\ \A w \in Budgeted \ {"clear"} : budget'[w] = budget[w]
  BY <1>1, SpendKeeps DEF Budgeted
<1> QED BY <1>1, <1>2, <1>3, <1>4, LabelsKeep DEF LabelsTyped, NoRoute, Busy

LEMMA RedetectIs ==
    ASSUME LabelsTyped, NEW i \in Live, Redetect(i)
    PROVE  /\ LabelsTyped' /\ Live' = Live /\ budget["redetect"] > 0
           /\ \A j \in Live : frames'[j].ts = frames[j].ts
           /\ UNCHANGED <<clock, items, files, flags, stored, requests, recut, load>>
           /\ \A w \in Budgeted \ {"redetect"} : budget'[w] = budget[w]
<1>1. /\ Spend("redetect") /\ frames' = [frames EXCEPT ![i].box = "b2"]
      /\ UNCHANGED <<clock, items, files, flags, stored, requests, recut, load>>
  BY DEF Redetect
<1>2. \A j \in Live : frames[j] \in [ts : FrameIds, box : Boxes]
  BY DEF LabelsTyped, FramesTyped
<1>3. /\ Live' = Live
      /\ \A j \in Live : /\ frames'[j] \in [ts : FrameIds, box : Boxes]
                         /\ frames'[j].ts = frames[j].ts
  BY <1>1, <1>2 DEF Live, Boxes
<1>4. FramesTyped'
  BY <1>1, <1>3 DEF LabelsTyped, FramesTyped
<1>5. LoadTyped' /\ budget["redetect"] > 0 /\ \A w \in Budgeted \ {"redetect"} : budget'[w] = budget[w]
  BY <1>1, SpendKeeps DEF Budgeted
<1> QED BY <1>1, <1>3, <1>4, <1>5, LabelsKeep DEF LabelsTyped

LEMMA SetGeometryIs ==
    ASSUME LabelsTyped, NEW v, SetGeometry(v)
    PROVE  /\ LabelsTyped' /\ UNCHANGED <<frames, clock, items, files, flags, requests, recut, load>>
           /\ \A w \in Budgeted \ {"setting"} : budget'[w] = budget[w]
<1>1. Spend("setting") /\ UNCHANGED <<frames, clock, items, files, flags, requests, recut, load>>
  BY DEF SetGeometry
<1>2. LoadTyped' /\ \A w \in Budgeted \ {"setting"} : budget'[w] = budget[w]
  BY <1>1, SpendKeeps DEF Budgeted
<1> QED BY <1>1, <1>2, LabelsKeep DEF LabelsTyped

LEMMA CrashIs ==
    ASSUME LabelsTyped, Crash
    PROVE  /\ LabelsTyped' /\ UNCHANGED <<frames, clock, items, files, flags, stored, load>>
           /\ (\A s \in Slots : ~Busy(s)') /\ recut' = NoJob /\ budget["fault"] > 0
           /\ \A w \in Budgeted \ {"fault"} : budget'[w] = budget[w]
<1>1. /\ Spend("fault") /\ requests' = [s \in Slots |-> Idle] /\ recut' = NoJob
      /\ UNCHANGED <<frames, clock, items, files, flags, stored, load>>
  BY DEF Crash
<1>2. RoutesTyped' /\ \A s \in Slots : ~Busy(s)'
  BY <1>1 DEF RoutesTyped, Busy, Idle
<1>3. JobTyped'
  BY <1>1 DEF JobTyped
<1>4. LoadTyped' /\ budget["fault"] > 0 /\ \A w \in Budgeted \ {"fault"} : budget'[w] = budget[w]
  BY <1>1, SpendKeeps DEF Budgeted
<1> QED BY <1>1, <1>2, <1>3, <1>4, LabelsKeep DEF LabelsTyped

(* The marks: what goes without an un-mark being spent has gone over. *)
LEMMA FlagIs ==
    ASSUME LabelsTyped, NEW lo \in 1..load.frames, NEW hi \in 1..load.frames, Flag(lo, hi)
    PROVE  /\ LabelsTyped' /\ flags \subseteq flags'
           /\ UNCHANGED <<frames, clock, items, files, stored, requests, recut, load>>
           /\ \A w \in Budgeted \ {"mark"} : budget'[w] = budget[w]
<1> DEFINE new == [id |-> Last({f.id : f \in flags}) + 1, lo |-> lo, hi |-> hi]
<1>1. /\ Spend("mark") /\ flags' = flags \cup {new}
      /\ UNCHANGED <<frames, clock, items, files, stored, requests, recut, load>>
  BY DEF Flag
<1>2. LoadTyped' /\ \A w \in Budgeted \ {"mark"} : budget'[w] = budget[w]
  BY <1>1, SpendKeeps DEF Budgeted
<1>3. lo \in Nat /\ hi \in Nat
  BY LoadsAssumption, MaxTimeAssumption DEF LabelsTyped, LoadTyped
<1>4. PICK n \in Nat : \A f \in flags : f.id <= n
  BY DEF LabelsTyped, FlagsTyped
<1>5. {f.id : f \in flags} \subseteq 0..n
  BY <1>4 DEF LabelsTyped, FlagsTyped
<1>6. Last({f.id : f \in flags}) \in 0..n
  BY <1>5, LastOfBounded
<1>7. new \in [id : Nat, lo : Nat, hi : Nat] /\ new.id <= n + 1
  BY <1>3, <1>6
<1>8. \A f \in flags' : f.id <= n + 1
  <2>1. \A f \in flags : f.id \in Nat /\ f.id <= n
    BY <1>4 DEF LabelsTyped, FlagsTyped
  <2> QED BY <1>1, <1>7, <2>1
<1>9. FlagsTyped'
  <2>1. n + 1 \in Nat
    OBVIOUS
  <2> QED BY <1>1, <1>7, <1>8, <2>1 DEF LabelsTyped, FlagsTyped
<1> QED BY <1>1, <1>2, <1>9, LabelsKeep DEF LabelsTyped

LEMMA UnmarksIs ==
    ASSUME LabelsTyped, \/ \E lo, hi \in 1..load.frames : Unmark(lo, hi)
                        \/ \E f \in flags : Dismiss(f)
    PROVE  /\ LabelsTyped' /\ budget'["unmark"] < budget["unmark"]
           /\ UNCHANGED <<frames, clock, items, files, stored, requests, recut, load>>
           /\ \A w \in Budgeted \ {"unmark"} : budget'[w] = budget[w]
<1>1. /\ Spend("unmark") /\ flags' \subseteq flags
      /\ UNCHANGED <<frames, clock, items, files, stored, requests, recut, load>>
  BY DEF Unmark, Dismiss
<1>2. /\ LoadTyped' /\ budget'["unmark"] < budget["unmark"]
      /\ \A w \in Budgeted \ {"unmark"} : budget'[w] = budget[w]
  BY <1>1, SpendKeeps DEF Budgeted
<1>3. FlagsTyped'
  BY <1>1 DEF LabelsTyped, FlagsTyped
<1> QED BY <1>1, <1>2, <1>3, LabelsKeep DEF LabelsTyped

-----------------------------------------------------------------------------
(* The re-cut job. *)
ToOf(row, g) == Path(row.crop.cat, g, row.fid, row.ts)

LEMMA MovesAre ==
    ASSUME NEW row \in Items, row.crop \in Paths, NEW target \in Geometries
    PROVE  /\ \A m \in Moves(row, target) :
                /\ m \in Planned /\ m.row = row /\ m.to = ToOf(row, target)
                /\ m.how = "copy" => \E g \in Twins(target) : m.from = ToOf(row, g)
           /\ \A m, n \in Moves(row, target) : m = n
<1> DEFINE To(g) == ToOf(row, g)
           twins == {g \in Twins(target) \ {target} : To(g) \in DOMAIN files}
           Plan(how, from) == [row |-> row, how |-> how, from |-> from, to |-> To(target)]
           copies == {Plan("copy", To(g)) : g \in twins}
<1>1. \A g \in Geometries : To(g) \in Paths
  BY DEF ToOf, Path, Paths, Items
<1>2. \A g \in Twins(target) : g \in Geometries
  BY DEF Twins
<1>3. /\ \A how \in {"relink", "recut"} : Plan(how, NULL) \in Planned
      /\ \A g \in twins : Plan("copy", To(g)) \in Planned
  BY <1>1, <1>2 DEF Planned
<1>4. PICK c : c = CHOOSE m \in copies : TRUE
  OBVIOUS
<1>5. copies # {} => c \in copies
  BY <1>4
<1>6. twins # {} => copies # {}
  OBVIOUS
<1>7. Moves(row, target) =
        IF row.geometry = target THEN {}
        ELSE IF To(target) \in DOMAIN files THEN {Plan("relink", NULL)}
        ELSE IF twins # {} THEN {c}
        ELSE IF HasJpeg(row.fid, row.ts) THEN {Plan("recut", NULL)}
        ELSE {}
  <2>1. copies = UNION {{Plan("copy", To(g))} : g \in twins}
    OBVIOUS
  <2> QED BY <1>4, <2>1 DEF Moves, ToOf
<1>8. twins # {} => \E g \in twins : c = Plan("copy", To(g))
  BY <1>5, <1>6
<1>9. ASSUME NEW m, m \in Moves(row, target)
      PROVE  \/ m = Plan("relink", NULL) \/ m = Plan("recut", NULL)
             \/ twins # {} /\ m = c
  BY <1>7, <1>9
<1>10. ASSUME NEW m, m \in Moves(row, target)
       PROVE  /\ m \in Planned /\ m.row = row /\ m.to = ToOf(row, target)
              /\ m.how = "copy" => \E g \in Twins(target) : m.from = ToOf(row, g)
  <2>1. CASE m = Plan("relink", NULL) \/ m = Plan("recut", NULL)
    BY <1>3, <2>1
  <2>2. CASE twins # {} /\ m = c
    BY <1>3, <1>8, <2>2
  <2> QED BY <1>9, <1>10, <2>1, <2>2
<1>11. \A m, n \in Moves(row, target) : m = n
  BY <1>7
<1> QED BY <1>10, <1>11

LEMMA NextMoveIs ==
    ASSUME LabelsTyped, recut.pc = "move", recut.todo # {}
    PROVE  NextMove \in recut.todo
<1>1. \A m \in recut.todo : m.row.id \in Nat
  BY DEF LabelsTyped, JobTyped, NoJob, Jobs, Planned, Items
<1>2. PICK k \in {m.row.id : m \in recut.todo} : \A y \in {m.row.id : m \in recut.todo} : k <= y
  <2>1. {m.row.id : m \in recut.todo} \subseteq Nat /\ {m.row.id : m \in recut.todo} # {}
    BY <1>1
  <2> QED BY <2>1, LeastNatural
<1>3. \E m \in recut.todo : \A n \in recut.todo : m.row.id <= n.row.id
  BY <1>2
<1> QED BY <1>3 DEF NextMove

LEMMA JobIs ==
    ASSUME LabelsTyped, recut.pc # "idle"
    PROVE  /\ recut \in Jobs /\ recut.target \in Geometries /\ recut.taken \in Nat
           /\ recut.todo \subseteq Planned /\ recut.moved \subseteq Planned
BY DEF LabelsTyped, JobTyped, NoJob, Jobs

LEMMA StartRecutIs ==
    ASSUME LabelsTyped, NEW target \in load.targets, StartRecut(target)
    PROVE  /\ LabelsTyped' /\ recut.pc = "idle" /\ recut'.pc = "plan" /\ (load.alone => NothingRuns)
           /\ recut'.todo = {} /\ recut'.moved = {}
           /\ UNCHANGED <<frames, clock, items, files, flags, stored, requests, load>>
           /\ \A w \in Budgeted \ {"recut"} : budget'[w] = budget[w]
<1>1. /\ Spend("recut") /\ recut.pc = "idle" /\ (load.alone => NothingRuns)
      /\ recut' = [pc |-> "plan", target |-> target, todo |-> {}, moved |-> {}, taken |-> 0, stop |-> FALSE]
      /\ UNCHANGED <<frames, clock, items, files, flags, stored, requests, load>>
  BY DEF StartRecut
<1>2. target \in Geometries
  BY LoadsAssumption DEF LabelsTyped, LoadTyped
<1>3. recut' \in Jobs /\ recut'.pc = "plan" /\ recut'.todo = {} /\ recut'.moved = {}
  BY <1>1, <1>2 DEF Jobs
<1>4. LoadTyped' /\ \A w \in Budgeted \ {"recut"} : budget'[w] = budget[w]
  BY <1>1, SpendKeeps DEF Budgeted
<1> QED BY <1>1, <1>3, <1>4, LabelsKeep DEF LabelsTyped, JobTyped

LEMMA PlanRecutIs ==
    ASSUME LabelsTyped, PlanRecut
    PROVE  /\ LabelsTyped' /\ recut.pc = "plan" /\ recut'.pc = "move" /\ recut'.target = recut.target
           /\ recut'.todo = UNION {Moves(r, recut.target) : r \in {r2 \in items : r2.crop # NULL}}
           /\ recut'.moved = recut.moved
           /\ UNCHANGED <<frames, clock, items, files, flags, stored, requests, budget, load>>
<1> DEFINE plan == UNION {Moves(r, recut.target) : r \in {r2 \in items : r2.crop # NULL}}
<1>1. /\ recut.pc = "plan" /\ recut' = [recut EXCEPT !.pc = "move", !.todo = plan]
      /\ UNCHANGED <<frames, clock, items, files, flags, stored, requests, budget, load>>
  BY DEF PlanRecut
<1>2. recut \in Jobs /\ recut.target \in Geometries
  BY <1>1, JobIs
<1>3. plan \subseteq Planned
  <2> SUFFICES ASSUME NEW r \in items, r.crop # NULL, NEW m \in Moves(r, recut.target)
               PROVE  m \in Planned
    OBVIOUS
  <2>1. r \in Items /\ r.crop \in Paths
    BY DEF LabelsTyped, ItemsTyped, Items
  <2> QED BY <1>2, <2>1, MovesAre
<1> HIDE DEF plan
<1>4. /\ recut' \in Jobs /\ recut'.pc = "move" /\ recut'.target = recut.target
      /\ recut'.todo = plan /\ recut'.moved = recut.moved
  BY <1>1, <1>2, <1>3 DEF Jobs
<1>5. JobTyped'
  BY <1>4 DEF JobTyped
<1> QED BY <1>1, <1>4, <1>5, LabelsKeep DEF LabelsTyped, plan

LEMMA MoveOneIs ==
    ASSUME LabelsTyped, MoveOne
    PROVE  /\ LabelsTyped' /\ recut.pc = "move" /\ recut'.pc = "move" /\ recut'.target = recut.target
           /\ NextMove \in recut.todo /\ recut'.todo = recut.todo \ {NextMove}
           /\ \/ /\ recut'.moved = recut.moved \cup {NextMove} /\ Movable(NextMove)
                 /\ files' = IF NextMove.how = "relink" THEN files
                             ELSE With(files, NextMove.to, Pixels(NextMove))
              \/ recut'.moved = recut.moved /\ files' = files
           /\ UNCHANGED <<frames, clock, items, flags, stored, requests, load>>
           /\ \A w \in Budgeted \ {"fault"} : budget'[w] = budget[w]
           /\ budget["fault"] = 0 => budget'["fault"] = 0
<1> DEFINE Takes(m, moves) ==
        recut' = [recut EXCEPT !.todo = @ \ {m}, !.taken = @ + 1,
                               !.moved = IF moves THEN @ \cup {m} ELSE @]
<1>1. recut.pc = "move" /\ recut.todo # {}
  BY DEF MoveOne
<1>2. PICK m \in recut.todo : m = NextMove
  BY <1>1, NextMoveIs
<1>3. /\ recut \in Jobs /\ recut.todo \subseteq Planned /\ recut.moved \subseteq Planned
      /\ recut.target \in Geometries /\ m \in Planned
  BY <1>1, JobIs
<1>4. UNCHANGED <<frames, clock, items, flags, stored, requests, load>>
  BY DEF MoveOne
<1>5. \/ /\ Movable(m) /\ Takes(m, TRUE) /\ UNCHANGED budget
         /\ files' = IF m.how = "relink" THEN files ELSE With(files, m.to, Pixels(m))
      \/ Takes(m, FALSE) /\ UNCHANGED <<files, budget>>
      \/ Takes(m, FALSE) /\ Spend("fault") /\ UNCHANGED files
  BY <1>2 DEF MoveOne
<1>6. ASSUME NEW moves \in BOOLEAN, Takes(m, moves)
      PROVE  /\ recut' \in Jobs /\ recut'.pc = "move" /\ recut'.target = recut.target
             /\ recut'.todo = recut.todo \ {m}
             /\ recut'.moved = IF moves THEN recut.moved \cup {m} ELSE recut.moved
  <2> PICK T, k, M : /\ T = recut.todo \ {m} /\ k = recut.taken + 1
                     /\ M = IF moves THEN recut.moved \cup {m} ELSE recut.moved
    OBVIOUS
  <2>1. T \in SUBSET Planned /\ M \in SUBSET Planned /\ k \in Nat
    BY <1>3 DEF Jobs
  <2>2. recut' = [recut EXCEPT !.todo = T, !.taken = k, !.moved = M]
    BY <1>3, <1>6 DEF Jobs
  <2>3. /\ recut' \in Jobs /\ recut'.pc = recut.pc /\ recut'.target = recut.target
        /\ recut'.todo = T /\ recut'.moved = M
    BY <1>3, <2>1, <2>2 DEF Jobs
  <2> QED BY <1>1, <2>3
<1>7. ASSUME Movable(m), m.how # "relink"
      PROVE  Pixels(m) \in [ts : FrameIds, box : Boxes \cup {NULL}, margin : {0, 10}]
  <2>1. CASE m.how = "copy"
    BY <1>7, <2>1 DEF Movable, Pixels, LabelsTyped, FilesTyped
  <2>2. CASE m.how # "copy"
    BY <1>3, <2>2 DEF Pixels, Planned, Items, Margin
  <2> QED BY <2>1, <2>2
<1>8. FilesTyped'
  <2>1. CASE UNCHANGED files
    BY <2>1, LabelsKeep
  <2>2. CASE files' = With(files, m.to, Pixels(m)) /\ Movable(m) /\ m.how # "relink"
    <3>1. DOMAIN files' = DOMAIN files \cup {m.to} /\ m.to \in Paths
      BY <1>3, <2>2 DEF With, Planned
    <3>2. \A p \in DOMAIN files' : files'[p] = IF p = m.to THEN Pixels(m) ELSE files[p]
      BY <2>2 DEF With
    <3> QED BY <1>7, <2>2, <3>1, <3>2 DEF LabelsTyped, FilesTyped
  <2> QED BY <1>5, <2>1, <2>2
<1>9. /\ LoadTyped' /\ \A w \in Budgeted \ {"fault"} : budget'[w] = budget[w]
      /\ budget["fault"] = 0 => budget'["fault"] = 0
  <2>1. CASE UNCHANGED budget
    BY <1>4, <2>1, LabelsKeep
  <2>2. CASE Spend("fault")
    BY <1>4, <2>2, SpendKeeps DEF Budgeted
  <2> QED BY <1>5, <2>1, <2>2
<1>10. /\ recut' \in Jobs /\ recut'.pc = "move" /\ recut'.target = recut.target
       /\ recut'.todo = recut.todo \ {m}
  BY <1>5, <1>6
<1>11. LabelsTyped'
  BY <1>4, <1>8, <1>9, <1>10, LabelsKeep DEF LabelsTyped, JobTyped
<1>12. \/ /\ recut'.moved = recut.moved \cup {m} /\ Movable(m)
          /\ files' = IF m.how = "relink" THEN files ELSE With(files, m.to, Pixels(m))
       \/ recut'.moved = recut.moved /\ files' = files
  <2> HIDE DEF Takes
  <2>1. \A moves \in BOOLEAN : Takes(m, moves) =>
            recut'.moved = IF moves THEN recut.moved \cup {m} ELSE recut.moved
    BY <1>6
  <2> QED BY <1>5, <2>1
<1> QED BY <1>1, <1>2, <1>4, <1>9, <1>10, <1>11, <1>12

Swapped(r) == {m \in recut.moved : r \in Swaps(m)}
Moved(r, m) == [r EXCEPT !.crop = m.to, !.geometry = recut.target]

LEMMA MovedIs ==
    ASSUME LabelsTyped, recut.pc # "idle", NEW r \in items, NEW m \in recut.moved
    PROVE  /\ Moved(r, m) \in Items /\ Moved(r, m).id = r.id /\ Moved(r, m).ts = r.ts
           /\ Moved(r, m).fid = r.fid /\ Moved(r, m).kind = r.kind /\ Moved(r, m).cat = r.cat
           /\ Moved(r, m).box = r.box /\ Moved(r, m).crop = m.to
           /\ Moved(r, m).geometry = recut.target
<1>1. r \in Items /\ m \in Planned /\ recut.target \in Geometries
  BY JobIs DEF LabelsTyped, ItemsTyped
<1> PICK to, g : to = m.to /\ g = recut.target
  OBVIOUS
<1>2. to \in Paths /\ g \in Geometries
  BY <1>1 DEF Planned
<1>3. Moved(r, m) = [r EXCEPT !.crop = to, !.geometry = g]
  BY DEF Moved
<1> QED BY <1>1, <1>2, <1>3 DEF Items

LEMMA WriteBatchIs ==
    ASSUME LabelsTyped, WriteBatch
    PROVE  /\ LabelsTyped' /\ recut.pc = "move"
           /\ \A r \in items : Swapped(r) = {} => r \in items'
           /\ \A r \in items : \A m \in Swapped(r) : Moved(r, m) \in items'
           /\ \A x \in items' : \/ x \in items /\ Swapped(x) = {}
                                \/ \E r \in items : \E m \in Swapped(r) : x = Moved(r, m)
           /\ \/ recut' = NoJob
              \/ /\ recut'.pc = "move" /\ recut'.todo = recut.todo /\ recut'.moved = {}
                 /\ recut'.target = recut.target
           /\ UNCHANGED <<frames, clock, files, flags, stored, requests, budget, load>>
<1>1. /\ recut.pc = "move" /\ UNCHANGED <<frames, clock, files, flags, stored, requests, budget, load>>
      /\ items' = {r \in items : Swapped(r) = {}}
                  \cup UNION {{Moved(r, m) : m \in Swapped(r)} : r \in items}
      /\ \/ recut' = NoJob
         \/ recut' = [recut EXCEPT !.moved = {}, !.taken = 0]
  BY DEF WriteBatch, Swapped, Moved
<1>2. /\ \A r \in items : Swapped(r) = {} => r \in items'
      /\ \A r \in items : \A m \in Swapped(r) : Moved(r, m) \in items'
      /\ \A x \in items' : \/ x \in items /\ Swapped(x) = {}
                           \/ \E r \in items : \E m \in Swapped(r) : x = Moved(r, m)
  BY <1>1
<1>3. \A r \in items : \A m \in Swapped(r) : Moved(r, m) \in Items /\ Moved(r, m).id = r.id /\ Moved(r, m).ts = r.ts
  BY <1>1, MovedIs DEF Swapped
<1>4. ItemsTyped'
  <2>1. items' \subseteq Items /\ \A x \in items' : x.ts <= clock
    BY <1>2, <1>3 DEF LabelsTyped, ItemsTyped
  <2>2. PICK n \in Nat : \A r \in items : r.id <= n
    BY DEF LabelsTyped, ItemsTyped
  <2>3. \A x \in items' : x.id <= n
    BY <1>2, <1>3, <2>2
  <2> QED BY <1>1, <2>1, <2>3 DEF ItemsTyped
<1>5. recut \in Jobs
  BY <1>1, JobIs
<1>6. /\ JobTyped'
      /\ \/ recut' = NoJob
         \/ /\ recut'.pc = "move" /\ recut'.todo = recut.todo /\ recut'.moved = {}
            /\ recut'.target = recut.target
  <2>1. CASE recut' = [recut EXCEPT !.moved = {}, !.taken = 0]
    <3>1. /\ recut' \in Jobs /\ recut'.pc = recut.pc /\ recut'.todo = recut.todo /\ recut'.moved = {}
          /\ recut'.target = recut.target
      BY <1>5, <2>1 DEF Jobs
    <3> QED BY <1>1, <3>1 DEF JobTyped
  <2>2. CASE recut' = NoJob
    BY <2>2 DEF JobTyped
  <2> QED BY <1>1, <2>1, <2>2
<1> QED BY <1>1, <1>2, <1>4, <1>6, LabelsKeep DEF LabelsTyped

LEMMA JobEndsIs ==
    ASSUME LabelsTyped, NothingToMove \/ CancelRecut
    PROVE  /\ LabelsTyped'
           /\ \/ recut' = NoJob
              \/ /\ recut.pc # "idle" /\ recut'.pc = recut.pc /\ recut'.todo = recut.todo
                 /\ recut'.moved = recut.moved /\ recut'.target = recut.target
           /\ UNCHANGED <<frames, clock, items, files, flags, stored, requests, load>>
           /\ \A w \in Budgeted \ {"cancel"} : budget'[w] = budget[w]
<1>1. CASE NothingToMove
  BY <1>1, LabelsKeep DEF NothingToMove, LabelsTyped, JobTyped
<1>2. CASE CancelRecut
  <2>1. /\ Spend("cancel") /\ recut.pc # "idle" /\ recut' = [recut EXCEPT !.stop = TRUE]
        /\ UNCHANGED <<frames, clock, items, files, flags, stored, requests, load>>
    BY <1>2 DEF CancelRecut
  <2>2. recut \in Jobs
    BY <2>1, JobIs
  <2>3. /\ recut' \in Jobs /\ recut'.pc = recut.pc /\ recut'.todo = recut.todo
        /\ recut'.moved = recut.moved /\ recut'.target = recut.target
    BY <2>1, <2>2 DEF Jobs
  <2>4. LoadTyped' /\ \A w \in Budgeted \ {"cancel"} : budget'[w] = budget[w]
    BY <2>1, SpendKeeps DEF Budgeted
  <2> QED BY <2>1, <2>3, <2>4, LabelsKeep DEF LabelsTyped, JobTyped
<1> QED BY <1>1, <1>2

-----------------------------------------------------------------------------
(* The routes. *)
LEMMA RouteIs ==
    ASSUME LabelsTyped, NEW s \in Slots, Busy(s)
    PROVE  /\ requests[s] \in Routes /\ Formed(requests[s]) /\ IsFiniteSet(requests[s].rows)
           /\ DOMAIN requests[s].wants \subseteq FrameIds /\ DOMAIN requests[s].sources \subseteq FrameIds
           /\ \A i \in DOMAIN requests[s].wants : requests[s].wants[i] \in Boxes
           /\ \A i \in DOMAIN requests[s].sources : requests[s].sources[i] \in FrameIds
<1>1. requests[s] \in Routes /\ Formed(requests[s]) /\ IsFiniteSet(requests[s].rows)
  BY DEF LabelsTyped, RoutesTyped, Busy, Idle, Formed
<1>2. requests[s].wants \in ByFrame(Boxes) /\ requests[s].sources \in ByFrame(FrameIds)
  BY <1>1 DEF Routes
<1> QED BY <1>1, <1>2, ByFrameIs

LEMMA IdleTurn ==
    ASSUME LabelsTyped, NEW s \in Slots, Done(s)
    PROVE  RoutesTyped' /\ ~Busy(s)' /\ \A t \in Slots \ {s} : requests'[t] = requests[t]
BY DEF LabelsTyped, RoutesTyped, Done, Busy, Idle

(* A step that moves pc alone. *)
LEMMA GotoTurn ==
    ASSUME LabelsTyped, NEW s \in Slots, Busy(s), NEW pc \in {"read", "add", "flags"}, Goto(s, pc),
           pc = "read" => requests[s].pc = "unlink", pc = "flags" => requests[s].op = "confirm"
    PROVE  /\ RoutesTyped' /\ \A t \in Slots \ {s} : requests'[t] = requests[t]
           /\ requests'[s] \in Routes /\ requests'[s].pc = pc
           /\ requests'[s].op = requests[s].op /\ requests'[s].kind = requests[s].kind
           /\ requests'[s].cat = requests[s].cat /\ requests'[s].wants = requests[s].wants
           /\ requests'[s].shown = requests[s].shown /\ requests'[s].geometry = requests[s].geometry
           /\ requests'[s].sources = requests[s].sources /\ requests'[s].removed = requests[s].removed
           /\ requests'[s].rows = requests[s].rows
<1> PICK q : q = requests[s]
  OBVIOUS
<1> DEFINE v == [q EXCEPT !.pc = pc]
<1>1. q \in Routes /\ Formed(q)
  BY RouteIs
<1>2. /\ v \in Routes /\ v.pc = pc /\ v.op = q.op /\ v.kind = q.kind /\ v.cat = q.cat
      /\ v.wants = q.wants /\ v.shown = q.shown /\ v.geometry = q.geometry
      /\ v.sources = q.sources /\ v.removed = q.removed /\ v.rows = q.rows
  BY <1>1 DEF Routes
<1>3. Turns(s, v)
  BY DEF Goto, Turns
<1> HIDE DEF v
<1>4. v \in Routes \cup {Idle} /\ Formed(v)
  BY <1>1, <1>2 DEF Formed
<1>5. /\ RoutesTyped' /\ requests'[s] = v
      /\ \A t \in Slots \ {s} : requests'[t] = requests[t]
  BY <1>3, <1>4, TurnsKeeps
<1> QED BY <1>2, <1>5

LEMMA CatsHold ==
    /\ NULL \in Cats /\ "tom" \in Cats
    /\ \A l \in Loads : \A d \in l.decisions : d.cat \in Cats /\ d.kind \in Kinds
BY LoadsAssumption DEF Cats

LEMMA ImageFinite ==
    ASSUME NEW S, IsFiniteSet(S), NEW T, NEW f \in [S -> T], \A t \in T : \E x \in S : f[x] = t
    PROVE  IsFiniteSet(T)
<1>1. f \in Surjection(S, T)
  BY DEF Surjection
<1> QED BY <1>1, FS_Surjection

LEMMA LiveFinite ==
    ASSUME NEW S \in SUBSET FrameIds
    PROVE  IsFiniteSet(S)
<1>1. IsFiniteSet(FrameIds)
  BY MaxTimeAssumption, FS_Interval DEF FrameIds
<1> QED BY <1>1, FS_Subset

(* A row without a crop for each frame of a set.                            *)
CroplessOf(S, kind) ==
    {[fid |-> i, kind |-> kind, cat |-> NULL, box |-> NULL, crop |-> NULL, geometry |-> "legacy"] : i \in S}

LEMMA CroplessIs ==
    ASSUME NEW S \in SUBSET FrameIds, NEW kind \in Kinds
    PROVE  /\ CroplessOf(S, kind) \subseteq Prepared /\ IsFiniteSet(CroplessOf(S, kind))
           /\ \A r \in CroplessOf(S, kind) : r.fid \in S /\ r.crop = NULL
           /\ \A r1, r2 \in CroplessOf(S, kind) : r1.fid = r2.fid => r1 = r2
<1> DEFINE rowOf(i) == [fid |-> i, kind |-> kind, cat |-> NULL, box |-> NULL, crop |-> NULL,
                        geometry |-> "legacy"]
           T == CroplessOf(S, kind)
           f == [i \in S |-> rowOf(i)]
<1>1. \A i \in S : rowOf(i) \in Prepared
  BY CatsHold DEF Prepared, Geometries
<1>2. \A r \in T : \E i \in S : r = rowOf(i)
  BY DEF CroplessOf
<1>3. \A i \in S : rowOf(i) \in T
  BY DEF CroplessOf
<1>4. IsFiniteSet(T)
  <2>1. IsFiniteSet(S)
    BY LiveFinite
  <2>2. f \in [S -> T] /\ \A r \in T : \E i \in S : f[i] = r
    BY <1>2, <1>3
  <2> HIDE DEF f, T
  <2> QED BY <2>1, <2>2, ImageFinite
<1>5. \A r \in T : r.fid \in S /\ r.crop = NULL
  BY <1>2
<1>6. \A r1, r2 \in T : r1.fid = r2.fid => r1 = r2
  BY <1>2
<1> QED BY <1>1, <1>2, <1>4, <1>5, <1>6

LEMMA RequestIs ==
    ASSUME LabelsTyped, NEW op \in Ops, NEW kind \in Kinds, NEW cat \in Cats, NEW S \in SUBSET Live
    PROVE  LET q == Request(op, kind, cat, S)
           IN  /\ q \in Routes /\ Formed(q)
               /\ q.pc = (IF op \in {"relabel", "undo"} THEN "delete" ELSE IF op = "ignore" THEN "add"
                         ELSE IF op = "confirm" THEN "span" ELSE "read")
               /\ q.op = op /\ q.kind = kind /\ q.cat = cat
               /\ DOMAIN q.wants = S /\ (\A i \in S : q.wants[i] = frames[i].box)
               /\ q.shown = {<<i, frames[i].ts>> : i \in S}
               /\ DOMAIN q.sources = {} /\ q.removed = {}
               /\ op # "ignore" => q.rows = {}
               /\ \A r \in q.rows : r.fid \in S /\ r.crop = NULL
               /\ \A r1, r2 \in q.rows : r1.fid = r2.fid => r1 = r2
<1> DEFINE pcOf == IF op \in {"relabel", "undo"} THEN "delete" ELSE IF op = "ignore" THEN "add"
                   ELSE IF op = "confirm" THEN "span" ELSE "read"
           wants == [i \in S |-> frames[i].box]
           shown == {<<i, frames[i].ts>> : i \in S}
           prepared == IF op = "ignore" THEN CroplessOf(S, kind) ELSE {}
           q == Request(op, kind, cat, S)
<1>1. S \subseteq FrameIds /\ \A i \in S : frames[i] \in [ts : FrameIds, box : Boxes]
  BY DEF LabelsTyped, FramesTyped
<1>2. wants \in ByFrame(Boxes) /\ DOMAIN wants = S /\ \A i \in S : wants[i] = frames[i].box
  <2>1. wants \in [S -> Boxes]
    BY <1>1
  <2>2. DOMAIN wants = S /\ \A i \in S : wants[i] = frames[i].box
    OBVIOUS
  <2> HIDE DEF wants
  <2> QED BY <1>1, <2>1, <2>2, IsByFrame
<1>3. shown \in SUBSET (FrameIds \X FrameIds)
  BY <1>1
<1>4. /\ prepared \subseteq Prepared /\ IsFiniteSet(prepared)
      /\ op # "ignore" => prepared = {}
      /\ \A r \in prepared : r.fid \in S /\ r.crop = NULL
      /\ \A r1, r2 \in prepared : r1.fid = r2.fid => r1 = r2
  BY <1>1, CroplessIs, FS_EmptySet
<1>5. q = [pc |-> pcOf, op |-> op, kind |-> kind, cat |-> cat, wants |-> wants, shown |-> shown,
           geometry |-> "legacy", sources |-> <<>>, removed |-> {}, rows |-> prepared]
  BY DEF Request, CroplessOf
<1>6. pcOf \in {"delete", "unlink", "span", "read", "cut", "add", "flags"}
  OBVIOUS
<1>7. <<>> \in ByFrame(FrameIds) /\ DOMAIN <<>> = {}
  BY NothingByFrame
<1> HIDE DEF wants, shown, prepared, q
<1>8. q \in Routes
  BY <1>2, <1>3, <1>4, <1>5, <1>6, <1>7 DEF Routes, Geometries
<1>9. /\ q.pc = pcOf /\ q.op = op /\ q.kind = kind /\ q.cat = cat
      /\ q.wants = wants /\ q.shown = shown /\ q.sources = <<>> /\ q.removed = {}
      /\ q.rows = prepared
  BY <1>5
<1>10. Formed(q)
  BY <1>2, <1>4, <1>7, <1>9 DEF Formed
<1> QED BY <1>2, <1>4, <1>7, <1>8, <1>9, <1>10 DEF q, shown

Others(s) == \A t \in Slots \ {s} : requests'[t] = requests[t]

LEMMA AsksIs ==
    ASSUME LabelsTyped, NEW s \in Slots, Asks(s)
    PROVE  /\ LabelsTyped' /\ ~Busy(s) /\ Others(s) /\ (load.alone => NothingRuns)
           /\ UNCHANGED <<frames, clock, items, files, flags, stored, recut, load>>
           /\ \A w \in Budgeted \ {"request"} : budget'[w] = budget[w]
           /\ \E op \in load.ops : \E kind \in Kinds : \E cat \in Cats : \E S \in SUBSET Live :
                /\ op \in Ops /\ S \subseteq Offered(op)
                /\ requests'[s] = Request(op, kind, cat, S)
<1>11. PICK op \in load.ops, kind \in Kinds, cat \in Cats :
        \E S : Ask(s, op, [kind |-> kind, cat |-> cat], S)
  <2>1. CASE \E op \in load.ops \cap {"label", "relabel"}, d \in load.decisions, S \in load.spans : Ask(s, op, d, S)
    <3>1. PICK op \in load.ops, d \in load.decisions, S \in load.spans : Ask(s, op, d, S)
      BY <2>1
    <3>2. d.kind \in Kinds /\ d.cat \in Cats
      BY CatsHold DEF LabelsTyped, LoadTyped
    <3>3. Ask(s, op, [kind |-> d.kind, cat |-> d.cat], S)
      BY <3>1 DEF Ask
    <3> QED BY <3>2, <3>3
  <2>2. CASE \E op \in load.ops \cap {"undo", "ignore"}, S \in load.spans :
                Ask(s, op, [kind |-> "ignored", cat |-> NULL], S)
    <3>1. "ignored" \in Kinds /\ NULL \in Cats
      BY CatsHold DEF Kinds
    <3> QED BY <2>2, <3>1
  <2>3. CASE "confirm" \in load.ops /\ Ask(s, "confirm", [kind |-> "identified", cat |-> "tom"], Undecided)
    <3>1. "identified" \in Kinds /\ "tom" \in Cats
      BY CatsHold DEF Kinds
    <3> QED BY <2>3, <3>1
  <2> QED BY <2>1, <2>2, <2>3 DEF Asks
<1>1. PICK S : Ask(s, op, [kind |-> kind, cat |-> cat], S)
  BY <1>11
<1>2. /\ ~Busy(s) /\ (load.alone => NothingRuns) /\ Spend("request") /\ S \subseteq Offered(op)
      /\ requests' = [requests EXCEPT ![s] = Request(op, kind, cat, S)]
      /\ UNCHANGED <<frames, clock, items, files, flags, stored, recut, load>>
  BY <1>1 DEF Ask, Busy
<1>3. S \subseteq Live
  BY <1>2 DEF Offered, Undecided
<1>4. op \in Ops
  BY LoadsAssumption DEF LabelsTyped, LoadTyped
<1>5. Request(op, kind, cat, S) \in Routes /\ Formed(Request(op, kind, cat, S))
  BY <1>3, <1>4, RequestIs
<1>6. RoutesTyped' /\ requests'[s] = Request(op, kind, cat, S) /\ Others(s)
  <2> PICK v : v = Request(op, kind, cat, S)
    OBVIOUS
  <2>1. v \in Routes \cup {Idle} /\ Formed(v) /\ Turns(s, v)
    BY <1>2, <1>5 DEF Turns
  <2> QED BY <2>1, TurnsKeeps DEF Others
<1>7. LoadTyped' /\ \A w \in Budgeted \ {"request"} : budget'[w] = budget[w]
  BY <1>2, SpendKeeps DEF Budgeted
<1>8. LabelsTyped'
  BY <1>2, <1>6, <1>7, LabelsKeep DEF LabelsTyped
<1> QED BY <1>2, <1>3, <1>4, <1>6, <1>7, <1>8

(* What a step of a route keeps of its own request.                         *)
Keeps(s) ==
    /\ requests'[s] \in Routes
    /\ requests'[s].op = requests[s].op /\ requests'[s].kind = requests[s].kind
    /\ requests'[s].cat = requests[s].cat

LEMMA ReadSpanIs ==
    ASSUME LabelsTyped, NEW s \in Slots, ReadSpan(s)
    PROVE  /\ LabelsTyped' /\ requests[s].pc = "span" /\ Others(s) /\ Keeps(s)
           /\ UNCHANGED <<frames, clock, items, files, flags, stored, recut, budget, load>>
           /\ requests'[s].pc = "read"
           /\ DOMAIN requests'[s].wants = Undecided
           /\ \A i \in Undecided : requests'[s].wants[i] = frames[i].box
           /\ requests'[s].shown = {<<i, frames[i].ts>> : i \in Undecided}
           /\ requests'[s].sources = requests[s].sources
           /\ requests'[s].removed = requests[s].removed /\ requests'[s].rows = requests[s].rows
<1> PICK q : q = requests[s]
  OBVIOUS
<1> DEFINE wants == [i \in Undecided |-> frames[i].box]
           shown == {<<i, frames[i].ts>> : i \in Undecided}
           v == [q EXCEPT !.pc = "read", !.wants = wants, !.shown = shown]
<1>1. /\ q.pc = "span" /\ UNCHANGED <<frames, clock, items, files, flags, stored, recut, budget, load>>
      /\ requests' = [requests EXCEPT ![s].pc = "read", ![s].wants = wants, ![s].shown = shown]
  BY DEF ReadSpan, At
<1>2. q \in Routes /\ Formed(q)
  BY <1>1, RouteIs DEF Busy
<1>3. Undecided \in SUBSET FrameIds /\ \A i \in Undecided : frames[i] \in [ts : FrameIds, box : Boxes]
  BY DEF LabelsTyped, FramesTyped, Undecided
<1>4. wants \in ByFrame(Boxes) /\ DOMAIN wants = Undecided /\ \A i \in Undecided : wants[i] = frames[i].box
  <2>1. wants \in [Undecided -> Boxes]
    BY <1>3
  <2>2. DOMAIN wants = Undecided /\ \A i \in Undecided : wants[i] = frames[i].box
    OBVIOUS
  <2> HIDE DEF wants
  <2> QED BY <1>3, <2>1, <2>2, IsByFrame
<1>5. shown \in SUBSET (FrameIds \X FrameIds)
  BY <1>3
<1> HIDE DEF wants
<1>6. shown = {<<i, frames[i].ts>> : i \in Undecided}
  OBVIOUS
<1> HIDE DEF shown
<1>7. /\ v \in Routes /\ v.pc = "read" /\ v.op = q.op /\ v.kind = q.kind /\ v.cat = q.cat
      /\ v.wants = wants /\ v.shown = shown /\ v.sources = q.sources /\ v.removed = q.removed
      /\ v.rows = q.rows
  BY <1>2, <1>4, <1>5 DEF Routes
<1>8. Turns(s, v)
  BY <1>1, <1>2 DEF Turns, LabelsTyped, RoutesTyped, Routes
<1> HIDE DEF v
<1>9. RoutesTyped' /\ requests'[s] = v /\ Others(s)
  <2>1. Formed(v)
    BY <1>1, <1>2, <1>7 DEF Formed
  <2> QED BY <1>7, <1>8, <2>1, TurnsKeeps DEF Others
<1>10. LabelsTyped'
  BY <1>1, <1>9, LabelsKeep DEF LabelsTyped
<1> QED BY <1>1, <1>4, <1>6, <1>7, <1>9, <1>10 DEF Keeps

LEMMA DeleteRowsIs ==
    ASSUME LabelsTyped, NEW s \in Slots, DeleteRows(s)
    PROVE  LET doomed == {r \in items : r.fid \in DOMAIN requests[s].wants}
           IN  /\ LabelsTyped' /\ requests[s].pc = "delete" /\ Others(s) /\ Keeps(s)
               /\ UNCHANGED <<frames, clock, files, flags, stored, recut, budget, load>>
               /\ items' = items \ doomed
               /\ requests'[s].pc = "unlink" /\ requests'[s].removed = doomed
               /\ requests'[s].wants = requests[s].wants /\ requests'[s].shown = requests[s].shown
               /\ requests'[s].sources = requests[s].sources /\ requests'[s].rows = requests[s].rows
<1> PICK q : q = requests[s]
  OBVIOUS
<1> DEFINE doomed == {r \in items : r.fid \in DOMAIN q.wants}
           v == [q EXCEPT !.pc = "unlink", !.removed = doomed]
<1>1. /\ q.pc = "delete" /\ items' = items \ doomed
      /\ UNCHANGED <<frames, clock, files, flags, stored, recut, budget, load>>
      /\ requests' = [requests EXCEPT ![s].pc = "unlink", ![s].removed = doomed]
  BY DEF DeleteRows, At
<1>2. q \in Routes /\ Formed(q)
  BY <1>1, RouteIs DEF Busy
<1>3. doomed \in SUBSET Items
  BY DEF LabelsTyped, ItemsTyped
<1>4. ItemsTyped'
  BY <1>1 DEF LabelsTyped, ItemsTyped
<1>5. doomed = {r \in items : r.fid \in DOMAIN requests[s].wants}
  OBVIOUS
<1> HIDE DEF doomed
<1>6. /\ v \in Routes /\ v.pc = "unlink" /\ v.op = q.op /\ v.kind = q.kind /\ v.cat = q.cat
      /\ v.wants = q.wants /\ v.shown = q.shown /\ v.sources = q.sources /\ v.removed = doomed
      /\ v.rows = q.rows
  BY <1>2, <1>3 DEF Routes
<1>7. Turns(s, v)
  BY <1>1, <1>2 DEF Turns, LabelsTyped, RoutesTyped, Routes
<1> HIDE DEF v
<1>8. RoutesTyped' /\ requests'[s] = v /\ Others(s)
  <2>1. Formed(v)
    BY <1>1, <1>2, <1>6 DEF Formed
  <2> QED BY <1>6, <1>7, <2>1, TurnsKeeps DEF Others
<1>9. LabelsTyped'
  BY <1>1, <1>4, <1>8, LabelsKeep DEF LabelsTyped
<1> QED BY <1>1, <1>5, <1>6, <1>8, <1>9 DEF Keeps

LEMMA UnlinkIs ==
    ASSUME LabelsTyped, NEW s \in Slots, Unlink(s)
    PROVE  /\ LabelsTyped' /\ requests[s].pc = "unlink" /\ Others(s)
           /\ UNCHANGED <<frames, clock, items, flags, stored, recut, budget, load>>
           /\ DOMAIN files' = DOMAIN files \ UNION {Variants(r) : r \in requests[s].removed}
           /\ \A p \in DOMAIN files' : files'[p] = files[p]
           /\ \/ ~Busy(s)'
              \/ /\ Keeps(s) /\ requests'[s].pc = "read"
                 /\ requests'[s].wants = requests[s].wants /\ requests'[s].shown = requests[s].shown
                 /\ requests'[s].sources = requests[s].sources /\ requests'[s].rows = requests[s].rows
                 /\ requests'[s].removed = requests[s].removed
<1> DEFINE kept == DOMAIN files \ UNION {Variants(r) : r \in requests[s].removed}
<1>1. /\ requests[s].pc = "unlink" /\ files' = [p \in kept |-> files[p]]
      /\ Done(s) \/ Goto(s, "read")
      /\ UNCHANGED <<frames, clock, items, flags, stored, recut, budget, load>>
  BY DEF Unlink, At
<1>2. DOMAIN files' = kept /\ \A p \in kept : files'[p] = files[p]
  <2> HIDE DEF kept
  <2> QED BY <1>1
<1>3. FilesTyped'
  BY <1>2 DEF LabelsTyped, FilesTyped
<1>4. CASE Done(s)
  <2>1. RoutesTyped' /\ ~Busy(s)' /\ Others(s)
    BY <1>4, IdleTurn DEF Others
  <2> QED BY <1>1, <1>2, <1>3, <2>1, LabelsKeep DEF LabelsTyped
<1>5. CASE Goto(s, "read")
  <2>1. Busy(s)
    BY <1>1 DEF Busy
  <2>2. /\ RoutesTyped' /\ Others(s) /\ Keeps(s) /\ requests'[s].pc = "read"
        /\ requests'[s].wants = requests[s].wants /\ requests'[s].shown = requests[s].shown
        /\ requests'[s].sources = requests[s].sources /\ requests'[s].rows = requests[s].rows
        /\ requests'[s].removed = requests[s].removed
    <3>1. requests[s].pc = "unlink"
      BY <1>1
    <3> QED BY <1>5, <2>1, <3>1, GotoTurn DEF Others, Keeps
  <2> QED BY <1>1, <1>2, <1>3, <2>2, LabelsKeep DEF LabelsTyped
<1> QED BY <1>1, <1>4, <1>5

LEMMA ReadSourcesIs ==
    ASSUME LabelsTyped, NEW s \in Slots, ReadSources(s)
    PROVE  /\ LabelsTyped' /\ requests[s].pc = "read" /\ Others(s) /\ Keeps(s)
           /\ UNCHANGED <<frames, clock, items, files, flags, stored, recut, budget, load>>
           /\ requests'[s].wants = requests[s].wants /\ requests'[s].shown = requests[s].shown
           /\ requests'[s].removed = requests[s].removed
           /\ \/ /\ requests'[s].pc = "add" /\ requests'[s].sources = requests[s].sources
                 /\ requests'[s].rows = CroplessOf(DOMAIN requests[s].wants, requests[s].kind)
              \/ /\ requests'[s].pc = "cut" /\ requests'[s].rows = requests[s].rows
                 /\ DOMAIN requests'[s].sources = DOMAIN requests[s].wants \cap Live
                 /\ \A i \in DOMAIN requests'[s].sources : requests'[s].sources[i] = frames[i].ts
<1> PICK q : q = requests[s]
  OBVIOUS
<1> DEFINE made == CroplessOf(DOMAIN q.wants, q.kind)
           sources == [i \in DOMAIN q.wants \cap Live |-> frames[i].ts]
           v1 == [q EXCEPT !.pc = "add", !.rows = made]
           v2 == [q EXCEPT !.pc = "cut", !.geometry = StoredGeometry, !.sources = sources]
<1>1. /\ q.pc = "read" /\ UNCHANGED <<frames, clock, items, files, flags, stored, recut, budget, load>>
      /\ \/ requests' = [requests EXCEPT ![s].pc = "add", ![s].rows = made]
         \/ requests' = [requests EXCEPT ![s].pc = "cut", ![s].geometry = StoredGeometry,
                                         ![s].sources = sources]
  BY DEF ReadSources, At, CroplessOf
<1>2. q \in Routes /\ Formed(q) /\ DOMAIN q.wants \subseteq FrameIds
  BY <1>1, RouteIs DEF Busy
<1>3. q.kind \in Kinds
  BY <1>2 DEF Routes
<1>4. made \subseteq Prepared /\ IsFiniteSet(made)
  BY <1>2, <1>3, CroplessIs
<1>5. StoredGeometry \in Geometries
  BY DEF StoredGeometry, Geometries
<1>6. /\ sources \in ByFrame(FrameIds) /\ DOMAIN sources = DOMAIN q.wants \cap Live
      /\ \A i \in DOMAIN sources : sources[i] = frames[i].ts
  <2>1. DOMAIN q.wants \cap Live \in SUBSET FrameIds
    BY <1>2
  <2>2. sources \in [DOMAIN q.wants \cap Live -> FrameIds]
    BY DEF LabelsTyped, FramesTyped
  <2>3. DOMAIN sources = DOMAIN q.wants \cap Live /\ \A i \in DOMAIN sources : sources[i] = frames[i].ts
    OBVIOUS
  <2> HIDE DEF sources
  <2> QED BY <2>1, <2>2, <2>3, IsByFrame
<1>7. made = CroplessOf(DOMAIN q.wants, q.kind)
  OBVIOUS
<1> HIDE DEF made, sources
<1>8. CASE requests' = [requests EXCEPT ![s].pc = "add", ![s].rows = made]
  <2>1. /\ v1 \in Routes /\ v1.pc = "add" /\ v1.op = q.op /\ v1.kind = q.kind /\ v1.cat = q.cat
        /\ v1.wants = q.wants /\ v1.shown = q.shown /\ v1.sources = q.sources /\ v1.removed = q.removed
        /\ v1.rows = made
    BY <1>2, <1>4 DEF Routes
  <2>2. Turns(s, v1)
    BY <1>8, <1>2 DEF Turns, LabelsTyped, RoutesTyped, Routes
  <2> HIDE DEF v1
  <2>3. RoutesTyped' /\ requests'[s] = v1 /\ Others(s)
    <3>1. Formed(v1)
      BY <1>1, <1>2, <1>4, <2>1 DEF Formed
    <3> QED BY <2>1, <2>2, <3>1, TurnsKeeps DEF Others
  <2>4. LabelsTyped'
    BY <1>1, <2>3, LabelsKeep DEF LabelsTyped
  <2> QED BY <1>1, <1>7, <2>1, <2>3, <2>4 DEF Keeps
<1>9. CASE requests' = [requests EXCEPT ![s].pc = "cut", ![s].geometry = StoredGeometry,
                                        ![s].sources = sources]
  <2>1. /\ v2 \in Routes /\ v2.pc = "cut" /\ v2.op = q.op /\ v2.kind = q.kind /\ v2.cat = q.cat
        /\ v2.wants = q.wants /\ v2.shown = q.shown /\ v2.sources = sources /\ v2.removed = q.removed
        /\ v2.rows = q.rows
    BY <1>2, <1>5, <1>6 DEF Routes
  <2>2. Turns(s, v2)
    BY <1>9, <1>2 DEF Turns, LabelsTyped, RoutesTyped, Routes
  <2> HIDE DEF v2
  <2>3. RoutesTyped' /\ requests'[s] = v2 /\ Others(s)
    <3>1. Formed(v2)
      BY <1>1, <1>2, <1>6, <2>1 DEF Formed
    <3> QED BY <2>1, <2>2, <3>1, TurnsKeeps DEF Others
  <2>4. LabelsTyped'
    BY <1>1, <2>3, LabelsKeep DEF LabelsTyped
  <2> QED BY <1>1, <1>6, <2>1, <2>3, <2>4 DEF Keeps
<1> QED BY <1>1, <1>8, <1>9

(* The crop and the row of a frame.                                         *)
CropOf(q, i) == [ts |-> q.sources[i], box |-> q.wants[i], margin |-> Margin(q.geometry)]
PathOf(q, i) == Path(q.cat, q.geometry, i, q.sources[i])
PreparedFor(q, i) ==
    [fid |-> i, kind |-> q.kind, cat |-> q.cat, box |-> q.wants[i], crop |-> PathOf(q, i),
     geometry |-> q.geometry]

LEMMA CutFrameIs ==
    ASSUME LabelsTyped, NEW s \in Slots, CutFrame(s)
    PROVE  /\ LabelsTyped' /\ requests[s].pc = "cut" /\ Others(s) /\ Keeps(s) /\ requests'[s].pc = "cut"
           /\ UNCHANGED <<frames, clock, items, flags, stored, recut, load>>
           /\ \A w \in Budgeted \ {"fault"} : budget'[w] = budget[w]
           /\ budget["fault"] = 0 => budget'["fault"] = 0
           /\ requests'[s].wants = requests[s].wants /\ requests'[s].shown = requests[s].shown
           /\ requests'[s].removed = requests[s].removed
           /\ \E i \in DOMAIN requests[s].sources :
                LET q == requests[s]
                IN  /\ DOMAIN requests'[s].sources = DOMAIN q.sources \ {i}
                    /\ \A j \in DOMAIN q.sources \ {i} : requests'[s].sources[j] = q.sources[j]
                    /\ \/ /\ HasJpeg(i, q.sources[i]) /\ PathOf(q, i) \in Paths
                          /\ PreparedFor(q, i) \in Prepared
                          /\ requests'[s].rows = q.rows \cup {PreparedFor(q, i)}
                          /\ files' = With(files, PathOf(q, i), CropOf(q, i))
                       \/ requests'[s].rows = q.rows /\ files' = files
<1> PICK q : q = requests[s]
  OBVIOUS
<1> PICK i : i = Min(DOMAIN q.sources)
  OBVIOUS
<1> DEFINE left == [j \in DOMAIN q.sources \ {i} |-> q.sources[j]]
           made(cut) == IF cut THEN q.rows \cup {PreparedFor(q, i)} ELSE q.rows
           Takes(cut) ==
             /\ requests' = [requests EXCEPT ![s].rows = made(cut), ![s].sources = left]
             /\ files' = IF cut THEN With(files, PathOf(q, i), CropOf(q, i)) ELSE files
           v(cut) == [q EXCEPT !.rows = made(cut), !.sources = left]
<1>1. /\ q.pc = "cut" /\ DOMAIN q.sources # {}
      /\ UNCHANGED <<frames, clock, items, flags, stored, recut, load>>
  BY DEF CutFrame, At
<1>2. \/ HasJpeg(i, q.sources[i]) /\ Takes(TRUE) /\ UNCHANGED budget
      \/ Takes(FALSE) /\ UNCHANGED budget
      \/ Takes(FALSE) /\ Spend("fault")
  BY DEF CutFrame, Records, PathOf, CropOf, PreparedFor
<1>3. /\ q \in Routes /\ Formed(q) /\ IsFiniteSet(q.rows) /\ DOMAIN q.sources \subseteq FrameIds
      /\ \A j \in DOMAIN q.sources : q.sources[j] \in FrameIds
      /\ (\A j \in DOMAIN q.wants : q.wants[j] \in Boxes) /\ DOMAIN q.sources \subseteq DOMAIN q.wants
  BY <1>1, RouteIs DEF Busy, Formed
<1>4. i \in DOMAIN q.sources
  <2>1. DOMAIN q.sources \subseteq Nat
    BY <1>3, MaxTimeAssumption DEF FrameIds
  <2> QED BY <1>1, <2>1, MinFacts
<1>5. PathOf(q, i) \in Paths /\ PreparedFor(q, i) \in Prepared
  BY <1>3, <1>4 DEF PathOf, Path, Paths, PreparedFor, Prepared, Routes
<1>6. CropOf(q, i) \in [ts : FrameIds, box : Boxes \cup {NULL}, margin : {0, 10}]
  BY <1>3, <1>4 DEF CropOf, Margin
<1>7. /\ left \in ByFrame(FrameIds) /\ DOMAIN left = DOMAIN q.sources \ {i}
      /\ \A j \in DOMAIN q.sources \ {i} : left[j] = q.sources[j]
  <2>1. DOMAIN q.sources \ {i} \in SUBSET FrameIds
    BY <1>3
  <2>2. left \in [DOMAIN q.sources \ {i} -> FrameIds]
    BY <1>3
  <2>3. DOMAIN left = DOMAIN q.sources \ {i} /\ \A j \in DOMAIN q.sources \ {i} : left[j] = q.sources[j]
    OBVIOUS
  <2> HIDE DEF left
  <2> QED BY <2>1, <2>2, <2>3, IsByFrame
<1> HIDE DEF left
<1>8. \A cut \in BOOLEAN : made(cut) \subseteq Prepared /\ IsFiniteSet(made(cut))
  <2>1. q.rows \subseteq Prepared
    BY <1>3 DEF Routes
  <2>2. IsFiniteSet(q.rows \cup {PreparedFor(q, i)})
    BY <1>3, FS_AddElement
  <2> QED BY <1>3, <1>5, <2>1, <2>2
<1>9. ASSUME NEW cut \in BOOLEAN, Takes(cut)
      PROVE  /\ RoutesTyped' /\ Others(s) /\ Keeps(s) /\ requests'[s].pc = "cut"
             /\ requests'[s].wants = q.wants /\ requests'[s].shown = q.shown
             /\ requests'[s].removed = q.removed /\ requests'[s].sources = left
             /\ requests'[s].rows = made(cut)
  <2> PICK m : m = made(cut)
    OBVIOUS
  <2> DEFINE x == [q EXCEPT !.rows = m, !.sources = left]
  <2>1. m \subseteq Prepared /\ IsFiniteSet(m)
    BY <1>8
  <2>2. requests' = [requests EXCEPT ![s].rows = m, ![s].sources = left]
    BY <1>9
  <2>3. /\ x \in Routes /\ x.pc = q.pc /\ x.op = q.op /\ x.kind = q.kind /\ x.cat = q.cat
        /\ x.wants = q.wants /\ x.shown = q.shown /\ x.sources = left /\ x.removed = q.removed
        /\ x.rows = m
    BY <1>3, <1>7, <2>1 DEF Routes
  <2>4. Turns(s, x)
    BY <1>3, <2>2 DEF Turns, LabelsTyped, RoutesTyped, Routes
  <2> HIDE DEF x
  <2>5. RoutesTyped' /\ requests'[s] = x /\ Others(s)
    <3>1. Formed(x)
      BY <1>1, <1>3, <1>7, <2>1, <2>3 DEF Formed
    <3> QED BY <2>1, <2>3, <2>4, <3>1, TurnsKeeps DEF Others
  <2> QED BY <1>1, <2>3, <2>5 DEF Keeps
<1> HIDE DEF v
<1>10. FilesTyped'
  <2>1. CASE UNCHANGED files
    BY <2>1, LabelsKeep
  <2>2. CASE files' = With(files, PathOf(q, i), CropOf(q, i))
    <3> PICK p, c : p = PathOf(q, i) /\ c = CropOf(q, i)
      OBVIOUS
    <3>1. DOMAIN files' = DOMAIN files \cup {p} /\ p \in Paths
      BY <1>5, <2>2 DEF With
    <3>2. \A y \in DOMAIN files' : files'[y] = IF y = p THEN c ELSE files[y]
      BY <2>2 DEF With
    <3> QED BY <1>6, <3>1, <3>2 DEF LabelsTyped, FilesTyped
  <2> QED BY <1>2, <2>1, <2>2
<1>11. /\ LoadTyped' /\ \A w \in Budgeted \ {"fault"} : budget'[w] = budget[w]
       /\ budget["fault"] = 0 => budget'["fault"] = 0
  <2>1. CASE UNCHANGED budget
    BY <1>1, <2>1, LabelsKeep
  <2>2. CASE Spend("fault")
    BY <1>1, <2>2, SpendKeeps DEF Budgeted
  <2> QED BY <1>2, <2>1, <2>2
<1>12. \/ HasJpeg(i, q.sources[i]) /\ Takes(TRUE)
       \/ Takes(FALSE)
  BY <1>2
<1>13. CASE HasJpeg(i, q.sources[i]) /\ Takes(TRUE)
  <2>1. requests'[s].rows = q.rows \cup {PreparedFor(q, i)}
    BY <1>9, <1>13
  <2>2. files' = With(files, PathOf(q, i), CropOf(q, i))
    BY <1>13
  <2>3. /\ RoutesTyped' /\ Others(s) /\ Keeps(s) /\ requests'[s].pc = "cut"
        /\ requests'[s].wants = q.wants /\ requests'[s].shown = q.shown
        /\ requests'[s].removed = q.removed /\ requests'[s].sources = left
    BY <1>9, <1>13
  <2>4. LabelsTyped'
    BY <1>1, <1>10, <1>11, <2>3, LabelsKeep DEF LabelsTyped
  <2> QED BY <1>1, <1>4, <1>5, <1>7, <1>11, <1>13, <2>1, <2>2, <2>3, <2>4
<1>14. CASE Takes(FALSE)
  <2>1. requests'[s].rows = q.rows /\ files' = files
    BY <1>9, <1>14
  <2>3. /\ RoutesTyped' /\ Others(s) /\ Keeps(s) /\ requests'[s].pc = "cut"
        /\ requests'[s].wants = q.wants /\ requests'[s].shown = q.shown
        /\ requests'[s].removed = q.removed /\ requests'[s].sources = left
    BY <1>9, <1>14
  <2>4. LabelsTyped'
    BY <1>1, <1>10, <1>11, <2>3, LabelsKeep DEF LabelsTyped
  <2> QED BY <1>1, <1>4, <1>7, <1>11, <2>1, <2>3, <2>4
<1> QED BY <1>12, <1>13, <1>14

LEMMA CutAllIs ==
    ASSUME LabelsTyped, NEW s \in Slots, CutAll(s)
    PROVE  /\ LabelsTyped' /\ requests[s].pc = "cut" /\ Others(s) /\ Keeps(s) /\ requests'[s].pc = "add"
           /\ UNCHANGED <<frames, clock, items, files, flags, stored, recut, budget, load>>
           /\ requests'[s].wants = requests[s].wants /\ requests'[s].shown = requests[s].shown
           /\ requests'[s].sources = requests[s].sources /\ requests'[s].rows = requests[s].rows
           /\ requests'[s].removed = requests[s].removed
<1>1. /\ requests[s].pc = "cut" /\ Goto(s, "add")
      /\ UNCHANGED <<frames, clock, items, files, flags, stored, recut, budget, load>>
  BY DEF CutAll, At
<1>2. Busy(s)
  BY <1>1 DEF Busy
<1> QED BY <1>1, <1>2, GotoTurn, LabelsKeep DEF Others, Keeps, LabelsTyped

(* The row an insert makes of a prepared one.                               *)
InsertOf(made, r) ==
    [id |-> Last({x.id : x \in items}) + Cardinality({q \in {y \in made : Fresh(y)} : q.fid <= r.fid}),
     ts |-> frames[r.fid].ts, fid |-> r.fid, kind |-> r.kind, cat |-> r.cat, box |-> r.box,
     crop |-> r.crop, geometry |-> r.geometry]

LEMMA InsertedIs ==
    ASSUME LabelsTyped, NEW made \in SUBSET Prepared, IsFiniteSet(made)
    PROVE  /\ Inserted(made) \subseteq Items
           /\ \A x \in Inserted(made) : \E r \in made :
                /\ Fresh(r) /\ x.fid = r.fid /\ x.ts = frames[r.fid].ts /\ x.kind = r.kind /\ x.cat = r.cat
                /\ x.box = r.box /\ x.crop = r.crop /\ x.geometry = r.geometry
                /\ x = InsertOf(made, r)
           /\ \A r \in made : Fresh(r) => InsertOf(made, r) \in Inserted(made)
           /\ \E n \in Nat : \A x \in items \cup Inserted(made) : x.id <= n
<1> DEFINE fresh == {y \in made : Fresh(y)}
           base == Last({x.id : x \in items})
           rank(r) == Cardinality({q \in fresh : q.fid <= r.fid})
<1>1. Inserted(made) = {InsertOf(made, r) : r \in fresh}
  BY DEF Inserted, InsertOf
<1>2. PICK n \in Nat : \A r \in items : r.id <= n
  BY DEF LabelsTyped, ItemsTyped
<1>3. base \in 0..n
  <2>1. {x.id : x \in items} \subseteq 0..n
    BY <1>2 DEF LabelsTyped, ItemsTyped, Items
  <2> QED BY <2>1, LastOfBounded
<1>4. IsFiniteSet(fresh) /\ Cardinality(fresh) \in Nat
  BY FS_Subset, FS_CardinalityType
<1>5. \A r \in fresh : rank(r) \in Nat /\ rank(r) <= Cardinality(fresh)
  <2> SUFFICES ASSUME NEW r \in fresh PROVE rank(r) \in Nat /\ rank(r) <= Cardinality(fresh)
    OBVIOUS
  <2>1. {q \in fresh : q.fid <= r.fid} \in SUBSET fresh
    OBVIOUS
  <2> HIDE DEF fresh
  <2> QED BY <1>4, <2>1, FS_Subset, FS_CardinalityType
<1> DEFINE top == n + Cardinality(fresh)
<1>6. \A r \in fresh : InsertOf(made, r).id = base + rank(r)
  BY DEF InsertOf
<1>7. top \in Nat /\ n <= top /\ \A r \in fresh : base + rank(r) \in Nat /\ base + rank(r) <= top
  <2> HIDE DEF fresh, base, rank
  <2> QED BY <1>3, <1>4, <1>5
<1>8. \A r \in fresh : InsertOf(made, r) \in Items
  <2> SUFFICES ASSUME NEW r \in fresh PROVE InsertOf(made, r) \in Items
    OBVIOUS
  <2>1. r \in Prepared /\ r.fid \in Live
    BY DEF Fresh
  <2>2. frames[r.fid].ts \in FrameIds
    BY <2>1, LiveTyped
  <2> PICK k : k = base + rank(r)
    OBVIOUS
  <2>3. k \in Nat
    BY <1>7
  <2>4. InsertOf(made, r) = [id |-> k, ts |-> frames[r.fid].ts, fid |-> r.fid, kind |-> r.kind, cat |-> r.cat, box |-> r.box,
                             crop |-> r.crop, geometry |-> r.geometry]
    BY DEF InsertOf
  <2> QED BY <2>1, <2>2, <2>3, <2>4 DEF Items, Prepared
<1>9. \A x \in items \cup Inserted(made) : x.id <= top
  <2> HIDE DEF fresh, base, rank, top
  <2>1. \A x \in items : x.id \in Nat /\ x.id <= n
    BY <1>2 DEF LabelsTyped, ItemsTyped, Items
  <2>2. \A x \in items : x.id <= top
    BY <1>7, <2>1
  <2> QED BY <1>1, <1>6, <1>7, <2>2
<1>10. \A x \in Inserted(made) : \E r \in made :
                /\ Fresh(r) /\ x.fid = r.fid /\ x.ts = frames[r.fid].ts /\ x.kind = r.kind /\ x.cat = r.cat
                /\ x.box = r.box /\ x.crop = r.crop /\ x.geometry = r.geometry
                /\ x = InsertOf(made, r)
  <2> SUFFICES ASSUME NEW x \in Inserted(made)
               PROVE  \E r \in made :
                        /\ Fresh(r) /\ x.fid = r.fid /\ x.ts = frames[r.fid].ts /\ x.kind = r.kind /\ x.cat = r.cat
                        /\ x.box = r.box /\ x.crop = r.crop /\ x.geometry = r.geometry
                        /\ x = InsertOf(made, r)
    OBVIOUS
  <2>1. PICK r \in fresh : x = InsertOf(made, r)
    BY <1>1
  <2>2. /\ x.fid = r.fid /\ x.ts = frames[r.fid].ts /\ x.kind = r.kind /\ x.cat = r.cat
        /\ x.box = r.box /\ x.crop = r.crop /\ x.geometry = r.geometry
    BY <2>1 DEF InsertOf
  <2> QED BY <2>1, <2>2
<1> QED BY <1>1, <1>7, <1>8, <1>9, <1>10

LEMMA AddRowsIs ==
    ASSUME LabelsTyped, NEW s \in Slots, AddRows(s)
    PROVE  LET new == Inserted(requests[s].rows)
           IN  /\ LabelsTyped' /\ requests[s].pc = "add" /\ Others(s)
               /\ UNCHANGED <<frames, clock, files, flags, stored, recut, budget, load>>
               /\ items' = items \cup new
               /\ requests[s].rows \in SUBSET Prepared /\ IsFiniteSet(requests[s].rows)
               /\ \/ ~Busy(s)'
                  \/ /\ Keeps(s) /\ requests'[s].pc = "flags" /\ requests[s].op = "confirm" /\ new # {}
                     /\ requests'[s].wants = requests[s].wants /\ requests'[s].shown = requests[s].shown
                     /\ requests'[s].sources = requests[s].sources /\ requests'[s].rows = requests[s].rows
                     /\ requests'[s].removed = requests[s].removed
<1> DEFINE new == Inserted(requests[s].rows)
<1>1. /\ requests[s].pc = "add" /\ items' = items \cup new
      /\ UNCHANGED <<frames, clock, files, flags, stored, recut, budget, load>>
      /\ Done(s) \/ (requests[s].op = "confirm" /\ new # {} /\ Goto(s, "flags"))
  BY DEF AddRows, At, AfterAdd
<1>2. requests[s].rows \in SUBSET Prepared /\ IsFiniteSet(requests[s].rows) /\ Busy(s)
  BY <1>1, RouteIs DEF Busy, Routes
<1>3. ItemsTyped'
  <2>1. /\ new \subseteq Items
        /\ \A x \in new : \E r \in requests[s].rows : Fresh(r) /\ x.ts = frames[r.fid].ts
        /\ \E n \in Nat : \A x \in items \cup new : x.id <= n
    BY <1>2, InsertedIs
  <2>2. \A x \in new : x.ts <= clock
    BY <2>1 DEF Fresh, LabelsTyped, FramesTyped
  <2> HIDE DEF new
  <2> QED BY <1>1, <2>1, <2>2 DEF LabelsTyped, ItemsTyped
<1> HIDE DEF new
<1>4. CASE Done(s)
  <2>1. RoutesTyped' /\ ~Busy(s)' /\ Others(s)
    BY <1>4, IdleTurn DEF Others
  <2> QED BY <1>1, <1>2, <1>3, <2>1, LabelsKeep DEF LabelsTyped, new
<1>5. CASE requests[s].op = "confirm" /\ new # {} /\ Goto(s, "flags")
  <2>1. /\ RoutesTyped' /\ Others(s) /\ Keeps(s) /\ requests'[s].pc = "flags"
        /\ requests'[s].wants = requests[s].wants /\ requests'[s].shown = requests[s].shown
        /\ requests'[s].sources = requests[s].sources /\ requests'[s].rows = requests[s].rows
        /\ requests'[s].removed = requests[s].removed
    BY <1>2, <1>5, GotoTurn DEF Others, Keeps
  <2>2. LabelsTyped'
    BY <1>1, <1>3, <2>1, LabelsKeep DEF LabelsTyped
  <2> QED BY <1>1, <1>2, <1>5, <2>1, <2>2 DEF new
<1> QED BY <1>1, <1>4, <1>5

LEMMA ClearFlagsIs ==
    ASSUME LabelsTyped, NEW s \in Slots, ClearFlags(s)
    PROVE  /\ LabelsTyped' /\ requests[s].pc = "flags" /\ Others(s) /\ ~Busy(s)'
           /\ UNCHANGED <<frames, clock, items, files, stored, recut, budget, load>>
<1>1. /\ requests[s].pc = "flags" /\ Done(s) /\ flags' \subseteq flags
      /\ UNCHANGED <<frames, clock, items, files, stored, recut, budget, load>>
  BY DEF ClearFlags, At
<1>2. FlagsTyped'
  BY <1>1 DEF LabelsTyped, FlagsTyped
<1> QED BY <1>1, <1>2, IdleTurn, LabelsKeep DEF LabelsTyped, Others

LEMMA LabelsSteps ==
    ASSUME [LabelsNext]_labelVars
    PROVE  \/ Arrive \/ Evict \/ Clear \/ Crash \/ (\E i \in Live : Redetect(i)) \/ (\E v : SetGeometry(v))
           \/ \E s \in Slots : Route(s)
           \/ \E lo, hi \in 1..load.frames : Flag(lo, hi)
           \/ (\E lo, hi \in 1..load.frames : Unmark(lo, hi)) \/ (\E f \in flags : Dismiss(f))
           \/ \E target \in load.targets : StartRecut(target)
           \/ PlanRecut \/ MoveOne \/ WriteBatch \/ NothingToMove \/ CancelRecut
           \/ UNCHANGED labelVars
BY DEF LabelsNext, Around, Marks, Recutting

(* Of a step that leaves the routes alone: what it may change. *)
LEMMA AroundIs ==
    ASSUME LabelsTyped, [LabelsNext]_labelVars
    PROVE  \/ \E s \in Slots : Route(s)
           \/ LabelsTyped' /\ UNCHANGED requests /\ UNCHANGED load
           \/ Crash
<1> SUFFICES ASSUME ~Crash, ~\E s \in Slots : Route(s)
             PROVE  LabelsTyped' /\ UNCHANGED requests /\ UNCHANGED load
  OBVIOUS
<1>1. CASE Arrive
  BY <1>1, ArriveIs
<1>2. CASE Evict
  BY <1>2, EvictIs
<1>3. CASE Clear
  BY <1>3, ClearIs
<1>4. CASE \E i \in Live : Redetect(i)
  BY <1>4, RedetectIs
<1>5. CASE \E v : SetGeometry(v)
  BY <1>5, SetGeometryIs
<1>6. CASE \E lo, hi \in 1..load.frames : Flag(lo, hi)
  BY <1>6, FlagIs
<1>7. CASE (\E lo, hi \in 1..load.frames : Unmark(lo, hi)) \/ (\E f \in flags : Dismiss(f))
  BY <1>7, UnmarksIs
<1>8. CASE \E target \in load.targets : StartRecut(target)
  BY <1>8, StartRecutIs
<1>9. CASE PlanRecut
  BY <1>9, PlanRecutIs
<1>10. CASE MoveOne
  BY <1>10, MoveOneIs
<1>11. CASE WriteBatch
  BY <1>11, WriteBatchIs
<1>12. CASE NothingToMove \/ CancelRecut
  BY <1>12, JobEndsIs
<1>13. CASE UNCHANGED labelVars
  BY <1>13, LabelsKeep DEF labelVars, LabelsTyped
<1> QED BY <1>1, <1>2, <1>3, <1>4, <1>5, <1>6, <1>7, <1>8, <1>9, <1>10, <1>11, <1>12, <1>13, LabelsSteps

(* A step of a route.                                                       *)
LEMMA RouteSteps ==
    ASSUME LabelsTyped, NEW s \in Slots, Route(s), [LabelsNext]_labelVars
    PROVE  /\ LabelsTyped' /\ Others(s) /\ UNCHANGED <<frames, clock, stored, recut, load>>
           /\ ~Asks(s) => Busy(s)
           /\ \A w \in Budgeted \ {"request", "fault"} : budget'[w] = budget[w]
           /\ budget["fault"] = 0 => budget'["fault"] = 0
           /\ \/ Asks(s) \/ ReadSpan(s) \/ DeleteRows(s) \/ Unlink(s) \/ ReadSources(s)
              \/ CutFrame(s) \/ CutAll(s) \/ AddRows(s) \/ ClearFlags(s)
<1>1. CASE Asks(s)
  BY <1>1, AsksIs DEF Budgeted
<1>2. CASE ReadSpan(s)
  BY <1>2, ReadSpanIs DEF Busy
<1>3. CASE DeleteRows(s)
  BY <1>3, DeleteRowsIs DEF Busy
<1>4. CASE Unlink(s)
  BY <1>4, UnlinkIs DEF Busy
<1>5. CASE ReadSources(s)
  BY <1>5, ReadSourcesIs DEF Busy
<1>6. CASE CutFrame(s)
  BY <1>6, CutFrameIs DEF Busy
<1>7. CASE CutAll(s)
  BY <1>7, CutAllIs DEF Busy
<1>8. CASE AddRows(s)
  BY <1>8, AddRowsIs DEF Busy
<1>9. CASE ClearFlags(s)
  BY <1>9, ClearFlagsIs DEF Busy
<1> QED BY <1>1, <1>2, <1>3, <1>4, <1>5, <1>6, <1>7, <1>8, <1>9 DEF Route

LEMMA LabelsTypeStep == ASSUME LabelsTyped, [LabelsNext]_labelVars PROVE LabelsTyped'
<1>1. CASE \E s \in Slots : Route(s)
  BY <1>1, RouteSteps
<1>2. CASE Crash
  BY <1>2, CrashIs
<1> QED BY <1>1, <1>2, AroundIs

-----------------------------------------------------------------------------
(* One thing at a time, where the load says so. *)
Alone ==
    /\ \A s \in Slots : Busy(s) => requests[s].op \in load.ops
    /\ load.alone => \A s \in Slots : Busy(s) => recut.pc = "idle" /\ \A t \in Slots : Busy(t) => s = t

LEMMA AloneInit == ASSUME LabelsInit PROVE Alone
BY DEF LabelsInit, Alone, Busy, Idle

LEMMA OpKept ==
    ASSUME LabelsTyped, NEW s \in Slots, Route(s), [LabelsNext]_labelVars, Busy(s), Busy(s)'
    PROVE  Keeps(s)
<1>1. ~Asks(s)
  BY AsksIs
<1>2. CASE ReadSpan(s)
  BY <1>2, ReadSpanIs
<1>3. CASE DeleteRows(s)
  BY <1>3, DeleteRowsIs
<1>4. CASE Unlink(s)
  BY <1>4, UnlinkIs
<1>5. CASE ReadSources(s)
  BY <1>5, ReadSourcesIs
<1>6. CASE CutFrame(s)
  BY <1>6, CutFrameIs
<1>7. CASE CutAll(s)
  BY <1>7, CutAllIs
<1>8. CASE AddRows(s)
  BY <1>8, AddRowsIs
<1>9. CASE ClearFlags(s)
  BY <1>9, ClearFlagsIs
<1> QED BY <1>1, <1>2, <1>3, <1>4, <1>5, <1>6, <1>7, <1>8, <1>9, RouteSteps

LEMMA AloneStep ==
    ASSUME LabelsTyped, Alone, [LabelsNext]_labelVars
    PROVE  Alone'
<1>1. ASSUME NEW s \in Slots, Route(s), Asks(s) PROVE Alone'
  <2>1. /\ ~Busy(s) /\ Others(s) /\ (load.alone => NothingRuns) /\ UNCHANGED <<recut, load>>
        /\ \E op \in load.ops : requests'[s].op = op
    <3>1. /\ ~Busy(s) /\ Others(s) /\ (load.alone => NothingRuns) /\ UNCHANGED <<recut, load>>
          /\ \E op \in load.ops, kind \in Kinds, cat \in Cats : \E S \in SUBSET Live :
                op \in Ops /\ requests'[s] = Request(op, kind, cat, S)
      BY <1>1, AsksIs
    <3> QED BY <3>1, RequestIs
  <2>2. load.alone => recut.pc = "idle" /\ \A t \in Slots : ~Busy(t)
    BY <2>1 DEF NothingRuns, NoRoute, Busy
  <2>3. \A t \in Slots \ {s} : Busy(t)' = Busy(t) /\ requests'[t].op = requests[t].op
    BY <2>1 DEF Others, Busy
  <2> QED BY <2>1, <2>2, <2>3 DEF Alone
<1>2. ASSUME NEW s \in Slots, Route(s), ~Asks(s) PROVE Alone'
  <2>1. Busy(s) /\ Others(s) /\ UNCHANGED <<recut, load>> /\ (Busy(s)' => Keeps(s))
    BY <1>2, RouteSteps, OpKept
  <2>2. \A t \in Slots \ {s} : Busy(t)' = Busy(t) /\ requests'[t].op = requests[t].op
    BY <2>1 DEF Others, Busy
  <2> QED BY <2>1, <2>2 DEF Alone, Keeps
<1>3. CASE Crash
  BY <1>3, CrashIs DEF Alone
<1>4. CASE \E target \in load.targets : StartRecut(target)
  BY <1>4, StartRecutIs DEF Alone, NothingRuns, NoRoute, Busy
<1>5. CASE /\ UNCHANGED <<requests, load>> /\ (recut.pc = "idle" => recut'.pc = "idle")
  BY <1>5 DEF Alone, Busy
<1>6. CASE PlanRecut
  BY <1>5, <1>6, PlanRecutIs
<1>7. CASE MoveOne
  BY <1>5, <1>7, MoveOneIs
<1>8. CASE WriteBatch
  BY <1>5, <1>8, WriteBatchIs DEF NoJob
<1>9. CASE NothingToMove \/ CancelRecut
  BY <1>5, <1>9, JobEndsIs DEF NoJob
<1>10. CASE Arrive \/ Evict \/ Clear
  BY <1>5, <1>10, ArriveIs, EvictIs, ClearIs
<1>11. CASE (\E i \in Live : Redetect(i)) \/ (\E v : SetGeometry(v))
  BY <1>5, <1>11, RedetectIs, SetGeometryIs
<1>12. CASE \/ \E lo, hi \in 1..load.frames : Flag(lo, hi)
            \/ (\E lo, hi \in 1..load.frames : Unmark(lo, hi)) \/ (\E f \in flags : Dismiss(f))
  BY <1>5, <1>12, FlagIs, UnmarksIs
<1>13. CASE UNCHANGED labelVars
  BY <1>5, <1>13 DEF labelVars
<1> QED BY <1>1, <1>2, <1>3, <1>4, <1>6, <1>7, <1>8, <1>9, <1>10, <1>11, <1>12, <1>13, LabelsSteps

(* While a route is busy no id it holds is given out anew.                  *)
Stable ==
    /\ Last(Live)' \in Nat /\ Last(Live) \in Nat /\ Last(Live) <= Last(Live)'
    /\ clock \in Nat /\ clock' \in Nat /\ clock <= clock'
    /\ \A i \in Live' : i <= Last(Live) => i \in Live /\ frames'[i].ts = frames[i].ts

LEMMA StableStep ==
    ASSUME LabelsTyped, [LabelsNext]_labelVars, ~load.race, NEW s \in Slots, Busy(s)
    PROVE  Stable
<1>1. LabelsTyped' /\ Last(Live) \in Nat /\ Last(Live)' \in Nat /\ clock \in Nat /\ clock' \in Nat
  BY LabelsTypeStep, LiveTyped, LiveTypedNext
<1>2. CASE Arrive
  <2>1. /\ clock' = clock + 1 /\ Live' = Live \cup {Last(Live) + 1} /\ \A i \in Live : frames'[i] = frames[i]
    BY <1>2, ArriveIs
  <2> PICK a, b : a = Last(Live) /\ b = Last(Live)'
    OBVIOUS
  <2>2. a + 1 <= b
    <3>1. \A i \in Live' : i <= Last(Live)'
      BY <1>1, LiveTypedNext
    <3> QED BY <2>1, <3>1
  <2> QED BY <1>1, <2>1, <2>2 DEF Stable
<1>3. CASE Evict
  BY <1>1, <1>3, EvictIs DEF Stable
<1>4. CASE UNCHANGED <<frames, clock>>
  BY <1>1, <1>4 DEF Stable, Live
<1>5. CASE \E i \in Live : Redetect(i)
  <2>1. Live' = Live /\ clock' = clock /\ \A i \in Live : frames'[i].ts = frames[i].ts
    BY <1>5, RedetectIs
  <2> QED BY <1>1, <2>1 DEF Stable
<1>6. ~Clear
  BY ClearIs
<1>7. CASE Crash \/ \E v : SetGeometry(v)
  BY <1>4, <1>7, CrashIs, SetGeometryIs
<1>8. CASE \E t \in Slots : Route(t)
  BY <1>4, <1>8, RouteSteps
<1>9. CASE \/ \E lo, hi \in 1..load.frames : Flag(lo, hi)
           \/ (\E lo, hi \in 1..load.frames : Unmark(lo, hi)) \/ (\E f \in flags : Dismiss(f))
  BY <1>4, <1>9, FlagIs, UnmarksIs
<1>10. CASE (\E target \in load.targets : StartRecut(target)) \/ PlanRecut \/ MoveOne
  BY <1>4, <1>10, StartRecutIs, PlanRecutIs, MoveOneIs
<1>11. CASE WriteBatch \/ NothingToMove \/ CancelRecut
  BY <1>4, <1>11, WriteBatchIs, JobEndsIs
<1>12. CASE UNCHANGED labelVars
  BY <1>4, <1>12 DEF labelVars
<1> QED BY <1>2, <1>3, <1>5, <1>6, <1>7, <1>8, <1>9, <1>10, <1>11, <1>12, LabelsSteps
-----------------------------------------------------------------------------
(* What a route holds stays true of the frames while it runs: the frames it *)
(* was shown, the recv_ts it read, the rows it prepared, the rows it took.   *)
OwnsCrop(r) ==
    r.crop # NULL => r.crop.fid = r.fid /\ r.crop.ts = r.ts /\ r.crop.geometry = r.geometry
Held(q) ==
    /\ \A i \in DOMAIN q.wants : i <= Last(Live) /\ (i \in Live => <<i, frames[i].ts>> \in q.shown)
    /\ \A i \in DOMAIN q.sources : i \in Live => frames[i].ts = q.sources[i]
    /\ \A r \in q.rows :
        /\ r.fid \in DOMAIN q.wants
        /\ r.crop # NULL => /\ r.crop.fid = r.fid /\ r.crop.geometry = r.geometry
                            /\ r.fid \in Live => r.crop.ts = frames[r.fid].ts
    /\ \A r \in q.removed : OwnsCrop(r) /\ r.fid \in DOMAIN q.wants
OwnsMove(m) ==
    /\ m.row.crop # NULL /\ OwnsCrop(m.row) /\ m.to = ToOf(m.row, recut.target)
    /\ m.how = "copy" => \E g \in Twins(recut.target) : m.from = ToOf(m.row, g)
HeldRoutes == \A s \in Slots : Busy(s) => Held(requests[s])
OwnCrops ==
    /\ \A r \in items : OwnsCrop(r)
    /\ recut.pc # "idle" => \A m \in recut.todo \cup recut.moved : OwnsMove(m)

LEMMA HeldStays ==
    ASSUME LabelsTyped, NEW s \in Slots, Busy(s), Held(requests[s]), Stable, requests'[s] = requests[s]
    PROVE  Held(requests[s])'
<1> PICK q : q = requests[s]
  OBVIOUS
<1>1. /\ DOMAIN q.wants \subseteq Nat /\ DOMAIN q.sources \subseteq DOMAIN q.wants
      /\ \A i \in DOMAIN q.wants : i <= Last(Live)
  <2>1. FrameIds \subseteq Nat
    BY MaxTimeAssumption DEF FrameIds
  <2>2. DOMAIN q.wants \subseteq FrameIds /\ Formed(q) /\ Held(q)
    BY RouteIs
  <2> QED BY <2>1, <2>2 DEF Formed, Held
<1>2. \A i \in DOMAIN q.wants : /\ i <= Last(Live)'
                                /\ i \in Live' => i \in Live /\ frames'[i].ts = frames[i].ts
  <2> PICK a, b : a = Last(Live) /\ b = Last(Live)'
    OBVIOUS
  <2>1. a \in Nat /\ b \in Nat /\ a <= b
    BY DEF Stable
  <2> QED BY <1>1, <2>1 DEF Stable
<1>3. \A r \in q.rows : r.fid \in DOMAIN q.wants
  BY DEF Held
<1> QED BY <1>1, <1>2, <1>3 DEF Held, OwnsCrop

LEMMA HeldRoute ==
    ASSUME LabelsTyped, NEW s \in Slots, Route(s), [LabelsNext]_labelVars, Busy(s)',
           Busy(s) => Held(requests[s]), \A r \in items : OwnsCrop(r)
    PROVE  Held(requests[s])'
<1>0. UNCHANGED <<frames, clock>> /\ Last(Live)' = Last(Live) /\ Live' = Live
  BY RouteSteps DEF Live, Last
<1>01. \A i \in Live : i <= Last(Live)
  BY LiveTyped
<1>02. ~Asks(s) => Held(requests[s]) /\ DOMAIN requests[s].sources \subseteq DOMAIN requests[s].wants
  BY RouteSteps, RouteIs DEF Formed
<1>1. CASE Asks(s)
  <2>1. PICK op \in Ops, kind \in Kinds, cat \in Cats, S \in SUBSET Live :
            requests'[s] = Request(op, kind, cat, S)
    BY <1>1, AsksIs
  <2> QED BY <1>0, <1>01, <2>1, RequestIs DEF Held
<1>2. CASE ReadSpan(s)
  <2>1. requests[s].rows = {} /\ requests[s].removed = {} /\ DOMAIN requests[s].sources = {}
    BY <1>2, ReadSpanIs, RouteIs DEF Busy, Formed
  <2>2. Undecided \subseteq Live
    BY DEF Undecided
  <2> QED BY <1>0, <1>01, <1>2, <2>1, <2>2, ReadSpanIs DEF Held
<1>3. CASE DeleteRows(s)
  <2>1. requests'[s].removed = {r \in items : r.fid \in DOMAIN requests[s].wants}
    BY <1>3, DeleteRowsIs
  <2>2. ~Asks(s)
    BY <1>3, DeleteRowsIs, AsksIs DEF Busy
  <2> QED BY <1>0, <1>02, <1>3, <2>1, <2>2, DeleteRowsIs DEF Held, OwnsCrop
<1>4. CASE Unlink(s)
  <2>2. ~Asks(s)
    BY <1>4, UnlinkIs, AsksIs DEF Busy
  <2> QED BY <1>0, <1>02, <1>4, <2>2, UnlinkIs DEF Held, OwnsCrop
<1>5. CASE ReadSources(s)
  <2>2. ~Asks(s)
    BY <1>5, ReadSourcesIs, AsksIs DEF Busy
  <2>3. /\ requests'[s].wants = requests[s].wants /\ requests'[s].shown = requests[s].shown
        /\ requests'[s].removed = requests[s].removed
    BY <1>5, ReadSourcesIs
  <2>4. requests[s].pc = "read" /\ Busy(s)
    BY <1>5, ReadSourcesIs DEF Busy
  <2>5. /\ requests[s] \in Routes /\ DOMAIN requests[s].wants \in SUBSET FrameIds
        /\ requests[s].kind \in Kinds /\ requests[s].rows = {}
    BY <2>4, RouteIs DEF Routes, Formed
  <2>6. \A r \in requests'[s].rows : r.fid \in DOMAIN requests[s].wants /\ r.crop = NULL
    BY <1>5, <2>5, ReadSourcesIs, CroplessIs
  <2>7. \A i \in DOMAIN requests'[s].sources : i \in Live => frames[i].ts = requests'[s].sources[i]
    BY <1>02, <1>5, <2>2, ReadSourcesIs DEF Held
  <2> QED BY <1>0, <1>02, <2>2, <2>3, <2>6, <2>7 DEF Held, OwnsCrop
<1>6. CASE CutFrame(s)
  <2>2. ~Asks(s)
    BY <1>6, CutFrameIs, AsksIs DEF Busy
  <2>3. /\ requests'[s].wants = requests[s].wants /\ requests'[s].shown = requests[s].shown
        /\ requests'[s].removed = requests[s].removed
    BY <1>6, CutFrameIs
  <2>4. PICK i \in DOMAIN requests[s].sources :
            /\ DOMAIN requests'[s].sources = DOMAIN requests[s].sources \ {i}
            /\ \A j \in DOMAIN requests[s].sources \ {i} : requests'[s].sources[j] = requests[s].sources[j]
            /\ \/ requests'[s].rows = requests[s].rows \cup {PreparedFor(requests[s], i)}
               \/ requests'[s].rows = requests[s].rows
    BY <1>6, CutFrameIs
  <2> PICK x : x = PreparedFor(requests[s], i)
    OBVIOUS
  <2>5. /\ x.fid = i /\ x.crop.fid = i /\ x.crop.geometry = x.geometry
        /\ x.crop.ts = requests[s].sources[i]
    BY DEF PreparedFor, PathOf, Path
  <2>6. i \in DOMAIN requests[s].wants /\ (i \in Live => requests[s].sources[i] = frames[i].ts)
    BY <1>02, <2>2, <2>4 DEF Held
  <2> QED BY <1>0, <1>02, <2>2, <2>3, <2>4, <2>5, <2>6 DEF Held, OwnsCrop
<1>7. CASE CutAll(s)
  <2>2. ~Asks(s)
    BY <1>7, CutAllIs, AsksIs DEF Busy
  <2> QED BY <1>0, <1>02, <1>7, <2>2, CutAllIs DEF Held, OwnsCrop
<1>8. CASE AddRows(s)
  <2>2. ~Asks(s)
    BY <1>8, AddRowsIs, AsksIs DEF Busy
  <2>3. /\ requests'[s].wants = requests[s].wants /\ requests'[s].shown = requests[s].shown
        /\ requests'[s].sources = requests[s].sources /\ requests'[s].rows = requests[s].rows
        /\ requests'[s].removed = requests[s].removed
    BY <1>8, AddRowsIs
  <2> QED BY <1>0, <1>02, <2>2, <2>3 DEF Held, OwnsCrop
<1>9. CASE ClearFlags(s)
  BY <1>9, ClearFlagsIs
<1> QED BY <1>1, <1>2, <1>3, <1>4, <1>5, <1>6, <1>7, <1>8, <1>9, RouteSteps

LEMMA HeldStep ==
    ASSUME LabelsTyped, HeldRoutes, OwnCrops, [LabelsNext]_labelVars, ~load.race
    PROVE  HeldRoutes'
<1>1. ASSUME NEW t \in Slots, Route(t) PROVE HeldRoutes'
  <2>1. Others(t) /\ (Busy(t)' => Held(requests[t])')
    BY <1>1, RouteSteps, HeldRoute DEF HeldRoutes, OwnCrops
  <2>2. ASSUME NEW s \in Slots \ {t}, Busy(s)' PROVE Held(requests[s])'
    <3>1. requests'[s] = requests[s] /\ Busy(s)
      BY <2>1, <2>2 DEF Others, Busy
    <3> QED BY <3>1, StableStep, HeldStays DEF HeldRoutes
  <2> QED BY <2>1, <2>2 DEF HeldRoutes
<1>2. CASE Crash
  BY <1>2, CrashIs DEF HeldRoutes
<1>3. CASE UNCHANGED requests
  <2> SUFFICES ASSUME NEW s \in Slots, Busy(s)' PROVE Held(requests[s])'
    BY DEF HeldRoutes
  <2>1. requests'[s] = requests[s] /\ Busy(s)
    BY <1>3 DEF Busy
  <2> QED BY <2>1, StableStep, HeldStays DEF HeldRoutes
<1> QED BY <1>1, <1>2, <1>3, AroundIs

LEMMA OwnCropsStep ==
    ASSUME LabelsTyped, HeldRoutes, OwnCrops, [LabelsNext]_labelVars
    PROVE  OwnCrops'
<1>1. ASSUME items' \subseteq items, \/ recut'.pc = "idle"
                                     \/ UNCHANGED recut
                                     \/ /\ recut.pc # "idle" /\ recut'.target = recut.target
                                        /\ recut'.todo \subseteq recut.todo
                                        /\ recut'.moved \subseteq recut.moved \cup recut.todo
      PROVE  OwnCrops'
  <2>1. \A r \in items' : OwnsCrop(r)
    BY <1>1 DEF OwnCrops
  <2>2. recut'.pc # "idle" => \A m \in recut'.todo \cup recut'.moved : OwnsMove(m)'
    BY <1>1 DEF OwnCrops, OwnsMove, OwnsCrop
  <2> QED BY <2>1, <2>2 DEF OwnCrops, OwnsCrop
<1>2. CASE \E s \in Slots : AddRows(s)
  <2> PICK s \in Slots : AddRows(s)
    BY <1>2
  <2>1. /\ items' = items \cup Inserted(requests[s].rows) /\ UNCHANGED recut
        /\ requests[s].rows \in SUBSET Prepared /\ IsFiniteSet(requests[s].rows)
        /\ Held(requests[s])
    BY AddRowsIs DEF Busy, HeldRoutes
  <2>2. ASSUME NEW x \in Inserted(requests[s].rows) PROVE OwnsCrop(x)
    <3>1. PICK r \in requests[s].rows :
            /\ Fresh(r) /\ x.fid = r.fid /\ x.ts = frames[r.fid].ts
            /\ x.crop = r.crop /\ x.geometry = r.geometry
      BY <2>1, InsertedIs
    <3> QED BY <2>1, <3>1 DEF Held, Fresh, OwnsCrop
  <2>3. \A r \in items' : OwnsCrop(r)
    BY <2>1, <2>2 DEF OwnCrops
  <2> QED BY <2>1, <2>3 DEF OwnCrops, OwnsMove, OwnsCrop
<1>3. CASE WriteBatch
  <2>1. /\ recut.pc = "move" /\ recut.pc # "idle"
        /\ \A x \in items' : \/ x \in items
                             \/ \E r \in items : \E m \in Swapped(r) : x = Moved(r, m)
        /\ \/ recut' = NoJob
           \/ /\ recut'.todo = recut.todo /\ recut'.moved = {}
              /\ recut'.target = recut.target
    BY <1>3, WriteBatchIs
  <2>2. ASSUME NEW r \in items, NEW m \in Swapped(r) PROVE OwnsCrop(Moved(r, m))
    <3>1. m \in recut.moved /\ r.crop = m.row.crop
      BY DEF Swapped, Swaps
    <3>2. OwnsMove(m) /\ OwnsCrop(r)
      BY <2>1, <3>1 DEF OwnCrops
    <3>3. /\ Moved(r, m).fid = r.fid /\ Moved(r, m).ts = r.ts /\ Moved(r, m).crop = m.to
          /\ Moved(r, m).geometry = recut.target
      BY <2>1, <3>1, MovedIs
    <3>4. m.to.fid = m.row.fid /\ m.to.ts = m.row.ts /\ m.to.geometry = recut.target
      BY <3>2 DEF OwnsMove, ToOf, Path
    <3> QED BY <3>1, <3>2, <3>3, <3>4 DEF OwnsMove, OwnsCrop
  <2>3. \A x \in items' : OwnsCrop(x)
    BY <2>1, <2>2 DEF OwnCrops
  <2>4. recut'.pc # "idle" => \A m \in recut'.todo \cup recut'.moved : OwnsMove(m)'
    BY <2>1 DEF OwnCrops, OwnsMove, OwnsCrop, NoJob
  <2> QED BY <2>3, <2>4 DEF OwnCrops, OwnsCrop
<1>4. CASE PlanRecut
  <2>1. /\ recut.pc # "idle" /\ UNCHANGED items /\ recut'.target = recut.target
        /\ recut'.todo = UNION {Moves(r, recut.target) : r \in {r2 \in items : r2.crop # NULL}}
        /\ recut'.moved = recut.moved /\ recut.target \in Geometries
    BY <1>4, PlanRecutIs, JobIs
  <2>2. ASSUME NEW m \in recut'.todo PROVE OwnsMove(m)
    <3>1. PICK r \in items : r.crop # NULL /\ m \in Moves(r, recut.target)
      BY <2>1
    <3>2. r \in Items /\ r.crop \in Paths /\ OwnsCrop(r)
      BY <3>1 DEF LabelsTyped, ItemsTyped, Items, OwnCrops
    <3> QED BY <2>1, <3>1, <3>2, MovesAre DEF OwnsMove
  <2> QED BY <2>1, <2>2 DEF OwnCrops, OwnsMove, OwnsCrop
<1>5. CASE \E s \in Slots : Route(s) /\ ~AddRows(s)
  <2> PICK s \in Slots : Route(s) /\ ~AddRows(s)
    BY <1>5
  <2>1. UNCHANGED recut
    BY RouteSteps
  <2>2. items' \subseteq items
    <3>1. CASE DeleteRows(s)
      BY <3>1, DeleteRowsIs
    <3>2. CASE Asks(s) \/ ReadSpan(s) \/ Unlink(s) \/ ReadSources(s)
      BY <3>2, AsksIs, ReadSpanIs, UnlinkIs, ReadSourcesIs
    <3>3. CASE CutFrame(s) \/ CutAll(s) \/ ClearFlags(s)
      BY <3>3, CutFrameIs, CutAllIs, ClearFlagsIs
    <3> QED BY <3>1, <3>2, <3>3, RouteSteps
  <2> QED BY <1>1, <2>1, <2>2
<1>6. CASE MoveOne
  <2>1. /\ items' = items /\ recut.pc # "idle" /\ recut'.target = recut.target
        /\ NextMove \in recut.todo /\ recut'.todo = recut.todo \ {NextMove}
        /\ recut'.moved = recut.moved \cup {NextMove} \/ recut'.moved = recut.moved
    BY <1>6, MoveOneIs
  <2> QED BY <1>1, <2>1
<1>7. CASE \E target \in load.targets : StartRecut(target)
  BY <1>7, StartRecutIs DEF OwnCrops, OwnsCrop
<1>8. CASE NothingToMove \/ CancelRecut
  BY <1>1, <1>8, JobEndsIs DEF NoJob
<1>9. CASE Crash
  BY <1>1, <1>9, CrashIs DEF NoJob
<1>10. CASE Arrive \/ Evict \/ Clear
  BY <1>1, <1>10, ArriveIs, EvictIs, ClearIs
<1>11. CASE (\E i \in Live : Redetect(i)) \/ (\E v : SetGeometry(v))
  BY <1>1, <1>11, RedetectIs, SetGeometryIs
<1>12. CASE \/ \E lo, hi \in 1..load.frames : Flag(lo, hi)
            \/ (\E lo, hi \in 1..load.frames : Unmark(lo, hi)) \/ (\E f \in flags : Dismiss(f))
  BY <1>1, <1>12, FlagIs, UnmarksIs
<1>13. CASE UNCHANGED labelVars
  BY <1>1, <1>13 DEF labelVars
<1> QED BY <1>2, <1>3, <1>4, <1>5, <1>6, <1>7, <1>8, <1>9, <1>10, <1>11, <1>12, <1>13, LabelsSteps

LEMMA HeldInit == ASSUME LabelsInit PROVE HeldRoutes /\ OwnCrops
BY DEF LabelsInit, HeldRoutes, OwnCrops, Busy, Idle, NoJob

(* What every load but the races keeps. *)
Steady == LabelsTyped /\ Alone /\ HeldRoutes /\ OwnCrops

LEMMA SteadyInit == ASSUME LabelsInit PROVE Steady
BY LabelsTypeInit, AloneInit, HeldInit DEF Steady

LEMMA SteadyStep ==
    ASSUME Steady, [LabelsNext]_labelVars, ~load.race
    PROVE  Steady'
BY LabelsTypeStep, AloneStep, HeldStep, OwnCropsStep DEF Steady

-----------------------------------------------------------------------------
(* A step keeps the load, and the budget of what it does not spend.          *)
LEMMA LoadKept ==
    ASSUME LabelsTyped, [LabelsNext]_labelVars
    PROVE  /\ UNCHANGED load
           /\ budget["clear"] = 0 => budget'["clear"] = 0
           /\ budget["redetect"] = 0 => budget'["redetect"] = 0
           /\ budget["fault"] = 0 => budget'["fault"] = 0
<1>1. CASE \E s \in Slots : Route(s)
  BY <1>1, RouteSteps DEF Budgeted
<1>2. CASE Arrive \/ Evict \/ Clear
  BY <1>2, ArriveIs, EvictIs, ClearIs DEF Budgeted
<1>3. CASE Crash \/ (\E i \in Live : Redetect(i)) \/ (\E v : SetGeometry(v))
  BY <1>3, CrashIs, RedetectIs, SetGeometryIs DEF Budgeted
<1>4. CASE \/ \E lo, hi \in 1..load.frames : Flag(lo, hi)
           \/ (\E lo, hi \in 1..load.frames : Unmark(lo, hi)) \/ (\E f \in flags : Dismiss(f))
  BY <1>4, FlagIs, UnmarksIs DEF Budgeted
<1>5. CASE (\E target \in load.targets : StartRecut(target)) \/ PlanRecut \/ MoveOne
  BY <1>5, StartRecutIs, PlanRecutIs, MoveOneIs DEF Budgeted
<1>6. CASE WriteBatch \/ NothingToMove \/ CancelRecut
  BY <1>6, WriteBatchIs, JobEndsIs DEF Budgeted
<1>7. CASE UNCHANGED labelVars
  BY <1>7 DEF labelVars
<1> QED BY <1>1, <1>2, <1>3, <1>4, <1>5, <1>6, <1>7, LabelsSteps

(* Only a delete takes rows away, and only an insert makes new ones.         *)
LEMMA ItemsStay ==
    ASSUME LabelsTyped, [LabelsNext]_labelVars
    PROVE  \/ \E s \in Slots : DeleteRows(s)
           \/ \A r \in items : \E x \in items' : Decision(x) = Decision(r)
<1>1. CASE \E s \in Slots : AddRows(s)
  BY <1>1, AddRowsIs
<1>2. CASE WriteBatch
  <2> SUFFICES ASSUME NEW r \in items PROVE \E x \in items' : Decision(x) = Decision(r)
    OBVIOUS
  <2>1. CASE Swapped(r) = {}
    BY <1>2, <2>1, WriteBatchIs
  <2>2. CASE Swapped(r) # {}
    <3> PICK m \in Swapped(r) : TRUE
      BY <2>2
    <3>1. Moved(r, m) \in items' /\ m \in recut.moved /\ recut.pc # "idle"
      BY <1>2, WriteBatchIs DEF Swapped
    <3>2. Decision(Moved(r, m)) = Decision(r)
      BY <3>1, MovedIs DEF Decision
    <3> QED BY <3>1, <3>2
  <2> QED BY <2>1, <2>2
<1>3. CASE UNCHANGED items
  BY <1>3
<1>4. CASE \E s \in Slots : Route(s) /\ ~AddRows(s) /\ ~DeleteRows(s)
  <2> PICK s \in Slots : Route(s) /\ ~AddRows(s) /\ ~DeleteRows(s)
    BY <1>4
  <2>1. CASE Asks(s) \/ ReadSpan(s) \/ Unlink(s) \/ ReadSources(s)
    BY <1>3, <2>1, AsksIs, ReadSpanIs, UnlinkIs, ReadSourcesIs
  <2>2. CASE CutFrame(s) \/ CutAll(s) \/ ClearFlags(s)
    BY <1>3, <2>2, CutFrameIs, CutAllIs, ClearFlagsIs
  <2> QED BY <2>1, <2>2, RouteSteps
<1>5. CASE Arrive \/ Evict \/ Clear
  BY <1>3, <1>5, ArriveIs, EvictIs, ClearIs
<1>6. CASE Crash \/ (\E i \in Live : Redetect(i)) \/ (\E v : SetGeometry(v))
  BY <1>3, <1>6, CrashIs, RedetectIs, SetGeometryIs
<1>7. CASE \/ \E lo, hi \in 1..load.frames : Flag(lo, hi)
           \/ (\E lo, hi \in 1..load.frames : Unmark(lo, hi)) \/ (\E f \in flags : Dismiss(f))
  BY <1>3, <1>7, FlagIs, UnmarksIs
<1>8. CASE (\E target \in load.targets : StartRecut(target)) \/ PlanRecut \/ MoveOne
  BY <1>3, <1>8, StartRecutIs, PlanRecutIs, MoveOneIs
<1>9. CASE NothingToMove \/ CancelRecut
  BY <1>3, <1>9, JobEndsIs
<1>10. CASE UNCHANGED labelVars
  BY <1>3, <1>10 DEF labelVars
<1> QED BY <1>1, <1>2, <1>4, <1>5, <1>6, <1>7, <1>8, <1>9, <1>10, LabelsSteps

LEMMA ItemsFrom ==
    ASSUME LabelsTyped, [LabelsNext]_labelVars, NEW x \in items'
    PROVE  \/ \E r \in items : x.fid = r.fid /\ x.ts = r.ts
           \/ x.fid \in Live /\ x.ts = frames[x.fid].ts
<1>1. CASE \E s \in Slots : AddRows(s)
  <2> PICK s \in Slots : AddRows(s)
    BY <1>1
  <2>1. /\ items' = items \cup Inserted(requests[s].rows)
        /\ requests[s].rows \in SUBSET Prepared /\ IsFiniteSet(requests[s].rows)
    BY AddRowsIs
  <2>2. \A y \in Inserted(requests[s].rows) : y.fid \in Live /\ y.ts = frames[y.fid].ts
    BY <2>1, InsertedIs DEF Fresh
  <2> QED BY <2>1, <2>2
<1>2. CASE WriteBatch
  <2>1. CASE x \in items
    BY <2>1
  <2>2. CASE \E r \in items : \E m \in Swapped(r) : x = Moved(r, m)
    <3> PICK r \in items : \E m \in Swapped(r) : x = Moved(r, m)
      BY <2>2
    <3> PICK m \in Swapped(r) : x = Moved(r, m)
      OBVIOUS
    <3>1. m \in recut.moved /\ recut.pc # "idle"
      BY <1>2, WriteBatchIs DEF Swapped
    <3>2. x.fid = r.fid /\ x.ts = r.ts
      BY <3>1, MovedIs
    <3> QED BY <3>2
  <2> QED BY <1>2, <2>1, <2>2, WriteBatchIs
<1>3. CASE \E s \in Slots : DeleteRows(s)
  BY <1>3, DeleteRowsIs
<1>4. CASE UNCHANGED items
  BY <1>4
<1>5. CASE \E s \in Slots : Route(s) /\ ~AddRows(s) /\ ~DeleteRows(s)
  <2> PICK s \in Slots : Route(s) /\ ~AddRows(s) /\ ~DeleteRows(s)
    BY <1>5
  <2>1. CASE Asks(s) \/ ReadSpan(s) \/ Unlink(s) \/ ReadSources(s)
    BY <1>4, <2>1, AsksIs, ReadSpanIs, UnlinkIs, ReadSourcesIs
  <2>2. CASE CutFrame(s) \/ CutAll(s) \/ ClearFlags(s)
    BY <1>4, <2>2, CutFrameIs, CutAllIs, ClearFlagsIs
  <2> QED BY <2>1, <2>2, RouteSteps
<1>6. CASE Arrive \/ Evict \/ Clear
  BY <1>4, <1>6, ArriveIs, EvictIs, ClearIs
<1>7. CASE Crash \/ (\E i \in Live : Redetect(i)) \/ (\E v : SetGeometry(v))
  BY <1>4, <1>7, CrashIs, RedetectIs, SetGeometryIs
<1>8. CASE \/ \E lo, hi \in 1..load.frames : Flag(lo, hi)
           \/ (\E lo, hi \in 1..load.frames : Unmark(lo, hi)) \/ (\E f \in flags : Dismiss(f))
  BY <1>4, <1>8, FlagIs, UnmarksIs
<1>9. CASE (\E target \in load.targets : StartRecut(target)) \/ PlanRecut \/ MoveOne
  BY <1>4, <1>9, StartRecutIs, PlanRecutIs, MoveOneIs
<1>10. CASE NothingToMove \/ CancelRecut
  BY <1>4, <1>10, JobEndsIs
<1>11. CASE UNCHANGED labelVars
  BY <1>4, <1>11 DEF labelVars
<1> QED BY <1>1, <1>2, <1>3, <1>5, <1>6, <1>7, <1>8, <1>9, <1>10, <1>11, LabelsSteps

(* What a route was shown is fixed when it is asked for or reads its span.    *)
LEMMA ShownIs ==
    ASSUME LabelsTyped, [LabelsNext]_labelVars, NEW s \in Slots, Busy(s)'
    PROVE  \/ /\ Busy(s) /\ requests'[s].wants = requests[s].wants
              /\ requests'[s].shown = requests[s].shown
           \/ /\ UNCHANGED frames /\ DOMAIN requests'[s].wants \subseteq Live
              /\ (\A i \in DOMAIN requests'[s].wants : requests'[s].wants[i] = frames[i].box)
              /\ requests'[s].shown = {<<i, frames[i].ts>> : i \in DOMAIN requests'[s].wants}
<1>1. CASE UNCHANGED requests
  BY <1>1 DEF Busy
<1>2. CASE Crash
  BY <1>2, CrashIs
<1>3. ASSUME NEW t \in Slots, Route(t), s # t PROVE Busy(s) /\ requests'[s] = requests[s]
  BY <1>3, RouteSteps DEF Others, Busy
<1>4. CASE Asks(s)
  <2>1. PICK op \in Ops, kind \in Kinds, cat \in Cats, S \in SUBSET Live :
            requests'[s] = Request(op, kind, cat, S)
    BY <1>4, AsksIs
  <2> QED BY <1>4, <2>1, AsksIs, RequestIs
<1>5. CASE ReadSpan(s)
  BY <1>5, ReadSpanIs DEF Undecided
<1>6. CASE DeleteRows(s) \/ Unlink(s) \/ ReadSources(s)
  BY <1>6, DeleteRowsIs, UnlinkIs, ReadSourcesIs DEF Busy
<1>7. CASE CutFrame(s) \/ CutAll(s) \/ AddRows(s) \/ ClearFlags(s)
  BY <1>7, CutFrameIs, CutAllIs, AddRowsIs, ClearFlagsIs DEF Busy
<1>8. CASE Route(s)
  BY <1>4, <1>5, <1>6, <1>7, <1>8, RouteSteps
<1> QED BY <1>1, <1>2, <1>3, <1>8, AroundIs

-----------------------------------------------------------------------------
(* While nothing is wiped an id is only ever one frame's: the frame's own     *)
(* recv_ts, and the recv_ts of every row of it.                               *)
Deletes(l) == l.ops \cap {"undo", "relabel"} # {}
OneFramePerId ==
    /\ budget["clear"] = 0 /\ Last(Live) = clock
    /\ \A i \in Live : frames[i].ts = i
    /\ \A r \in items : r.ts = r.fid
    /\ \A s \in Slots : Busy(s) => \A i \in DOMAIN requests[s].wants : <<i, i>> \in requests[s].shown

LEMMA OneFramePerIdInit ==
    ASSUME LabelsInit, load.budget["clear"] = 0
    PROVE  OneFramePerId
<1>1. load.frames \in 0..MaxTime /\ MaxTime \in Nat
  BY LoadsAssumption, MaxTimeAssumption DEF LabelsInit
<1>2. Live = 1..load.frames /\ clock = load.frames
  BY DEF LabelsInit, Live
<1>3. Last(Live) = clock
  <2>1. clock \in Nat /\ Live \subseteq 0..clock
    BY <1>1, <1>2
  <2>2. Last(Live) \in 0..clock /\ (\A i \in Live : i <= Last(Live))
    BY <2>1, LastOfBounded
  <2>3. CASE clock = 0
    BY <2>2, <2>3
  <2>4. CASE clock # 0
    <3>1. clock \in Live
      BY <1>2, <2>1, <2>4
    <3> QED BY <2>1, <2>2, <3>1
  <2> QED BY <2>3, <2>4
<1> QED BY <1>3 DEF LabelsInit, OneFramePerId, Live, Busy, Idle

LEMMA OneFramePerIdStep ==
    ASSUME LabelsTyped, OneFramePerId, [LabelsNext]_labelVars, ~load.race
    PROVE  OneFramePerId'
<1>1. budget'["clear"] = 0 /\ ~Clear
  BY LoadKept, ClearIs DEF OneFramePerId
<1>2. clock \in Nat /\ clock' \in Nat /\ \A i \in Live : i \in Nat
  BY LabelsTypeStep, LiveTyped, LiveTypedNext
<1>3. CASE Arrive
  <2>1. /\ clock' = clock + 1 /\ Live' = Live \cup {clock + 1} /\ frames'[clock + 1].ts = clock + 1
        /\ \A i \in Live : frames'[i] = frames[i]
    BY <1>3, ArriveIs DEF OneFramePerId
  <2>2. Last(Live)' = clock'
    <3>1. LabelsTyped' /\ Last(Live)' \in 0..clock' /\ \A i \in Live' : i <= Last(Live)'
      BY LabelsTypeStep, LiveTypedNext
    <3> PICK b : b = Last(Live)'
      OBVIOUS
    <3>2. b \in 0..clock' /\ clock' <= b
      BY <2>1, <3>1
    <3> QED BY <1>2, <3>2
  <2>3. \A i \in Live' : frames'[i].ts = i
    BY <2>1 DEF OneFramePerId
  <2> QED BY <1>1, <1>3, <2>2, <2>3, ArriveIs DEF OneFramePerId, Busy
<1>4. CASE Evict
  <2>1. Last(Live)' = Last(Live')
    BY DEF Last
  <2> QED BY <1>1, <1>4, <2>1, EvictIs DEF OneFramePerId, Busy
<1>5. CASE \E i \in Live : Redetect(i)
  <2>1. Live' = Live /\ UNCHANGED <<items, requests, clock>> /\ \A i \in Live : frames'[i].ts = frames[i].ts
    BY <1>5, RedetectIs
  <2>2. Last(Live)' = Last(Live)
    BY <2>1 DEF Last
  <2> QED BY <1>1, <2>1, <2>2 DEF OneFramePerId, Busy
<1>6. CASE UNCHANGED <<frames, clock>>
  <2>1. Live' = Live /\ Last(Live)' = Last(Live) /\ \A i \in Live : frames'[i] = frames[i]
    BY <1>6 DEF Live, Last
  <2>2. \A x \in items' : x.ts = x.fid
    BY ItemsFrom DEF OneFramePerId
  <2>3. ASSUME NEW s \in Slots, Busy(s)', NEW i \in DOMAIN requests'[s].wants
        PROVE  <<i, i>> \in requests'[s].shown
    <3>1. CASE /\ Busy(s) /\ requests'[s].wants = requests[s].wants
               /\ requests'[s].shown = requests[s].shown
      BY <2>3, <3>1 DEF OneFramePerId
    <3>2. CASE /\ DOMAIN requests'[s].wants \subseteq Live
               /\ requests'[s].shown = {<<j, frames[j].ts>> : j \in DOMAIN requests'[s].wants}
      BY <2>3, <3>2 DEF OneFramePerId
    <3> QED BY <2>3, <3>1, <3>2, ShownIs
  <2> QED BY <1>1, <1>6, <2>1, <2>2, <2>3 DEF OneFramePerId
<1>7. CASE \E s \in Slots : Route(s)
  BY <1>6, <1>7, RouteSteps
<1>8. CASE Crash \/ \E v : SetGeometry(v)
  BY <1>6, <1>8, CrashIs, SetGeometryIs
<1>9. CASE \/ \E lo, hi \in 1..load.frames : Flag(lo, hi)
           \/ (\E lo, hi \in 1..load.frames : Unmark(lo, hi)) \/ (\E f \in flags : Dismiss(f))
  BY <1>6, <1>9, FlagIs, UnmarksIs
<1>10. CASE (\E target \in load.targets : StartRecut(target)) \/ PlanRecut \/ MoveOne
  BY <1>6, <1>10, StartRecutIs, PlanRecutIs, MoveOneIs
<1>11. CASE WriteBatch \/ NothingToMove \/ CancelRecut
  BY <1>6, <1>11, WriteBatchIs, JobEndsIs
<1>12. CASE UNCHANGED labelVars
  BY <1>6, <1>12 DEF labelVars
<1> QED BY <1>1, <1>3, <1>4, <1>5, <1>7, <1>8, <1>9, <1>10, <1>11, <1>12, LabelsSteps

(* One step of DurableLabels. *)
DecisionsKept ==
    \A r \in items :
        \/ \E r2 \in items' : Decision(r2) = Decision(r)
        \/ \E s \in Slots : requests[s].pc = "delete" /\ <<r.fid, r.ts>> \in requests[s].shown

LEMMA DecisionsStep ==
    ASSUME Steady, Deletes(load) => OneFramePerId, [LabelsNext]_labelVars
    PROVE  DecisionsKept
<1>1. CASE \A r \in items : \E x \in items' : Decision(x) = Decision(r)
  BY <1>1 DEF DecisionsKept
<1>2. CASE \E s \in Slots : DeleteRows(s)
  <2> PICK s \in Slots : DeleteRows(s)
    BY <1>2
  <2>1. /\ requests[s].pc = "delete" /\ Busy(s)
        /\ items' = items \ {r \in items : r.fid \in DOMAIN requests[s].wants}
    BY DeleteRowsIs DEF Steady, Busy
  <2>2. requests[s].op \in load.ops \cap {"relabel", "undo"}
    BY <2>1, RouteIs DEF Steady, Alone, Formed
  <2>3. OneFramePerId
    BY <2>2 DEF Deletes
  <2>4. \A r \in items : r.fid \in DOMAIN requests[s].wants => <<r.fid, r.ts>> \in requests[s].shown
    BY <2>1, <2>3 DEF OneFramePerId
  <2>5. \A r \in items : r.fid \notin DOMAIN requests[s].wants => r \in items'
    BY <2>1
  <2> QED BY <2>1, <2>4, <2>5 DEF DecisionsKept
<1> QED BY <1>1, <1>2, ItemsStay DEF Steady

(* Labels keep their types for any loads, overlaps and faults: frames, rows,  *)
(* crop files, flags, what each label route and the re-cut hold, the bounds.  *)
THEOREM LabelsTypeCorrect == LabelsSpec => []LabelsTypeOK
<1>1. LabelsInit => LabelsTyped
  BY LabelsTypeInit
<1>2. LabelsTyped /\ [LabelsNext]_labelVars => LabelsTyped'
  BY LabelsTypeStep
<1>3. LabelsTyped => LabelsTypeOK
  BY DEF LabelsTyped, FramesTyped, ItemsTyped, FilesTyped, FlagsTyped, RoutesTyped, JobTyped, LoadTyped,
         LabelsTypeOK
<1> QED BY <1>1, <1>2, <1>3, PTL DEF LabelsSpec

(* With no wipe racing a route, and none at all beside undo or re-label, a    *)
(* human's decision about a frame is lost only to an undo or re-label of that *)
(* very frame, whatever else runs beside it: two labellers, evictions,        *)
(* crashes, a re-cut.                                                         *)
THEOREM DecisionsOutlive ==
    ASSUME \A l \in Loads : ~l.race /\ (Deletes(l) => l.budget["clear"] = 0)
    PROVE  LabelsSpec => DurableLabels
<1> DEFINE I == Steady /\ (Deletes(load) => OneFramePerId)
<1>1. LabelsInit => I
  BY SteadyInit, OneFramePerIdInit DEF LabelsInit
<1>2. I /\ [LabelsNext]_labelVars => I' /\ [DecisionsKept]_labelVars
  <2> SUFFICES ASSUME I, [LabelsNext]_labelVars PROVE I' /\ DecisionsKept
    OBVIOUS
  <2>1. ~load.race /\ UNCHANGED load
    BY LoadKept DEF Steady, LabelsTyped, LoadTyped
  <2>2. Steady' /\ (Deletes(load)' => OneFramePerId')
    BY <2>1, SteadyStep, OneFramePerIdStep DEF Steady, Deletes
  <2> QED BY <2>2, DecisionsStep
<1>3. [][DecisionsKept]_labelVars => DurableLabels
  BY PTL DEF DecisionsKept, DurableLabels
<1> HIDE DEF I
<1> QED BY <1>1, <1>2, <1>3, PTL DEF LabelsSpec

-----------------------------------------------------------------------------
(* A route that may clear the marks has left a row of a frame it was shown.   *)
Earned == \A s \in Slots :
    requests[s].pc = "flags" => \E r \in items : <<r.fid, r.ts>> \in requests[s].shown

LEMMA EarnedStep ==
    ASSUME Steady, Earned, [LabelsNext]_labelVars,
           Deletes(load) /\ "confirm" \in load.ops => load.alone
    PROVE  Earned'
<1> SUFFICES ASSUME NEW s \in Slots, requests'[s].pc = "flags"
             PROVE  \E r \in items' : <<r.fid, r.ts>> \in requests'[s].shown
  BY DEF Earned
<1>1. ASSUME requests'[s] = requests[s]
      PROVE  \E r \in items' : <<r.fid, r.ts>> \in requests'[s].shown
  <2>1. Busy(s) /\ requests[s].op = "confirm" /\ requests[s].op \in load.ops
    BY <1>1, RouteIs DEF Busy, Steady, Formed, Alone
  <2>2. \A t \in Slots : ~DeleteRows(t)
    <3> SUFFICES ASSUME NEW t \in Slots, DeleteRows(t) PROVE FALSE
      OBVIOUS
    <3>1. requests[t].pc = "delete" /\ Busy(t)
      BY DeleteRowsIs DEF Steady, Busy
    <3>2. requests[t].op \in load.ops \cap {"relabel", "undo"}
      BY <3>1, RouteIs DEF Steady, Alone, Formed
    <3>3. load.alone
      BY <2>1, <3>2 DEF Deletes
    <3> QED BY <1>1, <2>1, <3>1, <3>3 DEF Steady, Alone
  <2>3. PICK r \in items : <<r.fid, r.ts>> \in requests[s].shown
    BY <1>1 DEF Earned
  <2>4. \E x \in items' : Decision(x) = Decision(r)
    BY <2>2, ItemsStay DEF Steady
  <2> QED BY <1>1, <2>3, <2>4 DEF Decision
<1>2. CASE UNCHANGED requests
  BY <1>1, <1>2
<1>3. CASE Crash
  BY <1>3, CrashIs DEF Steady, Busy
<1>4. ASSUME NEW t \in Slots, Route(t), t # s
      PROVE  \E r \in items' : <<r.fid, r.ts>> \in requests'[s].shown
  BY <1>1, <1>4, RouteSteps DEF Others, Steady
<1>5. CASE AddRows(s)
  <2>1. /\ Busy(s) /\ Held(requests[s])
        /\ requests[s].rows \in SUBSET Prepared /\ IsFiniteSet(requests[s].rows)
        /\ items' = items \cup Inserted(requests[s].rows) /\ Inserted(requests[s].rows) # {}
        /\ requests'[s].shown = requests[s].shown
    BY <1>5, AddRowsIs DEF Steady, HeldRoutes, Busy
  <2> PICK x \in Inserted(requests[s].rows) : TRUE
    BY <2>1
  <2>2. PICK r \in requests[s].rows : Fresh(r) /\ x.fid = r.fid /\ x.ts = frames[r.fid].ts
    BY <2>1, InsertedIs DEF Steady
  <2> QED BY <2>1, <2>2 DEF Held, Fresh
<1>6. CASE Asks(s)
  <2>1. PICK op \in Ops, kind \in Kinds, cat \in Cats, S \in SUBSET Live :
            requests'[s] = Request(op, kind, cat, S)
    BY <1>6, AsksIs DEF Steady
  <2> QED BY <2>1, RequestIs DEF Steady
<1>7. CASE ReadSpan(s) \/ DeleteRows(s) \/ Unlink(s) \/ ReadSources(s)
  BY <1>7, ReadSpanIs, DeleteRowsIs, UnlinkIs, ReadSourcesIs DEF Steady, Busy
<1>8. CASE CutFrame(s) \/ CutAll(s) \/ ClearFlags(s)
  BY <1>8, CutFrameIs, CutAllIs, ClearFlagsIs DEF Steady, Busy
<1>9. CASE Route(s)
  BY <1>5, <1>6, <1>7, <1>8, <1>9, RouteSteps DEF Steady
<1> QED BY <1>2, <1>3, <1>4, <1>9, AroundIs DEF Steady

(* One step of MarkedUntilLabelled. *)
MarksKept ==
    \A f \in flags :
        \/ f \in flags' \/ frames' = <<>> \/ budget'["unmark"] < budget["unmark"]
        \/ \E r \in items : \E s \in Slots :
                requests[s].pc = "flags" /\ <<r.fid, r.ts>> \in requests[s].shown

LEMMA MarksStep ==
    ASSUME LabelsTyped, Earned, [LabelsNext]_labelVars
    PROVE  MarksKept
<1>1. CASE flags \subseteq flags'
  BY <1>1 DEF MarksKept
<1>2. CASE Clear
  BY <1>2 DEF Clear, MarksKept
<1>3. CASE (\E lo, hi \in 1..load.frames : Unmark(lo, hi)) \/ (\E f \in flags : Dismiss(f))
  BY <1>3, UnmarksIs DEF MarksKept
<1>4. CASE \E s \in Slots : ClearFlags(s)
  BY <1>4, ClearFlagsIs DEF Earned, MarksKept
<1>5. CASE \E s \in Slots : Route(s) /\ ~ClearFlags(s)
  <2> PICK s \in Slots : Route(s) /\ ~ClearFlags(s)
    BY <1>5
  <2>1. CASE Asks(s) \/ ReadSpan(s) \/ DeleteRows(s) \/ Unlink(s) \/ ReadSources(s)
    BY <1>1, <2>1, AsksIs, ReadSpanIs, DeleteRowsIs, UnlinkIs, ReadSourcesIs
  <2>2. CASE CutFrame(s) \/ CutAll(s) \/ AddRows(s)
    BY <1>1, <2>2, CutFrameIs, CutAllIs, AddRowsIs
  <2> QED BY <2>1, <2>2, RouteSteps
<1>6. CASE Arrive \/ Evict \/ Crash
  BY <1>1, <1>6, ArriveIs, EvictIs, CrashIs
<1>7. CASE (\E i \in Live : Redetect(i)) \/ (\E v : SetGeometry(v))
  BY <1>1, <1>7, RedetectIs, SetGeometryIs
<1>8. CASE \E lo, hi \in 1..load.frames : Flag(lo, hi)
  BY <1>1, <1>8, FlagIs
<1>9. CASE (\E target \in load.targets : StartRecut(target)) \/ PlanRecut \/ MoveOne
  BY <1>1, <1>9, StartRecutIs, PlanRecutIs, MoveOneIs
<1>10. CASE WriteBatch \/ NothingToMove \/ CancelRecut
  BY <1>1, <1>10, WriteBatchIs, JobEndsIs
<1>11. CASE UNCHANGED labelVars
  BY <1>1, <1>11 DEF labelVars
<1> QED BY <1>2, <1>3, <1>4, <1>5, <1>6, <1>7, <1>8, <1>9, <1>10, <1>11, LabelsSteps

(* The household's mark outlives a confirmation that recorded nothing: with   *)
(* no wipe racing a route, and with undo and re-label one at a time beside    *)
(* the phone, a flag goes without an un-mark or a wipe only when a frame the  *)
(* confirming tap was shown has its row.                                      *)
THEOREM MarksOutlive ==
    ASSUME \A l \in Loads : ~l.race /\ (Deletes(l) /\ "confirm" \in l.ops => l.alone)
    PROVE  LabelsSpec => MarkedUntilLabelled
<1> DEFINE I == Steady /\ Earned
<1>1. LabelsInit => I
  BY SteadyInit DEF LabelsInit, Earned, Idle
<1>2. I /\ [LabelsNext]_labelVars => I' /\ [MarksKept]_labelVars
  <2> SUFFICES ASSUME I, [LabelsNext]_labelVars PROVE I' /\ MarksKept
    OBVIOUS
  <2>1. ~load.race /\ (Deletes(load) /\ "confirm" \in load.ops => load.alone)
    BY DEF Steady, LabelsTyped, LoadTyped
  <2> QED BY <2>1, SteadyStep, EarnedStep, MarksStep DEF Steady
<1>3. [][MarksKept]_labelVars => MarkedUntilLabelled
  BY PTL DEF MarksKept, MarkedUntilLabelled
<1> HIDE DEF I
<1> QED BY <1>1, <1>2, <1>3, PTL DEF LabelsSpec

-----------------------------------------------------------------------------
(* The file a row names is on disk: the row's, a prepared row's, the one a    *)
(* row is about to be moved to.                                               *)
HasFile(r) == r.crop # NULL => r.crop \in DOMAIN files
FilesOnDisk ==
    /\ \A r \in items : HasFile(r)
    /\ \A s \in Slots : Busy(s) => \A r \in requests[s].rows : HasFile(r)
    /\ recut.pc # "idle" => \A m \in recut.moved : m.to \in DOMAIN files
    /\ \A s \in Slots : requests[s].pc = "unlink" => \A r \in items : r.fid \notin DOMAIN requests[s].wants

LEMMA FilesStay ==
    ASSUME LabelsTyped, [LabelsNext]_labelVars
    PROVE  (\E s \in Slots : Unlink(s)) \/ DOMAIN files \subseteq DOMAIN files'
<1>1. CASE \E s \in Slots : CutFrame(s)
  <2> PICK s \in Slots : CutFrame(s)
    BY <1>1
  <2>1. \/ \E p, v : files' = With(files, p, v)
        \/ files' = files
    BY CutFrameIs
  <2> QED BY <2>1 DEF With
<1>2. CASE MoveOne
  <2>1. \/ \E p, v : files' = With(files, p, v)
        \/ files' = files
    BY <1>2, MoveOneIs
  <2> QED BY <2>1 DEF With
<1>3. CASE \E s \in Slots : Route(s) /\ ~CutFrame(s) /\ ~Unlink(s)
  <2> PICK s \in Slots : Route(s) /\ ~CutFrame(s) /\ ~Unlink(s)
    BY <1>3
  <2>1. CASE Asks(s) \/ ReadSpan(s) \/ DeleteRows(s) \/ ReadSources(s)
    BY <2>1, AsksIs, ReadSpanIs, DeleteRowsIs, ReadSourcesIs
  <2>2. CASE CutAll(s) \/ AddRows(s) \/ ClearFlags(s)
    BY <2>2, CutAllIs, AddRowsIs, ClearFlagsIs
  <2> QED BY <2>1, <2>2, RouteSteps
<1>4. CASE Arrive \/ Evict \/ Clear
  BY <1>4, ArriveIs, EvictIs, ClearIs
<1>5. CASE Crash \/ (\E i \in Live : Redetect(i)) \/ (\E v : SetGeometry(v))
  BY <1>5, CrashIs, RedetectIs, SetGeometryIs
<1>6. CASE \/ \E lo, hi \in 1..load.frames : Flag(lo, hi)
           \/ (\E lo, hi \in 1..load.frames : Unmark(lo, hi)) \/ (\E f \in flags : Dismiss(f))
  BY <1>6, FlagIs, UnmarksIs
<1>7. CASE (\E target \in load.targets : StartRecut(target)) \/ PlanRecut
  BY <1>7, StartRecutIs, PlanRecutIs
<1>8. CASE WriteBatch \/ NothingToMove \/ CancelRecut
  BY <1>8, WriteBatchIs, JobEndsIs
<1>9. CASE UNCHANGED labelVars
  BY <1>9 DEF labelVars
<1> QED BY <1>1, <1>2, <1>3, <1>4, <1>5, <1>6, <1>7, <1>8, <1>9, LabelsSteps

(* A prepared row with a crop comes from a cut that has written it.           *)
LEMMA RowsFrom ==
    ASSUME LabelsTyped, [LabelsNext]_labelVars, NEW s \in Slots, Busy(s)', NEW r \in requests'[s].rows
    PROVE  \/ Busy(s) /\ r \in requests[s].rows
           \/ r.crop = NULL
           \/ CutFrame(s) /\ r.crop \in DOMAIN files'
<1>1. CASE UNCHANGED requests
  BY <1>1 DEF Busy
<1>2. CASE Crash
  BY <1>2, CrashIs
<1>3. ASSUME NEW t \in Slots, Route(t), s # t PROVE Busy(s) /\ requests'[s] = requests[s]
  BY <1>3, RouteSteps DEF Others, Busy
<1>4. CASE Asks(s)
  <2>1. PICK op \in Ops, kind \in Kinds, cat \in Cats, S \in SUBSET Live :
            requests'[s] = Request(op, kind, cat, S)
    BY <1>4, AsksIs
  <2> QED BY <2>1, RequestIs
<1>5. CASE ReadSources(s)
  <2>1. /\ requests[s].pc = "read" /\ Busy(s)
        /\ \/ requests'[s].rows = CroplessOf(DOMAIN requests[s].wants, requests[s].kind)
           \/ requests'[s].rows = requests[s].rows
    BY <1>5, ReadSourcesIs DEF Busy
  <2>2. DOMAIN requests[s].wants \in SUBSET FrameIds /\ requests[s].kind \in Kinds
    BY <2>1, RouteIs DEF Routes
  <2> QED BY <2>1, <2>2, CroplessIs
<1>6. CASE CutFrame(s)
  <2>1. PICK i \in DOMAIN requests[s].sources :
          \/ /\ requests'[s].rows = requests[s].rows \cup {PreparedFor(requests[s], i)}
             /\ files' = With(files, PathOf(requests[s], i), CropOf(requests[s], i))
          \/ requests'[s].rows = requests[s].rows
    BY <1>6, CutFrameIs
  <2>2. Busy(s)
    BY <1>6, CutFrameIs DEF Busy
  <2> PICK p, v, x : p = PathOf(requests[s], i) /\ v = CropOf(requests[s], i) /\ x = PreparedFor(requests[s], i)
    OBVIOUS
  <2>3. x.crop = p
    BY DEF PreparedFor
  <2>4. files' = With(files, p, v) => p \in DOMAIN files'
    BY DEF With
  <2> QED BY <1>6, <2>1, <2>2, <2>3, <2>4
<1>7. CASE ReadSpan(s) \/ DeleteRows(s) \/ Unlink(s)
  BY <1>7, ReadSpanIs, DeleteRowsIs, UnlinkIs DEF Busy
<1>8. CASE CutAll(s) \/ AddRows(s) \/ ClearFlags(s)
  BY <1>8, CutAllIs, AddRowsIs, ClearFlagsIs DEF Busy
<1>9. CASE Route(s)
  BY <1>4, <1>5, <1>6, <1>7, <1>8, <1>9, RouteSteps
<1> QED BY <1>1, <1>2, <1>3, <1>9, AroundIs

(* How a row came by its crop. *)
LEMMA CropsFrom ==
    ASSUME LabelsTyped, [LabelsNext]_labelVars, NEW x \in items'
    PROVE  \/ x \in items
           \/ /\ UNCHANGED files
              /\ \E s \in Slots : /\ AddRows(s) /\ Busy(s)
                                  /\ \E r \in requests[s].rows : /\ Fresh(r) /\ x.fid = r.fid /\ x.crop = r.crop
                                                                 /\ x.box = r.box /\ x.geometry = r.geometry
                                                                 /\ x.ts = frames[r.fid].ts
                                                                 /\ x = InsertOf(requests[s].rows, r)
           \/ /\ UNCHANGED files /\ WriteBatch /\ recut.pc = "move"
              /\ \E r \in items : \E m \in Swapped(r) :
                    /\ m \in recut.moved /\ x = Moved(r, m) /\ x.fid = r.fid /\ x.ts = r.ts
                    /\ x.box = r.box /\ x.crop = m.to /\ x.geometry = recut.target
<1>1. CASE \E s \in Slots : AddRows(s)
  <2> PICK s \in Slots : AddRows(s)
    BY <1>1
  <2>1. /\ items' = items \cup Inserted(requests[s].rows) /\ UNCHANGED files /\ Busy(s)
        /\ requests[s].rows \in SUBSET Prepared /\ IsFiniteSet(requests[s].rows)
    BY AddRowsIs DEF Busy
  <2> QED BY <2>1, InsertedIs
<1>2. CASE WriteBatch
  <2>1. /\ UNCHANGED files /\ recut.pc = "move" /\ recut.pc # "idle"
        /\ \/ x \in items
           \/ \E r \in items : \E m \in Swapped(r) : x = Moved(r, m)
    BY <1>2, WriteBatchIs
  <2>2. CASE \E r \in items : \E m \in Swapped(r) : x = Moved(r, m)
    <3> PICK r \in items : \E m \in Swapped(r) : x = Moved(r, m)
      BY <2>2
    <3> PICK m \in Swapped(r) : x = Moved(r, m)
      OBVIOUS
    <3>1. m \in recut.moved
      BY DEF Swapped
    <3>2. /\ x.fid = r.fid /\ x.ts = r.ts /\ x.box = r.box /\ x.crop = m.to
          /\ x.geometry = recut.target
      BY <2>1, <3>1, MovedIs
    <3> QED BY <1>2, <2>1, <3>1, <3>2
  <2> QED BY <2>1, <2>2
<1>3. CASE items' \subseteq items
  BY <1>3
<1>4. CASE \E s \in Slots : Route(s) /\ ~AddRows(s)
  <2> PICK s \in Slots : Route(s) /\ ~AddRows(s)
    BY <1>4
  <2>1. CASE Asks(s) \/ ReadSpan(s) \/ DeleteRows(s) \/ Unlink(s) \/ ReadSources(s)
    BY <1>3, <2>1, AsksIs, ReadSpanIs, DeleteRowsIs, UnlinkIs, ReadSourcesIs
  <2>2. CASE CutFrame(s) \/ CutAll(s) \/ ClearFlags(s)
    BY <1>3, <2>2, CutFrameIs, CutAllIs, ClearFlagsIs
  <2> QED BY <2>1, <2>2, RouteSteps
<1>5. CASE Arrive \/ Evict \/ Clear
  BY <1>3, <1>5, ArriveIs, EvictIs, ClearIs
<1>6. CASE Crash \/ (\E i \in Live : Redetect(i)) \/ (\E v : SetGeometry(v))
  BY <1>3, <1>6, CrashIs, RedetectIs, SetGeometryIs
<1>7. CASE \/ \E lo, hi \in 1..load.frames : Flag(lo, hi)
           \/ (\E lo, hi \in 1..load.frames : Unmark(lo, hi)) \/ (\E f \in flags : Dismiss(f))
  BY <1>3, <1>7, FlagIs, UnmarksIs
<1>8. CASE (\E target \in load.targets : StartRecut(target)) \/ PlanRecut \/ MoveOne
  BY <1>3, <1>8, StartRecutIs, PlanRecutIs, MoveOneIs
<1>9. CASE NothingToMove \/ CancelRecut
  BY <1>3, <1>9, JobEndsIs
<1>10. CASE UNCHANGED labelVars
  BY <1>3, <1>10 DEF labelVars
<1> QED BY <1>1, <1>2, <1>4, <1>5, <1>6, <1>7, <1>8, <1>9, <1>10, LabelsSteps

LEMMA FilesOnDiskInit == ASSUME LabelsInit PROVE FilesOnDisk
BY DEF LabelsInit, FilesOnDisk, Busy, Idle, NoJob

(* With undo and re-label one at a time, an unlink meets no other route, no   *)
(* job and no row that is left of its frames.                                 *)
LEMMA UnlinkAlone ==
    ASSUME Steady, Deletes(load) => load.alone, NEW s \in Slots, requests[s].pc \in {"delete", "unlink"}
    PROVE  /\ Busy(s) /\ recut.pc = "idle" /\ \A t \in Slots : Busy(t) => t = s
           /\ requests[s].rows = {} /\ Formed(requests[s])
           /\ \A r \in requests[s].removed : OwnsCrop(r) /\ r.fid \in DOMAIN requests[s].wants
<1>1. Busy(s) /\ Formed(requests[s]) /\ requests[s].op \in load.ops /\ Held(requests[s])
  BY RouteIs DEF Busy, Steady, Alone, HeldRoutes
<1>2. requests[s].op \in {"relabel", "undo"} /\ requests[s].rows = {}
  BY <1>1 DEF Formed
<1>3. load.alone
  BY <1>1, <1>2 DEF Deletes
<1> QED BY <1>1, <1>2, <1>3 DEF Steady, Alone, Held

LEMMA FilesOnDiskUnlink ==
    ASSUME Steady, FilesOnDisk, Deletes(load) => load.alone, NEW s \in Slots, Unlink(s)
    PROVE  FilesOnDisk'
<1>1. /\ requests[s].pc = "unlink" /\ Others(s) /\ UNCHANGED <<items, recut>>
      /\ DOMAIN files' = DOMAIN files \ UNION {Variants(r) : r \in requests[s].removed}
      /\ ~Busy(s)' \/ (requests'[s].rows = requests[s].rows /\ requests'[s].pc = "read")
  BY UnlinkIs DEF Steady
<1>2. /\ recut.pc = "idle" /\ \A t \in Slots : Busy(t) => t = s
      /\ requests[s].rows = {}
      /\ \A r \in requests[s].removed : OwnsCrop(r) /\ r.fid \in DOMAIN requests[s].wants
  BY <1>1, UnlinkAlone
<1>3. ASSUME NEW r \in items, r.crop # NULL PROVE r.crop \in DOMAIN files'
  <2>1. r.crop \in DOMAIN files /\ r.crop.fid = r.fid /\ r.fid \notin DOMAIN requests[s].wants
    BY <1>1, <1>3 DEF FilesOnDisk, HasFile, Steady, OwnCrops, OwnsCrop
  <2>2. \A x \in requests[s].removed : r.crop \notin Variants(x)
    BY <1>2, <2>1 DEF Variants, OwnsCrop
  <2> QED BY <1>1, <2>1, <2>2
<1>4. \A t \in Slots : Busy(t)' => t = s
  BY <1>1, <1>2 DEF Others, Busy
<1>5. \A t \in Slots : requests'[t].pc # "unlink"
  BY <1>1, <1>4 DEF Busy
<1>6. \A t \in Slots : Busy(t)' => requests'[t].rows = {}
  BY <1>1, <1>2, <1>4
<1> QED BY <1>1, <1>2, <1>3, <1>5, <1>6 DEF FilesOnDisk, HasFile

LEMMA MovedFrom ==
    ASSUME LabelsTyped, [LabelsNext]_labelVars, recut'.pc # "idle", NEW m \in recut'.moved
    PROVE  \/ recut.pc # "idle" /\ m \in recut.moved
           \/ /\ MoveOne /\ m = NextMove /\ m \in recut.todo /\ Movable(m)
              /\ files' = IF m.how = "relink" THEN files ELSE With(files, m.to, Pixels(m))
<1>1. CASE UNCHANGED recut
  BY <1>1
<1>2. CASE MoveOne
  <2>1. recut.pc # "idle" /\ NextMove \in recut.todo
    BY <1>2, MoveOneIs
  <2>2. CASE recut'.moved = recut.moved
    BY <2>1, <2>2
  <2>3. CASE /\ recut'.moved = recut.moved \cup {NextMove} /\ Movable(NextMove)
             /\ files' = IF NextMove.how = "relink" THEN files
                         ELSE With(files, NextMove.to, Pixels(NextMove))
    BY <1>2, <2>1, <2>3
  <2> QED BY <1>2, <2>2, <2>3, MoveOneIs
<1>3. CASE Crash
  BY <1>3, CrashIs DEF NoJob
<1>4. CASE (\E target \in load.targets : StartRecut(target)) \/ PlanRecut
  BY <1>4, StartRecutIs, PlanRecutIs
<1>5. CASE WriteBatch \/ NothingToMove \/ CancelRecut
  BY <1>5, WriteBatchIs, JobEndsIs DEF NoJob
<1>6. CASE Arrive \/ Evict \/ Clear
  BY <1>1, <1>6, ArriveIs, EvictIs, ClearIs
<1>7. CASE (\E i \in Live : Redetect(i)) \/ (\E v : SetGeometry(v))
  BY <1>1, <1>7, RedetectIs, SetGeometryIs
<1>8. CASE \/ \E lo, hi \in 1..load.frames : Flag(lo, hi)
           \/ (\E lo, hi \in 1..load.frames : Unmark(lo, hi)) \/ (\E f \in flags : Dismiss(f))
  BY <1>1, <1>8, FlagIs, UnmarksIs
<1>9. CASE \E s \in Slots : Route(s)
  BY <1>1, <1>9, RouteSteps
<1>10. CASE UNCHANGED labelVars
  BY <1>1, <1>10 DEF labelVars
<1> QED BY <1>2, <1>3, <1>4, <1>5, <1>6, <1>7, <1>8, <1>9, <1>10, LabelsSteps

LEMMA UnlinksFrom ==
    ASSUME Steady, [LabelsNext]_labelVars, NEW s \in Slots, requests'[s].pc = "unlink"
    PROVE  \/ DeleteRows(s)
           \/ requests'[s] = requests[s]
<1>1. CASE UNCHANGED requests
  BY <1>1
<1>2. CASE Crash
  BY <1>2, CrashIs DEF Busy, Steady
<1>3. ASSUME NEW t \in Slots, Route(t), s # t PROVE requests'[s] = requests[s]
  BY <1>3, RouteSteps DEF Others, Steady
<1>4. CASE Asks(s)
  <2>1. PICK op \in Ops, kind \in Kinds, cat \in Cats, S \in SUBSET Live :
            requests'[s] = Request(op, kind, cat, S)
    BY <1>4, AsksIs DEF Steady
  <2> QED BY <2>1, RequestIs DEF Steady
<1>5. CASE ReadSpan(s) \/ Unlink(s) \/ ReadSources(s)
  BY <1>5, ReadSpanIs, UnlinkIs, ReadSourcesIs DEF Busy, Steady
<1>6. CASE CutFrame(s) \/ CutAll(s) \/ AddRows(s) \/ ClearFlags(s)
  BY <1>6, CutFrameIs, CutAllIs, AddRowsIs, ClearFlagsIs DEF Busy, Steady
<1>7. CASE Route(s)
  BY <1>4, <1>5, <1>6, <1>7, RouteSteps DEF Steady
<1> QED BY <1>1, <1>2, <1>3, <1>7, AroundIs DEF Steady

LEMMA FilesOnDiskStep ==
    ASSUME Steady, FilesOnDisk, Deletes(load) => load.alone, [LabelsNext]_labelVars
    PROVE  FilesOnDisk'
<1> USE DEF Steady
<1>1. CASE \E s \in Slots : Unlink(s)
  BY <1>1, FilesOnDiskUnlink
<1>2. CASE ~\E s \in Slots : Unlink(s)
  <2>1. DOMAIN files \subseteq DOMAIN files'
    BY <1>2, FilesStay
  <2>2. ASSUME NEW x \in items', x.crop # NULL PROVE x.crop \in DOMAIN files'
    <3>1. CASE x \in items
      BY <2>1, <2>2, <3>1 DEF FilesOnDisk, HasFile
    <3>2. CASE \E s \in Slots : Busy(s) /\ \E r \in requests[s].rows : x.crop = r.crop
      BY <2>1, <2>2, <3>2 DEF FilesOnDisk, HasFile
    <3>3. CASE recut.pc = "move" /\ \E m \in recut.moved : x.crop = m.to
      BY <2>1, <2>2, <3>3 DEF FilesOnDisk
    <3> QED BY <3>1, <3>2, <3>3, CropsFrom
  <2>3. ASSUME NEW s \in Slots, Busy(s)', NEW r \in requests'[s].rows, r.crop # NULL
        PROVE  r.crop \in DOMAIN files'
    BY <2>1, <2>3, RowsFrom DEF FilesOnDisk, HasFile
  <2>4. ASSUME recut'.pc # "idle", NEW m \in recut'.moved PROVE m.to \in DOMAIN files'
    <3>1. CASE recut.pc # "idle" /\ m \in recut.moved
      BY <2>1, <3>1 DEF FilesOnDisk
    <3>2. CASE /\ Movable(m)
               /\ files' = IF m.how = "relink" THEN files ELSE With(files, m.to, Pixels(m))
      BY <3>2 DEF Movable, With
    <3> QED BY <2>4, <3>1, <3>2, MovedFrom
  <2>5. ASSUME NEW s \in Slots, requests'[s].pc = "unlink", NEW x \in items'
        PROVE  x.fid \notin DOMAIN requests'[s].wants
    <3>1. CASE DeleteRows(s)
      BY <3>1, <2>5, DeleteRowsIs
    <3>2. CASE requests'[s] = requests[s]
      <4>1. requests[s].pc = "unlink"
        BY <2>5, <3>2
      <4>2. recut.pc = "idle" /\ \A t \in Slots : Busy(t) => t = s
        BY <4>1, UnlinkAlone
      <4>3. ~AddRows(s)
        BY <4>1, AddRowsIs
      <4>4. x \in items
        BY <4>2, <4>3, CropsFrom
      <4> QED BY <3>2, <4>1, <4>4 DEF FilesOnDisk
    <3> QED BY <2>5, <3>1, <3>2, UnlinksFrom
  <2> QED BY <2>2, <2>3, <2>4, <2>5 DEF FilesOnDisk, HasFile
<1> QED BY <1>1, <1>2

-----------------------------------------------------------------------------
(* The pixels a path and a box call for. *)
CutAt(p, box) == files[p] = [ts |-> p.ts, box |-> box, margin |-> Margin(p.geometry)]

(* While no box moves every crop is cut at the one box there is.              *)
BoxesStill ==
    /\ budget["redetect"] = 0
    /\ \A i \in Live : frames[i].box = "b1"
    /\ \A r \in items : r.crop # NULL => r.box = "b1"
    /\ \A s \in Slots : Busy(s) =>
        /\ \A i \in DOMAIN requests[s].wants : requests[s].wants[i] = "b1"
        /\ \A r \in requests[s].rows : r.crop # NULL => r.box = "b1"
    /\ recut.pc # "idle" => \A m \in recut.todo \cup recut.moved : m.row.box = "b1"
    /\ \A p \in DOMAIN files : CutAt(p, "b1")

LEMMA BoxesStillInit == ASSUME LabelsInit, load.budget["redetect"] = 0 PROVE BoxesStill
<1>1. files = <<>> /\ DOMAIN files = {}
  BY DEF LabelsInit
<1> QED BY <1>1 DEF LabelsInit, BoxesStill, Live, Busy, Idle, NoJob

(* A file is new when a route cuts it or the job moves it.                    *)
LEMMA FilesFrom ==
    ASSUME LabelsTyped, [LabelsNext]_labelVars, NEW p \in DOMAIN files'
    PROVE  \/ p \in DOMAIN files /\ files'[p] = files[p]
           \/ \E s \in Slots : /\ CutFrame(s) /\ Busy(s)
                               /\ \E i \in DOMAIN requests[s].sources :
                                    /\ HasJpeg(i, requests[s].sources[i])
                                    /\ p = PathOf(requests[s], i) /\ files'[p] = CropOf(requests[s], i)
                                    /\ requests'[s].rows = requests[s].rows \cup {PreparedFor(requests[s], i)}
           \/ /\ MoveOne /\ recut.pc # "idle" /\ NextMove \in recut.todo /\ NextMove.how # "relink"
              /\ Movable(NextMove) /\ p = NextMove.to /\ files'[p] = Pixels(NextMove)
<1>1. CASE \E s \in Slots : CutFrame(s)
  <2> PICK s \in Slots : CutFrame(s)
    BY <1>1
  <2>1. PICK i \in DOMAIN requests[s].sources :
          \/ /\ HasJpeg(i, requests[s].sources[i])
             /\ requests'[s].rows = requests[s].rows \cup {PreparedFor(requests[s], i)}
             /\ files' = With(files, PathOf(requests[s], i), CropOf(requests[s], i))
          \/ files' = files
    BY CutFrameIs
  <2>2. Busy(s)
    BY CutFrameIs DEF Busy
  <2> PICK x, v : x = PathOf(requests[s], i) /\ v = CropOf(requests[s], i)
    OBVIOUS
  <2>3. files' = With(files, x, v) => \/ p = x /\ files'[p] = v
                                      \/ p \in DOMAIN files /\ files'[p] = files[p]
    BY DEF With
  <2> QED BY <2>1, <2>2, <2>3
<1>2. CASE MoveOne
  <2> PICK x, v : x = NextMove.to /\ v = Pixels(NextMove)
    OBVIOUS
  <2>1. files' = With(files, x, v) => \/ p = x /\ files'[p] = v
                                      \/ p \in DOMAIN files /\ files'[p] = files[p]
    BY DEF With
  <2>2. /\ recut.pc # "idle" /\ NextMove \in recut.todo
        /\ \/ /\ Movable(NextMove)
              /\ files' = IF NextMove.how = "relink" THEN files ELSE With(files, x, v)
           \/ files' = files
    BY <1>2, MoveOneIs
  <2> QED BY <1>2, <2>1, <2>2
<1>3. CASE \E s \in Slots : Route(s) /\ ~CutFrame(s)
  <2> PICK s \in Slots : Route(s) /\ ~CutFrame(s)
    BY <1>3
  <2>1. CASE Asks(s) \/ ReadSpan(s) \/ DeleteRows(s) \/ Unlink(s) \/ ReadSources(s)
    BY <2>1, AsksIs, ReadSpanIs, DeleteRowsIs, UnlinkIs, ReadSourcesIs
  <2>2. CASE CutAll(s) \/ AddRows(s) \/ ClearFlags(s)
    BY <2>2, CutAllIs, AddRowsIs, ClearFlagsIs
  <2> QED BY <2>1, <2>2, RouteSteps
<1>4. CASE Arrive \/ Evict \/ Clear
  BY <1>4, ArriveIs, EvictIs, ClearIs
<1>5. CASE Crash \/ (\E i \in Live : Redetect(i)) \/ (\E v : SetGeometry(v))
  BY <1>5, CrashIs, RedetectIs, SetGeometryIs
<1>6. CASE \/ \E lo, hi \in 1..load.frames : Flag(lo, hi)
           \/ (\E lo, hi \in 1..load.frames : Unmark(lo, hi)) \/ (\E f \in flags : Dismiss(f))
  BY <1>6, FlagIs, UnmarksIs
<1>7. CASE (\E target \in load.targets : StartRecut(target)) \/ PlanRecut
  BY <1>7, StartRecutIs, PlanRecutIs
<1>8. CASE WriteBatch \/ NothingToMove \/ CancelRecut
  BY <1>8, WriteBatchIs, JobEndsIs
<1>9. CASE UNCHANGED labelVars
  BY <1>9 DEF labelVars
<1> QED BY <1>1, <1>2, <1>3, <1>4, <1>5, <1>6, <1>7, <1>8, <1>9, LabelsSteps

(* What the job has in hand it has of the plan, and the plan of the rows.     *)
LEMMA TodoFrom ==
    ASSUME LabelsTyped, [LabelsNext]_labelVars, recut'.pc # "idle", NEW m \in recut'.todo \cup recut'.moved
    PROVE  \/ recut.pc # "idle" /\ m \in recut.todo \cup recut.moved
           \/ PlanRecut /\ m.row \in items /\ m.row.crop # NULL
<1>1. CASE UNCHANGED recut
  BY <1>1
<1>2. CASE PlanRecut
  <2>1. /\ recut.pc # "idle" /\ recut'.moved = recut.moved /\ recut.target \in Geometries
        /\ recut'.todo = UNION {Moves(r, recut.target) : r \in {r2 \in items : r2.crop # NULL}}
    BY <1>2, PlanRecutIs, JobIs
  <2>2. ASSUME m \in recut'.todo PROVE m.row \in items /\ m.row.crop # NULL
    <3>1. PICK r \in items : r.crop # NULL /\ m \in Moves(r, recut.target)
      BY <2>1, <2>2
    <3>2. r \in Items /\ r.crop \in Paths
      BY <3>1 DEF LabelsTyped, ItemsTyped, Items
    <3>3. m.row = r
      BY <2>1, <3>1, <3>2, MovesAre
    <3> QED BY <3>1, <3>3
  <2> QED BY <1>2, <2>1, <2>2
<1>3. CASE MoveOne
  BY <1>3, MoveOneIs
<1>4. CASE Crash
  BY <1>4, CrashIs DEF NoJob
<1>5. CASE \E target \in load.targets : StartRecut(target)
  BY <1>5, StartRecutIs
<1>6. CASE WriteBatch \/ NothingToMove \/ CancelRecut
  BY <1>6, WriteBatchIs, JobEndsIs DEF NoJob
<1>7. CASE Arrive \/ Evict \/ Clear
  BY <1>1, <1>7, ArriveIs, EvictIs, ClearIs
<1>8. CASE (\E i \in Live : Redetect(i)) \/ (\E v : SetGeometry(v))
  BY <1>1, <1>8, RedetectIs, SetGeometryIs
<1>9. CASE \/ \E lo, hi \in 1..load.frames : Flag(lo, hi)
           \/ (\E lo, hi \in 1..load.frames : Unmark(lo, hi)) \/ (\E f \in flags : Dismiss(f))
  BY <1>1, <1>9, FlagIs, UnmarksIs
<1>10. CASE \E s \in Slots : Route(s)
  BY <1>1, <1>10, RouteSteps
<1>11. CASE UNCHANGED labelVars
  BY <1>1, <1>11 DEF labelVars
<1> QED BY <1>2, <1>3, <1>4, <1>5, <1>6, <1>7, <1>8, <1>9, <1>10, <1>11, LabelsSteps

(* The pixels a move puts in place are the row's, where its files' are.       *)
LEMMA MovedPixels ==
    ASSUME Steady, recut.pc # "idle", NEW m \in recut.todo, Movable(m), m.how # "relink",
           \A g \in Twins(recut.target) :
                m.how = "copy" /\ m.from = ToOf(m.row, g) => CutAt(m.from, m.row.box)
    PROVE  Pixels(m) = [ts |-> m.to.ts, box |-> m.row.box, margin |-> Margin(m.to.geometry)]
<1>1. OwnsMove(m)
  BY DEF Steady, OwnCrops
<1>2. m.to.ts = m.row.ts /\ m.to.geometry = recut.target
  BY <1>1 DEF OwnsMove, ToOf, Path
<1>3. CASE m.how = "copy"
  <2>1. PICK g \in Twins(recut.target) : m.from = ToOf(m.row, g)
    BY <1>1, <1>3 DEF OwnsMove
  <2>2. m.from.ts = m.row.ts /\ m.from.geometry = g /\ Margin(g) = Margin(recut.target)
    BY <2>1 DEF ToOf, Path, Twins
  <2> QED BY <1>2, <1>3, <2>1, <2>2 DEF CutAt, Pixels
<1>4. CASE m.how # "copy"
  BY <1>2, <1>4 DEF Pixels
<1> QED BY <1>3, <1>4

LEMMA BoxesStillStep ==
    ASSUME Steady, BoxesStill, [LabelsNext]_labelVars
    PROVE  BoxesStill'
<1> USE DEF Steady
<1>1. budget'["redetect"] = 0 /\ ~\E i \in Live : Redetect(i)
  BY LoadKept, RedetectIs DEF BoxesStill
<1>2. \A i \in Live' : frames'[i].box = "b1"
  <2>1. CASE Arrive
    BY <2>1, ArriveIs DEF BoxesStill
  <2>2. CASE Evict \/ Clear
    BY <2>2, EvictIs, ClearIs DEF BoxesStill
  <2>3. CASE UNCHANGED frames
    BY <2>3 DEF BoxesStill, Live
  <2>4. CASE Crash \/ (\E v : SetGeometry(v)) \/ (\E s \in Slots : Route(s))
    BY <2>3, <2>4, CrashIs, SetGeometryIs, RouteSteps
  <2>5. CASE \/ \E lo, hi \in 1..load.frames : Flag(lo, hi)
             \/ (\E lo, hi \in 1..load.frames : Unmark(lo, hi)) \/ (\E f \in flags : Dismiss(f))
    BY <2>3, <2>5, FlagIs, UnmarksIs
  <2>6. CASE (\E target \in load.targets : StartRecut(target)) \/ PlanRecut \/ MoveOne
    BY <2>3, <2>6, StartRecutIs, PlanRecutIs, MoveOneIs
  <2>7. CASE WriteBatch \/ NothingToMove \/ CancelRecut
    BY <2>3, <2>7, WriteBatchIs, JobEndsIs
  <2>8. CASE UNCHANGED labelVars
    BY <2>3, <2>8 DEF labelVars
  <2> QED BY <1>1, <2>1, <2>2, <2>4, <2>5, <2>6, <2>7, <2>8, LabelsSteps
<1>3. ASSUME NEW x \in items', x.crop # NULL PROVE x.box = "b1"
  <2>1. CASE x \in items
    BY <1>3, <2>1 DEF BoxesStill
  <2>2. CASE \E s \in Slots : Busy(s) /\ \E r \in requests[s].rows : x.crop = r.crop /\ x.box = r.box
    BY <1>3, <2>2 DEF BoxesStill
  <2>3. CASE recut.pc = "move" /\ \E r \in items : \E m \in Swapped(r) : m \in recut.moved /\ x.box = r.box
    <3> PICK r \in items : \E m \in Swapped(r) : m \in recut.moved /\ x.box = r.box
      BY <2>3
    <3>1. PICK m \in recut.moved : r.box = m.row.box /\ x.box = r.box
      BY DEF Swapped, Swaps
    <3> QED BY <2>3, <3>1 DEF BoxesStill
  <2> QED BY <2>1, <2>2, <2>3, CropsFrom
<1>4. ASSUME NEW s \in Slots, Busy(s)'
      PROVE  \A i \in DOMAIN requests'[s].wants : requests'[s].wants[i] = "b1"
  BY <1>4, ShownIs DEF BoxesStill
<1>5. ASSUME NEW s \in Slots, Busy(s)', NEW r \in requests'[s].rows, r.crop # NULL
      PROVE  r.box = "b1"
  <2>1. CASE Busy(s) /\ r \in requests[s].rows
    BY <1>5, <2>1 DEF BoxesStill
  <2>2. CASE CutFrame(s)
    <3>1. PICK i \in DOMAIN requests[s].sources :
            \/ requests'[s].rows = requests[s].rows \cup {PreparedFor(requests[s], i)}
            \/ requests'[s].rows = requests[s].rows
      BY <2>2, CutFrameIs
    <3>2. Busy(s) /\ requests[s].pc = "cut"
      BY <2>2, CutFrameIs DEF Busy
    <3>3. i \in DOMAIN requests[s].wants
      BY <3>2, RouteIs DEF Formed
    <3>4. PreparedFor(requests[s], i).box = "b1"
      BY <3>2, <3>3 DEF PreparedFor, BoxesStill
    <3> QED BY <1>5, <3>1, <3>2, <3>4 DEF BoxesStill
  <2> QED BY <1>5, <2>1, <2>2, RowsFrom
<1>6. ASSUME recut'.pc # "idle", NEW m \in recut'.todo \cup recut'.moved PROVE m.row.box = "b1"
  BY <1>6, TodoFrom DEF BoxesStill
<1>7. ASSUME NEW p \in DOMAIN files' PROVE CutAt(p, "b1")'
  <2>1. CASE p \in DOMAIN files /\ files'[p] = files[p]
    BY <2>1 DEF BoxesStill, CutAt
  <2>2. ASSUME NEW s \in Slots, Busy(s), NEW i \in DOMAIN requests[s].sources,
               p = PathOf(requests[s], i), files'[p] = CropOf(requests[s], i)
        PROVE  CutAt(p, "b1")'
    <3>1. i \in DOMAIN requests[s].wants
      BY <2>2, RouteIs DEF Formed
    <3>2. requests[s].wants[i] = "b1"
      BY <2>2, <3>1 DEF BoxesStill
    <3> QED BY <2>2, <3>2 DEF CutAt, CropOf, PathOf, Path
  <2>3. ASSUME recut.pc # "idle", NEW m \in recut.todo, m.how # "relink",
               Movable(m), p = m.to, files'[p] = Pixels(m)
        PROVE  CutAt(p, "b1")'
    <3>1. m.row.box = "b1"
      BY <2>3 DEF BoxesStill
    <3>2. m.how = "copy" => CutAt(m.from, m.row.box)
      BY <2>3, <3>1 DEF Movable, BoxesStill
    <3>3. Pixels(m) = [ts |-> m.to.ts, box |-> m.row.box, margin |-> Margin(m.to.geometry)]
      BY <2>3, <3>2, MovedPixels
    <3> QED BY <2>3, <3>1, <3>3 DEF CutAt
  <2> QED BY <2>1, <2>2, <2>3, FilesFrom
<1> QED BY <1>1, <1>2, <1>3, <1>4, <1>5, <1>6, <1>7 DEF BoxesStill

-----------------------------------------------------------------------------
(* One thing at a time, with no repeated label and no fault: then every file  *)
(* of a frame with a row is cut at the row's box, and every file of a frame   *)
(* without one is in the hand of the route that runs.                         *)
OneRowEach == \A r1, r2 \in items : r1.fid = r2.fid /\ r1.ts = r2.ts => r1 = r2
FilesFit ==
    \A p \in DOMAIN files : \A r \in items : r.fid = p.fid /\ r.ts = p.ts =>
        r.crop # NULL /\ p.cat = r.crop.cat /\ CutAt(p, r.box)
InHand(q, p) ==
    \/ /\ q.pc = "unlink"
       /\ \E r \in q.removed : r.crop # NULL /\ p.cat = r.crop.cat /\ p.fid = r.fid /\ p.ts = r.ts
    \/ q.pc \in {"cut", "add"} /\ \E r \in q.rows : r.crop = p /\ CutAt(p, r.box)
FilesInHand ==
    \A p \in DOMAIN files : HasJpeg(p.fid, p.ts) /\ RowOf(p.fid) = {} =>
        \E s \in Slots : InHand(requests[s], p)
Fits(q) ==
    /\ DOMAIN q.wants \cap Live \subseteq Undecided
    /\ \A r1, r2 \in q.rows : r1.fid = r2.fid => r1 = r2
    /\ q.pc = "cut" => \A r \in q.rows : r.fid \notin DOMAIN q.sources
RoutesFit == \A s \in Slots : requests[s].pc \in {"span", "read", "cut", "add"} => Fits(requests[s])
JobFits ==
    /\ recut.pc = "plan" => recut.todo = {} /\ recut.moved = {}
    /\ recut.pc # "idle" =>
        /\ recut.todo \cap recut.moved = {}
        /\ \A m \in recut.todo \cup recut.moved : m.row \in items
        /\ \A m, n \in recut.todo \cup recut.moved : m.row = n.row => m = n
Tidy ==
    /\ budget["fault"] = 0 /\ \A p \in DOMAIN files : p.ts <= clock
    /\ OneRowEach /\ FilesFit /\ FilesInHand /\ RoutesFit /\ JobFits

LEMMA TidyInit == ASSUME LabelsInit, load.budget["fault"] = 0 PROVE Tidy
<1>1. files = <<>> /\ DOMAIN files = {}
  BY DEF LabelsInit
<1>2. /\ items = {} /\ recut.pc = "idle" /\ budget["fault"] = 0
      /\ \A s \in Slots : requests[s].pc = "idle"
  BY DEF LabelsInit, Idle, NoJob
<1> QED BY <1>1, <1>2 DEF Tidy, OneRowEach, FilesFit, FilesInHand, RoutesFit, JobFits

(* The setting of a step of such a load. *)
InTurn == Steady /\ FilesOnDisk /\ Tidy /\ load.alone /\ ~load.stale /\ ~load.race /\ [LabelsNext]_labelVars

LEMMA InTurnFacts ==
    ASSUME InTurn
    PROVE  /\ LabelsTyped /\ ~Crash /\ (\A r \in items : OwnsCrop(r) /\ r.ts <= clock)
           /\ \A s \in Slots : Busy(s) => recut.pc = "idle" /\ \A t \in Slots : Busy(t) => s = t
<1>1. budget["fault"] = 0 /\ LabelsTyped
  BY DEF InTurn, Tidy, Steady
<1>2. ~Crash
  BY <1>1, CrashIs
<1> QED BY <1>1, <1>2 DEF InTurn, Steady, Alone, OwnCrops, LabelsTyped, ItemsTyped

LEMMA SwappedAre ==
    ASSUME InTurn, recut.pc # "idle", NEW r \in items
    PROVE  /\ \A m \in Swapped(r) : m \in recut.moved /\ m.row = r
           /\ \A m, n \in Swapped(r) : m = n
<1>1. ASSUME NEW m \in Swapped(r) PROVE m \in recut.moved /\ m.row = r
  <2>1. m \in recut.moved /\ r.crop = m.row.crop
    BY DEF Swapped, Swaps
  <2>2. OwnsMove(m) /\ m.row \in items
    BY <2>1 DEF InTurn, Steady, OwnCrops, Tidy, JobFits
  <2>3. r.fid = m.row.fid /\ r.ts = m.row.ts
    BY <2>1, <2>2, InTurnFacts DEF OwnsMove, OwnsCrop
  <2> QED BY <2>1, <2>2, <2>3 DEF InTurn, Tidy, OneRowEach
<1> QED BY <1>1 DEF InTurn, Tidy, JobFits

(* A route that inserts is the only one, and no job runs beside it. *)
LEMMA OneRowEachStep == ASSUME InTurn PROVE OneRowEach'
<1> SUFFICES ASSUME NEW x \in items', NEW y \in items', x.fid = y.fid, x.ts = y.ts PROVE x = y
  BY DEF OneRowEach
<1>1. LabelsTyped /\ [LabelsNext]_labelVars /\ OneRowEach /\ RoutesFit
  BY InTurnFacts DEF InTurn, Tidy
<1>2. CASE WriteBatch
  <2>1. recut.pc = "move" /\ recut.pc # "idle"
    BY <1>1, <1>2, WriteBatchIs
  <2>2. ASSUME NEW z \in items'
        PROVE  \E r \in items : /\ z.fid = r.fid /\ z.ts = r.ts
                                /\ \/ z = r /\ Swapped(r) = {}
                                   \/ \E m \in Swapped(r) : z = Moved(r, m)
    <3>1. CASE z \in items /\ Swapped(z) = {}
      BY <3>1
    <3>2. CASE \E r \in items : \E m \in Swapped(r) : z = Moved(r, m)
      <4> PICK r \in items : \E m \in Swapped(r) : z = Moved(r, m)
        BY <3>2
      <4> PICK m \in Swapped(r) : z = Moved(r, m)
        OBVIOUS
      <4>1. m \in recut.moved
        BY DEF Swapped
      <4> QED BY <1>1, <2>1, <4>1, MovedIs
    <3> QED BY <1>1, <1>2, <3>1, <3>2, WriteBatchIs
  <2>3. PICK r \in items : /\ x.fid = r.fid /\ x.ts = r.ts
                           /\ \/ x = r /\ Swapped(r) = {}
                              \/ \E m \in Swapped(r) : x = Moved(r, m)
    BY <2>2
  <2>4. PICK u \in items : /\ y.fid = u.fid /\ y.ts = u.ts
                           /\ \/ y = u /\ Swapped(u) = {}
                              \/ \E m \in Swapped(u) : y = Moved(u, m)
    BY <2>2
  <2>5. u = r
    BY <1>1, <2>3, <2>4 DEF OneRowEach
  <2>6. \A m, n \in Swapped(r) : m = n
    BY <2>1, SwappedAre
  <2> QED BY <2>3, <2>4, <2>5, <2>6
<1>3. CASE ~WriteBatch
  <2> DEFINE made(z) == \E s \in Slots : /\ AddRows(s) /\ Busy(s)
                                         /\ \E r \in requests[s].rows :
                                              /\ Fresh(r) /\ z.fid = r.fid /\ z.ts = frames[r.fid].ts
                                              /\ z = InsertOf(requests[s].rows, r)
  <2>1. x \in items \/ made(x)
    BY <1>1, <1>3, CropsFrom
  <2>2. y \in items \/ made(y)
    BY <1>1, <1>3, CropsFrom
  <2>3. \A z \in items' : made(z) => RowOf(z.fid) = {} /\ z.ts = frames[z.fid].ts
    BY DEF Fresh
  <2>4. CASE x \in items /\ y \in items
    BY <1>1, <2>4 DEF OneRowEach
  <2>5. CASE x \in items /\ made(y)
    <3> HIDE DEF made
    <3>1. RowOf(y.fid) = {} /\ y.ts = frames[y.fid].ts
      BY <2>3, <2>5
    <3> QED BY <2>5, <3>1 DEF RowOf
  <2>6. CASE made(x) /\ y \in items
    <3> HIDE DEF made
    <3>1. RowOf(x.fid) = {} /\ x.ts = frames[x.fid].ts
      BY <2>3, <2>6
    <3> QED BY <2>6, <3>1 DEF RowOf
  <2>7. CASE made(x) /\ made(y)
    <3>1. PICK s \in Slots : /\ AddRows(s) /\ Busy(s)
                             /\ \E r \in requests[s].rows : x.fid = r.fid /\ x = InsertOf(requests[s].rows, r)
      BY <2>7
    <3>2. PICK t \in Slots : /\ Busy(t)
                             /\ \E r \in requests[t].rows : y.fid = r.fid /\ y = InsertOf(requests[t].rows, r)
      BY <2>7
    <3>3. t = s
      BY <3>1, <3>2, InTurnFacts
    <3>4. Fits(requests[s])
      BY <1>1, <3>1, AddRowsIs DEF RoutesFit
    <3> QED BY <3>1, <3>2, <3>3, <3>4 DEF Fits
  <2> QED BY <2>1, <2>2, <2>4, <2>5, <2>6, <2>7
<1> QED BY <1>2, <1>3

LEMMA FilesFitStep == ASSUME InTurn PROVE FilesFit'
<1> SUFFICES ASSUME NEW p \in DOMAIN files', NEW x \in items', x.fid = p.fid, x.ts = p.ts
             PROVE  x.crop # NULL /\ p.cat = x.crop.cat /\ CutAt(p, x.box)'
  BY DEF FilesFit
<1>1. /\ LabelsTyped /\ [LabelsNext]_labelVars /\ OneRowEach /\ FilesFit /\ FilesInHand /\ RoutesFit
      /\ JobFits /\ HeldRoutes /\ OwnCrops
  BY InTurnFacts DEF InTurn, Tidy, Steady
<1>2. CASE x \in items
  <2>1. CASE p \in DOMAIN files /\ files'[p] = files[p]
    BY <1>1, <1>2, <2>1 DEF FilesFit, CutAt
  <2>2. ASSUME NEW s \in Slots, CutFrame(s), Busy(s), NEW i \in DOMAIN requests[s].sources,
               HasJpeg(i, requests[s].sources[i]), p = PathOf(requests[s], i)
        PROVE  FALSE
    <3>1. requests[s].pc = "cut" /\ i \in DOMAIN requests[s].wants
      BY <1>1, <2>2, CutFrameIs, RouteIs DEF Formed
    <3>2. i \in Undecided
      BY <1>1, <2>2, <3>1 DEF RoutesFit, Fits, HasJpeg
    <3>3. x.fid = i /\ x.ts = frames[i].ts
      BY <2>2 DEF PathOf, Path, HasJpeg
    <3> QED BY <1>2, <3>2, <3>3 DEF Undecided, RowOf
  <2>3. ASSUME recut.pc # "idle", NEW m \in recut.todo, m.how # "relink", Movable(m),
               p = m.to, files'[p] = Pixels(m)
        PROVE  x.crop # NULL /\ p.cat = x.crop.cat /\ CutAt(p, x.box)'
    <3>1. OwnsMove(m) /\ m.row \in items
      BY <1>1, <2>3 DEF OwnCrops, JobFits
    <3>2. p.cat = m.row.crop.cat /\ p.fid = m.row.fid /\ p.ts = m.row.ts /\ m.row.crop # NULL
      BY <2>3, <3>1 DEF OwnsMove, ToOf, Path
    <3>3. x = m.row
      BY <1>1, <1>2, <3>1, <3>2 DEF OneRowEach
    <3>4. \A g \in Twins(recut.target) :
            m.how = "copy" /\ m.from = ToOf(m.row, g) => CutAt(m.from, m.row.box)
      <4> SUFFICES ASSUME NEW g \in Twins(recut.target), m.how = "copy", m.from = ToOf(m.row, g)
                   PROVE  CutAt(m.from, m.row.box)
        OBVIOUS
      <4>1. m.from \in DOMAIN files /\ m.from.fid = m.row.fid /\ m.from.ts = m.row.ts
        BY <2>3 DEF Movable, ToOf, Path
      <4> QED BY <1>1, <3>1, <4>1 DEF FilesFit
    <3>5. Pixels(m) = [ts |-> m.to.ts, box |-> m.row.box, margin |-> Margin(m.to.geometry)]
      BY <2>3, <3>4, MovedPixels DEF InTurn
    <3> QED BY <2>3, <3>2, <3>3, <3>5 DEF CutAt
  <2> QED BY <1>1, <2>1, <2>2, <2>3, FilesFrom
<1>3. ASSUME UNCHANGED files, NEW s \in Slots, AddRows(s), Busy(s), NEW r \in requests[s].rows, Fresh(r),
             x.fid = r.fid, x.crop = r.crop, x.box = r.box, x.ts = frames[r.fid].ts
      PROVE  x.crop # NULL /\ p.cat = x.crop.cat /\ CutAt(p, x.box)'
  <2>1. p \in DOMAIN files /\ HasJpeg(p.fid, p.ts) /\ RowOf(p.fid) = {}
    BY <1>3 DEF Fresh, HasJpeg
  <2>2. PICK t \in Slots : InHand(requests[t], p)
    BY <1>1, <2>1 DEF FilesInHand
  <2>3. t = s /\ requests[s].pc = "add"
    BY <1>1, <1>3, <2>2, InTurnFacts, AddRowsIs DEF InHand, Busy
  <2>4. PICK r2 \in requests[s].rows : r2.crop = p /\ CutAt(p, r2.box)
    BY <2>2, <2>3 DEF InHand
  <2>5. p # NULL
    BY <1>1, <2>1, NullAssumption DEF LabelsTyped, FilesTyped
  <2>6. r2.fid = r.fid
    BY <1>1, <1>3, <2>4, <2>5 DEF HeldRoutes, Held
  <2>7. r2 = r
    BY <1>1, <2>3, <2>6 DEF RoutesFit, Fits
  <2> QED BY <1>3, <2>4, <2>5, <2>7 DEF CutAt
<1>4. ASSUME UNCHANGED files, recut.pc = "move", NEW r \in items, NEW m \in Swapped(r),
             m \in recut.moved, x.fid = r.fid, x.ts = r.ts, x.box = r.box, x.crop = m.to
      PROVE  x.crop # NULL /\ p.cat = x.crop.cat /\ CutAt(p, x.box)'
  <2>1. r.crop # NULL /\ p.cat = r.crop.cat /\ CutAt(p, r.box)
    BY <1>1, <1>4 DEF FilesFit
  <2>2. m.to \in Paths /\ OwnsMove(m) /\ m.row = r
    BY <1>1, <1>4, JobIs, SwappedAre DEF OwnCrops, Planned
  <2>3. m.to # NULL /\ m.to.cat = r.crop.cat
    BY <2>2, NullAssumption DEF OwnsMove, ToOf, Path
  <2> QED BY <1>4, <2>1, <2>3 DEF CutAt
<1> QED BY <1>1, <1>2, <1>3, <1>4, CropsFrom

LEMMA JobFitsStep == ASSUME InTurn PROVE JobFits'
<1>1. LabelsTyped /\ [LabelsNext]_labelVars /\ JobFits /\ OwnCrops
  BY InTurnFacts DEF InTurn, Tidy, Steady
<1>2. CASE UNCHANGED <<recut, items>>
  BY <1>1, <1>2 DEF JobFits
<1>3. CASE recut'.pc = "idle"
  BY <1>3 DEF JobFits
<1>4. CASE \E s \in Slots : Route(s)
  <2> PICK s \in Slots : Route(s)
    BY <1>4
  <2>1. CASE Asks(s)
    BY <1>1, <1>2, <2>1, AsksIs
  <2>2. CASE ~Asks(s)
    <3>1. Busy(s) /\ UNCHANGED recut
      BY <1>1, <2>2, RouteSteps
    <3>2. recut.pc = "idle"
      BY <3>1, InTurnFacts
    <3> QED BY <1>3, <3>1, <3>2
  <2> QED BY <2>1, <2>2
<1>5. CASE \E target \in load.targets : StartRecut(target)
  BY <1>1, <1>5, StartRecutIs DEF JobFits
<1>6. CASE PlanRecut
  <2>1. /\ recut.pc = "plan" /\ recut'.pc = "move" /\ recut'.moved = {} /\ UNCHANGED items
        /\ recut'.todo = UNION {Moves(r, recut.target) : r \in {r2 \in items : r2.crop # NULL}}
        /\ recut.target \in Geometries
    BY <1>1, <1>6, PlanRecutIs, JobIs DEF JobFits
  <2>2. ASSUME NEW m \in recut'.todo PROVE m.row \in items /\ m \in Moves(m.row, recut.target)
                                            /\ m.row \in Items /\ m.row.crop \in Paths
    <3>1. PICK r \in items : r.crop # NULL /\ m \in Moves(r, recut.target)
      BY <2>1
    <3>2. r \in Items /\ r.crop \in Paths
      BY <1>1, <3>1 DEF LabelsTyped, ItemsTyped, Items
    <3>3. m.row = r
      BY <2>1, <3>1, <3>2, MovesAre
    <3> QED BY <3>1, <3>2, <3>3
  <2>3. ASSUME NEW m \in recut'.todo, NEW n \in recut'.todo, m.row = n.row PROVE m = n
    <3> PICK r \in Items : r = m.row /\ r = n.row /\ r.crop \in Paths
      BY <2>2, <2>3
    <3>1. m \in Moves(r, recut.target) /\ n \in Moves(r, recut.target)
      BY <2>2
    <3> QED BY <2>1, <3>1, MovesAre
  <2> QED BY <2>1, <2>2, <2>3 DEF JobFits
<1>7. CASE MoveOne
  <2>1. /\ recut.pc = "move" /\ recut'.pc = "move" /\ UNCHANGED items /\ NextMove \in recut.todo
        /\ recut'.todo = recut.todo \ {NextMove}
        /\ recut'.moved = recut.moved \/ recut'.moved = recut.moved \cup {NextMove}
    BY <1>1, <1>7, MoveOneIs
  <2>2. recut'.todo \cup recut'.moved \subseteq recut.todo \cup recut.moved
    BY <2>1
  <2>3. recut'.todo \cap recut'.moved = {}
    BY <1>1, <2>1 DEF JobFits
  <2> QED BY <1>1, <2>1, <2>2, <2>3 DEF JobFits
<1>8. CASE WriteBatch
  <2>1. recut.pc = "move" /\ recut.pc # "idle" /\ \A r \in items : Swapped(r) = {} => r \in items'
    BY <1>1, <1>8, WriteBatchIs
  <2>2. CASE recut' = NoJob
    BY <1>3, <2>2 DEF NoJob
  <2>3. CASE recut'.pc = "move" /\ recut'.todo = recut.todo /\ recut'.moved = {}
    <3>1. ASSUME NEW m \in recut.todo PROVE m.row \in items'
      <4>1. m.row \in items /\ m \notin recut.moved
        BY <1>1, <2>1 DEF JobFits
      <4>2. \A n \in Swapped(m.row) : n \in recut.moved /\ n.row = m.row
        BY <2>1, <4>1, SwappedAre
      <4>3. Swapped(m.row) = {}
        BY <1>1, <2>1, <4>1, <4>2 DEF JobFits
      <4> QED BY <2>1, <4>1, <4>3
    <3> QED BY <1>1, <2>1, <2>3, <3>1 DEF JobFits
  <2> QED BY <1>1, <1>8, <2>2, <2>3, WriteBatchIs
<1>9. CASE NothingToMove \/ CancelRecut
  BY <1>1, <1>9, JobEndsIs DEF JobFits, NoJob
<1>10. CASE Arrive \/ Evict \/ Clear
  BY <1>1, <1>2, <1>10, ArriveIs, EvictIs, ClearIs
<1>11. CASE (\E i \in Live : Redetect(i)) \/ (\E v : SetGeometry(v))
  BY <1>1, <1>2, <1>11, RedetectIs, SetGeometryIs
<1>12. CASE \/ \E lo, hi \in 1..load.frames : Flag(lo, hi)
            \/ (\E lo, hi \in 1..load.frames : Unmark(lo, hi)) \/ (\E f \in flags : Dismiss(f))
  BY <1>1, <1>2, <1>12, FlagIs, UnmarksIs
<1>13. CASE UNCHANGED labelVars
  BY <1>2, <1>13 DEF labelVars
<1> QED BY <1>1, <1>4, <1>5, <1>6, <1>7, <1>8, <1>9, <1>10, <1>11, <1>12, <1>13, LabelsSteps, InTurnFacts

(* The recv_ts of a file is one that was given out. *)
LEMMA FilesOldStep == ASSUME InTurn PROVE \A p \in DOMAIN files' : p.ts <= clock'
<1>1. LabelsTyped /\ [LabelsNext]_labelVars /\ JobFits /\ OwnCrops /\ \A p \in DOMAIN files : p.ts <= clock
  BY InTurnFacts DEF InTurn, Tidy, Steady
<1>2. /\ clock \in Nat /\ clock' \in Nat
      /\ \A i \in Live : frames[i].ts <= clock
  BY <1>1, LabelsTypeStep, LiveTyped, LiveTypedNext DEF LabelsTyped, FramesTyped
<1>3. clock <= clock'
  <2>1. CASE Arrive
    BY <1>1, <1>2, <2>1, ArriveIs
  <2>2. CASE UNCHANGED clock
    BY <1>2, <2>2
  <2>3. CASE Evict \/ Clear \/ (\E i \in Live : Redetect(i)) \/ (\E v : SetGeometry(v))
    BY <1>1, <2>2, <2>3, EvictIs, ClearIs, RedetectIs, SetGeometryIs
  <2>4. CASE \/ \E lo, hi \in 1..load.frames : Flag(lo, hi)
             \/ (\E lo, hi \in 1..load.frames : Unmark(lo, hi)) \/ (\E f \in flags : Dismiss(f))
    BY <1>1, <2>2, <2>4, FlagIs, UnmarksIs
  <2>5. CASE (\E target \in load.targets : StartRecut(target)) \/ PlanRecut \/ MoveOne
    BY <1>1, <2>2, <2>5, StartRecutIs, PlanRecutIs, MoveOneIs
  <2>6. CASE WriteBatch \/ NothingToMove \/ CancelRecut
    BY <1>1, <2>2, <2>6, WriteBatchIs, JobEndsIs
  <2>7. CASE \E s \in Slots : Route(s)
    BY <1>1, <2>2, <2>7, RouteSteps
  <2>8. CASE UNCHANGED labelVars
    BY <2>2, <2>8 DEF labelVars
  <2> QED BY <1>1, <2>1, <2>3, <2>4, <2>5, <2>6, <2>7, <2>8, LabelsSteps, InTurnFacts
<1>4. ASSUME NEW p \in DOMAIN files' PROVE p.ts \in Nat /\ p.ts <= clock
  <2>1. p \in Paths /\ p.ts \in Nat
    BY <1>1, LabelsTypeStep, MaxTimeAssumption DEF LabelsTyped, FilesTyped, Paths, FrameIds
  <2>2. CASE p \in DOMAIN files
    BY <1>1, <2>1, <2>2
  <2>3. ASSUME NEW s \in Slots, NEW i \in DOMAIN requests[s].sources,
               HasJpeg(i, requests[s].sources[i]), p = PathOf(requests[s], i)
        PROVE  p.ts <= clock
    BY <1>2, <2>3 DEF HasJpeg, PathOf, Path
  <2>4. ASSUME recut.pc # "idle", NEW m \in recut.todo, p = m.to PROVE p.ts <= clock
    <3>1. m.row \in items /\ OwnsMove(m)
      BY <1>1, <2>4 DEF JobFits, OwnCrops
    <3>2. p.ts = m.row.ts
      BY <2>4, <3>1 DEF OwnsMove, ToOf, Path
    <3> QED BY <3>1, <3>2, InTurnFacts
  <2> QED BY <1>1, <2>1, <2>2, <2>3, <2>4, FilesFrom
<1> QED BY <1>2, <1>3, <1>4

LEMMA RoutesFitStep == ASSUME InTurn PROVE RoutesFit'
<1> SUFFICES ASSUME NEW s \in Slots, requests'[s].pc \in {"span", "read", "cut", "add"}
             PROVE  Fits(requests[s])'
  BY DEF RoutesFit
<1>1. /\ LabelsTyped /\ [LabelsNext]_labelVars /\ RoutesFit /\ FilesOnDisk /\ HeldRoutes
      /\ ~load.race /\ ~load.stale
  BY InTurnFacts DEF InTurn, Tidy, Steady
<1>2. ASSUME requests'[s] = requests[s] PROVE Fits(requests[s])'
  <2>1. Busy(s) /\ Fits(requests[s]) /\ Held(requests[s])
    BY <1>1, <1>2 DEF Busy, RoutesFit, HeldRoutes
  <2>2. recut.pc = "idle" /\ \A t \in Slots : Busy(t) => t = s
    BY <2>1, InTurnFacts
  <2>3. ~AddRows(s)
    BY <1>1, <1>2, AddRowsIs DEF Busy
  <2>4. items' \subseteq items
    BY <1>1, <2>2, <2>3, CropsFrom
  <2>5. \A i \in DOMAIN requests[s].wants \cap Live' : i \in Live /\ frames'[i].ts = frames[i].ts
    BY <1>1, <2>1, StableStep DEF Held, Stable
  <2>6. \A i \in DOMAIN requests[s].wants \cap Live' : i \in Undecided'
    BY <2>1, <2>4, <2>5 DEF Fits, Undecided, RowOf
  <2> QED BY <1>2, <2>1, <2>6 DEF Fits
<1>3. CASE UNCHANGED requests
  BY <1>2, <1>3
<1>4. ASSUME NEW t \in Slots, Route(t), t # s PROVE Fits(requests[s])'
  BY <1>1, <1>2, <1>4, RouteSteps DEF Others
<1>5. ASSUME UNCHANGED <<frames, items>>
      PROVE  Live' = Live /\ Undecided' = Undecided
  BY <1>5 DEF Live, Undecided, RowOf
<1>6. CASE Asks(s)
  <2>1. PICK op \in Ops, kind \in Kinds, cat \in Cats, S \in SUBSET Live :
            S \subseteq Offered(op) /\ requests'[s] = Request(op, kind, cat, S)
    BY <1>1, <1>6, AsksIs
  <2> DEFINE q == Request(op, kind, cat, S)
  <2>2. /\ q.pc = (IF op \in {"relabel", "undo"} THEN "delete" ELSE IF op = "ignore" THEN "add"
                  ELSE IF op = "confirm" THEN "span" ELSE "read")
        /\ DOMAIN q.wants = S
        /\ \A r1, r2 \in q.rows : r1.fid = r2.fid => r1 = r2
    BY <1>1, RequestIs
  <2> HIDE DEF q
  <2>3. op \notin {"relabel", "undo"} /\ q.pc # "cut"
    BY <2>1, <2>2 DEF q
  <2>4. S \subseteq Undecided
    BY <1>1, <2>1, <2>3 DEF Offered
  <2>5. UNCHANGED <<frames, items>>
    BY <1>1, <1>6, AsksIs
  <2>6. Live' = Live /\ Undecided' = Undecided
    BY <1>5, <2>5
  <2> QED BY <2>1, <2>2, <2>3, <2>4, <2>6 DEF Fits, q
<1>7. CASE ReadSpan(s)
  <2>1. /\ UNCHANGED <<frames, items>> /\ DOMAIN requests'[s].wants = Undecided
        /\ requests'[s].rows = requests[s].rows /\ requests'[s].pc = "read" /\ requests[s].pc = "span"
    BY <1>1, <1>7, ReadSpanIs
  <2>2. requests[s].rows = {}
    BY <1>1, <2>1, RouteIs DEF Formed, Busy
  <2>3. Undecided' = Undecided
    BY <1>5, <2>1
  <2> QED BY <2>1, <2>2, <2>3 DEF Fits
<1>8. CASE Unlink(s)
  <2>1. /\ UNCHANGED <<frames, items>> /\ requests[s].pc = "unlink" /\ requests'[s].pc = "read"
        /\ requests'[s].rows = requests[s].rows /\ requests'[s].wants = requests[s].wants
    BY <1>1, <1>8, UnlinkIs DEF Busy
  <2>2. requests[s].rows = {}
    BY <1>1, <2>1, RouteIs DEF Formed, Busy
  <2>3. \A i \in DOMAIN requests[s].wants : RowOf(i) = {}
    BY <1>1, <2>1 DEF FilesOnDisk, RowOf
  <2>4. Undecided' = Undecided /\ Live' = Live
    BY <1>5, <2>1
  <2>5. DOMAIN requests[s].wants \cap Live \subseteq Undecided
    BY <2>3 DEF Undecided
  <2> QED BY <2>1, <2>2, <2>4, <2>5 DEF Fits
<1>9. CASE ReadSources(s)
  <2>1. /\ UNCHANGED <<frames, items>> /\ requests[s].pc = "read"
        /\ requests'[s].wants = requests[s].wants
        /\ \/ /\ requests'[s].pc = "add"
              /\ requests'[s].rows = CroplessOf(DOMAIN requests[s].wants, requests[s].kind)
           \/ requests'[s].pc = "cut" /\ requests'[s].rows = requests[s].rows
    BY <1>1, <1>9, ReadSourcesIs
  <2>2. /\ requests[s].rows = {} /\ DOMAIN requests[s].wants \in SUBSET FrameIds
        /\ requests[s].kind \in Kinds
    BY <1>1, <2>1, RouteIs DEF Formed, Busy, Routes
  <2>3. /\ \A r1, r2 \in requests'[s].rows : r1.fid = r2.fid => r1 = r2
        /\ requests'[s].pc = "cut" => requests'[s].rows = {}
    BY <2>1, <2>2, CroplessIs
  <2>4. Undecided' = Undecided /\ Live' = Live
    BY <1>5, <2>1
  <2>5. Fits(requests[s])
    BY <1>1, <2>1 DEF RoutesFit
  <2> QED BY <2>1, <2>3, <2>4, <2>5 DEF Fits
<1>10. CASE CutFrame(s)
  <2>1. /\ UNCHANGED <<frames, items>> /\ requests[s].pc = "cut"
        /\ requests'[s].wants = requests[s].wants
        /\ \E i \in DOMAIN requests[s].sources :
             /\ DOMAIN requests'[s].sources = DOMAIN requests[s].sources \ {i}
             /\ \/ requests'[s].rows = requests[s].rows \cup {PreparedFor(requests[s], i)}
                \/ requests'[s].rows = requests[s].rows
    BY <1>1, <1>10, CutFrameIs
  <2>2. PICK i \in DOMAIN requests[s].sources :
             /\ DOMAIN requests'[s].sources = DOMAIN requests[s].sources \ {i}
             /\ \/ requests'[s].rows = requests[s].rows \cup {PreparedFor(requests[s], i)}
                \/ requests'[s].rows = requests[s].rows
    BY <2>1
  <2> PICK x : x = PreparedFor(requests[s], i)
    OBVIOUS
  <2>3. x.fid = i
    BY DEF PreparedFor
  <2>4. Undecided' = Undecided /\ Live' = Live
    BY <1>5, <2>1
  <2>5. Fits(requests[s])
    BY <1>1, <2>1 DEF RoutesFit
  <2>6. \A r \in requests[s].rows : r.fid # i /\ r.fid \notin DOMAIN requests[s].sources
    BY <2>1, <2>5 DEF Fits
  <2>7. /\ \A r1, r2 \in requests'[s].rows : r1.fid = r2.fid => r1 = r2
        /\ \A r \in requests'[s].rows : r.fid \notin DOMAIN requests'[s].sources
    BY <2>2, <2>3, <2>5, <2>6 DEF Fits
  <2> QED BY <2>1, <2>4, <2>5, <2>7 DEF Fits
<1>11. CASE CutAll(s)
  <2>1. /\ UNCHANGED <<frames, items>> /\ requests[s].pc = "cut" /\ requests'[s].pc = "add"
        /\ requests'[s].wants = requests[s].wants /\ requests'[s].rows = requests[s].rows
    BY <1>1, <1>11, CutAllIs
  <2>2. Undecided' = Undecided /\ Live' = Live
    BY <1>5, <2>1
  <2>3. Fits(requests[s])
    BY <1>1, <2>1 DEF RoutesFit
  <2> QED BY <2>1, <2>2, <2>3 DEF Fits
<1>12. CASE DeleteRows(s) \/ AddRows(s) \/ ClearFlags(s)
  BY <1>1, <1>12, DeleteRowsIs, AddRowsIs, ClearFlagsIs DEF Busy
<1>13. CASE Route(s)
  BY <1>1, <1>6, <1>7, <1>8, <1>9, <1>10, <1>11, <1>12, <1>13, RouteSteps
<1> QED BY <1>1, <1>3, <1>4, <1>13, AroundIs, InTurnFacts

(* A step around the routes gives no old file a frame of its own. *)
LEMMA HandsAround ==
    ASSUME InTurn, UNCHANGED <<items, files, requests>>,
           \A i \in Live' : \/ i \in Live /\ frames'[i].ts = frames[i].ts
                            \/ frames'[i].ts > clock
    PROVE  FilesInHand'
<1> SUFFICES ASSUME NEW p \in DOMAIN files', HasJpeg(p.fid, p.ts)', RowOf(p.fid)' = {}
             PROVE  \E s \in Slots : InHand(requests[s], p)'
  BY DEF FilesInHand
<1>1. /\ p \in DOMAIN files /\ p.ts <= clock /\ p.ts \in Nat /\ clock \in Nat /\ FilesInHand
  BY LiveTyped, MaxTimeAssumption DEF InTurn, Tidy, Steady, LabelsTyped, FilesTyped, Paths, FrameIds
<1>2. HasJpeg(p.fid, p.ts) /\ RowOf(p.fid) = {}
  BY <1>1 DEF HasJpeg, RowOf
<1>3. PICK s \in Slots : InHand(requests[s], p)
  BY <1>1, <1>2 DEF FilesInHand
<1> QED BY <1>3 DEF InHand, CutAt

LEMMA FilesInHandStep == ASSUME InTurn PROVE FilesInHand'
<1>1. /\ LabelsTyped /\ [LabelsNext]_labelVars /\ OneRowEach /\ FilesFit /\ FilesInHand /\ RoutesFit
      /\ JobFits /\ HeldRoutes /\ OwnCrops /\ load.alone
  BY InTurnFacts DEF InTurn, Tidy, Steady
<1>2. CASE Arrive
  <2>1. /\ UNCHANGED <<items, files, requests>> /\ Live' = Live \cup {Last(Live) + 1}
        /\ frames'[Last(Live) + 1].ts = clock + 1 /\ \A i \in Live : frames'[i] = frames[i]
    BY <1>1, <1>2, ArriveIs
  <2>2. clock \in Nat
    BY <1>1, LiveTyped
  <2>3. clock + 1 > clock
    BY <2>2
  <2> QED BY <2>1, <2>3, HandsAround
<1>3. CASE Evict \/ Clear \/ (\E i \in Live : Redetect(i))
  <2>1. /\ UNCHANGED <<items, files, requests>>
        /\ \A i \in Live' : i \in Live /\ frames'[i].ts = frames[i].ts
    BY <1>1, <1>3, EvictIs, ClearIs, RedetectIs
  <2> QED BY <2>1, HandsAround
<1>4. ASSUME UNCHANGED frames PROVE FilesInHand'
  <2> SUFFICES ASSUME NEW p \in DOMAIN files', HasJpeg(p.fid, p.ts)', RowOf(p.fid)' = {}
               PROVE  \E s \in Slots : InHand(requests[s], p)'
    BY DEF FilesInHand
  <2>1. HasJpeg(p.fid, p.ts) /\ p.fid \in Live /\ frames[p.fid].ts = p.ts /\ frames'[p.fid].ts = p.ts
    BY <1>4 DEF HasJpeg, Live
  <2>2. \A x \in items' : ~(x.fid = p.fid /\ x.ts = p.ts)
    BY <2>1 DEF RowOf
  <2>3. CASE p \in DOMAIN files /\ files'[p] = files[p]
    <3>1. CASE RowOf(p.fid) = {}
      <4>1. PICK s \in Slots : InHand(requests[s], p)
        BY <1>1, <2>1, <2>3, <3>1 DEF FilesInHand
      <4>2. Busy(s)
        BY <4>1 DEF InHand, Busy
      <4>3. recut.pc = "idle" /\ \A t \in Slots : Busy(t) => t = s
        BY <4>2, InTurnFacts
      <4>4. CASE UNCHANGED requests
        BY <2>3, <4>1, <4>4 DEF InHand, CutAt
      <4>5. ASSUME NEW t \in Slots, Route(t) PROVE t = s /\ ~Asks(s)
        <5>1. ~Asks(t)
          BY <1>1, <4>2, AsksIs DEF NothingRuns, NoRoute, Busy
        <5> QED BY <1>1, <4>3, <4>5, <5>1, RouteSteps
      <4>6. CASE Unlink(s)
        <5>1. /\ requests[s].pc = "unlink" /\ p \notin UNION {Variants(r) : r \in requests[s].removed}
              /\ Held(requests[s])
          BY <1>1, <4>2, <4>6, UnlinkIs DEF HeldRoutes
        <5>2. PICK r \in requests[s].removed : r.crop # NULL /\ p.cat = r.crop.cat /\ p.fid = r.fid /\ p.ts = r.ts
          BY <4>1, <5>1 DEF InHand
        <5>3. p \in Variants(r)
          BY <2>3, <5>1, <5>2 DEF Held, OwnsCrop, Variants
        <5> QED BY <5>1, <5>3
      <4>7. CASE CutFrame(s)
        <5>1. /\ requests[s].pc = "cut" /\ requests'[s].pc = "cut"
              /\ \E i \in DOMAIN requests[s].sources :
                    \/ requests'[s].rows = requests[s].rows \cup {PreparedFor(requests[s], i)}
                    \/ requests'[s].rows = requests[s].rows
          BY <1>1, <4>7, CutFrameIs
        <5> QED BY <2>3, <4>1, <5>1 DEF InHand, CutAt
      <4>8. CASE CutAll(s)
        <5>1. /\ requests[s].pc = "cut" /\ requests'[s].pc = "add" /\ requests'[s].rows = requests[s].rows
          BY <1>1, <4>8, CutAllIs
        <5> QED BY <2>3, <4>1, <5>1 DEF InHand, CutAt
      <4>9. CASE AddRows(s)
        <5>1. /\ requests[s].pc = "add" /\ Held(requests[s])
              /\ items' = items \cup Inserted(requests[s].rows)
              /\ requests[s].rows \in SUBSET Prepared /\ IsFiniteSet(requests[s].rows)
          BY <1>1, <4>2, <4>9, AddRowsIs DEF HeldRoutes
        <5>2. PICK r \in requests[s].rows : r.crop = p
          BY <4>1, <5>1 DEF InHand
        <5>3. p # NULL
          BY <1>1, <2>3, NullAssumption DEF LabelsTyped, FilesTyped
        <5>4. r.fid = p.fid
          BY <5>1, <5>2, <5>3 DEF Held
        <5>5. Fresh(r)
          BY <2>1, <3>1, <5>4 DEF Fresh
        <5> PICK x : x = InsertOf(requests[s].rows, r)
          OBVIOUS
        <5>6. x \in items' /\ x.fid = p.fid /\ x.ts = p.ts
          <6>1. x \in Inserted(requests[s].rows)
            BY <1>1, <5>1, <5>5, InsertedIs
          <6>2. x.fid = r.fid /\ x.ts = frames[r.fid].ts
            BY DEF InsertOf
          <6> QED BY <2>1, <5>1, <5>4, <6>1, <6>2
        <5> QED BY <2>2, <5>6
      <4>10. CASE ReadSpan(s) \/ DeleteRows(s) \/ ReadSources(s) \/ ClearFlags(s)
        <5>1. requests[s].pc \notin {"unlink", "cut", "add"}
          BY <1>1, <4>10, ReadSpanIs, DeleteRowsIs, ReadSourcesIs, ClearFlagsIs
        <5> QED BY <4>1, <5>1 DEF InHand
      <4>11. CASE \E t \in Slots : Route(t)
        <5>1. Route(s) /\ ~Asks(s)
          BY <4>5, <4>11
        <5> QED BY <1>1, <4>6, <4>7, <4>8, <4>9, <4>10, <5>1, RouteSteps
      <4> QED BY <1>1, <4>4, <4>11, AroundIs, InTurnFacts
    <3>2. CASE RowOf(p.fid) # {}
      <4>1. PICK r \in items : r.fid = p.fid /\ r.ts = p.ts
        BY <2>1, <3>2 DEF RowOf
      <4>2. ~\E x \in items' : Decision(x) = Decision(r)
        BY <2>2, <4>1 DEF Decision
      <4>3. PICK s \in Slots : DeleteRows(s)
        BY <1>1, <4>2, ItemsStay
      <4>4. /\ requests'[s].pc = "unlink" /\ items' = items \ requests'[s].removed
        BY <1>1, <4>3, DeleteRowsIs
      <4>5. r \in requests'[s].removed
        BY <2>2, <4>1, <4>4
      <4>6. r.crop # NULL /\ p.cat = r.crop.cat
        BY <1>1, <2>3, <4>1 DEF FilesFit
      <4> QED BY <4>1, <4>4, <4>5, <4>6 DEF InHand
    <3> QED BY <3>1, <3>2
  <2>4. ASSUME NEW s \in Slots, CutFrame(s), NEW i \in DOMAIN requests[s].sources,
               p = PathOf(requests[s], i), files'[p] = CropOf(requests[s], i),
               requests'[s].rows = requests[s].rows \cup {PreparedFor(requests[s], i)}
        PROVE  InHand(requests[s], p)'
    <3>1. requests'[s].pc = "cut"
      BY <1>1, <2>4, CutFrameIs
    <3> PICK x : x = PreparedFor(requests[s], i)
      OBVIOUS
    <3>2. x.crop = p /\ x.box = requests[s].wants[i] /\ x \in requests'[s].rows
      BY <2>4 DEF PreparedFor
    <3>3. files'[p] = [ts |-> p.ts, box |-> x.box, margin |-> Margin(p.geometry)]
      BY <2>4, <3>2 DEF CropOf, PathOf, Path
    <3> QED BY <3>1, <3>2, <3>3 DEF InHand, CutAt
  <2>5. ASSUME MoveOne, recut.pc # "idle", NEW m \in recut.todo, p = m.to PROVE FALSE
    <3>1. m.row \in items /\ OwnsMove(m) /\ items' = items
      BY <1>1, <2>5, MoveOneIs DEF JobFits, OwnCrops
    <3>2. p.fid = m.row.fid /\ p.ts = m.row.ts
      BY <2>5, <3>1 DEF OwnsMove, ToOf, Path
    <3> QED BY <2>2, <3>1, <3>2
  <2> QED BY <1>1, <2>3, <2>4, <2>5, FilesFrom
<1>5. CASE (\E s \in Slots : Route(s)) \/ (\E v : SetGeometry(v))
  BY <1>1, <1>4, <1>5, RouteSteps, SetGeometryIs
<1>6. CASE \/ \E lo, hi \in 1..load.frames : Flag(lo, hi)
           \/ (\E lo, hi \in 1..load.frames : Unmark(lo, hi)) \/ (\E f \in flags : Dismiss(f))
  BY <1>1, <1>4, <1>6, FlagIs, UnmarksIs
<1>7. CASE (\E target \in load.targets : StartRecut(target)) \/ PlanRecut \/ MoveOne
  BY <1>1, <1>4, <1>7, StartRecutIs, PlanRecutIs, MoveOneIs
<1>8. CASE WriteBatch \/ NothingToMove \/ CancelRecut
  BY <1>1, <1>4, <1>8, WriteBatchIs, JobEndsIs
<1>9. CASE UNCHANGED labelVars
  BY <1>4, <1>9 DEF labelVars
<1> QED BY <1>1, <1>2, <1>3, <1>5, <1>6, <1>7, <1>8, <1>9, LabelsSteps, InTurnFacts

LEMMA TidyStep == ASSUME InTurn PROVE Tidy'
<1>1. budget'["fault"] = 0
  BY InTurnFacts, LoadKept DEF InTurn, Tidy
<1> QED BY <1>1, OneRowEachStep, FilesFitStep, FilesInHandStep, RoutesFitStep, JobFitsStep, FilesOldStep
        DEF Tidy

(* The file a crop's row names is on disk, cut from the row's frame at its    *)
(* box and its geometry's margin: with undo and re-label one at a time and no *)
(* wipe racing a route, for any number of labellers beside a re-cut while no  *)
(* box moves, and while boxes move for one route or job at a time without a   *)
(* repeated label or a fault.                                                 *)
THEOREM CropsAreTheRows ==
    ASSUME \A l \in Loads :
             /\ ~l.race /\ (Deletes(l) => l.alone)
             /\ l.budget["redetect"] = 0 \/ (l.alone /\ ~l.stale /\ l.budget["fault"] = 0)
    PROVE  LabelsSpec => []CropIsTheRows
<1> DEFINE calm == load.budget["redetect"] = 0
           I == Steady /\ FilesOnDisk /\ (calm => BoxesStill) /\ (~calm => Tidy)
<1>1. LabelsInit => I
  <2>1. LabelsInit => load \in Loads
    BY DEF LabelsInit
  <2> QED BY <2>1, SteadyInit, FilesOnDiskInit, BoxesStillInit, TidyInit
<1>2. I /\ [LabelsNext]_labelVars => I'
  <2> SUFFICES ASSUME I, [LabelsNext]_labelVars PROVE I'
    OBVIOUS
  <2>1. /\ LabelsTyped /\ UNCHANGED load /\ ~load.race /\ (Deletes(load) => load.alone)
        /\ ~calm => load.alone /\ ~load.stale
    BY LoadKept DEF Steady, LabelsTyped, LoadTyped
  <2>2. Steady' /\ FilesOnDisk'
    BY <2>1, SteadyStep, FilesOnDiskStep
  <2>3. calm => BoxesStill'
    BY BoxesStillStep
  <2>4. ~calm => Tidy'
    BY <2>1, TidyStep DEF InTurn
  <2> QED BY <2>1, <2>2, <2>3, <2>4
<1>3. I => CropIsTheRows
  <2> SUFFICES ASSUME I, NEW r \in items, r.crop # NULL
               PROVE  /\ r.crop \in DOMAIN files
                      /\ files[r.crop] = [ts |-> r.ts, box |-> r.box, margin |-> Margin(r.geometry)]
    BY DEF CropIsTheRows
  <2>1. r.crop \in DOMAIN files /\ r.crop.fid = r.fid /\ r.crop.ts = r.ts /\ r.crop.geometry = r.geometry
    BY DEF FilesOnDisk, HasFile, Steady, OwnCrops, OwnsCrop
  <2>2. CutAt(r.crop, r.box)
    BY <2>1 DEF BoxesStill, Tidy, FilesFit
  <2> QED BY <2>1, <2>2 DEF CutAt
<1> HIDE DEF I
<1> QED BY <1>1, <1>2, <1>3, PTL DEF LabelsSpec
=============================================================================
