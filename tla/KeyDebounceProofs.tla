------------------------- MODULE KeyDebounceProofs -------------------------
(***************************************************************************)
(* What debouncing guarantees for every key matrix, every FN mapping and   *)
(* every spacing of the polls: the invariant IInv of KeyDebounce is        *)
(* inductive, and the properties its runs check follow from it.            *)
(***************************************************************************)
EXTENDS KeyDebounce, WellFoundedInduction, TLAPS

\* The intervals the lemmas are about: poll is never called twice in the
\* same millisecond.
Positive == Nat \ {0}

\* The keys at the closed locations are scan codes.
LEMMA BouncyType ==
    ASSUME NEW closed \in SUBSET Locations
    PROVE  Bouncy(closed) \subseteq ScanCodes
BY DEF Bouncy, ScanCodes

\* A change recorded i ms ago is one whose age is i after the shift.
LEMMA ShiftedIsAged ==
    ASSUME TypeOK, ChangesAreAges,
           NEW interval_ms \in Positive,
           NEW k \in ScanCodes, NEW i \in 0..Window-1
    PROVE  k \in Shifted(key_changes, interval_ms)[i]
               <=> age[k] + interval_ms = i
<1>1. age[k] \in 0..Window /\ interval_ms \in Nat /\ interval_ms >= 1
    BY DEF TypeOK, Positive
<1>2. CASE interval_ms >= Window
    <2>1. Shifted(key_changes, interval_ms)[i] = {}
        BY <1>1, <1>2 DEF Shifted, CapAt, Window
    <2>2. age[k] + interval_ms # i
        BY <1>1, <1>2 DEF Window
    <2>. QED  BY <2>1, <2>2
<1>3. CASE ~(interval_ms >= Window) /\ i < interval_ms
    <2>1. Shifted(key_changes, interval_ms)[i] = {}
        BY <1>1, <1>3 DEF Shifted, CapAt, Window
    <2>2. age[k] + interval_ms # i
        BY <1>1, <1>3 DEF Window
    <2>. QED  BY <2>1, <2>2
<1>4. CASE ~(interval_ms >= Window) /\ ~(i < interval_ms)
    <2>1. Shifted(key_changes, interval_ms)[i] = key_changes[i - interval_ms]
        BY <1>1, <1>4 DEF Shifted, CapAt, Window
    <2>2. i - interval_ms \in 0..Window-1
        BY <1>1, <1>4 DEF Window
    <2>3. k \in key_changes[i - interval_ms] <=> age[k] = i - interval_ms
        BY <2>2 DEF ChangesAreAges
    <2>4. age[k] = i - interval_ms <=> age[k] + interval_ms = i
        BY <1>1 DEF Window
    <2>. QED  BY <2>1, <2>3, <2>4
<1>. QED  BY <1>2, <1>3, <1>4

\* A key is blocked exactly while it is younger than the window.
LEMMA BlockedIsYoung ==
    ASSUME TypeOK, ChangesAreAges,
           NEW interval_ms \in Positive, NEW k \in ScanCodes
    PROVE  k \in Blocked(Shifted(key_changes, interval_ms))
               <=> age[k] + interval_ms < Window
<1>1. age[k] \in 0..Window /\ interval_ms \in Nat /\ interval_ms >= 1
    BY DEF TypeOK, Positive
<1>2. k \in Blocked(Shifted(key_changes, interval_ms))
          <=> \E i \in 1..Window-1 : k \in Shifted(key_changes, interval_ms)[i]
    BY Zenon DEF Blocked
<1>3. \A i \in 1..Window-1 :
          k \in Shifted(key_changes, interval_ms)[i] <=> age[k] + interval_ms = i
    BY ShiftedIsAged DEF Window
<1>4. (\E i \in 1..Window-1 : age[k] + interval_ms = i)
          <=> age[k] + interval_ms < Window
    BY <1>1 DEF Window
<1>. QED  BY <1>2, <1>3, <1>4

\* What one poll does to the debounced state of one key.
LEMMA PollOfKey ==
    ASSUME TypeOK, ChangesAreAges,
           NEW interval_ms \in Positive, NEW closed \in SUBSET Locations,
           Debounce(interval_ms, closed),
           NEW k \in ScanCodes
    PROVE  k \in bitmap_debounced' <=>
               IF age[k] + interval_ms < Window THEN k \in bitmap_debounced
                                                ELSE k \in Bouncy(closed)
<1>1. k \in bitmap_debounced' <=>
          k \in Select(Blocked(Shifted(key_changes, interval_ms)),
                       Bouncy(closed), bitmap_debounced)
    BY DEF Debounce
<1>. QED  BY <1>1, BlockedIsYoung DEF Select

\* What poll preserves, part by part: the types,
LEMMA PollPreservesType ==
    ASSUME TypeOK,
           NEW interval_ms \in Positive, NEW closed \in SUBSET Locations,
           poll(interval_ms, closed)
    PROVE  TypeOK'
<1>. USE DEF poll
<1>1. Bouncy(closed) \subseteq ScanCodes
    BY BouncyType
<1>2. (bitmap_debounced \subseteq ScanCodes)'
    BY <1>1 DEF Debounce, Select, TypeOK
<1>3. (key_changes \in [0..Window-1 -> SUBSET ScanCodes])'
    <2>1. Shifted(key_changes, interval_ms) \in [0..Window-1 -> SUBSET ScanCodes]
        BY DEF Shifted, CapAt, TypeOK, Window, Positive
    <2>2. SymmetricDifference(bitmap_debounced', bitmap_debounced)
              \in SUBSET ScanCodes
        BY <1>2 DEF SymmetricDifference, TypeOK
    <2>3. key_changes' = [Shifted(key_changes, interval_ms) EXCEPT ![0] =
              SymmetricDifference(bitmap_debounced', bitmap_debounced)]
        BY DEF Debounce
    <2>. QED  BY <2>1, <2>2, <2>3
<1>4. (pressed \subseteq Locations)'
    BY DEF Observe
<1>5. \A n \in 0..Window : CapAt(n + interval_ms) \in 0..Window
    BY DEF CapAt, Window, Positive
<1>6. (age \in [ScanCodes -> 0..Window])'
    BY <1>5 DEF Observe, TypeOK, Window
<1>7. (held \in [ScanCodes -> 0..Window])'
    BY <1>5 DEF Observe, TypeOK, Window
<1>8. (dwell \in [ScanCodes -> 0..Window])'
    BY <1>5 DEF Observe, TypeOK, Window
<1>. QED  BY <1>2, <1>3, <1>4, <1>6, <1>7, <1>8 DEF TypeOK

\* the agreement of the ring of changes with the age of each key,
LEMMA PollPreservesAges ==
    ASSUME TypeOK, ChangesAreAges,
           NEW interval_ms \in Positive, NEW closed \in SUBSET Locations,
           poll(interval_ms, closed)
    PROVE  ChangesAreAges'
<1>. DEFINE shifted == Shifted(key_changes, interval_ms)
<1>. SUFFICES ASSUME NEW k \in ScanCodes, NEW i \in 0..Window-1
              PROVE  k \in key_changes'[i] <=> age'[k] = i
    BY DEF ChangesAreAges
<1>1. age[k] \in 0..Window /\ interval_ms \in Nat /\ interval_ms >= 1
    BY DEF TypeOK, Positive
<1>2. key_changes' = [shifted EXCEPT ![0] =
          SymmetricDifference(bitmap_debounced', bitmap_debounced)]
    BY DEF poll, Debounce
<1>3. age'[k] = IF (k \in bitmap_debounced') # (k \in bitmap_debounced)
                THEN 0 ELSE CapAt(age[k] + interval_ms)
    BY DEF poll, Observe
<1>4. CASE i = 0
    <2>1. k \in key_changes'[0] <=>
              (k \in bitmap_debounced') # (k \in bitmap_debounced)
        BY <1>2 DEF SymmetricDifference, Shifted, Window
    <2>2. CapAt(age[k] + interval_ms) # 0
        BY <1>1 DEF CapAt, Window
    <2>. QED  BY <1>3, <1>4, <2>1, <2>2
<1>5. CASE i # 0
    <2>1. k \in key_changes'[i] <=> age[k] + interval_ms = i
        <3>1. key_changes'[i] = shifted[i]
            BY <1>2, <1>5 DEF Shifted, Window
        <3>. QED  BY <3>1, ShiftedIsAged
    <2>2. CASE (k \in bitmap_debounced') # (k \in bitmap_debounced)
        <3>1. ~(age[k] + interval_ms < Window)
            BY <2>2, PollOfKey DEF poll
        <3>. QED  BY <1>1, <1>3, <1>5, <2>1, <2>2, <3>1 DEF Window
    <2>3. CASE ~((k \in bitmap_debounced') # (k \in bitmap_debounced))
        BY <1>1, <1>3, <2>1, <2>3 DEF CapAt, Window
    <2>. QED  BY <2>2, <2>3
<1>. QED  BY <1>4, <1>5

\* the least time between two changes of a key,
LEMMA PollPreservesDwell ==
    ASSUME TypeOK, ChangesAreAges, MinDwell,
           NEW interval_ms \in Positive, NEW closed \in SUBSET Locations,
           poll(interval_ms, closed)
    PROVE  MinDwell'
<1>. SUFFICES ASSUME NEW k \in ScanCodes
              PROVE  dwell'[k] >= Window
    BY DEF MinDwell
<1>1. age[k] \in 0..Window /\ interval_ms \in Nat
    BY DEF TypeOK, Positive
<1>2. dwell'[k] = IF (k \in bitmap_debounced') # (k \in bitmap_debounced)
                  THEN CapAt(age[k] + interval_ms) ELSE dwell[k]
    BY DEF poll, Observe
<1>3. CASE (k \in bitmap_debounced') # (k \in bitmap_debounced)
    <2>1. ~(age[k] + interval_ms < Window)
        BY <1>3, PollOfKey DEF poll
    <2>. QED  BY <1>1, <1>2, <1>3, <2>1 DEF CapAt, Window
<1>4. CASE ~((k \in bitmap_debounced') # (k \in bitmap_debounced))
    BY <1>2, <1>4 DEF MinDwell
<1>. QED  BY <1>3, <1>4

\* the youth of what is not debounced yet,
LEMMA PollPreservesPending ==
    ASSUME TypeOK, ChangesAreAges, PendingIsYoung,
           NEW interval_ms \in Positive, NEW closed \in SUBSET Locations,
           poll(interval_ms, closed)
    PROVE  PendingIsYoung'
<1>. SUFFICES ASSUME NEW k \in ScanCodes,
                     (k \in bitmap_debounced') # (k \in Bouncy(pressed'))
              PROVE  age'[k] \in 1..Window-1 /\ held'[k] < age'[k]
    BY DEF PendingIsYoung
<1>1. /\ age[k] \in 0..Window
      /\ held[k] \in 0..Window
      /\ interval_ms \in Nat /\ interval_ms >= 1
    BY DEF TypeOK, Positive
<1>2. pressed' = closed
    BY DEF poll, Observe
<1>3. age[k] + interval_ms < Window /\ (k \in bitmap_debounced' <=> k \in bitmap_debounced)
    BY <1>2, PollOfKey DEF poll
<1>4. age'[k] = age[k] + interval_ms
    BY <1>1, <1>3 DEF poll, Observe, CapAt, Window
<1>5. CASE (k \in Bouncy(closed)) # (k \in Bouncy(pressed))
    <2>1. held'[k] = 0
        BY <1>5 DEF poll, Observe
    <2>. QED  BY <1>1, <1>3, <1>4, <2>1 DEF Window
<1>6. CASE ~((k \in Bouncy(closed)) # (k \in Bouncy(pressed)))
    <2>1. held'[k] = CapAt(held[k] + interval_ms)
        BY <1>6 DEF poll, Observe
    <2>2. held[k] < age[k]
        BY <1>2, <1>3, <1>6 DEF PendingIsYoung
    <2>. QED  BY <1>1, <1>3, <1>4, <2>1, <2>2 DEF CapAt, Window
<1>. QED  BY <1>5, <1>6

\* and the report, which is the mapped debounced state.
LEMMA PollPreservesReported ==
    ASSUME TypeOK, ReportedInSync,
           NEW interval_ms \in Positive, NEW closed \in SUBSET Locations,
           poll(interval_ms, closed)
    PROVE  ReportedInSync'
<1>1. key_changes'[0] = SymmetricDifference(bitmap_debounced', bitmap_debounced)
    BY DEF poll, Debounce, Shifted, Window
<1>2. CASE key_changes'[0] # {}
    BY <1>2 DEF poll, Debounce, ReportedInSync
<1>3. CASE key_changes'[0] = {}
    <2>1. bitmap_debounced' = bitmap_debounced
        BY <1>1, <1>3 DEF SymmetricDifference
    <2>2. reported' = reported
        BY <1>3 DEF poll, Debounce
    <2>. QED  BY <2>1, <2>2 DEF ReportedInSync
<1>. QED  BY <1>2, <1>3

\* The inductive invariant holds at the start,
LEMMA InitIInv == Init => IInv
<1>. SUFFICES ASSUME Init PROVE IInv
    OBVIOUS
<1>1. TypeOK
    BY DEF Init, InitCode, TypeOK, Window
<1>2. ChangesAreAges
    BY DEF Init, InitCode, ChangesAreAges, Window
<1>3. MinDwell
    BY DEF Init, InitCode, MinDwell, Window
<1>4. PendingIsYoung
    BY DEF Init, InitCode, PendingIsYoung, Bouncy
<1>5. ReportedInSync
    BY DEF Init, InitCode, ReportedInSync, Mapped
<1>. QED  BY <1>1, <1>2, <1>3, <1>4, <1>5 DEF IInv

\* and every poll keeps it.
LEMMA NextIInv == IInv /\ [Next]_vars => IInv'
<1>. SUFFICES ASSUME IInv, [Next]_vars PROVE IInv'
    OBVIOUS
<1>1. ASSUME NEW interval_ms \in Intervals, NEW closed \in SUBSET Locations,
             poll(interval_ms, closed)
      PROVE  IInv'
    <2>1. interval_ms \in Positive
        BY DebounceAssumption DEF Positive
    <2>. QED
        BY <1>1, <2>1, PollPreservesType, PollPreservesAges, PollPreservesDwell,
           PollPreservesPending, PollPreservesReported DEF IInv
<1>2. CASE UNCHANGED vars
    BY <1>2 DEF vars, IInv, TypeOK, ChangesAreAges, MinDwell, PendingIsYoung,
                ReportedInSync
<1>. QED  BY <1>1, <1>2 DEF Next

\* Type correctness and the inductive invariant, for every matrix, mapping and
\* set of intervals between polls.
THEOREM DebounceInvariant == Spec => []IInv
BY InitIInv, NextIInv, PTL DEF Spec

\* The debounced state of a key lasts at least the debounce window.
THEOREM DebounceMinDwell == Spec => []MinDwell
<1>1. IInv => MinDwell
    BY DEF IInv
<1>. QED  BY <1>1, DebounceInvariant, PTL

\* Once the scans of a key agree for Window - 1 milliseconds, the debounced
\* state is what they say.
THEOREM DebounceResponsive == Spec => []Responsive
<1>1. IInv => Responsive
    BY DEF IInv, TypeOK, PendingIsYoung, Responsive, Window
<1>. QED  BY <1>1, DebounceInvariant, PTL

\* The reported state is always the mapped debounced state.
THEOREM DebounceReportedInSync == Spec => []ReportedInSync
<1>1. IInv => ReportedInSync
    BY DEF IInv
<1>. QED  BY <1>1, DebounceInvariant, PTL

----------------------------------------------------------------------------
\* Every nonempty set of naturals has a least element: what an induction over
\* the iterations of a loop rests on, as a search for the first bad one.
LEMMA LeastNat ==
    ASSUME NEW S \in SUBSET Nat, S # {}
    PROVE  \E n \in S : \A m \in S : n <= m
<1> DEFINE Less == OpToRel(<, Nat)
<1>1. IsWellFoundedOn(Less, Nat)
    BY NatLessThanWellFounded
<1> HIDE DEF Less
<1>2. PICK n \in S : \A m \in S : ~ (<<m, n>> \in Less)
    BY <1>1, WFMin
<1>3. \A i, j \in Nat : i < j => <<i, j>> \in Less
    BY DEF Less, OpToRel
<1>4. ASSUME NEW m \in S PROVE n <= m
    <2>1. m \in Nat /\ n \in Nat
        OBVIOUS
    <2>2. ~(m < n)
        BY <1>2, <1>3, <2>1
    <2>. QED  BY <2>1, <2>2
<1>. QED  BY <1>4

\* A loop of last iterations over the states in S has a run: the recursive
\* function that describes it exists.
LEMMA LoopExists ==
    ASSUME NEW S, NEW first \in S, NEW last \in Nat,
           NEW body \in [1..last -> [S -> S]]
    PROVE  \E f \in [0..last -> S] :
               f = [n \in 0..last |->
                       IF n = 0 THEN first ELSE body[n][f[n - 1]]]
<1> DEFINE IsRun(f, n) == /\ f \in [0..n -> S]
                          /\ f[0] = first
                          /\ \A i \in 1..n : f[i] = body[i][f[i - 1]]
           Bad == {n \in 0..last : ~ \E f : IsRun(f, n)}
<1>1. Bad = {}
    <2>1. SUFFICES ASSUME Bad # {} PROVE FALSE
        OBVIOUS
    <2>2. Bad \in SUBSET Nat
        OBVIOUS
    <2>3. PICK n \in Bad : \A m \in Bad : n <= m
        <3> HIDE DEF Bad
        <3>. QED  BY <2>1, <2>2, LeastNat
    <2>4. n # 0
        <3>1. IsRun([i \in 0..0 |-> first], 0)
            OBVIOUS
        <3>. QED  BY <3>1, <2>3
    <2>5. n - 1 \in 0..last /\ n - 1 \notin Bad
        <3>1. n \in 0..last
            OBVIOUS
        <3>2. n - 1 \in 0..last /\ ~(n <= n - 1)
            BY <3>1, <2>4
        <3>3. ~(n - 1 \in Bad)
            <4> HIDE DEF Bad
            <4>. QED  BY <2>3, <3>2
        <3>. QED  BY <3>2, <3>3
    <2>6. PICK f : IsRun(f, n - 1)
        BY <2>5
    <2> DEFINE g == [i \in 0..n |-> IF i = n THEN body[n][f[n - 1]] ELSE f[i]]
    <2>7. n \in 1..last /\ f[n - 1] \in S
        BY <2>3, <2>4, <2>6
    <2>8. g \in [0..n -> S]
        BY <2>6, <2>7
    <2>9. g[0] = first
        BY <2>6, <2>7
    <2>10. \A i \in 1..n : g[i] = body[i][g[i - 1]]
        BY <2>6, <2>7
    <2>11. IsRun(g, n)
        BY <2>8, <2>9, <2>10
    <2>. QED  BY <2>3, <2>11
<1>2. PICK f : IsRun(f, last)
    BY <1>1
<1>3. f = [n \in 0..last |-> IF n = 0 THEN first ELSE body[n][f[n - 1]]]
    BY <1>2
<1>. QED  BY <1>2, <1>3

\* What Fn makes of the function keys among some keys.
Replacements(keys) == {FnMapping[n] : n \in {m \in DOMAIN FKeys : FKeys[m] \in keys}}

\* The loop over the function keys replaces all of them at once: a replacement
\* that is a function key itself is one that the loop has passed.
LEMMA MapFKeysReplaces ==
    ASSUME NEW keys
    PROVE  MapFKeys(keys) = (keys \ FunctionKeys) \cup Replacements(keys)
<1> DEFINE last == Len(FKeys)
           States == SUBSET (keys \cup {FnMapping[n] : n \in 1..last})
           body == [n \in 1..last |-> [s \in States |-> MapFKey(s, n)]]
           IsLoop(f) == f = [n \in 0..last |->
                                IF n = 0 THEN keys ELSE MapFKey(f[n - 1], n)]
           mapped == CHOOSE f : IsLoop(f)
<1>1. last \in Nat /\ DOMAIN FKeys = 1..last
    BY DebounceAssumption
<1> HIDE DEF last
<1>2. \E f : IsLoop(f)
    <2>1. body \in [1..last -> [States -> States]] /\ keys \in States
        BY DEF MapFKey
    <2> HIDE DEF body, States
    <2>2. PICK f \in [0..last -> States] :
              f = [n \in 0..last |-> IF n = 0 THEN keys ELSE body[n][f[n - 1]]]
        BY <1>1, <2>1, LoopExists
    <2>3. \A n \in 1..last : body[n][f[n - 1]] = MapFKey(f[n - 1], n)
        <3>1. \A n \in 1..last : f[n - 1] \in States
            BY <1>1, <2>2
        <3>. QED  BY <3>1 DEF body
    <2>4. IsLoop(f)
        BY <1>1, <2>2, <2>3
    <2>. QED  BY <2>4
<1>3. IsLoop(mapped)
    BY <1>2
<1>4. MapFKeys(keys) = mapped[last]
    BY DEF MapFKeys, last
<1>5. /\ mapped[0] = keys
      /\ \A n \in 1..last : mapped[n] = MapFKey(mapped[n - 1], n)
    <2> HIDE DEF mapped
    <2>. QED  BY <1>1, <1>3
<1> HIDE DEF mapped
<1> DEFINE Passed(n) ==
               (keys \ {FKeys[m] : m \in 1..n})
                   \cup {FnMapping[m] : m \in {i \in 1..n : FKeys[i] \in keys}}
           Bad == {n \in 0..last : mapped[n] # Passed(n)}
<1>6. Bad = {}
    <2>1. SUFFICES ASSUME Bad # {} PROVE FALSE
        OBVIOUS
    <2>2. Bad \in SUBSET Nat
        OBVIOUS
    <2>3. PICK n \in Bad : \A m \in Bad : n <= m
        <3> HIDE DEF Bad
        <3>. QED  BY <2>1, <2>2, LeastNat
    <2>4. n # 0
        <3>1. Passed(0) = keys
            OBVIOUS
        <3>. QED  BY <3>1, <1>5, <2>3
    <2>5. n \in 1..last /\ n - 1 \in 0..last /\ n - 1 \notin Bad
        <3>1. n \in 0..last
            OBVIOUS
        <3>2. n \in 1..last /\ n - 1 \in 0..last /\ ~(n <= n - 1)
            BY <1>1, <3>1, <2>4
        <3>3. ~(n - 1 \in Bad)
            <4> HIDE DEF Bad
            <4>. QED  BY <2>3, <3>2
        <3>. QED  BY <3>2, <3>3
    <2>6. mapped[n - 1] = Passed(n - 1)
        BY <2>5
    <2>7. mapped[n] = MapFKey(Passed(n - 1), n)
        <3> HIDE DEF Passed
        <3>. QED  BY <1>5, <2>5, <2>6
    <2>8. \A m \in 1..n-1 : FKeys[m] # FKeys[n] /\ FnMapping[m] # FKeys[n]
        BY <1>1, <2>5, FnMappingAssumption
    <2>9. \A m : m \in 1..n <=> (m \in 1..n-1 \/ m = n)
        BY <1>1, <2>5
    <2>10. FKeys[n] \in Passed(n - 1) <=> FKeys[n] \in keys
        BY <2>8
    <2>11. MapFKey(Passed(n - 1), n) = Passed(n)
        BY <2>8, <2>9, <2>10 DEF MapFKey
    <2>. QED  BY <2>3, <2>7, <2>11
<1>7. mapped[last] = Passed(last)
    BY <1>1, <1>6
<1>. QED  BY <1>1, <1>4, <1>7 DEF FunctionKeys, Replacements

\* For every set of keys, the mapping is the simultaneous replacement.
LEMMA MappedIsSimultaneous ==
    ASSUME NEW keys
    PROVE  Mapped(keys) = SimultaneousFn(keys)
<1>1. CASE Function \in keys
    <2>1. Replacements(keys \ {Function}) = Replacements(keys)
        BY FnMappingAssumption DEF Replacements, FunctionKeys
    <2>2. Invalid \notin Replacements(keys)
        BY FnMappingAssumption DEF Replacements
    <2>3. Mapped(keys) = (((keys \ {Function}) \ FunctionKeys)
                              \cup Replacements(keys)) \ {Invalid}
        BY <1>1, <2>1, MapFKeysReplaces DEF Mapped
    <2>4. SimultaneousFn(keys) = (keys \ ({Function, Invalid} \cup FunctionKeys))
                                     \cup Replacements(keys)
        BY <1>1 DEF SimultaneousFn, Replacements
    <2>. QED  BY <2>2, <2>3, <2>4
<1>2. CASE Function \notin keys
    BY <1>2 DEF Mapped, SimultaneousFn
<1>. QED  BY <1>1, <1>2

\* Whatever keys are held with Fn, in every reachable state, the loop computes
\* the simultaneous replacement: none is replaced twice, so no internal
\* function (pairing, unpairing) is reported that was not pressed.
THEOREM DebounceFnSimultaneous == Spec => []FnMappingSimultaneous
<1>1. FnMappingSimultaneous
    BY MappedIsSimultaneous DEF FnMappingSimultaneous
<1>. QED  BY <1>1, PTL
=============================================================================
