---------------------------- MODULE KeyDebounce ----------------------------
(***************************************************************************)
(* Debouncing and FN mapping of the key matrix: `Keys::poll` of            *)
(* keyboard/src/keys.rs and the bitmap operations it uses.                 *)
(*                                                                         *)
(* A KeyState (a 256-bit bitmap indexed by scan code) is the set of the    *)
(* scan codes whose bit is set, so `or` is union, `xor` the symmetric      *)
(* difference and `any_bit_set` inequality with {}.  One step of this      *)
(* module is one call of poll.  Time is counted in milliseconds by three   *)
(* history variables that the code does not have.                          *)
(***************************************************************************)
EXTENDS Naturals, Sequences

CONSTANTS
    Locations,      \* the crossings (row, column) of the key matrix
    KeyAt,          \* KEY_MATRIX_LOCATIONS: the scan code of each crossing
    FKeys,          \* ScanCode::F1 ..= ScanCode::F12, in ascending order
    FnMapping,      \* F_FN_MAPPING: what Fn turns each entry of FKeys into
    Function,       \* ScanCode::Function
    Invalid,        \* ScanCode::Invalid, the unpopulated crossings
    Intervals       \* the milliseconds that may pass between two polls

ScanCodes == {KeyAt[l] : l \in Locations}

FunctionKeys == {FKeys[n] : n \in DOMAIN FKeys}

ASSUME DebounceAssumption ==
    /\ Intervals \subseteq Nat \ {0}
    /\ FKeys \in Seq(FunctionKeys)
    /\ Len(FnMapping) = Len(FKeys)

\* F_FN_MAPPING turns a function key into one with a smaller scan code (F5 into
\* F4) or into a key that is none, and never into Invalid.
ASSUME FnMappingAssumption ==
    /\ Function \notin FunctionKeys
    /\ \A m, n \in DOMAIN FKeys : m # n => FKeys[m] # FKeys[n]
    /\ \A n \in DOMAIN FKeys :
           /\ FnMapping[n] # Invalid
           /\ \A m \in DOMAIN FKeys : m > n => FnMapping[n] # FKeys[m]

\* The debounce window: the length of the array Keys::key_changes.
Window == 5

VARIABLES
    bitmap_debounced,   \* Keys::bitmap_debounced
    key_changes,        \* Keys::key_changes: the changes made i ms ago
    reported,           \* Keys::reported
    pressed,            \* the crossings the last matrix scan found closed
    age,                \* history: ms since the debounced state of a key
                        \* last changed, at most Window
    held,               \* history: ms for which the scans of a key have
                        \* agreed, at most Window
    dwell               \* history: ms the debounced state of a key had lasted
                        \* when it last changed, at most Window

code == <<bitmap_debounced, key_changes, reported>>
vars == <<bitmap_debounced, key_changes, reported, pressed, age, held, dwell>>

CapAt(n) == IF n >= Window THEN Window ELSE n
SymmetricDifference(S, T) == (S \ T) \cup (T \ S)

\* key_state_bouncy: the scan codes of the closed crossings.
Bouncy(closed) == {KeyAt[l] : l \in closed}

\* Mutant: the shift is done once per poll, not once per millisecond.
ShiftedOnce(changes, interval_ms) ==
    [i \in 0..Window-1 |-> IF i < 1 THEN {} ELSE changes[i - 1]]

(***************************************************************************)
(* The loop at the start of the debouncing: shift key_changes by one       *)
(* place for every millisecond that passed, at most Window places.         *)
(***************************************************************************)
Shifted(changes, interval_ms) ==
    LET times_to_shift == CapAt(interval_ms)
    IN  [i \in 0..Window-1 |->
            IF i < times_to_shift THEN {} ELSE changes[i - times_to_shift]]

\* Mutant: the window is one millisecond short.
BlockedShort(changes) == UNION {changes[i] : i \in 1..Window-2}

\* The keys whose debounced state changed less than Window ms ago.
Blocked(changes) == UNION {changes[i] : i \in 1..Window-1}

\* KeyState::select: bits of if_set where the selector is set, else of
\* if_not_set.
Select(bitmap, if_not_set, if_set) ==
    (bitmap \cap if_set) \cup (if_not_set \ bitmap)

(***************************************************************************)
(* FN mapping: the loop over F1..F12 replaces each pressed function key    *)
(* in place, in ascending order; the result drops Function and Invalid.    *)
(***************************************************************************)
MapFKey(keys, n) ==
    IF FKeys[n] \in keys
    THEN (keys \ {FKeys[n]}) \cup {FnMapping[n]}
    ELSE keys

\* Mutant: the loop over the function keys runs from F12 down to F1.
MapFKeysDescending(keys) ==
    LET mapped[n \in 0..Len(FKeys)] ==
            IF n = 0 THEN keys
                     ELSE MapFKey(mapped[n - 1], Len(FKeys) + 1 - n)
    IN  mapped[Len(FKeys)]

MapFKeys(keys) ==
    LET mapped[n \in 0..Len(FKeys)] ==
            IF n = 0 THEN keys ELSE MapFKey(mapped[n - 1], n)
    IN  mapped[Len(FKeys)]

Mapped(keys) ==
    (IF Function \in keys THEN MapFKeys(keys \ {Function}) ELSE keys)
        \ {Invalid}

\* Keys::new
InitCode ==
    /\ bitmap_debounced = {}
    /\ key_changes = [i \in 0..Window-1 |-> {}]
    /\ reported = {}

Init ==
    /\ InitCode
    /\ pressed = {}
    /\ age = [k \in ScanCodes |-> Window]
    /\ held = [k \in ScanCodes |-> Window]
    /\ dwell = [k \in ScanCodes |-> Window]

\* Mutant: what bounced is recorded as changed, not what was let through.
DebounceRecordsBounces(interval_ms, closed) ==
    LET shifted == Shifted(key_changes, interval_ms)
    IN  /\ bitmap_debounced' =
              Select(Blocked(shifted), Bouncy(closed), bitmap_debounced)
        /\ key_changes' = [shifted EXCEPT ![0] =
              SymmetricDifference(Bouncy(closed), bitmap_debounced)]
        /\ reported' = IF bitmap_debounced' # bitmap_debounced
                       THEN Mapped(bitmap_debounced') ELSE reported

\* What one call of poll does to the three fields of Keys.
Debounce(interval_ms, closed) ==
    LET shifted == Shifted(key_changes, interval_ms)
    IN  /\ bitmap_debounced' =
              Select(Blocked(shifted), Bouncy(closed), bitmap_debounced)
        /\ key_changes' = [shifted EXCEPT ![0] =
              SymmetricDifference(bitmap_debounced', bitmap_debounced)]
        /\ reported' = IF key_changes'[0] # {} THEN Mapped(bitmap_debounced')
                                               ELSE reported

\* The history of one poll, from the states of the keys alone.
Observe(interval_ms, closed) ==
    /\ pressed' = closed
    /\ age' = [k \in ScanCodes |->
          IF (k \in bitmap_debounced') # (k \in bitmap_debounced)
          THEN 0 ELSE CapAt(age[k] + interval_ms)]
    /\ held' = [k \in ScanCodes |->
          IF (k \in Bouncy(closed)) # (k \in Bouncy(pressed))
          THEN 0 ELSE CapAt(held[k] + interval_ms)]
    /\ dwell' = [k \in ScanCodes |->
          IF (k \in bitmap_debounced') # (k \in bitmap_debounced)
          THEN CapAt(age[k] + interval_ms) ELSE dwell[k]]

poll(interval_ms, closed) ==
    /\ Debounce(interval_ms, closed)
    /\ Observe(interval_ms, closed)

Next == \E interval_ms \in Intervals, closed \in SUBSET Locations :
            poll(interval_ms, closed)

Spec == Init /\ [][Next]_vars

----------------------------------------------------------------------------

TypeOK ==
    /\ bitmap_debounced \subseteq ScanCodes
    /\ key_changes \in [0..Window-1 -> SUBSET ScanCodes]
    /\ pressed \subseteq Locations
    /\ age \in [ScanCodes -> 0..Window]
    /\ held \in [ScanCodes -> 0..Window]
    /\ dwell \in [ScanCodes -> 0..Window]

(***************************************************************************)
(* Every key whose place in key_changes is i changed exactly i ms ago,     *)
(* and every change of the last Window ms is recorded: the shifting of     *)
(* keys.rs neither loses nor duplicates a change.                          *)
(***************************************************************************)
ChangesAreAges ==
    \A k \in ScanCodes, i \in 0..Window-1 : k \in key_changes[i] <=> age[k] = i

(***************************************************************************)
(* "5ms switch debouncing" (keys.rs, comment of Keys): the debounced state *)
(* of a key does not change twice within less than five milliseconds,      *)
(* however much the contact bounces and however the polls are spaced.      *)
(***************************************************************************)
MinDwell == \A k \in ScanCodes : dwell[k] >= Window

(***************************************************************************)
(* Debouncing delays a key, it never loses one: once the scans of a key    *)
(* have agreed for four milliseconds, the debounced state is what they     *)
(* say.                                                                    *)
(***************************************************************************)
Responsive ==
    \A k \in ScanCodes :
        held[k] >= Window - 1 => (k \in bitmap_debounced <=> k \in Bouncy(pressed))

\* What Responsive needs to be inductive: a key whose debounced state still
\* differs from the scans changed recently, and before the scans settled.
PendingIsYoung ==
    \A k \in ScanCodes :
        (k \in bitmap_debounced) # (k \in Bouncy(pressed))
        => age[k] \in 1..Window-1 /\ held[k] < age[k]

(***************************************************************************)
(* What was last reported is the debounced state, mapped; a change that    *)
(* was not worth an event (only Fn or an unpopulated crossing) is no       *)
(* reason for the two to drift apart.                                      *)
(***************************************************************************)
ReportedInSync == reported = Mapped(bitmap_debounced)

\* FN mapping by its intent: with Fn held, all function keys are replaced
\* simultaneously, so that the replacement of one is never replaced again
\* (F5 means F4, and F4 means "unpair all").
SimultaneousFn(keys) ==
    LET function_keys == {n \in DOMAIN FKeys : FKeys[n] \in keys}
        others == keys \ ({Function, Invalid} \cup FunctionKeys)
    IN  IF Function \in keys
        THEN others \cup {FnMapping[n] : n \in function_keys}
        ELSE keys \ {Invalid}

(***************************************************************************)
(* The in-place loop over F1..F12 computes the simultaneous replacement,   *)
(* for the debounced state together with any other function keys and       *)
(* unpopulated crossings: no combination of keys held with Fn triggers an  *)
(* internal function (pairing, unpairing) that was not pressed.            *)
(***************************************************************************)
FnMappingSimultaneous ==
    \A more \in SUBSET ({Invalid} \cup FunctionKeys) :
        Mapped(bitmap_debounced \cup more) = SimultaneousFn(bitmap_debounced \cup more)

IInv == TypeOK /\ ChangesAreAges /\ MinDwell /\ PendingIsYoung /\ ReportedInSync
=============================================================================
