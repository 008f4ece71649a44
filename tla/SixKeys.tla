------------------------------ MODULE SixKeys ------------------------------
(***************************************************************************)
(* The HID boot report of a key state: KeyState::to_6kro and the bitmap    *)
(* iterator of keyboard/src/key_state.rs.  A bitmap is the set of the scan *)
(* codes whose bit is set; the words it is stored in matter only to the    *)
(* iterator, which skips them one by one.                                  *)
(***************************************************************************)
EXTENDS Naturals, FiniteSetsExt

SIZE == 256             \* KeyState::keys is a Bitmap<256> of 32 bit words
WORD == 32
LeftControl == 224      \* ScanCode::LeftControl, 0xe0: the first modifier
NoKey == 0              \* ScanCode::Invalid
End == SIZE             \* the iterator has returned None

\* Mutant: the iterator stops at the first word that is zero.
NextBitStops(keys) ==
    [pos \in 0..SIZE |->
        LET rest == {bit \in keys : bit >= pos /\ bit \div WORD = pos \div WORD}
        IN  IF rest = {} THEN End ELSE Min(rest)]

(***************************************************************************)
(* BitmapIter::next: the first bit at or after the position pos.  The word *)
(* is shifted right, so that only its bits from pos on are left, and the   *)
(* next word is tried when nothing is.                                     *)
(***************************************************************************)
NextBit(keys) ==
    LET next[pos \in 0..SIZE] ==
            LET word == pos \div WORD
                rest == {bit \in keys : bit >= pos /\ bit \div WORD = word}
            IN  IF pos = SIZE THEN End
                ELSE IF rest # {} THEN Min(rest) ELSE next[(word + 1) * WORD]
    IN  next

(***************************************************************************)
(* The loop of to_6kro over the iterator: what it gets in each of its at   *)
(* most six rounds, and End once it has stopped at a modifier, at a code   *)
(* above them, or at None.                                                 *)
(***************************************************************************)
Collected(keys) ==
    LET next == NextBit(keys)
        key[count \in 1..6] ==
            IF count = 1 THEN next[0]
            ELSE IF key[count - 1] >= LeftControl THEN End
            ELSE next[key[count - 1] + 1]
    IN  key

\* The report: the byte of the bitmap that holds the modifiers, and the keys.
to_6kro(keys) ==
    LET key == Collected(keys)
    IN  [modifier |-> {k \in keys : k \div 8 = LeftControl \div 8},
         keycodes |-> [i \in 1..6 |-> IF key[i] < LeftControl THEN key[i] ELSE NoKey]]

----------------------------------------------------------------------------
\* What a host reads from a report, by its intent: the modifiers, and the six
\* keys with the smallest scan codes in ascending order.
IsReportOf(report, keys) ==
    LET codes == {key \in keys : key < LeftControl}
        rank(key) == Cardinality({other \in codes : other <= key})
    IN  /\ report.modifier = keys \cap (LeftControl..LeftControl+7)
        /\ \A i \in 1..6 : IF i <= Cardinality(codes)
                           THEN report.keycodes[i] \in codes /\ rank(report.keycodes[i]) = i
                           ELSE report.keycodes[i] = NoKey
=============================================================================
