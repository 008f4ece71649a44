----------------------------- MODULE MatrixScan -----------------------------
(***************************************************************************)
(* What Keys::poll expects of the key matrix hardware: it is scanned row   *)
(* by row (the loop at the start of poll, keyboard/src/keys.rs), and       *)
(* read_row returns how the contacts of a row are at one moment.  The      *)
(* contacts move at any time, also between the rows.  KeyMatrix.tla is the *)
(* driver that implements this.                                            *)
(***************************************************************************)
EXTENDS Naturals

CONSTANTS
    ROWS,       \* ROWS and COLUMNS of keys.rs
    COLUMNS

Crossings == (0..ROWS-1) \X (0..COLUMNS-1)

VARIABLES
    contacts,   \* the crossings whose contact is closed
    scanning,   \* is a poll in its scan?
    row,        \* the next row to read; ROWS after the last one
    scanned     \* the crossings found closed, in the rows read so far

vars == <<contacts, scanning, row, scanned>>

Init ==
    /\ contacts \subseteq Crossings
    /\ scanning = FALSE
    /\ row = ROWS
    /\ scanned = {}

Move ==
    /\ contacts' \in SUBSET Crossings
    /\ UNCHANGED <<scanning, row, scanned>>

Begin ==
    /\ ~scanning
    /\ scanning' = TRUE
    /\ row' = 0
    /\ scanned' = {}
    /\ UNCHANGED contacts

read_row ==
    /\ scanning /\ row < ROWS
    /\ scanned' = scanned \cup {x \in contacts : x[1] = row}
    /\ row' = row + 1
    /\ UNCHANGED <<contacts, scanning>>

Finish ==
    /\ scanning /\ row = ROWS
    /\ scanning' = FALSE
    /\ UNCHANGED <<contacts, row, scanned>>

Next == Move \/ Begin \/ read_row \/ Finish
Spec == Init /\ [][Next]_vars
=============================================================================
