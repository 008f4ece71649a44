----------------------------- MODULE KeyMatrix -----------------------------
(***************************************************************************)
(* The key matrix driver (app/src/key_matrix.rs) under the scan of         *)
(* Keys::poll.  Two chains of shift registers hang on one SPI bus: an      *)
(* output register of one byte, whose latch drives the row lines, and an   *)
(* input register of two bytes behind the column lines.  Every transfer    *)
(* shifts both.  The registers and contacts are external and modelled by   *)
(* what their pins do; a line or bit is named when it is low, because rows *)
(* are selected by a low line and a closed contact pulls its column low.   *)
(* The delays of the driver are long enough for the lines to settle.       *)
(***************************************************************************)
EXTENDS Naturals

CONSTANTS
    ROWS,       \* rows of the matrix: 6, so that one byte selects a row
    BYTE        \* columns that fit into one byte: 8 of the 16

ASSUME DriverAssumption == BYTE \in Nat \ {0} /\ ROWS \in Nat \ {0}

COLUMNS == 2 * BYTE
Lines == 0..ROWS        \* output lines; line n + 1 belongs to row n

VARIABLES
    pc,         \* the await the key task is suspended at: "enable"; in
                \* read_row "write", "store", "stored", "load", "loaded",
                \* "read"; "idle": between two polls; "off"; "dropped"
    row,        \* local variable of poll
    scanned,    \* key_state_bouncy of poll, as crossings
    n_power, store, n_load,     \* the pins: is the level high?
    output,     \* output register: the lines it would drive low
    latch,      \* the lines driven low
    input,      \* input register: the columns that read low
    contacts,   \* the crossings whose contact is closed
    held,       \* history: closed ever since the scan began
    touched     \* history: closed at some time since the scan began

pins == <<n_power, store, n_load>>
registers == <<output, latch, input>>
history == <<held, touched>>
vars == <<pc, row, scanned, pins, registers, contacts, history>>

\* The row that read_row was called for is read at the edge of n_load.
Sampled == pc \in {"loaded", "read"}
Crossing(r, columns) == {<<r, c>> : c \in columns}
Scan == INSTANCE MatrixScan WITH
            scanning <- pc \in {"write", "store", "stored", "load", "loaded", "read"},
            row <- IF Sampled THEN row + 1 ELSE row,
            scanned <- IF Sampled THEN scanned \cup Crossing(row, input) ELSE scanned
Crossings == Scan!Crossings

\* KeyMatrix::new, and enable of Keys::new: the registers hold anything.
Init ==
    /\ pc = "enable"
    /\ row = ROWS /\ scanned = {}
    /\ n_power = FALSE /\ store = FALSE /\ n_load = TRUE
    /\ output \in SUBSET Lines /\ latch \in SUBSET Lines /\ input = {}
    /\ contacts \in SUBSET Crossings
    /\ held = contacts /\ touched = contacts

----------------------------------------------------------------------------
\* The hardware.

\* The columns that read low: those of closed contacts in selected rows.
LowColumns == {x[2] : x \in {y \in contacts : y[1] + 1 \in latch}}

\* A transfer shifts the bytes of tx through the output register, which keeps
\* the last one; it leaves nothing of use in the input register.
Transfer(low) == output' = low /\ input' = {}

Move ==
    /\ contacts' \in SUBSET Crossings
    /\ held' = held \cap contacts'
    /\ touched' = touched \cup contacts'
    /\ UNCHANGED <<pc, row, scanned, pins, registers>>

----------------------------------------------------------------------------
\* Mutant: the pattern is not inverted, so that all rows but one are selected.
PatternNotInverted(r) == Lines \ {r + 1}

\* !row_bitmap << 1 for the bitmap of one row: line 0 is low, too, and has no
\* row behind it.
Pattern(r) == {0, r + 1}

\* read_row starts to write the pattern; rows are read in ascending order.
StartRow(r) == pc' = "write" /\ row' = r

\* poll starts: key_state_bouncy is empty.
StartPoll ==
    /\ pc \in {"enable", "idle"}
    /\ StartRow(0)
    /\ scanned' = {}
    /\ held' = contacts /\ touched' = contacts
    /\ UNCHANGED <<pins, registers, contacts>>

\* The pattern is in the output register; the edge of store latches it.
WriteDone ==
    /\ pc = "write"
    /\ Transfer(Pattern(row))
    /\ store' = TRUE /\ latch' = output'
    /\ pc' = "store"
    /\ UNCHANGED <<row, scanned, n_power, n_load, contacts, history>>

StoreLow ==
    /\ pc = "store"
    /\ store' = FALSE
    /\ pc' = "stored"
    /\ UNCHANGED <<row, scanned, n_power, n_load, registers, contacts, history>>

LoadLow ==
    /\ pc = "stored"
    /\ n_load' = FALSE
    /\ pc' = "load"
    /\ UNCHANGED <<row, scanned, n_power, store, registers, contacts, history>>

\* While n_load is low the input register follows the columns; it keeps what
\* they were at the edge.
LoadHigh ==
    /\ pc = "load"
    /\ n_load' = TRUE
    /\ input' = LowColumns
    /\ pc' = "loaded"
    /\ UNCHANGED <<row, scanned, n_power, store, output, latch, contacts, history>>

\* Mutant: n_load is raised only while the register shifts already, so that the
\* higher columns are those of a later moment.
StartReadLoading ==
    /\ pc = "loaded"
    /\ input' = {c \in input : c < BYTE} \cup {c \in LowColumns : c >= BYTE}
    /\ pc' = "read"
    /\ UNCHANGED <<row, scanned, pins, output, latch, contacts, history>>

StartRead ==
    /\ pc = "loaded"
    /\ pc' = "read"
    /\ UNCHANGED <<row, scanned, pins, registers, contacts, history>>

\* The two bytes received, as the bits that are zero: the higher columns come
\* first.
rx == [n \in 0..1 |-> {b \in 0..BYTE-1 : b + (1 - n) * BYTE \in input}]

\* Mutant: the two bytes are taken for each other.
RowDataSwapped == rx[0] \cup {b + BYTE : b \in rx[1]}

\* !rx[1] as u16 | ((!rx[0] as u16) << 8)
RowData == rx[1] \cup {b + BYTE : b \in rx[0]}

\* The result of read_row; the next row is started, or poll goes on.
ReadDone ==
    /\ pc = "read"
    /\ scanned' = scanned \cup Crossing(row, RowData)
    /\ Transfer(Lines)
    /\ IF row + 1 < ROWS
       THEN StartRow(row + 1)
       ELSE pc' = "idle" /\ row' = row + 1
    /\ UNCHANGED <<pins, latch, contacts, history>>

read_row == WriteDone \/ StoreLow \/ LoadLow \/ LoadHigh \/ StartRead \/ ReadDone

\* Keys::run disables the matrix for a shutdown, between two polls; the value
\* is dropped after run has returned.
disable ==
    /\ pc = "idle"
    /\ n_power' = TRUE
    /\ pc' = "off"
    /\ UNCHANGED <<row, scanned, store, n_load, registers, contacts, history>>

drop ==
    /\ pc = "off"
    /\ n_load' = TRUE /\ store' = FALSE /\ n_power' = TRUE
    /\ pc' = "dropped"
    /\ UNCHANGED <<row, scanned, registers, contacts, history>>

Next == StartPoll \/ read_row \/ disable \/ drop \/ Move
Spec == Init /\ [][Next]_vars

----------------------------------------------------------------------------

TypeOK ==
    /\ pc \in {"enable", "write", "store", "stored", "load", "loaded", "read",
               "idle", "off", "dropped"}
    /\ row \in 0..ROWS
    /\ scanned \subseteq Crossings
    /\ n_power \in BOOLEAN /\ store \in BOOLEAN /\ n_load \in BOOLEAN
    /\ output \subseteq Lines /\ latch \subseteq Lines
    /\ input \subseteq 0..COLUMNS-1
    /\ contacts \subseteq Crossings
    /\ held \subseteq Crossings /\ touched \subseteq Crossings

(***************************************************************************)
(* While the columns are loaded, exactly the row that was asked for is     *)
(* driven, although every read leaves a byte in the output register that   *)
(* selects all rows, and although the registers hold anything at power-on. *)
(***************************************************************************)
OneRowDriven ==
    pc \in {"store", "stored", "load"} =>
        {r \in 0..ROWS-1 : r + 1 \in latch} = {row}

\* The registers are powered, and the latch is open only after a write.
PinsFollow == pc \notin {"off", "dropped"} => ~n_power /\ (store <=> pc = "store")

\* The row that is being read, and nothing after it, is in the input register.
RowInRange == pc \in {"write", "store", "stored", "load", "loaded", "read"} => row < ROWS
Captured ==
    Sampled => LET columns == Crossing(row, input)
               IN  {x \in held : x[1] = row} \subseteq columns /\ columns \subseteq touched
HistoryBounds == held \subseteq contacts /\ contacts \subseteq touched

(***************************************************************************)
(* A scan takes time, but it neither misses nor invents a key ("First sets *)
(* the row selection shift register to read the specified row, then reads  *)
(* the input shift register", keys.rs): of the rows read so far, it has    *)
(* every contact that was closed throughout and none that was open         *)
(* throughout, however the contacts moved between and during the reads.    *)
(***************************************************************************)
ScanBetween ==
    pc # "enable" =>
        {x \in held : x[1] < row} \subseteq scanned /\ scanned \subseteq touched

IInv ==
    /\ TypeOK /\ PinsFollow /\ OneRowDriven /\ RowInRange
    /\ Captured /\ HistoryBounds /\ ScanBetween

\* Each row is read as it is at one moment, the edge that ends the load.
ImplementsScan == Scan!Spec
=============================================================================
