-------------------------- MODULE KeyMatrixProofs --------------------------
(***************************************************************************)
(* The key matrix driver reads each row as it is at one moment, for any    *)
(* number of rows and columns, any content of the registers at power-on    *)
(* and any movement of the contacts.                                       *)
(***************************************************************************)
EXTENDS KeyMatrix, TLAPS

USE DriverAssumption DEF COLUMNS

\* The conversion of read_row loses no column and swaps none.
LEMMA RowDataIsInput ==
    ASSUME input \subseteq 0..COLUMNS-1
    PROVE  RowData = input
<1>1. rx[0] = {b \in 0..BYTE-1 : b + BYTE \in input} /\ rx[1] = {b \in 0..BYTE-1 : b \in input}
    BY DEF rx
<1>2. ASSUME NEW c \in RowData PROVE c \in input
    BY <1>1, <1>2 DEF RowData
<1>3. ASSUME NEW c \in input PROVE c \in RowData
    <2>1. CASE c < BYTE
        BY <1>1, <2>1 DEF RowData
    <2>2. CASE c >= BYTE
        <3>1. c - BYTE \in rx[0] /\ c = (c - BYTE) + BYTE
            BY <1>1, <2>2
        <3>. QED  BY <3>1 DEF RowData
    <2>. QED  BY <2>1, <2>2
<1>. QED  BY <1>2, <1>3

\* The pattern selects one row, whatever was latched before.
LEMMA PatternSelects ==
    ASSUME NEW r \in 0..ROWS-1
    PROVE  Pattern(r) \subseteq Lines /\ {q \in 0..ROWS-1 : q + 1 \in Pattern(r)} = {r}
BY DEF Pattern, Lines

\* With one row driven, the low columns are the closed contacts of that row.
LEMMA ColumnsOfRow ==
    ASSUME contacts \subseteq Crossings, row \in 0..ROWS-1,
           {r \in 0..ROWS-1 : r + 1 \in latch} = {row}
    PROVE  /\ LowColumns \subseteq 0..COLUMNS-1
           /\ Crossing(row, LowColumns) = {x \in contacts : x[1] = row}
<1>1. \A x \in contacts : /\ x = <<x[1], x[2]>>
                          /\ x[1] \in 0..ROWS-1 /\ x[2] \in 0..COLUMNS-1
    BY DEF Crossings, Scan!Crossings
<1>2. LowColumns = {x[2] : x \in {y \in contacts : y[1] = row}}
    BY <1>1 DEF LowColumns
<1>. QED  BY <1>1, <1>2 DEF Crossing

\* Nothing has been scanned at power-on.
LEMMA MatrixInitial == Init => IInv
<1>. SUFFICES ASSUME Init PROVE IInv
    OBVIOUS
<1>1. row \in 0..ROWS /\ input \subseteq 0..COLUMNS-1 /\ pc = "enable" /\ scanned = {}
    BY DEF Init
<1>2. /\ contacts \subseteq Crossings /\ output \subseteq Lines /\ latch \subseteq Lines
      /\ held = contacts /\ touched = contacts
    BY DEF Init
<1>3. TypeOK /\ PinsFollow
    BY <1>1, <1>2 DEF Init, TypeOK, PinsFollow
<1>. QED
    BY <1>1, <1>2, <1>3 DEF IInv, OneRowDriven, RowInRange, Captured, Sampled,
       HistoryBounds, ScanBetween

\* The driver's steps move no contact.
LEMMA DriverInductive == IInv /\ (StartPoll \/ read_row \/ disable \/ drop) => IInv'
<1>. SUFFICES ASSUME IInv PROVE StartPoll \/ read_row \/ disable \/ drop => IInv'
    OBVIOUS
<1>. USE DEF IInv
<1>1. ASSUME StartPoll PROVE IInv'
    <2>1. TypeOK' /\ PinsFollow'
        BY <1>1 DEF StartPoll, StartRow, pins, registers, TypeOK, PinsFollow
    <2>2. ScanBetween' /\ HistoryBounds'
        <3>1. {x \in held' : x[1] < 0} = {}
            BY <1>1 DEF StartPoll, TypeOK, Crossings, Scan!Crossings
        <3>. QED  BY <1>1, <3>1 DEF StartPoll, StartRow, ScanBetween, HistoryBounds
    <2>. QED
        BY <1>1, <2>1, <2>2 DEF StartPoll, StartRow, OneRowDriven, RowInRange, Captured,
           Sampled
<1>2. ASSUME WriteDone PROVE IInv'
    <2>1. row \in 0..ROWS-1
        BY <1>2 DEF WriteDone, TypeOK, RowInRange
    <2>2. latch' \subseteq Lines /\ {r \in 0..ROWS-1 : r + 1 \in latch'} = {row}
        BY <1>2, <2>1, PatternSelects DEF WriteDone, Transfer
    <2>. QED
        BY <1>2, <2>1, <2>2 DEF WriteDone, Transfer, history, TypeOK, PinsFollow, OneRowDriven,
           RowInRange, Captured, Sampled, HistoryBounds, ScanBetween
<1>3. ASSUME StoreLow \/ LoadLow PROVE IInv'
    <2>1. CASE StoreLow
        BY <2>1 DEF StoreLow, registers, history, TypeOK, PinsFollow, OneRowDriven,
           RowInRange, Captured, Sampled, HistoryBounds, ScanBetween
    <2>2. CASE LoadLow
        BY <2>2 DEF LoadLow, registers, history, TypeOK, PinsFollow, OneRowDriven,
           RowInRange, Captured, Sampled, HistoryBounds, ScanBetween
    <2>. QED  BY <1>3, <2>1, <2>2
<1>4. ASSUME LoadHigh PROVE IInv'
    <2>1. row \in 0..ROWS-1
        BY <1>4 DEF LoadHigh, TypeOK, RowInRange
    <2>2. /\ input' \subseteq 0..COLUMNS-1
          /\ Crossing(row, input') = {x \in contacts : x[1] = row}
        BY <1>4, <2>1, ColumnsOfRow DEF LoadHigh, TypeOK, PinsFollow, OneRowDriven
    <2>3. Captured'
        BY <1>4, <2>2 DEF LoadHigh, history, Captured, Crossing, HistoryBounds
    <2>. QED
        BY <1>4, <2>1, <2>2, <2>3 DEF LoadHigh, history, TypeOK, PinsFollow, OneRowDriven,
           RowInRange, HistoryBounds, ScanBetween
<1>5. ASSUME StartRead PROVE IInv'
    BY <1>5 DEF StartRead, pins, registers, history, TypeOK, PinsFollow, OneRowDriven, RowInRange,
       Captured, Sampled, Crossing, HistoryBounds, ScanBetween
<1>6. ASSUME ReadDone PROVE IInv'
    <2>1. row \in 0..ROWS-1 /\ input \subseteq 0..COLUMNS-1 /\ Sampled
        BY <1>6 DEF ReadDone, TypeOK, RowInRange, Sampled
    <2>2. scanned' = scanned \cup Crossing(row, input)
        BY <1>6, <2>1, RowDataIsInput DEF ReadDone
    <2>3. Crossing(row, input) \subseteq Crossings
        BY <2>1 DEF Crossing, Crossings, Scan!Crossings
    <2>4. row' = row + 1 /\ pc' \in {"write", "idle"} /\ (pc' = "write" => row' < ROWS)
        BY <1>6, <2>1 DEF ReadDone, StartRow
    <2>5. ScanBetween'
        <3>1. \A x \in held : x[1] \in 0..ROWS-1
            BY DEF TypeOK, Crossings, Scan!Crossings
        <3>2. {x \in held : x[1] < row + 1} \subseteq scanned'
            BY <1>6, <2>1, <2>2, <3>1 DEF ReadDone, ScanBetween, Captured
        <3>. QED
            BY <1>6, <2>1, <2>2, <2>4, <3>2 DEF ReadDone, history, ScanBetween, Captured
    <2>6. TypeOK'
        BY <1>6, <2>1, <2>2, <2>3, <2>4 DEF ReadDone, Transfer, pins, history, TypeOK
    <2>7. PinsFollow'
        BY <1>6, <2>4 DEF ReadDone, pins, PinsFollow
    <2>. QED
        BY <1>6, <2>4, <2>5, <2>6, <2>7 DEF ReadDone, history, OneRowDriven, RowInRange,
           Captured, Sampled, HistoryBounds
<1>7. ASSUME disable \/ drop PROVE IInv'
    BY <1>7 DEF disable, drop, registers, history, TypeOK, PinsFollow, OneRowDriven, RowInRange,
       Captured, Sampled, HistoryBounds, ScanBetween
<1>. QED  BY <1>1, <1>2, <1>3, <1>4, <1>5, <1>6, <1>7 DEF read_row

\* A contact that moves is not held and has been touched.
LEMMA MoveInductive == IInv /\ Move => IInv'
BY DEF Move, pins, registers, IInv, TypeOK, PinsFollow, OneRowDriven, RowInRange, Captured, Sampled,
       Crossing, HistoryBounds, ScanBetween

\* The invariant holds for every matrix and every movement of its contacts.
THEOREM MatrixInvariant == Spec => []IInv
<1>1. IInv /\ UNCHANGED vars => IInv'
    BY DEF vars, pins, registers, history, IInv, TypeOK, PinsFollow, OneRowDriven, RowInRange,
       Captured, Sampled, Crossing, HistoryBounds, ScanBetween
<1>2. IInv /\ [Next]_vars => IInv'
    BY <1>1, DriverInductive, MoveInductive DEF Next
<1>. QED  BY <1>2, MatrixInitial, PTL DEF Spec

\* A scan has every contact held throughout and none that was never touched.
THEOREM MatrixScanBetween == Spec => []ScanBetween
<1>1. IInv => ScanBetween
    BY DEF IInv
<1>. QED  BY <1>1, MatrixInvariant, PTL

\* Each row is read as it is at one moment.
THEOREM MatrixImplements == Spec => ImplementsScan
<1>1. Init => Scan!Init
    BY DEF Init, Scan!Init, Sampled, Crossings
<1>2. IInv /\ [Next]_vars => [Scan!Next]_(Scan!vars)
    <2>. SUFFICES ASSUME IInv, [Next]_vars PROVE [Scan!Next]_(Scan!vars)
        OBVIOUS
    <2>. USE DEF Scan!vars, Sampled
    <2>1. CASE StartPoll
        BY <2>1 DEF StartPoll, StartRow, Scan!Next, Scan!Begin
    <2>2. CASE WriteDone \/ StoreLow \/ LoadLow
        BY <2>2 DEF WriteDone, StoreLow, LoadLow
    <2>3. CASE LoadHigh
        <3>1. row \in 0..ROWS-1
            BY <2>3 DEF LoadHigh, IInv, TypeOK, RowInRange
        <3>2. Crossing(row, input') = {x \in contacts : x[1] = row}
            BY <2>3, <3>1, ColumnsOfRow DEF LoadHigh, IInv, TypeOK, PinsFollow, OneRowDriven
        <3>. QED
            BY <2>3, <3>1, <3>2 DEF LoadHigh, Scan!Next, Scan!read_row
    <2>4. CASE StartRead
        BY <2>4 DEF StartRead, registers
    <2>5. CASE ReadDone
        <3>1. row \in 0..ROWS-1 /\ scanned' = scanned \cup Crossing(row, input)
            BY <2>5, RowDataIsInput DEF ReadDone, IInv, TypeOK, RowInRange
        <3>. QED
            BY <2>5, <3>1 DEF ReadDone, StartRow, Scan!Next, Scan!Finish
    <2>6. CASE disable \/ drop
        BY <2>6 DEF disable, drop
    <2>7. CASE Move
        BY <2>7 DEF Move, registers, Crossings, Scan!Next, Scan!Move
    <2>8. CASE UNCHANGED vars
        BY <2>8 DEF vars, registers
    <2>. QED
        BY <2>1, <2>2, <2>3, <2>4, <2>5, <2>6, <2>7, <2>8 DEF Next, read_row
<1>. QED  BY <1>1, <1>2, MatrixInvariant, PTL DEF Spec, ImplementsScan, Scan!Spec
=============================================================================
