----------------------------- MODULE UsbProofs -----------------------------
(***************************************************************************)
(* The USB keyboard never starts a report on a suspended bus, and does     *)
(* what UsbTask promises the dispatcher, for any set of key states.        *)
(***************************************************************************)
EXTENDS Usb, FiniteSetTheorems, WellFoundedInduction, TLAPS

\* Nothing but the shared flag and the signal ties the two futures together:
\* a step of the abstract task keeps its type.
LEMMA TaskType ==
    ASSUME T!TypeOK, T!KeysChanged \/ T!WriteDone \/ T!PowerTransition \/ T!Request
    PROVE  T!TypeOK'
<1>1. usb_in \in Buffer(T!UsbInEvent)
    BY DEF T!TypeOK, T!Buffer, Buffer, Capacity, T!Capacity
<1>2. CASE T!KeysChanged
    <2>1. Head(usb_in) \in T!UsbInEvent /\ Tail(usb_in) \in Buffer(T!UsbInEvent)
        BY <1>1, <1>2 DEF T!KeysChanged, T!Receive, Buffer, Capacity
    <2>2. Head(usb_in).keys \in KeyStates
        BY <1>2, <2>1 DEF T!KeysChanged, T!UsbInEvent, T!UsbKeysChanged, T!UsbPowerTransition
    <2>. QED
        BY <1>2, <2>1, <2>2 DEF T!KeysChanged, T!Receive, T!TypeOK, T!Buffer, Buffer, Capacity, T!Capacity
<1>3. CASE T!WriteDone
    BY <1>3 DEF T!WriteDone, T!TypeOK
<1>4. CASE T!PowerTransition
    <2>1. Tail(usb_in) \in Buffer(T!UsbInEvent)
        BY <1>1, <1>4 DEF T!PowerTransition, T!Receive, Buffer, Capacity
    <2>. QED
        BY <1>4, <2>1 DEF T!PowerTransition, T!Receive, T!TypeOK, T!Buffer, Buffer, Capacity, T!Capacity
<1>5. CASE T!Request
    <2>1. PICK event \in T!UsbInEvent : T!Send(usb_in, event) /\ UNCHANGED T!taskVars
        BY <1>5 DEF T!Request
    <2>2. Len(usb_in) < Capacity /\ usb_in' = Append(usb_in, event)
        BY <2>1 DEF T!Send, T!Capacity, Capacity
    <2>3. usb_in' \in Buffer(T!UsbInEvent)
        BY <1>1, <2>2 DEF Buffer, Capacity
    <2>. QED
        BY <2>1, <2>3 DEF T!taskVars, T!TypeOK, T!Buffer, Buffer, Capacity, T!Capacity
<1>. QED  BY <1>2, <1>3, <1>4, <1>5

\* Power on: nothing is suspended yet.
LEMMA UsbInitial == Init => IInv
<1>. SUFFICES ASSUME Init PROVE IInv
    OBVIOUS
<1>1. usb_in \in T!Buffer(T!UsbInEvent)
    BY DEF Init, T!Init, T!Buffer, T!Capacity
<1>. QED
    BY <1>1, UsbAssumption DEF Init, IInv, TypeOK, FlagCoversSuspend, HostInSync,
        T!Init, T!TypeOK

\* The events of the dispatcher leave the bus alone, and the host is behind
\* only while a write is in progress or when the state taken was lost.
LEMMA InInductive == IInv /\ (in_fut \/ Request) => IInv'
<1>. SUFFICES ASSUME IInv, in_fut \/ Request PROVE IInv'
    OBVIOUS
<1>1. T!TypeOK'
    BY TaskType DEF IInv, TypeOK, in_fut, KeysChanged, WriteDone, PowerTransition, Request
<1>2. /\ UNCHANGED <<SUSPENDED, device, panicked>>
      /\ remote_wakeup' \in BOOLEAN /\ dropped' \in BOOLEAN /\ lost' \in BOOLEAN
    BY DEF IInv, TypeOK, in_fut, KeysChanged, WriteDone, Written, PowerTransition,
           Request, device, host
<1>3. HostInSync'
    <2>1. CASE KeysChanged
        BY <2>1 DEF KeysChanged, HostInSync
    <2>2. CASE WriteDone
        BY <2>2 DEF WriteDone, T!WriteDone, Written, HostInSync
    <2>3. CASE PowerTransition
        BY <2>3 DEF PowerTransition, T!PowerTransition, host, IInv, HostInSync
    <2>4. CASE Request
        BY <2>4 DEF Request, T!Request, T!taskVars, host, IInv, HostInSync
    <2>. QED  BY <2>1, <2>2, <2>3, <2>4 DEF in_fut
<1>. QED  BY <1>1, <1>2, <1>3 DEF IInv, TypeOK, FlagCoversSuspend, device

\* Each bus event sets the flag so that it still covers the suspend; one that
\* makes the host forget the keyboard is a loss.
LEMMA BusInductive == IInv /\ usb_fut => IInv'
<1>. SUFFICES ASSUME IInv, usb_fut PROVE IInv'
    OBVIOUS
<1>1. UNCHANGED <<usb_in, usb_pc, usb_keys>>
    BY DEF usb_fut, RemoteWakeup, BusEvent, enabled, reset, HandleSuspended,
           Configure, SetWakeup
<1>2. T!TypeOK'
    BY <1>1 DEF IInv, TypeOK, T!TypeOK
<1>3. lost' \in BOOLEAN /\ HostInSync'
    <2>1. Forget \/ UNCHANGED host
        BY DEF usb_fut, RemoteWakeup, enabled, reset, HandleSuspended, Configure, SetWakeup
    <2>. QED  BY <1>1, <2>1 DEF Forget, host, IInv, TypeOK, HostInSync
<1>4. CASE RemoteWakeup
    BY <1>2, <1>3, <1>4 DEF RemoteWakeup, IInv, TypeOK, FlagCoversSuspend
<1>5. CASE enabled \/ reset
    BY <1>2, <1>3, <1>5 DEF enabled, reset, BusEvent, IInv, TypeOK, FlagCoversSuspend
<1>6. ASSUME NEW value \in BOOLEAN,
             HandleSuspended(value) \/ Configure(value) \/ SetWakeup(value)
      PROVE  IInv'
    <2>1. CASE HandleSuspended(value)
        BY <1>2, <1>3, <2>1 DEF HandleSuspended, BusEvent, IInv, TypeOK, FlagCoversSuspend
    <2>2. CASE Configure(value)
        BY <1>2, <1>3, <2>2 DEF Configure, BusEvent, IInv, TypeOK, FlagCoversSuspend
    <2>3. CASE SetWakeup(value)
        BY <1>2, <1>3, <2>3 DEF SetWakeup, BusEvent, IInv, TypeOK, FlagCoversSuspend
    <2>. QED  BY <1>6, <2>1, <2>2, <2>3
<1>. QED  BY <1>4, <1>5, <1>6 DEF usb_fut

\* The invariant of the USB keyboard holds under every order of bus events.
THEOREM UsbInvariant == Spec => []IInv
<1>1. IInv /\ UNCHANGED vars => IInv'
    BY DEF vars, device, host, IInv, TypeOK, T!TypeOK, FlagCoversSuspend, HostInSync
<1>2. IInv /\ [Next]_vars => IInv'
    BY <1>1, InInductive, BusInductive DEF Next
<1>. QED  BY <1>2, UsbInitial, PTL DEF Spec

\* A configured device is never suspended without in_fut knowing it.
THEOREM UsbFlagCoversSuspend == Spec => []FlagCoversSuspend
<1>1. IInv => FlagCoversSuspend
    BY DEF IInv
<1>. QED  BY <1>1, UsbInvariant, PTL

\* The host is behind only when a key state was dropped or failed to be sent.
THEOREM UsbHostInSync == Spec => []HostInSync
<1>1. IInv => HostInSync
    BY DEF IInv
<1>. QED  BY <1>1, UsbInvariant, PTL

\* The USB keyboard does what UsbTask promises the dispatcher.
THEOREM UsbImplements == Spec => ImplementsUsbTask
<1>1. Init => T!Init
    BY DEF Init
<1>2. [Next]_vars => [T!Next]_(T!vars)
    BY DEF Next, vars, in_fut, usb_fut, KeysChanged, WriteDone, PowerTransition, Request,
           RemoteWakeup, BusEvent, enabled, reset, HandleSuspended, Configure, SetWakeup,
           T!Next, T!run, T!vars, T!taskVars
<1>. QED  BY <1>1, <1>2, PTL DEF Spec, ImplementsUsbTask, T!Spec

----------------------------------------------------------------------------
\* Every nonempty set of naturals has a least element.
LEMMA LeastNat ==
    ASSUME NEW S \in SUBSET Nat, S # {}
    PROVE  \E n \in S : \A m \in S : n <= m
<1> DEFINE Less == OpToRel(<, Nat)
<1>1. IsWellFoundedOn(Less, Nat)
    BY NatLessThanWellFounded
<1> HIDE DEF Less
<1>2. PICK n \in S : \A m \in S : ~ (<<m, n>> \in Less)
    BY <1>1, WFMin
<1>3. \A i, j \in Nat : i < j => <<i, j>> \in Less
    BY DEF Less, OpToRel
<1>4. ASSUME NEW m \in S PROVE n <= m
    <2>1. m \in Nat /\ n \in Nat
        OBVIOUS
    <2>2. ~(m < n)
        BY <1>2, <1>3, <2>1
    <2>. QED  BY <2>1, <2>2
<1>. QED  BY <1>4

\* Min is the least element.
LEMMA MinIsLeast ==
    ASSUME NEW S \in SUBSET Nat, S # {}
    PROVE  Min(S) \in S /\ \A m \in S : Min(S) <= m
BY LeastNat DEF Min

\* What is left of a bitmap from a position on, and its first bit.
From(keys, pos) == {bit \in keys : bit >= pos}
First(keys, pos) == IF From(keys, pos) = {} THEN End ELSE Min(From(keys, pos))

\* The bits of a bitmap are its indices.
LEMMA BitType ==
    ASSUME NEW keys \in SUBSET (0..SIZE-1)
    PROVE  \A bit \in keys : bit \in Nat /\ bit < SIZE
<1>1. \A bit \in keys : bit \in 0..SIZE-1
    OBVIOUS
<1>. QED  BY <1>1 DEF SIZE

\* The first bit is one that no other one from the position on precedes.
LEMMA FirstIsLeast ==
    ASSUME NEW keys \in SUBSET (0..SIZE-1), NEW pos \in 0..SIZE
    PROVE  \/ /\ First(keys, pos) = End
              /\ From(keys, pos) = {}
           \/ /\ First(keys, pos) \in keys
              /\ First(keys, pos) >= pos
              /\ \A bit \in keys : bit >= pos => First(keys, pos) <= bit
<1>1. CASE From(keys, pos) = {}
    BY <1>1 DEF First
<1>2. CASE From(keys, pos) # {}
    <2>1. From(keys, pos) \in SUBSET Nat
        BY BitType DEF From
    <2>2. /\ Min(From(keys, pos)) \in From(keys, pos)
          /\ \A bit \in From(keys, pos) : Min(From(keys, pos)) <= bit
        BY <1>2, <2>1, MinIsLeast
    <2>3. First(keys, pos) = Min(From(keys, pos))
        BY <1>2 DEF First
    <2>. QED  BY <2>2, <2>3 DEF From
<1>. QED  BY <1>1, <1>2

\* Skipping the words that are zero, the iterator finds the first bit that is
\* left: the loop of BitmapIter::next ends there and nowhere else.
RestOfWord(keys, pos) == {bit \in keys : bit >= pos /\ bit \div WORD = pos \div WORD}
NextWord(pos) == (pos \div WORD + 1) * WORD
Step(f, keys, pos) ==
    IF pos = SIZE THEN End
    ELSE IF RestOfWord(keys, pos) # {} THEN Min(RestOfWord(keys, pos))
    ELSE f[NextWord(pos)]

\* The loop over the words makes progress.
LEMMA NextWordIsAhead ==
    ASSUME NEW pos \in 0..SIZE, pos # SIZE
    PROVE  NextWord(pos) \in 0..SIZE /\ NextWord(pos) > pos
BY DEF NextWord, WORD, SIZE

\* The first bit is a number, also where there is none.
LEMMA FirstIsNat ==
    ASSUME NEW keys \in SUBSET (0..SIZE-1), NEW pos \in 0..SIZE
    PROVE  First(keys, pos) \in Nat
<1>1. \A bit \in keys : bit \in Nat
    BY BitType
<1>2. First(keys, pos) = End \/ First(keys, pos) \in keys
    BY FirstIsLeast
<1>3. End \in Nat
    BY DEF End, SIZE
<1>. QED  BY <1>1, <1>2, <1>3

\* One iteration of the loop does not miss the first bit: it is in the rest of
\* the word, or the rest of the word is empty and it is the first of the next.
LEMMA FirstByWords ==
    ASSUME NEW keys \in SUBSET (0..SIZE-1), NEW pos \in 0..SIZE
    PROVE  First(keys, pos) = IF pos = SIZE THEN End
                              ELSE IF RestOfWord(keys, pos) # {}
                                   THEN Min(RestOfWord(keys, pos))
                              ELSE First(keys, NextWord(pos))
<1>1. CASE pos = SIZE
    <2>1. \A bit \in keys : bit \in Nat /\ bit < SIZE
        BY BitType
    <2>2. \A bit \in keys : ~(bit >= pos)
        BY <1>1, <2>1 DEF SIZE
    <2>3. From(keys, pos) = {}
        BY <2>2 DEF From
    <2>. QED  BY <1>1, <2>3 DEF First
<1>2. CASE pos # SIZE /\ RestOfWord(keys, pos) # {}
    <2>1. From(keys, pos) \in SUBSET Nat /\ RestOfWord(keys, pos) \in SUBSET Nat
        BY BitType DEF From, RestOfWord
    <2>2. From(keys, pos) # {} /\ RestOfWord(keys, pos) \subseteq From(keys, pos)
        BY <1>2 DEF From, RestOfWord
    <2> DEFINE m == Min(From(keys, pos))
               w == Min(RestOfWord(keys, pos))
    <2>3. m \in From(keys, pos) /\ \A bit \in From(keys, pos) : m <= bit
        BY <2>1, <2>2, MinIsLeast
    <2>4. w \in RestOfWord(keys, pos) /\ \A bit \in RestOfWord(keys, pos) : w <= bit
        BY <1>2, <2>1, MinIsLeast
    <2>5. First(keys, pos) = m
        BY <2>2 DEF First
    <2> HIDE DEF m, w
    <2>6. m \in RestOfWord(keys, pos)
        <3>1. m <= w /\ m >= pos /\ m \in keys /\ m \in Nat /\ w \in Nat
            BY <2>1, <2>2, <2>3, <2>4 DEF From
        <3>2. w \div WORD = pos \div WORD
            BY <2>4 DEF RestOfWord
        <3>3. m \div WORD = pos \div WORD
            BY <3>1, <3>2 DEF WORD, SIZE
        <3>. QED  BY <3>1, <3>3 DEF RestOfWord
    <2>7. m = w
        BY <2>1, <2>2, <2>3, <2>4, <2>6
    <2>. QED  BY <1>2, <2>5, <2>7 DEF w
<1>3. CASE pos # SIZE /\ RestOfWord(keys, pos) = {}
    <2>1. From(keys, pos) = From(keys, NextWord(pos))
        <3>1. NextWord(pos) > pos /\ NextWord(pos) \in 0..SIZE
            BY <1>3, NextWordIsAhead
        <3>2. ASSUME NEW bit \in keys, bit >= pos PROVE bit >= NextWord(pos)
            <4>1. bit \div WORD # pos \div WORD
                BY <1>3, <3>2 DEF RestOfWord
            <4>. QED  BY <3>2, <4>1 DEF NextWord, WORD, SIZE
        <3>3. ASSUME NEW bit \in keys, bit >= NextWord(pos) PROVE bit >= pos
            BY <3>1, <3>3 DEF SIZE
        <3>. QED  BY <3>2, <3>3 DEF From
    <2>. QED  BY <1>3, <2>1 DEF First
<1>. QED  BY <1>1, <1>2, <1>3

\* So the recursive function of the iterator is the first bit from each position
\* on: the two agree at the last position, and before one where they do not
\* there is none.
LEMMA NextBitIsFirst ==
    ASSUME NEW keys \in SUBSET (0..SIZE-1)
    PROVE  NextBit(keys) = [pos \in 0..SIZE |-> First(keys, pos)]
<1> DEFINE IsLoop(f) == f = [pos \in 0..SIZE |-> Step(f, keys, pos)]
           first == [pos \in 0..SIZE |-> First(keys, pos)]
           next == CHOOSE f : IsLoop(f)
<1>1. IsLoop(first)
    <2>1. ASSUME NEW pos \in 0..SIZE PROVE First(keys, pos) = Step(first, keys, pos)
        <3>1. CASE pos = SIZE
            BY <3>1, FirstByWords DEF Step
        <3>2. CASE pos # SIZE
            <4>1. first[NextWord(pos)] = First(keys, NextWord(pos))
                BY <3>2, NextWordIsAhead
            <4> HIDE DEF first
            <4>. QED  BY <3>2, <4>1, FirstByWords DEF Step
        <3>. QED  BY <3>1, <3>2
    <2>. QED  BY <2>1
<1>2. IsLoop(next)
    <2> HIDE DEF first, IsLoop
    <2>. QED  BY <1>1
<1>3. NextBit(keys) = next
    BY DEF NextBit, Step, RestOfWord, NextWord
<1> HIDE DEF next, first
<1> DEFINE Bad == {k \in 0..SIZE : next[SIZE - k] # first[SIZE - k]}
<1>4. Bad = {}
    <2>1. SUFFICES ASSUME Bad # {} PROVE FALSE
        OBVIOUS
    <2>2. Bad \in SUBSET Nat
        BY DEF SIZE
    <2>3. PICK k \in Bad : \A m \in Bad : k <= m
        <3> HIDE DEF Bad
        <3>. QED  BY <2>1, <2>2, LeastNat
    <2> DEFINE pos == SIZE - k
    <2>4. pos \in 0..SIZE /\ next[pos] # first[pos]
        BY <2>3 DEF SIZE
    <2>5. next[pos] = Step(next, keys, pos) /\ first[pos] = Step(first, keys, pos)
        <3> HIDE DEF pos
        <3>. QED  BY <1>1, <1>2, <2>4
    <2>6. pos # SIZE
        <3> HIDE DEF pos
        <3>. QED  BY <2>4, <2>5 DEF Step
    <2>7. next[NextWord(pos)] = first[NextWord(pos)]
        <3>1. NextWord(pos) \in 0..SIZE /\ NextWord(pos) > pos
            BY <2>4, <2>6, NextWordIsAhead
        <3>2. SIZE - NextWord(pos) \in 0..SIZE /\ ~(k <= SIZE - NextWord(pos))
            <4> DEFINE np == NextWord(pos)
            <4>1. k \in 0..SIZE /\ np \in 0..SIZE /\ np > SIZE - k
                BY <3>1
            <4> HIDE DEF np
            <4>2. SIZE - np \in 0..SIZE /\ ~(k <= SIZE - np)
                BY <4>1 DEF SIZE
            <4>. QED  BY <4>2 DEF np
        <3>3. SIZE - NextWord(pos) \notin Bad
            <4> HIDE DEF Bad
            <4>. QED  BY <2>3, <3>2
        <3>4. SIZE - (SIZE - NextWord(pos)) = NextWord(pos)
            BY <3>1 DEF SIZE
        <3>. QED  BY <3>2, <3>3, <3>4
    <2>. QED
        <3> HIDE DEF pos
        <3>. QED  BY <2>4, <2>5, <2>7 DEF Step
<1>5. \A pos \in 0..SIZE : next[pos] = first[pos]
    <2>1. ASSUME NEW pos \in 0..SIZE PROVE next[pos] = first[pos]
        <3>1. SIZE - pos \in 0..SIZE /\ SIZE - (SIZE - pos) = pos
            BY DEF SIZE
        <3>. QED  BY <1>4, <3>1
    <2>. QED  BY <2>1
<1>6. /\ next = [pos \in 0..SIZE |-> next[pos]]
      /\ first = [pos \in 0..SIZE |-> First(keys, pos)]
    BY <1>2 DEF first
<1>. QED  BY <1>3, <1>5, <1>6 DEF first

\* The keys of a report are those below the modifiers; rank of a key among them.
Codes(keys) == {key \in keys : key < LeftControl}
UpTo(keys, key) == {other \in Codes(keys) : other <= key}
Below(keys, pos) == {other \in Codes(keys) : other < pos}

\* Their number is that of a finite set.
LEMMA CodesFinite ==
    ASSUME NEW keys \in SUBSET (0..SIZE-1)
    PROVE  /\ IsFiniteSet(Codes(keys))
           /\ \A S \in SUBSET Codes(keys) :
                  /\ IsFiniteSet(S) /\ Cardinality(S) \in Nat
                  /\ Cardinality(S) <= Cardinality(Codes(keys))
<1>1. \A key \in Codes(keys) : key \in Nat /\ key <= LeftControl
    <2>1. \A key \in Codes(keys) : key \in Nat
        BY BitType DEF Codes
    <2>2. \A key \in Codes(keys) : key < LeftControl
        BY DEF Codes
    <2>. QED  BY <2>1, <2>2 DEF LeftControl
<1>2. IsFiniteSet(Codes(keys))
    <2>1. Codes(keys) \in SUBSET Nat /\ LeftControl \in Nat
        BY <1>1 DEF LeftControl
    <2>. QED  BY <1>1, <2>1, FS_BoundedSetOfNaturals
<1>3. ASSUME NEW S \in SUBSET Codes(keys)
      PROVE  /\ IsFiniteSet(S) /\ Cardinality(S) \in Nat
             /\ Cardinality(S) <= Cardinality(Codes(keys))
    BY <1>2, FS_Subset, FS_CardinalityType
<1>. QED  BY <1>2, <1>3

\* One round of the loop: the first bit from pos on is the next smallest key,
\* or there is none left below the modifiers.
LEMMA RoundFindsNext ==
    ASSUME NEW keys \in SUBSET (0..SIZE-1), NEW pos \in 0..LeftControl
    PROVE  LET m == First(keys, pos)
           IN  IF m < LeftControl
               THEN /\ m \in Codes(keys)
                    /\ Cardinality(UpTo(keys, m)) = Cardinality(Below(keys, pos)) + 1
               ELSE Cardinality(Codes(keys)) = Cardinality(Below(keys, pos))
<1> DEFINE m == First(keys, pos)
<1>1. \A bit \in keys : bit \in Nat /\ bit < SIZE
    BY BitType
<1>2. pos \in 0..SIZE /\ pos \in Nat /\ pos <= LeftControl
    BY DEF SIZE, LeftControl
<1>3. \/ m = End /\ From(keys, pos) = {}
      \/ m \in keys /\ m >= pos /\ \A bit \in keys : bit >= pos => m <= bit
    BY <1>2, FirstIsLeast
<1> HIDE DEF m
<1>4. CASE m < LeftControl
    <2>1. m \in keys /\ m >= pos /\ \A bit \in keys : bit >= pos => m <= bit
        BY <1>3, <1>4 DEF End, SIZE, LeftControl
    <2>2. m \in Codes(keys) /\ m \notin Below(keys, pos)
        BY <1>1, <1>2, <1>4, <2>1 DEF Codes, Below
    <2>3. UpTo(keys, m) = Below(keys, pos) \cup {m}
        <3>1. ASSUME NEW k \in Codes(keys) PROVE k <= m <=> (k < pos \/ k = m)
            <4>1. k \in keys /\ k \in Nat /\ m \in Nat
                BY <1>1, <2>1 DEF Codes
            <4>. QED  BY <1>2, <2>1, <4>1
        <3>. QED  BY <2>2, <3>1 DEF UpTo, Below
    <2>4. IsFiniteSet(Below(keys, pos))
        BY CodesFinite DEF Below
    <2>5. Cardinality(UpTo(keys, m)) = Cardinality(Below(keys, pos)) + 1
        BY <2>2, <2>3, <2>4, FS_AddElement
    <2>. QED  BY <1>4, <2>2, <2>5 DEF m
<1>5. CASE ~(m < LeftControl)
    <2>1. \A k \in Codes(keys) : k < pos
        <3>1. ASSUME NEW k \in Codes(keys), ~(k < pos) PROVE FALSE
            <4>1. k \in keys /\ k \in Nat /\ k < LeftControl /\ k >= pos
                BY <1>1, <1>2, <3>1 DEF Codes
            <4>2. k \in From(keys, pos)
                BY <4>1 DEF From
            <4>3. m \in keys /\ m <= k
                BY <1>3, <4>1, <4>2
            <4>. QED  BY <1>1, <1>5, <4>1, <4>3 DEF LeftControl
        <3>. QED  BY <3>1
    <2>2. Below(keys, pos) = Codes(keys)
        BY <2>1 DEF Below
    <2>. QED  BY <1>5, <2>2 DEF m
<1>. QED  BY <1>4, <1>5

\* What the loop of to_6kro gets in each round.
LEMMA CollectedExists ==
    ASSUME NEW keys \in SUBSET (0..SIZE-1)
    PROVE  /\ Collected(keys)[1] = First(keys, 0)
           /\ \A count \in 2..6 :
                  Collected(keys)[count] =
                      IF Collected(keys)[count - 1] >= LeftControl THEN End
                      ELSE NextBit(keys)[Collected(keys)[count - 1] + 1]
<1> DEFINE next == NextBit(keys)
           IsLoop(f) == f = [count \in 1..6 |->
                                IF count = 1 THEN next[0]
                                ELSE IF f[count - 1] >= LeftControl THEN End
                                ELSE next[f[count - 1] + 1]]
           key == CHOOSE f : IsLoop(f)
<1>1. next[0] = First(keys, 0)
    BY NextBitIsFirst DEF SIZE
<1> HIDE DEF next
<1>2. \E f : IsLoop(f)
    <2> DEFINE Round(k) == IF k >= LeftControl THEN End ELSE next[k + 1]
               k1 == next[0]
               k2 == Round(k1)
               k3 == Round(k2)
               k4 == Round(k3)
               k5 == Round(k4)
               k6 == Round(k5)
               f == [count \in 1..6 |-> CASE count = 1 -> k1 [] count = 2 -> k2
                                          [] count = 3 -> k3 [] count = 4 -> k4
                                          [] count = 5 -> k5 [] count = 6 -> k6]
    <2>1. /\ k2 = Round(k1) /\ k3 = Round(k2) /\ k4 = Round(k3)
          /\ k5 = Round(k4) /\ k6 = Round(k5) /\ k1 = next[0]
        OBVIOUS
    <2> HIDE DEF k1, k2, k3, k4, k5, k6
    <2>2. f[1] = k1 /\ f[2] = k2 /\ f[3] = k3 /\ f[4] = k4 /\ f[5] = k5 /\ f[6] = k6
        OBVIOUS
    <2>3. ASSUME NEW count \in 1..6
          PROVE  f[count] = IF count = 1 THEN next[0] ELSE Round(f[count - 1])
        <3> HIDE DEF f, Round
        <3>1. count = 1 \/ count = 2 \/ count = 3 \/ count = 4 \/ count = 5 \/ count = 6
            OBVIOUS
        <3>. QED  BY <2>1, <2>2, <3>1
    <2>4. f = [count \in 1..6 |-> f[count]]
        OBVIOUS
    <2>5. IsLoop(f)
        <3> HIDE DEF f
        <3>. QED  BY <2>3, <2>4
    <2>. QED  BY <2>5
<1>3. IsLoop(key)
    <2> HIDE DEF IsLoop
    <2>. QED  BY <1>2
<1>4. Collected(keys) = key
    BY DEF Collected, next
<1> HIDE DEF key
<1>. QED  BY <1>1, <1>3, <1>4 DEF next

\* After each round: the key found is the one of that rank, or all are found.
Found(keys, key, count) ==
    /\ key \in Nat
    /\ IF key < LeftControl
       THEN key \in Codes(keys) /\ Cardinality(UpTo(keys, key)) = count
       ELSE Cardinality(Codes(keys)) < count

\* What the loop collects are the smallest keys, one after the other.
LEMMA CollectedIsFound ==
    ASSUME NEW keys \in SUBSET (0..SIZE-1), NEW count \in 1..6
    PROVE  Found(keys, Collected(keys)[count], count)
<1> DEFINE key == Collected(keys)
           Bad == {n \in 1..6 : ~ Found(keys, key[n], n)}
<1>1. /\ key[1] = First(keys, 0)
      /\ \A n \in 2..6 : key[n] = IF key[n - 1] >= LeftControl THEN End
                                  ELSE NextBit(keys)[key[n - 1] + 1]
    BY CollectedExists
<1> HIDE DEF key
<1>2. Cardinality(Codes(keys)) \in Nat
    BY CodesFinite
<1>3. Bad = {}
    <2>1. SUFFICES ASSUME Bad # {} PROVE FALSE
        OBVIOUS
    <2>2. Bad \in SUBSET Nat
        OBVIOUS
    <2>3. PICK n \in Bad : \A m \in Bad : n <= m
        <3> HIDE DEF Bad
        <3>. QED  BY <2>1, <2>2, LeastNat
    <2>4. n \in 1..6 /\ ~ Found(keys, key[n], n)
        OBVIOUS
    <2>5. CASE n = 1
        <3>1. Below(keys, 0) = {}
            <4>1. \A k \in Codes(keys) : k \in Nat
                BY BitType DEF Codes
            <4>. QED  BY <4>1 DEF Below
        <3>2. Cardinality(Below(keys, 0)) = 0
            BY <3>1, FS_EmptySet
        <3>3. 0 \in 0..LeftControl
            BY DEF LeftControl
        <3> DEFINE m == First(keys, 0)
        <3>4. IF m < LeftControl
              THEN m \in Codes(keys) /\ Cardinality(UpTo(keys, m)) = 0 + 1
              ELSE Cardinality(Codes(keys)) = 0
            BY <3>2, <3>3, RoundFindsNext
        <3>5. m \in Nat
            BY FirstIsNat DEF SIZE
        <3> HIDE DEF m
        <3>6. Found(keys, m, 1)
            BY <3>4, <3>5 DEF Found
        <3>. QED  BY <1>1, <2>4, <2>5, <3>6 DEF m
    <2>6. CASE n # 1
        <3>1. n \in 2..6 /\ n - 1 \in 1..6 /\ ~(n <= n - 1)
            BY <2>4, <2>6
        <3>2. n - 1 \notin Bad
            <4> HIDE DEF Bad
            <4>. QED  BY <2>3, <3>1
        <3>3. Found(keys, key[n - 1], n - 1)
            BY <3>1, <3>2
        <3> DEFINE p == key[n - 1]
        <3>4. CASE ~(p < LeftControl)
            <4>1. Cardinality(Codes(keys)) < n - 1
                BY <3>3, <3>4 DEF Found
            <4>2. Cardinality(Codes(keys)) < n
                BY <1>2, <2>4, <4>1
            <4>3. key[n] \in Nat /\ ~ (key[n] < LeftControl)
                <5>1. p >= LeftControl
                    BY <3>3, <3>4 DEF Found, LeftControl
                <5>2. key[n] = End
                    BY <1>1, <3>1, <5>1
                <5>. QED  BY <5>2 DEF End, SIZE, LeftControl
            <4>. QED  BY <2>4, <4>2, <4>3 DEF Found
        <3>5. CASE p < LeftControl
            <4>1. p \in Codes(keys) /\ Cardinality(UpTo(keys, p)) = n - 1
                BY <3>3, <3>5 DEF Found
            <4>2. p \in Nat /\ p \in keys
                BY <4>1, BitType DEF Codes
            <4> HIDE DEF p
            <4>3. p + 1 \in 0..LeftControl /\ p + 1 \in 0..SIZE /\ ~(p >= LeftControl)
                BY <3>5, <4>2 DEF LeftControl, SIZE
            <4>4. Below(keys, p + 1) = UpTo(keys, p)
                <5>1. \A k \in Codes(keys) : k < p + 1 <=> k <= p
                    <6>1. \A k \in Codes(keys) : k \in Nat
                        BY BitType DEF Codes
                    <6>. QED  BY <4>2, <6>1
                <5>. QED  BY <5>1 DEF Below, UpTo
            <4>5. key[n] = First(keys, p + 1)
                <5>1. NextBit(keys)[p + 1] = First(keys, p + 1)
                    BY <4>3, NextBitIsFirst
                <5>. QED  BY <1>1, <3>1, <4>3, <5>1 DEF p
            <4>6. IF key[n] < LeftControl
                  THEN key[n] \in Codes(keys)
                       /\ Cardinality(UpTo(keys, key[n])) = (n - 1) + 1
                  ELSE Cardinality(Codes(keys)) = n - 1
                BY <4>1, <4>3, <4>4, <4>5, RoundFindsNext
            <4>7. (n - 1) + 1 = n /\ n - 1 < n /\ key[n] \in Nat
                BY <2>4, <4>3, <4>5, FirstIsNat
            <4>8. Found(keys, key[n], n)
                BY <4>6, <4>7 DEF Found
            <4>. QED  BY <2>4, <4>8
        <3>. QED  BY <3>4, <3>5
    <2>. QED  BY <2>5, <2>6
<1>. QED  BY <1>3 DEF key

\* For every bitmap, the report is what a host expects of the boot protocol:
\* the modifiers, and the six smallest scan codes below them in order.
LEMMA ReportIsOf ==
    ASSUME NEW keys \in SUBSET (0..SIZE-1)
    PROVE  IsReportOf(to_6kro(keys), keys)
<1> DEFINE key == Collected(keys)
           report == to_6kro(keys)
<1>1. report.modifier = keys \cap (LeftControl..LeftControl+7)
    <2>1. report.modifier = {k \in keys : k \div 8 = LeftControl \div 8}
        BY DEF to_6kro
    <2>2. \A k \in keys : k \in Nat
        BY BitType
    <2>3. \A k \in keys : k \div 8 = LeftControl \div 8
                              <=> k \in LeftControl..LeftControl+7
        BY <2>2 DEF LeftControl
    <2>. QED  BY <2>1, <2>3
<1>2. ASSUME NEW i \in 1..6
      PROVE  IF i <= Cardinality(Codes(keys))
             THEN /\ report.keycodes[i] \in Codes(keys)
                  /\ Cardinality(UpTo(keys, report.keycodes[i])) = i
             ELSE report.keycodes[i] = NoKey
    <2>1. Found(keys, key[i], i)
        BY CollectedIsFound
    <2>2. report.keycodes[i] = IF key[i] < LeftControl THEN key[i] ELSE NoKey
        BY DEF to_6kro
    <2> HIDE DEF key, report
    <2>3. /\ Cardinality(Codes(keys)) \in Nat
          /\ Cardinality(UpTo(keys, key[i])) <= Cardinality(Codes(keys))
        BY CodesFinite DEF UpTo
    <2>4. CASE key[i] < LeftControl
        BY <2>1, <2>2, <2>3, <2>4 DEF Found
    <2>5. CASE ~(key[i] < LeftControl)
        BY <2>1, <2>2, <2>3, <2>5 DEF Found
    <2>. QED  BY <2>4, <2>5
<1>. QED  BY <1>1, <1>2 DEF IsReportOf, Codes, UpTo

\* Whatever other keys are held, what is written to the endpoint is the boot
\* report of the keys.
THEOREM UsbSixKeyReport == Spec => []SixKeyReport
<1>1. IInv => SixKeyReport
    <2>. SUFFICES ASSUME IInv, NEW more \in SUBSET Held
                  PROVE  IsReportOf(to_6kro(usb_keys \cup more), usb_keys \cup more)
        BY DEF SixKeyReport
    <2>1. usb_keys \subseteq 0..SIZE-1
        BY UsbAssumption DEF IInv, TypeOK, T!TypeOK
    <2>2. more \subseteq 0..SIZE-1
        BY DEF Held, SIZE
    <2>. QED  BY <2>1, <2>2, ReportIsOf
<1>. QED  BY <1>1, UsbInvariant, PTL

----------------------------------------------------------------------------
\* A dropped key is signalled, and it is dropped in a suspend.
DroppedSignalled == dropped => suspended /\ (Running => remote_wakeup)

\* A key that is dropped while the bus sleeps is always signalled to the
\* function that wakes the host.
LEMMA UsbDroppedSignalled == Spec => []DroppedSignalled
<1>1. Init => DroppedSignalled
    BY DEF Init, DroppedSignalled
<1>2. IInv /\ DroppedSignalled /\ [Next]_vars => DroppedSignalled'
    <2>. SUFFICES ASSUME IInv, DroppedSignalled, [Next]_vars PROVE DroppedSignalled'
        OBVIOUS
    <2>. USE DEF DroppedSignalled, Running, device
    <2>1. CASE KeysChanged
        BY <2>1 DEF KeysChanged
    <2>2. CASE WriteDone \/ PowerTransition
        BY <2>2 DEF WriteDone, PowerTransition, Written, T!WriteDone, T!PowerTransition
    <2>3. CASE RemoteWakeup
        BY <2>3 DEF RemoteWakeup
    <2>4. CASE enabled \/ reset
        BY <2>4 DEF enabled, reset, BusEvent
    <2>5. ASSUME NEW value \in BOOLEAN,
                 HandleSuspended(value) \/ Configure(value) \/ SetWakeup(value)
          PROVE  DroppedSignalled'
        BY <2>5 DEF HandleSuspended, Configure, SetWakeup, BusEvent
    <2>6. CASE Request
        BY <2>6 DEF Request, T!Request, T!taskVars
    <2>7. CASE UNCHANGED vars
        BY <2>7 DEF vars
    <2>. QED  BY <2>1, <2>2, <2>3, <2>4, <2>5, <2>6, <2>7 DEF Next, in_fut, usb_fut
<1>. QED  BY <1>1, <1>2, UsbInvariant, PTL DEF Spec

\* The hypothesis of the theorem below: the guards of RemoteWakeup are those of
\* the code, and where they hold the action can be taken. It is a validity that
\* speaks of ENABLED, so TLC checks it and no prover here.
WakeupReady == Running /\ suspended /\ remote_wakeup => ENABLED <<RemoteWakeup>>_vars
\* A dropped key whose wakeup is still to be done, and the ways out of it.
DroppedAwake == dropped /\ suspended /\ Running
Awake == ~suspended \/ ~Running

\* A key dropped in a suspend ends the suspend, unless the wakeup is refused or
\* the keyboard shut down: the signal stays set until RemoteWakeup takes it.
THEOREM UsbDroppedKeyWakes == FairSpec /\ []WakeupReady => DroppedKeyWakes
<1>1. DroppedSignalled /\ dropped /\ Running => Running /\ suspended /\ remote_wakeup
    BY DEF DroppedSignalled
<1>2. DroppedAwake /\ [Next]_vars => DroppedAwake' \/ Awake'
    <2>. SUFFICES ASSUME DroppedAwake, [Next]_vars PROVE DroppedAwake' \/ Awake'
        OBVIOUS
    <2>. USE DEF DroppedAwake, Awake, Running, device
    <2>1. CASE KeysChanged
        BY <2>1 DEF KeysChanged
    <2>2. CASE WriteDone \/ PowerTransition
        BY <2>2 DEF WriteDone, PowerTransition
    <2>3. CASE RemoteWakeup
        BY <2>3 DEF RemoteWakeup
    <2>4. CASE enabled \/ reset
        BY <2>4 DEF enabled, reset, BusEvent
    <2>5. ASSUME NEW value \in BOOLEAN,
                 HandleSuspended(value) \/ Configure(value) \/ SetWakeup(value)
          PROVE  DroppedAwake' \/ Awake'
        BY <2>5 DEF HandleSuspended, Configure, SetWakeup, BusEvent
    <2>6. CASE Request
        BY <2>6 DEF Request
    <2>7. CASE UNCHANGED vars
        BY <2>7 DEF vars
    <2>. QED  BY <2>1, <2>2, <2>3, <2>4, <2>5, <2>6, <2>7 DEF Next, in_fut, usb_fut
<1>3. DroppedAwake /\ <<RemoteWakeup>>_vars => Awake'
    BY DEF RemoteWakeup, Awake, Running
<1>4. dropped => DroppedAwake \/ Awake
    BY DEF DroppedAwake, Awake
<1>5. DroppedAwake => dropped /\ Running
    BY DEF DroppedAwake
<1>. QED  BY <1>1, <1>2, <1>3, <1>4, <1>5, UsbDroppedSignalled, PTL
          DEF FairSpec, Fairness, Spec, WakeupReady, DroppedKeyWakes, Awake

\* The hypotheses of the next theorem: the task can receive the event that is
\* in its channel, and a write ends once the host polls the endpoint.
PowerTransitionReady ==
    Running /\ usb_pc = "receive" /\ ShutdownRequested => ENABLED <<PowerTransition>>_vars
WriteDoneReady ==
    Running /\ usb_pc = "write" /\ (configured => ~suspended) => ENABLED <<WriteDone>>_vars

\* The task at one of its awaits, with a shutdown in its channel.
Pending(pc) == Running /\ ShutdownRequested /\ usb_pc = pc

\* What a step does to a shutdown that waits in the channel: nothing but the
\* task takes it out, and no report can come in between.
LEMMA PendingSteps ==
    ASSUME IInv, Running, ShutdownRequested, [Next]_vars
    PROVE  /\ ShutdownRequested' \/ ~Running'
           /\ usb_pc = "receive" => usb_pc' \in {"receive", "done"}
           /\ PowerTransition => ~Running'
           /\ WriteDone => usb_pc' = "receive"
           /\ ~WriteDone /\ usb_pc = "write" => usb_pc' = "write"
<1>. USE DEF ShutdownRequested, Running, T!UsbPowerTransition
<1>1. ~KeysChanged
    BY DEF KeysChanged, T!KeysChanged
<1>2. CASE PowerTransition
    BY <1>2 DEF PowerTransition, T!PowerTransition, WriteDone, T!WriteDone
<1>3. CASE WriteDone
    BY <1>3 DEF PowerTransition, T!PowerTransition, WriteDone, T!WriteDone
<1>4. CASE usb_fut
    <2>1. UNCHANGED <<usb_in, usb_pc>>
        BY <1>4 DEF usb_fut, RemoteWakeup, enabled, reset, HandleSuspended, Configure,
            SetWakeup, BusEvent
    <2>. QED  BY <2>1 DEF PowerTransition, T!PowerTransition, WriteDone, T!WriteDone
<1>5. CASE Request \/ UNCHANGED vars
    <2>1. /\ usb_pc' = usb_pc
          /\ usb_in' # <<>> /\ Head(usb_in') = Head(usb_in)
        <3>1. usb_in \in Seq(T!UsbInEvent) /\ usb_in # <<>>
            BY DEF IInv, TypeOK, T!TypeOK, T!Buffer
        <3>. QED  BY <1>5, <3>1 DEF Request, T!Request, T!taskVars, T!Send, T!Capacity, vars
    <2>. QED  BY <2>1 DEF PowerTransition, T!PowerTransition, WriteDone, T!WriteDone
<1>. QED  BY <1>1, <1>2, <1>3, <1>4, <1>5 DEF Next, in_fut

\* The USB task obeys a shutdown that is in its channel, from wherever it is,
\* if the host does not keep a configured device suspended for ever.
THEOREM UsbShutdownHonoured ==
    FairSpec /\ []PowerTransitionReady /\ []WriteDoneReady => ShutdownHonoured
<1>1. IInv /\ Pending("receive") /\ [Next]_vars => Pending("receive")' \/ (~Running)'
    BY PendingSteps DEF Pending, Running
<1>2. IInv /\ Pending("receive") /\ [Next]_vars /\ <<PowerTransition>>_vars => (~Running)'
    BY PendingSteps DEF Pending
<1>3. IInv /\ Pending("write") /\ [Next]_vars
          => Pending("write")' \/ Pending("receive")' \/ (~Running)'
    BY PendingSteps DEF Pending, Running
<1>4. IInv /\ Pending("write") /\ [Next]_vars /\ <<WriteDone>>_vars
          => Pending("receive")' \/ (~Running)'
    BY PendingSteps DEF Pending
<1>5. IInv /\ Running /\ ShutdownRequested => Pending("receive") \/ Pending("write")
    BY DEF Pending, IInv, TypeOK, T!TypeOK, Running
<1>6. /\ Pending("receive") => Running /\ usb_pc = "receive" /\ ShutdownRequested
      /\ Pending("write") => Running /\ usb_pc = "write"
    BY DEF Pending
<1>. QED
    BY <1>1, <1>2, <1>3, <1>4, <1>5, <1>6, UsbInvariant, PTL
    DEF FairSpec, Fairness, Spec, ShutdownHonoured, PowerTransitionReady, WriteDoneReady
=============================================================================
