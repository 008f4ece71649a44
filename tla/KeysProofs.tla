----------------------------- MODULE KeysProofs -----------------------------
(***************************************************************************)
(* No change of the keys is lost between the debouncing and the channel to *)
(* the dispatcher, and the key task does what KeyTask promises the rest of *)
(* the firmware, for every key matrix and every FN mapping: the invariant  *)
(* IInv of Keys is inductive.  The mapping itself is not expanded, except  *)
(* for the matrix at rest.                                                 *)
(***************************************************************************)
EXTENDS Keys, TLAPS

\* A matrix without a closed crossing is reported as no key.
LEMMA MappedRest == D!Mapped({}) = {} /\ {} \in Reportable
<1>1. D!Mapped({}) = {}
    BY DEF D!Mapped
<1>. QED  BY <1>1 DEF Reportable

\* One debouncing step: it keeps the types, and what it leaves in `reported`
\* is the mapped debounced state, because a step that records no change in
\* key_changes[0] has not changed the bitmap.
LEMMA DebounceStep ==
    ASSUME TypeOK, ReportedInSync,
           NEW closed \in SUBSET Locations,
           D!Debounce(POLL_ARGUMENT, closed)
    PROVE  /\ bitmap_debounced' \in SUBSET D!ScanCodes
           /\ key_changes' \in [0..D!Window-1 -> SUBSET D!ScanCodes]
           /\ ReportedInSync'
           /\ reported' \in Reportable
<1>. DEFINE shifted == D!Shifted(key_changes, POLL_ARGUMENT)
            change == D!SymmetricDifference(bitmap_debounced', bitmap_debounced)
<1>1. bitmap_debounced' \in SUBSET D!ScanCodes
    <2>1. D!Bouncy(closed) \subseteq D!ScanCodes
        BY DEF D!Bouncy, D!ScanCodes
    <2>. QED  BY <2>1 DEF D!Debounce, D!Select, TypeOK
<1>2. shifted \in [0..D!Window-1 -> SUBSET D!ScanCodes]
    BY DEF D!Shifted, D!CapAt, D!Window, POLL_ARGUMENT, TypeOK
<1>3. key_changes' = [shifted EXCEPT ![0] = change]
    BY DEF D!Debounce
<1>4. change \in SUBSET D!ScanCodes
    BY <1>1 DEF D!SymmetricDifference, TypeOK
<1>5. key_changes' \in [0..D!Window-1 -> SUBSET D!ScanCodes]
    BY <1>2, <1>3, <1>4
<1>6. key_changes'[0] = change
    BY <1>2, <1>3 DEF D!Window
<1>7. ReportedInSync'
    <2>1. CASE change # {}
        BY <1>6, <2>1 DEF D!Debounce, ReportedInSync
    <2>2. CASE change = {}
        <3>1. bitmap_debounced' = bitmap_debounced
            BY <2>2 DEF D!SymmetricDifference
        <3>2. reported' = reported
            BY <1>6, <2>2 DEF D!Debounce
        <3>. QED  BY <3>1, <3>2 DEF ReportedInSync
    <2>. QED  BY <2>1, <2>2
<1>8. reported' \in Reportable
    BY <1>1, <1>7 DEF ReportedInSync, Reportable
<1>. QED  BY <1>1, <1>5, <1>7, <1>8

----------------------------------------------------------------------------
\* Nothing is pressed and nothing was reported when the task is made.
LEMMA KeysInitial == Init => IInv
<1>. SUFFICES ASSUME Init PROVE IInv
    OBVIOUS
<1>. USE DEF Init, T!Init, D!InitCode
<1>1. T!TypeOK
    <2>1. keys_in \in T!Buffer(T!KeysInEvent) /\ keys_out \in T!Buffer(T!KeysOutEvent)
        BY DEF T!Buffer, T!Capacity
    <2>. QED  BY <2>1, MappedRest DEF T!TypeOK, T!PowerLevel
<1>2. TypeOK
    BY <1>1, MappedRest DEF TypeOK, D!Window
<1>3. ReportedInSync /\ DeliveredInSync
    BY MappedRest DEF ReportedInSync, DeliveredInSync
<1>4. ScanOnlyPowered
    BY DEF ScanOnlyPowered
<1>. QED  BY <1>2, <1>3, <1>4 DEF IInv

\* A step of the abstract task, or of the dispatcher's side of it, keeps the
\* types of what they share.
LEMMA TaskType ==
    ASSUME T!TypeOK,
           \/ T!new \/ T!SendKeys \/ T!PowerTransition \/ T!NumlockLed
           \/ T!SendDone \/ T!NoEvent \/ T!Wake \/ T!Take \/ T!Request
    PROVE  T!TypeOK'
<1>. USE DEF T!taskVars
<1>1. CASE T!new \/ T!NoEvent \/ T!Wake
    BY <1>1 DEF T!TypeOK, T!new, T!NoEvent, T!Wake
<1>2. CASE T!SendKeys
    <2>1. T!KeysChanged(reported) \in T!KeysOutEvent
        BY DEF T!TypeOK, T!KeysOutEvent
    <2>2. keys_out' \in T!Buffer(T!KeysOutEvent)
        BY <1>2, <2>1 DEF T!TypeOK, T!SendKeys, T!Send, T!Buffer, T!Capacity
    <2>. QED  BY <1>2, <2>2 DEF T!TypeOK, T!SendKeys
<1>3. CASE T!PowerTransition
    <2>1. Head(keys_in) \in T!KeysInEvent /\ keys_in' \in T!Buffer(T!KeysInEvent)
        BY <1>3 DEF T!TypeOK, T!PowerTransition, T!Receive, T!Buffer, T!Capacity
    <2>2. Head(keys_in).level \in T!PowerLevel
        BY <1>3, <2>1 DEF T!PowerTransition, T!KeysInEvent
    <2>. QED  BY <1>3, <2>1, <2>2 DEF T!TypeOK, T!PowerTransition
<1>4. CASE T!NumlockLed
    <2>1. keys_in' \in T!Buffer(T!KeysInEvent)
        BY <1>4 DEF T!TypeOK, T!NumlockLed, T!Receive, T!Buffer, T!Capacity
    <2>. QED  BY <1>4, <2>1 DEF T!TypeOK, T!NumlockLed
<1>5. CASE T!SendDone
    <2>1. T!PowerTransitionDone(keys_level) \in T!KeysOutEvent
        BY DEF T!TypeOK, T!KeysOutEvent
    <2>2. keys_out' \in T!Buffer(T!KeysOutEvent)
        BY <1>5, <2>1 DEF T!TypeOK, T!SendDone, T!Send, T!Buffer, T!Capacity
    <2>. QED  BY <1>5, <2>2 DEF T!TypeOK, T!SendDone
<1>6. CASE T!Take
    <2>1. keys_out' \in T!Buffer(T!KeysOutEvent)
        BY <1>6 DEF T!TypeOK, T!Take, T!Receive, T!Buffer, T!Capacity
    <2>. QED  BY <1>6, <2>1 DEF T!TypeOK, T!Take
<1>7. CASE T!Request
    <2>1. keys_in' \in T!Buffer(T!KeysInEvent)
        BY <1>7 DEF T!TypeOK, T!Request, T!Send, T!Buffer, T!Capacity
    <2>. QED  BY <1>7, <2>1 DEF T!TypeOK, T!Request
<1>. QED  BY <1>1, <1>2, <1>3, <1>4, <1>5, <1>6, <1>7

\* A poll: the keys that differ from those reported are about to be sent.
LEMMA PollInductive ==
    ASSUME IInv, NEW closed \in SUBSET Locations, poll(closed)
    PROVE  IInv'
<1>. USE DEF IInv
<1>1. /\ bitmap_debounced' \in SUBSET D!ScanCodes
      /\ key_changes' \in [0..D!Window-1 -> SUBSET D!ScanCodes]
      /\ ReportedInSync'
      /\ reported' \in Reportable
    BY DebounceStep DEF poll
<1>2. T!TypeOK'
    BY <1>1 DEF poll, TypeOK, T!TypeOK, channels
<1>3. TypeOK'
    BY <1>1, <1>2 DEF poll, TypeOK
<1>4. ScanOnlyPowered'
    BY DEF poll, ScanOnlyPowered
<1>5. DeliveredInSync'
    BY <1>1 DEF poll, DeliveredInSync, ReportedInSync
<1>. QED  BY <1>1, <1>3, <1>4, <1>5

LEMMA KeysInductive == IInv /\ [Next]_vars => IInv'
<1>. SUFFICES ASSUME IInv, [Next]_vars PROVE IInv'
    OBVIOUS
<1>. USE DEF IInv, debounceVars
<1>1. ASSUME NEW closed \in SUBSET Locations, poll(closed) PROVE IInv'
    BY <1>1, PollInductive
<1>2. CASE SendKeys
    <2>1. TypeOK'
        BY <1>2, TaskType DEF SendKeys, T!SendKeys, TypeOK, T!TypeOK
    <2>. QED
        BY <1>2, <2>1 DEF SendKeys, T!SendKeys, ScanOnlyPowered, ReportedInSync,
            DeliveredInSync
<1>3. CASE PowerTransition
    <2>1. T!TypeOK'
        BY <1>3, TaskType DEF PowerTransition, TypeOK
    <2>2. interval' \in {1, 10}
        BY <1>3, <2>1 DEF PowerTransition, TypeOK, T!TypeOK, T!PowerLevel
    <2>3. TypeOK'
        BY <1>3, <2>1, <2>2 DEF PowerTransition, TypeOK
    <2>. QED
        BY <1>3, <2>3 DEF PowerTransition, T!PowerTransition, ScanOnlyPowered,
            ReportedInSync, DeliveredInSync
<1>4. CASE SendDone
    <2>1. TypeOK'
        BY <1>4, TaskType DEF SendDone, TypeOK
    <2>. QED
        BY <1>4, <2>1 DEF SendDone, T!SendDone, ScanOnlyPowered, ReportedInSync,
            DeliveredInSync
<1>5. CASE new \/ NumlockLed \/ NoEvent \/ Wake \/ Take \/ Request
    <2>1. TypeOK'
        BY <1>5, TaskType DEF new, NumlockLed, NoEvent, Wake, Take, Request, TypeOK
    <2>. QED
        BY <1>5, <2>1 DEF new, NumlockLed, NoEvent, Wake, Take, Request, T!new,
            T!NumlockLed, T!NoEvent, T!Wake, T!Take, T!Request, T!taskVars,
            ScanOnlyPowered, ReportedInSync, DeliveredInSync
<1>6. CASE UNCHANGED vars
    BY <1>6 DEF vars, T!vars, T!taskVars, D!code, TypeOK, T!TypeOK, ScanOnlyPowered,
        ReportedInSync, DeliveredInSync
<1>. QED
    BY <1>1, <1>2, <1>3, <1>4, <1>5, <1>6 DEF Next, run

\* The inductive invariant of the key task, with any dispatcher.
THEOREM KeysInvariant == Spec => []IInv
BY KeysInitial, KeysInductive, PTL DEF Spec

\* However long the dispatcher leaves an event in the channel, the key state
\* delivered last is the mapped debounced state, unless one is being sent.
THEOREM KeysDeliveredInSync == Spec => []DeliveredInSync
<1>1. IInv => DeliveredInSync
    BY DEF IInv
<1>. QED  BY <1>1, KeysInvariant, PTL

\* The shift registers are not scanned after they were switched off.
THEOREM KeysScanOnlyPowered == Spec => []ScanOnlyPowered
<1>1. IInv => ScanOnlyPowered
    BY DEF IInv
<1>. QED  BY <1>1, KeysInvariant, PTL

----------------------------------------------------------------------------
\* A step of the key task is a step of the abstract task or none at all: a
\* poll is one of the abstract polls, because what it reports is reportable.
LEMMA KeysStep == IInv /\ [Next]_vars => [T!Next]_(T!vars)
<1>. SUFFICES ASSUME IInv, [Next]_vars PROVE T!Next \/ UNCHANGED T!vars
    OBVIOUS
<1>1. ASSUME NEW closed \in SUBSET Locations, poll(closed) PROVE T!Next
    <2>1. reported' \in Reportable
        BY <1>1, DebounceStep DEF poll, IInv
    <2>2. T!poll(reported')
        BY <1>1 DEF poll, T!poll, channels
    <2>. QED  BY <2>1, <2>2 DEF T!Next, T!run
<1>2. CASE new \/ SendKeys \/ PowerTransition \/ NumlockLed \/ SendDone \/ NoEvent \/ Wake
    BY <1>2 DEF new, SendKeys, PowerTransition, NumlockLed, SendDone, NoEvent, Wake,
        T!Next, T!run
<1>3. CASE Take \/ Request
    BY <1>3 DEF Take, Request, T!Next
<1>4. CASE UNCHANGED vars
    BY <1>4 DEF vars
<1>. QED  BY <1>1, <1>2, <1>3, <1>4 DEF Next, run

\* The detailed key task implements the one the firmware is composed of.
THEOREM KeysImplements == Spec => ImplementsKeyTask
<1>1. Init => T!Init
    BY DEF Init
<1>. QED  BY <1>1, KeysStep, KeysInvariant, PTL DEF Spec, ImplementsKeyTask, T!Spec

----------------------------------------------------------------------------
\* The task at one of its awaits with a shutdown in its channel, before the
\* next poll, while it confirms the shutdown, and after.
Requested(pc) == ShutdownRequested /\ keys_pc = pc
Asleep == ShutdownRequested /\ keys_pc \in {"enable", "sleep"}
Confirming == keys_pc = "sendDone" /\ keys_level = "Shutdown"
Done == keys_pc = "done"
\* The dispatcher has not taken the last event.
Full == keys_out # <<>>

\* The hypothesis of the theorem below: the task runs where its await is over.
\* It is a validity that speaks of ENABLED, so TLC checks it and no prover here.
RunReady ==
    (\/ keys_pc \in {"enable", "poll", "sleep"}
     \/ Requested("events")
     \/ keys_pc \in {"sendKeys", "sendDone"} /\ keys_out = <<>>) => ENABLED <<run>>_vars

\* The request stays at the head of its channel until the task receives it.
LEMMA RequestKept ==
    ASSUME IInv, [Next]_vars, ShutdownRequested, ~(PowerTransition /\ keys_pc = "events")
    PROVE  ShutdownRequested'
<1>. USE DEF ShutdownRequested
<1>1. ~NumlockLed
    BY DEF NumlockLed, T!NumlockLed
<1>2. ~Request
    <2>1. Len(keys_in) # 0
        <3>1. keys_in \in Seq(T!KeysInEvent) /\ keys_in # <<>>
            BY DEF IInv, TypeOK, T!TypeOK, T!Buffer
        <3>. QED  BY <3>1
    <2>. QED  BY <2>1 DEF Request, T!Request, T!Send, T!Capacity
<1>3. UNCHANGED keys_in
    BY <1>1, <1>2 DEF Next, run, new, T!new, poll, channels, SendKeys, T!SendKeys,
        PowerTransition, T!PowerTransition, SendDone, T!SendDone, NoEvent, T!NoEvent,
        Wake, T!Wake, Take, T!Take, vars, T!vars
<1>. QED  BY <1>3

\* Taking an event empties the channel.
LEMMA TakeEmpties == IInv /\ Take => (~Full)'
<1>1. IInv => keys_out \in T!Buffer(T!KeysOutEvent)
    BY DEF IInv, TypeOK, T!TypeOK
<1>. QED  BY <1>1 DEF Take, T!Take, T!Receive, Full, T!Buffer, T!Capacity

\* Where the task goes while the request waits.
LEMMA RequestedRun ==
    ASSUME IInv, [Next]_vars, run, ShutdownRequested
    PROVE  /\ Asleep => Requested("poll")'
           /\ Requested("poll") => Requested("sendKeys")' \/ Requested("events")'
           /\ Requested("sendKeys") => Requested("events")'
           /\ Requested("events") => Confirming'
           /\ Requested("sendDone") => Requested("events")' \/ Done'
<1>. USE DEF Requested, Asleep, Done
<1>1. CASE keys_pc = "events"
    BY <1>1 DEF run, new, T!new, poll, SendKeys, T!SendKeys, PowerTransition, T!PowerTransition,
        NumlockLed, T!NumlockLed, SendDone, T!SendDone, NoEvent, T!NoEvent, Wake, T!Wake,
        ShutdownRequested, Confirming
<1>2. CASE keys_pc # "events"
    <2>1. ShutdownRequested'
        BY <1>2, RequestKept
    <2>. QED
        BY <1>2, <2>1 DEF run, new, T!new, poll, SendKeys, T!SendKeys, PowerTransition,
            T!PowerTransition, NumlockLed, T!NumlockLed, SendDone, T!SendDone, NoEvent,
            T!NoEvent, Wake, T!Wake
<1>. QED  BY <1>1, <1>2

\* A task that confirms the shutdown is done with it.
LEMMA ConfirmingRun == run /\ Confirming => Done'
BY DEF run, new, T!new, poll, SendKeys, T!SendKeys, PowerTransition, T!PowerTransition,
       NumlockLed, T!NumlockLed, SendDone, T!SendDone, NoEvent, T!NoEvent, Wake, T!Wake,
       Confirming, Done

\* The dispatcher's side does not move the task.
LEMMA OutsideSteps ==
    ASSUME [Next]_vars, ~run
    PROVE  keys_pc' = keys_pc /\ keys_level' = keys_level
BY DEF Next, Request, T!Request, Take, T!Take, T!taskVars, vars, T!vars

\* The channel stays empty until the task has sent.
LEMMA SendSteps ==
    ASSUME IInv, [Next]_vars, ~Full, keys_pc \in {"sendKeys", "sendDone"}
    PROVE  (~Full)' \/ keys_pc' # keys_pc
<1>1. CASE run
    BY <1>1 DEF run, new, T!new, poll, SendKeys, T!SendKeys, PowerTransition,
        T!PowerTransition, NumlockLed, T!NumlockLed, SendDone, T!SendDone, NoEvent,
        T!NoEvent, Wake, T!Wake
<1>2. CASE Take
    BY <1>2, TakeEmpties
<1>3. CASE Request \/ UNCHANGED vars
    BY <1>3 DEF Request, T!Request, vars, T!vars, Full
<1>. QED  BY <1>1, <1>2, <1>3 DEF Next

\* A shutdown request ends the task, unless an event stays in the channel for
\* ever while the task waits to send. Nothing is assumed of the dispatcher.
THEOREM KeysShutdownCompletes == FairSpec /\ []RunReady => ShutdownCompletes
<1>1. IInv /\ [Next]_vars =>
          /\ Asleep => Asleep' \/ Requested("poll")'
          /\ Requested("poll") =>
                 Requested("poll")' \/ Requested("sendKeys")' \/ Requested("events")'
          /\ Requested("sendKeys") => Requested("sendKeys")' \/ Requested("events")'
          /\ Requested("events") => Requested("events")' \/ Confirming'
          /\ Requested("sendDone") =>
                 Requested("sendDone")' \/ Requested("events")' \/ Done'
          /\ Confirming => Confirming' \/ Done'
    <2>1. ASSUME IInv, [Next]_vars, ~run
          PROVE  /\ Asleep => Asleep'
                 /\ \A pc : Requested(pc) => Requested(pc)'
                 /\ Confirming => Confirming'
        <3>1. ~PowerTransition
            BY <2>1 DEF run
        <3>2. ShutdownRequested => ShutdownRequested'
            BY <2>1, <3>1, RequestKept
        <3>. QED  BY <2>1, <3>2, OutsideSteps DEF Asleep, Requested, Confirming
    <2>2. ASSUME ShutdownRequested = FALSE
          PROVE  ~Asleep /\ \A pc : ~Requested(pc)
        BY <2>2 DEF Asleep, Requested
    <2>. QED  BY <2>1, <2>2, RequestedRun, ConfirmingRun DEF Asleep, Requested
<1>2. IInv /\ [Next]_vars /\ <<run>>_vars =>
          /\ Asleep => Requested("poll")'
          /\ Requested("poll") => Requested("sendKeys")' \/ Requested("events")'
          /\ Requested("sendKeys") => Requested("events")'
          /\ Requested("events") => Confirming'
          /\ Requested("sendDone") => Requested("events")' \/ Done'
          /\ Confirming => Done'
    BY RequestedRun, ConfirmingRun DEF Asleep, Requested
<1>3. /\ Requested("sendKeys") /\ Full => Stuck
      /\ Requested("sendDone") /\ Full => Stuck
      /\ Confirming /\ Full => Stuck
    BY DEF Requested, Confirming, Full, Stuck
<1>4. IInv /\ [Next]_vars /\ ~Full =>
          /\ Requested("sendKeys") => (~Full)' \/ (~Requested("sendKeys"))'
          /\ Requested("sendDone") => (~Full)' \/ (~Requested("sendDone"))'
          /\ Confirming => (~Full)' \/ (~Confirming)'
    BY SendSteps DEF Requested, Confirming
<1>5. /\ Asleep \/ Requested("poll") => keys_pc \in {"enable", "poll", "sleep"}
      /\ Requested("sendKeys") \/ Requested("sendDone") \/ Confirming
             => keys_pc \in {"sendKeys", "sendDone"}
      /\ Full => keys_out # <<>>
      /\ ~Full => keys_out = <<>>
      /\ Done => keys_pc = "done"
    BY DEF Asleep, Requested, Confirming, Full, Done
<1>6. IInv /\ ShutdownRequested /\ keys_pc # "done" =>
          \/ Asleep \/ Requested("poll") \/ Requested("sendKeys")
          \/ Requested("events") \/ Requested("sendDone")
    BY DEF IInv, TypeOK, T!TypeOK, Asleep, Requested
<1>. QED
    BY <1>1, <1>2, <1>3, <1>4, <1>5, <1>6, KeysInvariant, PTL
    DEF FairSpec, Fairness, Spec, RunReady, ShutdownCompletes
=============================================================================
