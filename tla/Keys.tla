-------------------------------- MODULE Keys --------------------------------
(***************************************************************************)
(* The key task in full: Keys::run of keyboard/src/keys.rs with the        *)
(* debouncing of KeyDebounce in each poll, the power levels and the time   *)
(* between the polls.  It implements KeyTask.                              *)
(***************************************************************************)
EXTENDS Channel

CONSTANTS Locations, KeyAt, FKeys, FnMapping, Function, Invalid

VARIABLES
    bitmap_debounced, key_changes, reported,    \* the fields of Keys
    keys_pc, key_matrix, keys_level, keys_in, keys_out,     \* see KeyTask
    interval,       \* the local variable of run, in ms
    delivered       \* history: the key state of the last KeysChanged sent

\* run passes this interval_ms to every call of poll.
POLL_ARGUMENT == 1

\* Debounce of KeyDebounce without its history of the scans.
D == INSTANCE KeyDebounce WITH Intervals <- {POLL_ARGUMENT}, pressed <- {},
                               age <- <<>>, held <- <<>>, dwell <- <<>>

\* Everything that can be reported: the mapped states of the matrix.
Reportable == {D!Mapped(keys) : keys \in SUBSET D!ScanCodes}

T == INSTANCE KeyTask WITH KeyStates <- Reportable, NoKeys <- {}

debounceVars == <<bitmap_debounced, key_changes>>
channels == <<keys_in, keys_out>>
vars == <<D!code, T!vars, interval, delivered>>

Init ==
    /\ D!InitCode
    /\ T!Init
    /\ interval = 1
    /\ delivered = {}

new ==
    /\ T!new
    /\ UNCHANGED <<debounceVars, interval, delivered>>

\* Mutant: every debounced change is an event, also one the mapping hides.
pollReportsEveryChange(closed) ==
    /\ keys_pc = "poll"
    /\ D!Debounce(POLL_ARGUMENT, closed)
    /\ keys_pc' = IF bitmap_debounced' # bitmap_debounced THEN "sendKeys" ELSE "events"
    /\ UNCHANGED <<key_matrix, keys_level, channels, interval, delivered>>

\* poll is not cancel-safe: it runs from the scan to the event it may send.
poll(closed) ==
    /\ keys_pc = "poll"
    /\ D!Debounce(POLL_ARGUMENT, closed)
    /\ keys_pc' = IF reported' # reported THEN "sendKeys" ELSE "events"
    /\ UNCHANGED <<key_matrix, keys_level, channels, interval, delivered>>

\* Mutant: try_send instead of send.
SendKeysTry ==
    /\ keys_pc = "sendKeys"
    /\ keys_pc' = "events"
    /\ \/ Send(keys_out, T!KeysChanged(reported)) /\ delivered' = reported
       \/ keys_out # <<>> /\ UNCHANGED <<keys_out, delivered>>
    /\ UNCHANGED <<debounceVars, key_matrix, reported, keys_level, keys_in,
                   interval>>

SendKeys ==
    /\ T!SendKeys
    /\ delivered' = reported
    /\ UNCHANGED <<debounceVars, interval>>

PowerTransition ==
    /\ T!PowerTransition
    /\ interval' = CASE keys_level' = "Normal"   -> 1
                     [] keys_level' = "LowPower" -> 10
                     [] keys_level' = "Shutdown" -> interval
    /\ UNCHANGED <<debounceVars, delivered>>

NumlockLed ==
    /\ T!NumlockLed
    /\ UNCHANGED <<debounceVars, interval, delivered>>

SendDone ==
    /\ T!SendDone
    /\ UNCHANGED <<debounceVars, interval, delivered>>

NoEvent ==
    /\ T!NoEvent
    /\ UNCHANGED <<debounceVars, interval, delivered>>

\* timer.after(interval)
Wake ==
    /\ T!Wake
    /\ UNCHANGED <<debounceVars, interval, delivered>>

run ==
    \/ new
    \/ \E closed \in SUBSET Locations : poll(closed)
    \/ SendKeys
    \/ PowerTransition
    \/ NumlockLed
    \/ SendDone
    \/ NoEvent
    \/ Wake

Take == T!Take /\ UNCHANGED <<debounceVars, interval, delivered>>
Request == T!Request /\ UNCHANGED <<debounceVars, interval, delivered>>

Next == run \/ Request \/ Take
Spec == Init /\ [][Next]_vars

\* The executor keeps polling the task.  Nothing is assumed of Take: once the
\* dispatcher has requested a shutdown it never takes an event again.
Fairness == WF_vars(run)
FairSpec == Spec /\ Fairness

----------------------------------------------------------------------------

TypeOK ==
    /\ T!TypeOK
    /\ bitmap_debounced \subseteq D!ScanCodes
    /\ key_changes \in [0..D!Window-1 -> SUBSET D!ScanCodes]
    /\ interval \in {1, 10}
    /\ delivered \in Reportable

(***************************************************************************)
(* However long the dispatcher leaves an event in the channel, no change   *)
(* of the keys is lost: whenever the task is not about to send, the last   *)
(* key state it delivered is the mapped state of the debounced keys.       *)
(***************************************************************************)
DeliveredInSync ==
    keys_pc # "sendKeys" => delivered = D!Mapped(bitmap_debounced)

(***************************************************************************)
(* The matrix is scanned only while it is powered: nothing takes the task  *)
(* back to poll once Shutdown has switched the shift registers off.        *)
(***************************************************************************)
ScanOnlyPowered ==
    ~key_matrix => keys_pc \in {"sendDone", "done"} /\ keys_level = "Shutdown"

(***************************************************************************)
(* What makes DeliveredInSync inductive: the state last reported is the    *)
(* mapped debounced state, whether it has been sent yet or not, and once   *)
(* sent it is the state delivered.                                         *)
(***************************************************************************)
ReportedInSync == reported = D!Mapped(bitmap_debounced)

IInv == TypeOK /\ ScanOnlyPowered /\ ReportedInSync /\ DeliveredInSync

\* The task does what KeyTask promises the rest of the firmware.
ImplementsKeyTask == T!Spec

(***************************************************************************)
(* A shutdown request ends the task: it is not lost behind a poll or       *)
(* another request.  The one way out is an event that is left in the       *)
(* channel for ever while the task waits to send the next one.             *)
(***************************************************************************)
ShutdownRequested ==
    keys_in # <<>> /\ Head(keys_in) = [type |-> "PowerTransition", level |-> "Shutdown"]
Stuck == keys_pc \in {"sendKeys", "sendDone"} /\ keys_out # <<>>
ShutdownCompletes ==
    ShutdownRequested /\ keys_pc # "done" ~> keys_pc = "done" \/ []Stuck
=============================================================================
