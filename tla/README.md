# A verification of the goboard firmware

goboard is a modular wireless mechanical keyboard.  The repository holds its
hardware (KiCad projects, not modelled) and two firmwares: the current one in
Rust on embassy (`firmware/main-rust`, a hardware independent library
`keyboard/` and the application `app/`), and the older one in C++ on Zephyr
(`firmware/main`, with the remains of a still older one in C).  This directory
holds TLA+ models of the Rust firmware, the TLC configurations that check them,
and TLAPS proofs.  Of the former firmware it models the main loop with the power
supply and the mode switch, and the wireless pairing.

## 1. The system

### Rust firmware

| Part | Source | State | Operations |
| --- | --- | --- | --- |
| Key matrix | `keyboard/src/keys.rs`, `key_state.rs`, `scancode.rs` | debounced bitmap, five change bitmaps, last reported state, poll interval | `poll`: scan, debounce, map FN keys, report; `run`: poll, handle power transitions, sleep |
| Key matrix driver | `app/src/key_matrix.rs` | three pins, an output and an input shift register on one SPI bus | `read_row`: write the row, latch, load, read; enable, disable, drop |
| Mode switch | `keyboard/src/mode_switch.rs`, `app/src/mode_switch.rs` | last position, assumed levels of two lines | wait for a change, wait 100 ms, read, report |
| Power supply | `keyboard/src/power_supply.rs`, `app/src/power.rs` | state under a mutex, charger and balancer outputs, assumed level of the cable pin | follow the cable; charge 10 s, recover, measure, decide; both report |
| Dispatcher | `keyboard/src/dispatcher.rs`, `select6.rs` | switch position, `usb_connected` | take one event of six channels, forward keys, shut everything down |
| USB | `app/src/usb.rs`, `key_state.rs` | `SUSPENDED`, `configured`, signal `remote_wakeup` | convert key states to six key reports, write reports, wake the host, follow bus events |
| Assembly | `app/src/main.rs` | none of its own | construct, join all tasks, drop handlers, System OFF |

All tasks are futures joined into one executor task.  They share no memory but
`SUSPENDED` and the mutex of the power supply, and talk through embassy
channels of capacity one: a `send` into a full channel suspends the sender, and
so the slowest receiver throttles the chain key task -> dispatcher -> USB.  The
dispatcher is the centre: everybody else sends to it and is stopped by it.  When
it returns, nobody receives from the other tasks any more; the join ends when
each of them has returned, and only then is System OFF entered.

What makes this hard, and what has to hold:

* Key matrix: polls are not evenly spaced, contacts bounce, the FN mapping works
  in place.  A key never changes twice within 5 ms, a steady key is never
  swallowed, the mapping is simultaneous, and no change is lost behind a full
  channel.
* Key matrix driver: contacts move while a scan is under way, and each read
  leaves a byte behind that selects all rows.  A scan neither misses nor invents
  a key, and each row is read at one moment.
* Mode switch: contacts bounce between two reads.  No edge is missed: a
  switch at rest is reported, and only changes are.
* Power supply: two functions interleave around a mutex and a full channel,
  and the cable moves at any time.  Voltages are measured at rest, the state sent
  last is the current one, the cable is never missed, and without it charging ends as long as the task runs.
* Dispatcher: a biased select, stale local state, a shutdown sequence that sends
  to tasks which may be blocked on the dispatcher.  A low battery leads to a
  shutdown, so does the USB profile without USB (it does not: `usb_profile`), and everybody is told.
* USB: bus events, key events and wakeups race; writes wait on a suspended bus.
  A key dropped in a suspend wakes the host, a shutdown is honoured, and unless
  a report was lost the host has the six keys and the modifiers that are held.
* Assembly: key states reach USB in order, and a shutdown ends in System OFF.

### Former firmware

| Part | Source | State | Hard behaviour |
| --- | --- | --- | --- |
| Power supply | `power_supply.cpp`, `.hpp` | two delayable work items, atomic mode, callback, `stop` | items that reschedule each other, a workqueue blocked by the ADC, a destructor that cancels them |
| Main loop | `main.cpp`, `mode_switch.cpp` | binary semaphore, debouncing work item, GPIO interrupts | merged events, values read one after the other, an edge without interrupt, System OFF armed by a destructor |
| Unifying pairing (C, no longer built) | `unifying.c`, `unifying_radio.c` | pairing state, payload, channel, failover counters | lost packets, merged radio events, channel failover, a timer that sends on its own |
| USB, Unifying thread, keys | `usb.cpp`, `unifying.cpp`, `keys.cpp` | | not modelled, see section 5 |

The main thread constructs everything, waits for events and takes it down again;
the power supply cycle and the debouncing run as items of Zephyr's system
workqueue, which preempts it.  What has to hold: voltages are measured at rest, a
low battery switches the keyboard off, a switch in a wireless position ends up in
a wireless keyboard, and after the destructors nothing runs or is on any more.

The list `components` in `PROJECT.json` names every part, `hazards` every place
where the code is hard to test, with the properties that cover it.

## 2. The modules

| Module | Models | Composes |
| --- | --- | --- |
| `Channel` | embassy channels of capacity one: `Send` blocks while full, `Receive` while empty | |
| `KeyDebounce` | `Keys::poll`: shifting, blocking, selecting, FN mapping | |
| `MatrixScan` | what `poll` expects of `read_row` (abstract) | |
| `KeyMatrix` | the shift register driver under the scan of `poll` | implements `MatrixScan` |
| `KeyTask` | what the firmware sees of the key task (abstract) | `Channel` |
| `Keys` | `Keys::run` in full | `KeyDebounce`, implements `KeyTask` |
| `SwitchTask` | the mode switch task (abstract) | `Channel` |
| `ModeSwitch` | the task over its bouncing lines | implements `SwitchTask` |
| `Charging` | voltages from ADC codes, the charging decision, as pure operators | |
| `SupplyTask` | the power supply task (abstract) | `Channel` |
| `PowerSupply` | constructor, both functions, mutex, cable pin, outputs, drop handler | `Charging`, implements `SupplyTask` |
| `UsbTask` | the USB task (abstract) | `Channel` |
| `SixKeys` | `KeyState::to_6kro` and the bitmap iterator, as pure functions | |
| `Usb` | `in_fut`, `usb_fut`, bus event handler, the report the host has | `SixKeys`, implements `UsbTask` |
| `Dispatcher` | `Dispatcher::run` with `select6`, checked within `Firmware` | message types of the four tasks |
| `Firmware` | `run_main`: all tasks joined, drop handlers, System OFF | `Dispatcher` and the four abstract tasks |
| `FormerMain` | the former firmware's main loop, power supply cycle, mode switch and destructors, through System OFF and reboots | |
| `UnifyingPairing` | the radio's event handler and update timer of the former firmware: pairing states, channel failover | |
| `KeyDebounceProofs`, `KeysProofs`, `KeyMatrixProofs`, `ModeSwitchProofs`, `PowerSupplyProofs`, `UsbProofs`, `FirmwareProofs` | proofs about the module they are named after | |
| `FormerProofs` | proofs about `FormerMain` and `UnifyingPairing`, whose own definitions carry the prefix `Pairing` so that one module can extend both | |
| `MC...` | small instances | |

How the models correspond to the code:

* A step ends where the code awaits.  Between two awaits a future runs alone, so
  everything it does there is one action; a `..._pc` variable names the await it
  is suspended at.  embassy's executor runs one future at a time; letting any
  future take its next step is a superset of its schedules.
* In `FormerMain` a step of the main thread ends at every access to state that the
  workqueue, an interrupt or the environment changes, because it can be preempted
  there; a work item runs to its end, but for the wait for the ADC.
* A channel is a sequence of at most one message.  A pending `send` is an action
  that is not enabled.
* `select` dropping a future is the action `Stop` of each task, enabled at every
  await, and the mutex and the pins the dropped future held are released as Rust's
  drop order does.
* A bitmap of 256 scan codes is the set of the codes whose bit is set; the words
  it is stored in appear in `SixKeys` only, whose iterator skips them one by one.
* Time: `KeyDebounce` counts milliseconds; elsewhere a sleep ends at some time, in
  `FormerMain` not before the listeners are registered (the start-up takes
  milliseconds, the shortest timer 200 ms).
* The environment (contacts, cable, batteries, host) may act between any two steps.
* Variables marked "history" in a declaration do not exist in the code and are
  read by properties only.
* Definitions marked "Mutant" belong to no specification.  Each is a plausible
  bug in the definition it precedes, and shows that a property would find it.

## 3. The runs

| Run | Bounds | What it shows |
| --- | --- | --- |
| `key_debounce` | two crossings (Fn and F5), four function keys F3 to F6 in the mapping, intervals of 1, 2, 3 and 6 ms | minimal dwell of 5 ms, response within 4 ms, simultaneous FN mapping, the inductive invariant |
| `keys` | the same keys | no key state lost behind a slow dispatcher, scans only while powered, a shutdown ends the task unless it waits for ever behind an event that nobody takes, refinement of `KeyTask` |
| `key_matrix` | two rows of two bytes of one column each, contacts move at every step | a scan has what was held throughout and nothing that was never closed, one row is driven while the columns are loaded, refinement of `MatrixScan` |
| `mode_switch` | two lines with any bouncing | no missed edge, a switch at rest is reported, refinement of `SwitchTask` with stops at every await |
| `power_supply` | one pair of ADC codes for each charging decision, cable moves at any step | state in sync, at rest during measurement, cable not missed and reported, outputs off without it unless the task was stopped first, refinement of `SupplyTask` |
| `usb` | three key states (no key, one key, seven keys with a modifier and an internal code), 256 codes in words of 32, any order of bus events | dropped keys wake the host, shutdown honoured, the host in sync unless a report was lost, the report of any set of keys around the word boundaries, refinement of `UsbTask` |
| `former_main` | five pairs of voltages, one for each decision; cable and switch move at every step, any number of restarts | measured at rest, nothing left after the destructors, a low battery switches off, a wireless position is acted on |
| `unifying_pairing` | three channels, any loss, malformed payloads | packets keep the order of the protocol, all channels tried before giving up, the radio queue stays short, only a missing answer can stop the pairing |
| `firmware` | two key states, two positions, three supply states | order and completeness of the key pipeline, only the shutdown stops tasks, a shutdown tells everybody, a quiet shutdown and a low battery lead to System OFF |

The bounds are small because the state is: all channels have capacity one, so
two key states show every overtaking and loss.  Keys do not interact in the
debouncing, which works bit by bit, and two of them meet every phase of the
five millisecond window with intervals below, at and above it; the FN mapping
is checked with all sets of the four function keys around the chained pair
F5 -> F4 -> "unpair all".  Charging decisions depend on comparisons with fixed
thresholds, and `Samples` has a pair of ADC codes on each side of them.
Two rows and two bytes show every confusion of rows and of the two bytes.
Three radio channels let a failover start in the middle, pass the end and come
back; the firmware has more of them, but treats all alike.

The radio driver and the dongle are external.  `UnifyingPairing` assumes that a
radio attempt does not complete between a send and the flush of a failure in the
same call of the event handler, and that the update timer fires with at most one
packet queued, because its period of 10 ms exceeds an attempt.  The handler may
preempt the timer between its two steps.

Fairness. The executor polls every future that was woken, so each task has weak
fairness of its steps. The dispatcher is assumed to take the events of the mode switch
and of the power supply until it asks the task to stop (`TakeUntilStop`), which it
comes to once it has begun a shutdown (`ShutdownTellsAll`). Nothing is assumed of it
in `Keys`, whose liveness is about the time when it takes no event any more. The
battery is dropped only after the join, which may hang, so `PowerSupply` does not
assume that it is dropped. `Firmware` assumes that every write to USB ends: the code
does not give that, as `ShutdownHonoured` says, and a host that keeps the bus
suspended under a write can hold a key state or a shutdown for ever. Strong fairness
is used where a step is only possible at moments that recur. `select6` prefers earlier
channels, so an event of the power supply is only taken at moments when the earlier
ones are empty; it is assumed that the dispatcher does not miss such moments for ever,
and the property `LowBatteryOff` has the hypothesis that such moments recur
(`UserPause`). A USB host polls the endpoint whenever the bus is active, however often
it is suspended in between. The USB function of the power supply is not overtaken for
ever at the mutex, because the charging function sleeps 13 s between two locks. The
radio completes every attempt and its interrupt is served. In `FormerMain` the
workqueue is first in, first out, so that the debouncing item is not overtaken for
ever by the power supply cycle, and the pins notice a level that ends System OFF
however short it is.

### Disagreements

Three runs (`expect: violation`) check one sentence of a comment or an assertion
each, and TLC shows a behaviour of the code that breaks it:

* `shutdown_hang`: a key state in `keys_out` when the shutdown begins is never
  taken, the key task waits for ever to send, and System OFF is not reached
  (`dispatcher.rs:165`).  The watchdog is fed by a function of its own and does not
  help.  `QuietShutdownFinishes` in the run `firmware` shows that a shutdown finishes
  without such a key state, provided that every write to USB ends; a write that the host
  never completes is another way for it not to finish (`ShutdownHonoured` in `usb`).
* `usb_wakeup`: a key during a suspend without remote wakeup panics (`usb.rs:98`).
* `usb_profile`: `usb_connected` is set to true (`dispatcher.rs:93`) and never assigned
  again, so that the branch of `dispatcher.rs:122` is never taken.  A keyboard whose USB
  was unplugged in another profile stays on when the switch is moved to USB, although the
  description of a test (`dispatcher.rs:450`) says "the device is shut down when the USB
  profile is selected but USB is not connected".  With an assignment of `usb_connected`
  in `SupplyEvent`, `UsbProfileShutsDown` holds.

Others have no run of their own, because a passing property states what the code
does instead:

* The balancer stays on after the cable was pulled, up to the end of the charging
  period (`power_supply.rs:120`, and the test at line 439: "we do not want to
  discharge if USB is not connected").  `UnpluggedRests` shows that it ends while the
  task runs.  A task that is stopped leaves the outputs as they are until the `Battery`
  is dropped after the join (`main.rs:239-258`); pulling the cable with the switch at
  USB is what starts such a shutdown, and if it hangs as in `shutdown_hang`, the
  balancer stays on for ever.
* In the former firmware, leaving switch position 1 for position 0 calls nobody
  (`mode_switch.cpp:47`; `mode_switch.hpp:38` says "whenever the state of the mode
  switch changes"), and a switch moved between the decision to shut down and the
  destructor leaves the keyboard off in a wireless position (`mode_switch.cpp:69`);
  `SwitchActedOn` says that nothing else does.  The line "This must never happen"
  (`main.cpp:162`) is reached by a switch that bounces between two reads; the
  reboot that follows repairs it.

## 4. The proofs

`tlapm` checks every proof to its last leaf.  The only assumptions are those on
constants (`DebounceAssumption`: intervals are positive, and the FN mapping has one
entry for each function key; `FnMappingAssumption`: no function key is mapped to one
that the loop of `poll` is still to reach, none is the Fn key, none is mapped to the
invalid code, as in `F_FN_MAPPING`; `PowerSupplyAssumption`: samples are ADC codes;
`UsbAssumption`: the empty state is a key state, and key states fit a bitmap of 256;
`DriverAssumption`: there are rows and columns; `SamplesAssumption`: voltages are
natural numbers; `FirmwareAssumption`: the empty state is a key state, and the
switch has the positions the code names; `ChannelAssumption`: there are at least two
radio channels, where the code has lists of 11 and 25).  What is proved holds for
every matrix, FN mapping, set of poll intervals, set of ADC codes or voltages, set of
key states and number of radio channels.  They come in three kinds: safety,
refinement, and liveness under the fairness of section 3.  Each safety proof follows
one pattern: an invariant (`IInv`, in the pairing `OrderInv`, `QueueInv` and `FailoverInv`) that TLC
finds true of the small instance, one lemma or step per action, one step per conjunct
that the action disturbs.

* `KeyDebounceProofs`.  `MinDwell` (a key does not change twice within 5 ms) and
  `Responsive` (a key that was scanned alike for 4 ms shows it) speak about time,
  which the code only has as positions in `key_changes`.  `IInv` ties them together:
  `ChangesAreAges` says that entry i of the history holds exactly the keys that
  changed i milliseconds ago, from which `MinDwell` follows, since the select
  refuses keys of the entries 1 to 4; `PendingIsYoung` says that a key whose scan
  disagrees with its debounced state changed too recently to follow, and makes
  `Responsive` inductive.  `ReportedInSync` needs only that a report is sent exactly
  when the mapped state differs.  Theorems: `DebounceInvariant`, `DebounceMinDwell`,
  `DebounceResponsive`, `DebounceReportedInSync`.  `DebounceFnSimultaneous` is about the
  loop over F1 to F12, which replaces keys in place: for every set of keys the result
  is what a simultaneous replacement gives, because F5, say, becomes F4 only after F4
  has been passed (`FnMappingAssumption`; with the loop reversed TLC finds a key mapped
  twice).  The loop is a recursive function.  No prover here can instantiate an
  induction theorem, so `LoopExists` shows that the function exists, as the union of
  its finite runs, and `MapFKeysReplaces` looks for the first iteration at which the
  loop's invariant fails (`LeastNat`) and finds none.
* `ModeSwitchProofs`.  `NoMissedEdge` is about moments when the task waits; to keep
  it, the position must be the one the assumed levels mean (`WaitsFromPosition`),
  and a line that differs from its assumed level while the task waits must have
  fired (`EdgesLatched`).  Theorems: `SwitchInvariant`, `SwitchNoMissedEdge`, and
  `SwitchImplements`: the task implements `SwitchTask`.
* `PowerSupplyProofs`.  `DeliveredInSync` rests on `MutexOwned`; `CableNotMissed` on
  `CableFollowed` (the state has the cable as the pin was last read) and
  `CableLatched` (unless the pin has fired, the cable is as it was read);
  `NotStarted` covers the constructor.  `ConfiguredType` shows of the charging
  decision, whatever the voltages, that it reports "Charging" whenever it switches
  something on.  `SupplyMeasuredInRange` shows of the conversion of ADC codes that no
  product wraps its 32 bits.  Theorems: `SupplyInvariant`, `SupplyDeliveredInSync`,
  `SupplyCableNotMissed`, and `SupplyImplements`: the task implements `SupplyTask`.
  The step proof needs `MutexOwned`: only one function can be sending.
* `UsbProofs`.  `FlagCoversSuspend` (a configured device is never suspended without
  `SUSPENDED`) is inductive over all bus events: every event that clears the flag
  also ends the suspend or the configuration.  Theorems: `UsbInvariant`,
  `UsbFlagCoversSuspend`, `UsbHostInSync` (the host has the report of the key state
  taken last, unless one was lost; a write in progress is the only exception), and
  `UsbImplements`: the task implements `UsbTask`.  `UsbSixKeyReport` is about the
  report: of any bitmap, the modifiers and the six smallest codes below them in order
  (`ReportIsOf`).  `NextBitIsFirst` shows of the iterator that skipping the empty words
  misses no bit, by the last position at which it would; `CollectedIsFound` shows of the
  loop that round n finds the key of rank n, by the first round that does not.
* `KeyMatrixProofs`.  `ScanBetween` is about whole rows; while one is being read, it
  follows from `OneRowDriven` (between the latch and the load exactly the row asked
  for is selected, whatever the registers held before) and `Captured` (the input
  register has what the contacts of that row were at the load).  Theorems:
  `MatrixInvariant`, `MatrixScanBetween`, and `MatrixImplements`: the driver implements
  `MatrixScan`, with the edge of `n_load` as the moment at which a row is read.
* `KeysProofs`.  `DeliveredInSync` says that what the dispatcher was sent last is the
  mapped state of the debounced keys, unless an event is about to be sent.  It needs
  `ReportedInSync` (what was reported last is that state, sent or not): a poll that
  records no change in `key_changes[0]` has left the bitmap alone, so that skipping the
  mapping loses nothing, and a blocked send suspends the task, so that no poll comes
  between.  `ScanOnlyPowered` is inductive by itself.  The mapping is never expanded, but
  for the matrix at rest.  Theorems: `KeysInvariant`, `KeysDeliveredInSync`,
  `KeysScanOnlyPowered`, and `KeysImplements`: the task implements `KeyTask`.
* `FirmwareProofs`, about the composition in any interleaving of the five tasks:
  * `FirmwarePipelineIntact`: no key state is lost, repeated or overtaken between the
    key task and USB.  The proof replaces the sequence by its links (`Links`: each
    state on its way differs from the newest one before it); every step moves one
    state by one place, adds one at the end, or touches none.
  * `FirmwareOnlyShutdownStops`: nothing but the dispatcher's shutdown ends a task or
    switches the matrix off.  `StopsAreShutdown` makes it inductive: a stop message on
    its way, and what the key task has understood of one, are evidence of a shutdown.
  * `FirmwareSwitchNeverShutsDown`: no event of the mode switch ever starts a shutdown.
    This is no merit: it is the disagreement of `usb_profile` for every instance, and
    rests on `usb_connected` never being assigned (`AssumedConnected`).
  * `FirmwareHungForever`: with an event in `keys_out` and another one waiting to be sent
    during a shutdown, System OFF is never reached, whatever happens: the safety half
    of `shutdown_hang`, for every instance.
  * `FirmwareQuietShutdownFinishes` and `FirmwareLowBatteryOff`, see liveness below.
  * `FirmwareTasks`: in the firmware each task behaves as its own specification says,
    so that what is proved of the safety of a task alone, with any dispatcher around
    it, holds of it there.  System OFF fits in because the matrix is off by then (`OffAtLast`).
* `FormerProofs`.  `Cycle` says that the two items of the power supply alternate
  and that the outputs are off from the end of charging on, which gives
  `MeasuredAtRest`; `Destroyed` says what each destructor leaves to the next one, which
  gives `DownAtRest`: an item that runs on schedules the other one behind the
  cancellation, and only `CheckPending` tells.  Theorems: `FormerInvariant`,
  `FormerMeasuredAtRest`, `FormerDownAtRest`.  Of the pairing:
  * `PairingInOrder`: no packet is queued before the address and the key it presumes
    are known.  A queued packet may be older than the state, and the packet written
    again after a failure is the one sent last; `StateReady` says that both were ready
    when they were written and that a state is entered only with what its successors
    presume.
  * `PairingQueueShort`: at most three packets are queued.  A success allows one send,
    so that the packets queued or acknowledged but not yet reported (`Outstanding`)
    grow only when a response is taken.  That alone allows four; `ThirdResponse` says
    that the third response is not known before REQUEST_3 was heard, hence not while
    two packets precede it in the queue.
  * `PairingAllChannelsTried`: the pairing is given up only after two writes on each
    channel, and no packet is written more often.  `FailoverInv` derives the history
    `written` from the failover's variables (`Tried`).  A failure can be delivered
    after its packet was sent again, because the driver merges events; `LateFailures`
    says when one can still be pending, which is only in the first loop.  With a single
    channel that is not early enough, and TLC finds a packet written a third time: the
    assumption of two channels is needed.

The firmware composes the abstract tasks, and all four detailed tasks are proved to
implement theirs (`KeysImplements`, `SwitchImplements`, `SupplyImplements`,
`UsbImplements`): the safety theorems about the composition hold of the detailed
tasks.  The refinements say nothing about liveness.  A detailed task that never obeyed
a stop would refine its abstract task all the same, so that `FirmwareTellsAll`,
`FirmwareQuietShutdownFinishes` and `FirmwareLowBatteryOff` are about the abstract tasks
under the fairness of `Firmware`.

Liveness is proved for each temporal property of the runs but one.  The properties
and the fairness are those TLC checks; the proofs chain stages, each of which a
fair action leaves, and rest on invariants that the safety proofs did not need:

* `KeysShutdownCompletes`: the key task ends after a shutdown from whatever await it is
  at, unless it waits for ever to send behind an event that stays in `keys_out`
  (`Stuck`).  Nothing is assumed of the dispatcher, which takes no event any more once
  it has sent the shutdown.
* `SwitchRestReported`: a switch at rest is reported, unless the task is stopped.  A
  change while the task waits fires once more at most (`QuietAfterRead`), then it stays
  quiet.
* `SupplyCableReported`, `SupplyUnpluggedRests`: a cable left alone is reported, and
  without it the outputs end up off, unless the task was stopped. The USB function has
  to get the mutex although the charging function keeps taking it, which is where
  strong fairness is used. `Followed` says that the cable in the state is the one
  delivered last, unless the USB function is about to send it, and that a dropped task
  has left its outputs off.
* `UsbDroppedKeyWakes`: `DroppedSignalled` says that a key dropped in a suspend has its
  wakeup signalled as long as the suspend lasts.  `UsbShutdownHonoured`: no report can
  come in between a shutdown message and the end of the task (`PendingSteps`).
* `FirmwareTellsAll`: the shutdown reaches every task and both radios, whether or not it
  then hangs, if every write to USB ends.
* `FirmwareQuietShutdownFinishes`: all tasks return and System OFF is reached, if no
  key event stays in `keys_out` and every write to USB ends. `InOrder` says who has
  been told at each stage of the shutdown, that a task that was told has the message
  or has obeyed it, and that the key task's confirmation is the last thing in its
  channel. Together with `FirmwareHungForever` it brackets the finding of
  `shutdown_hang`: as long as writes to USB end, nothing but a key event on its way
  can hang the shutdown, and two of them do.
* `FirmwareLowBatteryOff`: `LowWaits` says that a low battery is either still to be
  reported or waits in its channel, from where the pauses of `UserPause` let it out.
* `FormerLowSwitchesOff`, `FormerSwitchActedOn`: the main thread of the former firmware
  gets through its destructors although the work items it waits for reschedule each
  other, and a switch in a wireless position is acted on through restarts.  `Life` says
  that a low battery or a moved switch which the main loop has not looked at keeps the
  semaphore given or the debouncing pending, and that no work item runs ahead of the
  registration of the listeners.

What the provers cannot derive there is when an action is ENABLED.  Each liveness
theorem therefore has hypotheses `[]...Ready` of the form `guard => ENABLED <<A>>_vars`,
with the guard of the code: they restrict no behaviour, because they are true in every
state, and say only that the conjuncts of A are all there is to it.  TLC confirms each
of them in every reachable state: a module that extends the MC module and the proof
module, with the constants of the run and the predicates (`WakeupReady`,
`PowerTransitionReady` and `WriteDoneReady` of USB; `RunReady` of the keys; `Ready` of
the mode switch and of the power supply; `ShutdownReady` and `LowReady` of the firmware;
`FormerReady`) as INVARIANTs finds no violation; where the proof module has variables of
a second specification, they are held constant.  They are no properties of the runs
since they say nothing about the firmware.  A set of ADC codes or voltages must not
be empty there, or no measurement could end: the two theorems on the power supply say
`Samples # {}`, and in the former firmware `MainReady` would be false without one.

Only model-checked:

* that the actions named above are ENABLED where their guards hold;
* `OnlyResponsesWait`, the liveness of the pairing: the failover passes through as many
  stages as there are channels, and the proof for every number of channels would be
  an induction over a temporal formula;
* the three properties that are expected to be violated, which a counterexample settles.

## 5. What is not modelled, and why

* ADC transfers, LEDs, logging, USB descriptors and HID requests: pure I/O.
* The SoftDevice start-up, the vbus callback and the ESB test task of `main.rs`:
  external or experimental; Bluetooth and Unifying are empty types in Rust.
* embassy, embassy-usb, Zephyr, the USB host: external, modelled from the calls made.
* Negative ADC codes: `Charging` takes codes in 0..4095.
* Of the former firmware: the Unifying thread (`unifying.cpp`), which is never
  started, because `get_mode` never selects it; the USB keyboard (`usb.cpp`), whose
  destructor leaves its work items running (a TODO) and which `usb.rs` replaced; the
  keys (`keys.cpp`), whose debouncing is that of the Rust version; the profile of
  the mode switch, which no keyboard uses; exceptions of the GPIO and ADC drivers;
  the uninitialised `callback_fn` of the mode switch, which the start-up time covers.
* The hardware designs.

## 6. Plan

Done: the Rust firmware with its drivers, its composition, the main loop and the
pairing of the former firmware; every safety property and every refinement the runs
check is proved, and every liveness property but `OnlyResponsesWait`.  What is left:

1. `OnlyResponsesWait` for a fixed number of channels, as a chain of stages.
2. The USB keyboard and the keys of the former firmware, should they be used again.
