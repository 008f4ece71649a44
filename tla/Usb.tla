-------------------------------- MODULE Usb --------------------------------
(***************************************************************************)
(* The USB keyboard: Usb::run of app/src/usb.rs with its three parts: the  *)
(* future in_fut that takes the dispatcher's events, the future usb_fut    *)
(* that runs the device and wakes a suspended host, and the handler that   *)
(* embassy-usb calls for bus events, which share the flag SUSPENDED and    *)
(* the signal remote_wakeup.  The device itself (embassy-usb and the       *)
(* host) is external: it is modelled from the calls the code makes.        *)
(***************************************************************************)
EXTENDS Channel, SixKeys

CONSTANTS
    KeyStates,      \* the key states that can be reported: sets of scan codes
    NoKeys          \* the key state without a key

ASSUME UsbAssumption ==
    /\ NoKeys \in KeyStates
    /\ \A keys \in KeyStates : keys \subseteq 0..SIZE-1

VARIABLES
    usb_in, usb_pc, usb_keys,       \* in_fut and its channel, see UsbTask
    SUSPENDED,      \* the static flag SUSPENDED
    remote_wakeup,  \* is the signal remote_wakeup set?
    configured,     \* MyDeviceStateHandler::configured; its endpoints are
                    \* enabled exactly while the device is configured
    powered,        \* device: is there power on the bus?
    suspended,      \* device: suspended?  usb_fut is in run_until_suspend
                    \* while it is not, and in the select while it is
    wakeup_enabled, \* device: did the host allow remote wakeup?
    panicked,       \* has unwrap! failed?
    dropped,        \* history: was a key dropped in this suspend?
    host_report,    \* device: the report the host goes by
    lost            \* history: has a key state not reached the host since?

device == <<configured, powered, suspended, wakeup_enabled>>
host == <<host_report, lost>>
vars == <<usb_in, usb_pc, usb_keys, SUSPENDED, remote_wakeup, device, panicked,
          dropped, host>>

T == INSTANCE UsbTask

Init ==
    /\ T!Init
    /\ SUSPENDED = FALSE
    /\ remote_wakeup = FALSE
    /\ configured = FALSE
    /\ powered = FALSE
    /\ suspended = FALSE
    /\ wakeup_enabled = FALSE
    /\ panicked = FALSE
    /\ dropped = FALSE
    /\ host_report = to_6kro(NoKeys)
    /\ lost = FALSE

Running == usb_pc # "done" /\ ~panicked

----------------------------------------------------------------------------
\* Mutant: a key dropped during a suspend is not signalled.
KeysChangedSilent ==
    /\ Running
    /\ T!KeysChanged
    /\ IF SUSPENDED
       THEN usb_pc' = "receive" /\ dropped' = suspended /\ lost' = TRUE
       ELSE usb_pc' = "write" /\ UNCHANGED <<dropped, lost>>
    /\ UNCHANGED <<SUSPENDED, remote_wakeup, device, panicked, host_report>>

\* in_fut: a key state is written to the endpoint, or dropped for a wakeup.
KeysChanged ==
    /\ Running
    /\ T!KeysChanged
    /\ IF SUSPENDED
       THEN /\ usb_pc' = "receive"
            /\ remote_wakeup' = TRUE /\ dropped' = suspended /\ lost' = TRUE
       ELSE /\ usb_pc' = "write"
            /\ UNCHANGED <<remote_wakeup, dropped, lost>>
    /\ UNCHANGED <<SUSPENDED, device, panicked, host_report>>

\* A completed write: the host has the report, or has lost it.
Written ==
    IF configured THEN host_report' = to_6kro(usb_keys) /\ lost' = FALSE
                  ELSE lost' = TRUE /\ UNCHANGED host_report

\* Mutant: a failed write ends in_fut.
WriteErrorEnds ==
    /\ Running
    /\ usb_pc = "write"
    /\ configured => ~suspended
    /\ usb_pc' = IF configured THEN "receive" ELSE "done"
    /\ Written
    /\ UNCHANGED <<usb_in, usb_keys, SUSPENDED, remote_wakeup, device, panicked, dropped>>

\* Mutant: a write waits until the device is configured again.
WriteWaitsForHost ==
    /\ Running
    /\ T!WriteDone
    /\ configured /\ ~suspended
    /\ Written
    /\ UNCHANGED <<SUSPENDED, remote_wakeup, device, panicked, dropped>>

\* The host takes the report, or the endpoint is disabled and the write fails
\* with a warning; on a suspended bus the write waits.
WriteDone ==
    /\ Running
    /\ T!WriteDone
    /\ configured => ~suspended
    /\ Written
    /\ UNCHANGED <<SUSPENDED, remote_wakeup, device, panicked, dropped>>

\* Only Shutdown has an effect: it drops usb_fut together with the device.
PowerTransition ==
    /\ Running
    /\ T!PowerTransition
    /\ UNCHANGED <<SUSPENDED, remote_wakeup, device, panicked, dropped, host>>

in_fut == KeysChanged \/ WriteDone \/ PowerTransition

----------------------------------------------------------------------------
\* usb_fut: the host is still suspended and remote_wakeup.wait() is ready.
RemoteWakeup ==
    /\ Running
    /\ suspended /\ remote_wakeup
    /\ remote_wakeup' = FALSE
    /\ IF wakeup_enabled
       THEN /\ suspended' = FALSE /\ SUSPENDED' = FALSE /\ dropped' = FALSE
            /\ UNCHANGED panicked
       ELSE /\ panicked' = TRUE
            /\ UNCHANGED <<suspended, SUSPENDED, dropped>>
    /\ UNCHANGED <<usb_in, usb_pc, usb_keys, configured, powered, wakeup_enabled, host>>

\* usb_fut: the bus events, with the handler called for each.
BusEvent ==
    /\ Running
    /\ UNCHANGED <<usb_in, usb_pc, usb_keys, remote_wakeup, panicked>>

\* A host that configures the device, or gives it up, knows of no key.
Forget == host_report' = to_6kro(NoKeys) /\ lost' = TRUE

\* Handler::enabled
enabled ==
    /\ BusEvent
    /\ powered' = ~powered
    /\ configured' = FALSE
    /\ SUSPENDED' = FALSE
    /\ Forget
    /\ UNCHANGED <<suspended, wakeup_enabled, dropped>>

\* Handler::reset; the device forgets that it was suspended
reset ==
    /\ BusEvent
    /\ powered
    /\ configured' = FALSE
    /\ suspended' = FALSE
    /\ wakeup_enabled' = FALSE
    /\ dropped' = FALSE
    /\ Forget
    /\ UNCHANGED <<SUSPENDED, powered>>

\* Mutant: a suspend that no key may end is not noted.
HandleSuspendedIfWakeup(value) ==
    /\ BusEvent
    /\ powered
    /\ suspended = ~value
    /\ suspended' = value
    /\ SUSPENDED' = (value /\ wakeup_enabled)
    /\ dropped' = FALSE
    /\ UNCHANGED <<configured, powered, wakeup_enabled, host>>

\* Handler::suspended
HandleSuspended(value) ==
    /\ BusEvent
    /\ powered
    /\ suspended = ~value
    /\ suspended' = value
    /\ SUSPENDED' = value
    /\ dropped' = FALSE
    /\ UNCHANGED <<configured, powered, wakeup_enabled, host>>

\* Handler::configured and Handler::addressed; control requests are answered
\* while the bus is active.
Configure(value) ==
    /\ BusEvent
    /\ powered /\ ~suspended
    /\ configured' = value
    /\ Forget
    /\ UNCHANGED <<SUSPENDED, powered, suspended, wakeup_enabled, dropped>>

\* The host sets or clears the remote wakeup feature (no handler).
SetWakeup(value) ==
    /\ BusEvent
    /\ powered /\ ~suspended
    /\ wakeup_enabled' = value
    /\ UNCHANGED <<SUSPENDED, configured, powered, suspended, dropped, host>>

usb_fut ==
    \/ RemoteWakeup
    \/ enabled
    \/ reset
    \/ \E value \in BOOLEAN :
           HandleSuspended(value) \/ Configure(value) \/ SetWakeup(value)

Request ==
    /\ T!Request
    /\ UNCHANGED <<SUSPENDED, remote_wakeup, device, panicked, dropped, host>>

Next == in_fut \/ usb_fut \/ Request
Spec == Init /\ [][Next]_vars

\* The executor polls both futures.  The host polls the endpoint whenever the
\* bus is active, however often it is suspended in between (strong fairness),
\* and a ready signal is found by the select of a suspended device.
Fairness ==
    /\ WF_vars(KeysChanged) /\ WF_vars(PowerTransition) /\ SF_vars(WriteDone)
    /\ WF_vars(RemoteWakeup)
FairSpec == Spec /\ Fairness

----------------------------------------------------------------------------

TypeOK ==
    /\ T!TypeOK
    /\ \A flag \in {SUSPENDED, remote_wakeup, configured, powered, suspended,
                    wakeup_enabled, panicked, dropped, lost} : flag \in BOOLEAN

(***************************************************************************)
(* No report is started on a suspended bus: whatever the order of resets,  *)
(* loss of power and suspends, SUSPENDED is set whenever a configured      *)
(* device is suspended, so that in_fut wakes the host instead.             *)
(***************************************************************************)
FlagCoversSuspend == configured /\ suspended => SUSPENDED

(***************************************************************************)
(* Nobody repeats a report (usb.rs, "failed to send report"), so the host  *)
(* is left with the one before only when a key state was dropped or its    *)
(* write failed, and until the next one arrives: no other order of key     *)
(* states, writes and bus events leaves a key stuck.  A key state is       *)
(* dropped while SUSPENDED is set: in a suspend, and after a bus reset     *)
(* that ended one, until the bus resumes or the device is enabled again.   *)
(***************************************************************************)
HostInSync == ~lost /\ usb_pc # "write" => host_report = to_6kro(usb_keys)

IInv == TypeOK /\ FlagCoversSuspend /\ HostInSync

(***************************************************************************)
(* What is written is the boot report of the keys ("Scan the bitmap and    *)
(* return the first six keys", key_state.rs), whatever other keys are held *)
(* around the ends of the bitmap's words and of the range of modifiers.    *)
(***************************************************************************)
Held == {0, 31, 32, 223, 224, 231, 240}
SixKeyReport ==
    usb_pc = "write" => \A more \in SUBSET Held :
        IsReportOf(to_6kro(usb_keys \cup more), usb_keys \cup more)

(***************************************************************************)
(* A key dropped during a suspend wakes the host (usb.rs, "triggering      *)
(* remote wakeup"): the suspend ends, unless the wakeup is refused or the  *)
(* keyboard shut down.                                                     *)
(***************************************************************************)
DroppedKeyWakes == dropped ~> ~suspended \/ ~Running

\* The task does what UsbTask promises the dispatcher.
ImplementsUsbTask == T!Spec

(***************************************************************************)
(* A shutdown waits for the report being written, and is then honoured in  *)
(* every state of the bus, as long as the host does not suspend it for     *)
(* ever.                                                                   *)
(***************************************************************************)
ShutdownRequested == usb_in # <<>> /\ Head(usb_in) = T!UsbPowerTransition("Shutdown")
ShutdownHonoured ==
    []<>(~suspended \/ ~configured) => (ShutdownRequested ~> ~Running)

(***************************************************************************)
(* unwrap!(usb.remote_wakeup().await) (usb.rs): a remote wakeup that a key *)
(* asked for succeeds.                                                     *)
(***************************************************************************)
WakeupSucceeds == ~panicked
=============================================================================
