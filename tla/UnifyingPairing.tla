-------------------------- MODULE UnifyingPairing --------------------------
(***************************************************************************)
(* Pairing with a Unifying dongle: main/src/unifying.c over the channel    *)
(* failover of main/src/unifying_radio.c, started once by unifying_init.   *)
(* Everything the two files do happens in the radio's event handler and,   *)
(* once connected, in a repeated timer that the handler may preempt.  The  *)
(* radio driver (nrf_esb) and the dongle are external: a transmission is   *)
(* heard or not, its acknowledgement arrives or not and may carry a        *)
(* payload, and the driver merges events that it could not deliver yet.    *)
(***************************************************************************)
EXTENDS Naturals, Sequences

CONSTANT ChannelCount   \* channel_count, 11: the pairing channels are never left

ASSUME ChannelAssumption == ChannelCount \in Nat /\ ChannelCount >= 2

FAILOVER_LOOP_COUNT == 2

Channels == 0..(ChannelCount - 1)

\* enum unifying_state, as far as it is used; the packet that a pairing state
\* sends on entry has the name of the state.
PairingStates == {
    "REQUEST_1", "RESPONSE_1", "ACCEPT_ADDRESS", "REQUEST_2", "RESPONSE_2",
    "REQUEST_3", "RESPONSE_3", "REQUEST_4" }
States == PairingStates \cup {"UNPAIRED", "CONNECTED"}
Packets == PairingStates \cup {"UPDATE"}

Pipe(packet) ==
    IF packet \in {"REQUEST_1", "RESPONSE_1", "ACCEPT_ADDRESS"} THEN 0 ELSE 1

\* What the dongle answers: the response to request n, or nothing it could
\* use.
Malformed == 4
Payloads == [response : 1..Malformed, pipe : {0, 1}]

VARIABLES
    state,
    assigned,       \* device_address is set and pipe 1 is enabled for it
    device_key,     \* has the key been derived?
    timer_pc,       \* "idle", or update_timer_handler has filled tx_payload
                    \* and is about to "retransmit" it
    tx_payload, current_channel, failover_start_channel, failover_loop,
    tx_fifo,        \* the driver's queue; its head is being transmitted
    transmitting,   \*   while this is set
    rx_fifo,        \* payloads received with acknowledgements
    events,         \* events the driver has yet to deliver
    handling,       \* events unifying_radio_event_handler is busy with
    answer,         \* the response the dongle has ready, or 0
    written         \* history: how often tx_payload was written per channel

unifying == <<state, assigned, device_key, timer_pc>>
radio == <<tx_payload, current_channel, failover_start_channel, failover_loop,
           written>>
pairing_vars == <<unifying, radio, tx_fifo, transmitting, rx_fifo, events, handling, answer>>

----------------------------------------------------------------------------
\* nrf_esb_write_payload
WritePayload(queue, packet) ==
    /\ tx_fifo' = Append(queue, packet)
    /\ transmitting' = TRUE

\* unifying_radio_retransmit
Retransmit(packet) ==
    /\ failover_start_channel' = current_channel
    /\ failover_loop' = 0
    /\ written' = [c \in Channels |-> IF c = current_channel THEN 1 ELSE 0]
    /\ WritePayload(tx_fifo, packet)

\* unifying_radio_send_packet
SendPacket(packet) ==
    /\ tx_payload' = packet
    /\ Retransmit(packet)
    /\ UNCHANGED current_channel

\* The functions that enter a pairing state and send its packet.
EnterState(s) == state' = s /\ SendPacket(s)

NothingSent == UNCHANGED <<radio, tx_fifo, transmitting>>

\* unifying_init and unifying_start_pairing
PairingInit ==
    /\ state = "REQUEST_1"
    /\ assigned = FALSE
    /\ device_key = FALSE
    /\ timer_pc = "idle"
    /\ tx_payload = "REQUEST_1"
    /\ current_channel = 0
    /\ failover_start_channel = 0
    /\ failover_loop = 0
    /\ tx_fifo = <<"REQUEST_1">>
    /\ transmitting = TRUE
    /\ rx_fifo = <<>>
    /\ events = {}
    /\ handling = {}
    /\ answer = 0
    /\ written = [c \in Channels |-> IF c = 0 THEN 1 ELSE 0]

----------------------------------------------------------------------------
\* The radio and the dongle.
RequestNumber(packet) ==
    CASE packet = "REQUEST_1" -> 1
      [] packet = "REQUEST_2" -> 2
      [] packet = "REQUEST_3" -> 3
      [] OTHER -> 0

\* The dongle hears a packet; its acknowledgement carries the answer that was
\* ready before.
Hear(packet, payload) ==
    /\ payload \in {0, answer, Malformed}
    /\ answer' = IF RequestNumber(packet) # 0 THEN RequestNumber(packet)
                 ELSE IF payload = answer THEN 0 ELSE answer

\* An attempt completes at any time, also while the handler delays before it
\* sends the next packet, but not between a send and the flush of a failure
\* in the same call.
Transmission ==
    /\ transmitting
    /\ "TX_FAILED" \in handling => "TX_SUCCESS" \in handling
    /\ UNCHANGED <<unifying, radio, handling>>

Acknowledged(payload) ==
    /\ Transmission
    /\ Hear(Head(tx_fifo), payload)
    /\ tx_fifo' = Tail(tx_fifo)
    /\ transmitting' = (tx_fifo' # <<>>)
    /\ \/ payload = 0 /\ events' = events \cup {"TX_SUCCESS"} /\ UNCHANGED rx_fifo
       \/ /\ payload # 0
          /\ events' = events \cup {"TX_SUCCESS", "RX_RECEIVED"}
          /\ rx_fifo' = Append(rx_fifo, [response |-> payload,
                                         pipe |-> Pipe(Head(tx_fifo))])

Unanswered ==
    /\ Transmission
    /\ transmitting' = FALSE
    /\ events' = events \cup {"TX_FAILED"}
    /\ UNCHANGED <<tx_fifo, rx_fifo>>

\* Not heard at all, or heard and the acknowledgement (and its payload) lost.
NotHeard == Unanswered /\ UNCHANGED answer
AcknowledgementLost(payload) == Unanswered /\ Hear(Head(tx_fifo), payload)

Transmit ==
    \/ \E payload \in 0..Malformed : Acknowledged(payload) \/ AcknowledgementLost(payload)
    \/ NotHeard

\* The driver's interrupt: the events since the last one, in a fixed order.
Interrupt ==
    /\ handling = {} /\ events # {}
    /\ handling' = events
    /\ events' = {}
    /\ UNCHANGED <<unifying, radio, tx_fifo, transmitting, rx_fifo, answer>>

----------------------------------------------------------------------------
\* unifying_radio_event_handler

\* Mutant: the address is accepted without a response.
AfterSuccessEager == [
    REQUEST_1 |-> "RESPONSE_1", RESPONSE_1 |-> "ACCEPT_ADDRESS",
    ACCEPT_ADDRESS |-> "REQUEST_2", REQUEST_2 |-> "RESPONSE_2",
    REQUEST_3 |-> "RESPONSE_3" ]

AfterSuccess == [
    REQUEST_1 |-> "RESPONSE_1", ACCEPT_ADDRESS |-> "REQUEST_2",
    REQUEST_2 |-> "RESPONSE_2", REQUEST_3 |-> "RESPONSE_3" ]

\* unifying_tx_handler(true): the next packet, if it does not take a response.
TxSuccess ==
    /\ "TX_SUCCESS" \in handling
    /\ handling' = handling \ {"TX_SUCCESS"}
    /\ \/ state \in DOMAIN AfterSuccess /\ EnterState(AfterSuccess[state])
       \/ state = "REQUEST_4" /\ state' = "CONNECTED" /\ NothingSent
       \/ state \notin DOMAIN AfterSuccess \cup {"REQUEST_4"} /\ UNCHANGED state /\ NothingSent
    /\ UNCHANGED <<assigned, device_key, timer_pc, rx_fifo, events, answer>>

NextChannel == (current_channel + 1) % ChannelCount

\* Mutant: a loop ends at the first channel, not at the one it started from.
LoopEndsAtFirst == NextChannel = 0

LoopEnds == NextChannel = failover_start_channel

\* Mutant: the packet is written again without flushing the queue.
WriteAgainNoFlush == WritePayload(tx_fifo, tx_payload)

\* After nrf_esb_flush_tx; only the packet sent last is written again.
WriteAgain == WritePayload(<<>>, tx_payload)

\* Mutant: the failure is not passed on.
GiveUpSilently == UNCHANGED state

\* unifying_tx_handler(false)
GiveUp == state' = IF state \in PairingStates THEN "UNPAIRED" ELSE state

\* unifying_radio_tx_failover: try the next channel, or report a failure when
\* all were tried often enough.
TxFailed ==
    /\ "TX_FAILED" \in handling /\ "TX_SUCCESS" \notin handling
    /\ handling' = handling \ {"TX_FAILED"}
    /\ current_channel' = NextChannel
    /\ failover_loop' = failover_loop + (IF LoopEnds THEN 1 ELSE 0)
    /\ IF LoopEnds /\ failover_loop' = FAILOVER_LOOP_COUNT
       THEN /\ GiveUp
            /\ tx_fifo' = <<>> /\ transmitting' = FALSE
            /\ UNCHANGED written
       ELSE /\ WriteAgain
            /\ written' = [written EXCEPT ![NextChannel] = @ + 1]
            /\ UNCHANGED state
    /\ UNCHANGED <<assigned, device_key, timer_pc, tx_payload,
                   failover_start_channel, rx_fifo, events, answer>>

\* unifying_pairing_parse_response_1, _2 and _3
Accepts(payload) ==
    \/ state = "RESPONSE_1" /\ payload.response = 1
    \/ state = "RESPONSE_2" /\ payload.response = 2 /\ payload.pipe = 1
    \/ state = "RESPONSE_3" /\ payload.response = 3 /\ payload.pipe = 1

AfterResponse == [ RESPONSE_1 |-> "ACCEPT_ADDRESS", RESPONSE_2 |-> "REQUEST_3",
                   RESPONSE_3 |-> "REQUEST_4" ]

\* unifying_rx_handler: one payload.
RxReceived ==
    /\ handling = {"RX_RECEIVED"}
    /\ rx_fifo # <<>>
    /\ rx_fifo' = Tail(rx_fifo)
    /\ \/ /\ Accepts(Head(rx_fifo))
          /\ assigned' = (assigned \/ state = "RESPONSE_1")
          /\ device_key' = (device_key \/ state = "RESPONSE_2")
          /\ EnterState(AfterResponse[state])
       \/ /\ ~Accepts(Head(rx_fifo))
          /\ UNCHANGED <<state, assigned, device_key>>
          /\ NothingSent
    /\ UNCHANGED <<timer_pc, events, handling, answer>>

RxEmpty ==
    /\ handling = {"RX_RECEIVED"}
    /\ rx_fifo = <<>>
    /\ handling' = {}
    /\ UNCHANGED <<unifying, radio, tx_fifo, transmitting, rx_fifo, events, answer>>

event_handler == TxSuccess \/ TxFailed \/ RxReceived \/ RxEmpty

----------------------------------------------------------------------------
\* update_timer_handler, every 10 ms; the radio completes several attempts in
\* that time.  The event handler may preempt it before it retransmits.
NotPreempted == handling = {} /\ events = {}

\* A keep-alive or an encrypted keyboard report.
Update ==
    /\ NotPreempted /\ timer_pc = "idle"
    /\ state = "CONNECTED"
    /\ Len(tx_fifo) <= 1
    /\ tx_payload' = "UPDATE"
    /\ timer_pc' = "retransmit"
    /\ UNCHANGED <<state, assigned, device_key, current_channel,
                   failover_start_channel, failover_loop, written, tx_fifo,
                   transmitting, rx_fifo, events, handling, answer>>

UpdateSends ==
    /\ NotPreempted /\ timer_pc = "retransmit"
    /\ Retransmit(tx_payload)
    /\ timer_pc' = "idle"
    /\ UNCHANGED <<state, assigned, device_key, tx_payload, current_channel,
                   rx_fifo, events, handling, answer>>

update_timer_handler == Update \/ UpdateSends

PairingNext == Transmit \/ Interrupt \/ event_handler \/ update_timer_handler
PairingSpec == PairingInit /\ [][PairingNext]_pairing_vars

\* The radio completes every attempt and its interrupt is served.
PairingFairness ==
    /\ WF_pairing_vars(Transmit)
    /\ WF_pairing_vars(Interrupt)
    /\ WF_pairing_vars(event_handler)
PairingFairSpec == PairingSpec /\ PairingFairness

----------------------------------------------------------------------------

PairingTypeOK ==
    /\ state \in States
    /\ assigned \in BOOLEAN /\ device_key \in BOOLEAN
    /\ timer_pc \in {"idle", "retransmit"}
    /\ tx_payload \in Packets
    /\ {current_channel, failover_start_channel} \subseteq Channels
    /\ failover_loop \in Nat
    /\ tx_fifo \in Seq(Packets) /\ rx_fifo \in Seq(Payloads)
    /\ transmitting \in BOOLEAN /\ (transmitting => tx_fifo # <<>>)
    /\ events \cup handling \subseteq {"TX_SUCCESS", "TX_FAILED", "RX_RECEIVED"}
    /\ answer \in 0..3
    /\ written \in [Channels -> Nat]

\* The packets that can be sent with what is known: pipe 1 needs its address,
\* and what is encrypted the key.
Ready == {packet \in Packets :
    /\ Pipe(packet) = 1 => assigned
    /\ packet \in {"REQUEST_3", "RESPONSE_3", "REQUEST_4", "UPDATE"} => device_key}

(***************************************************************************)
(* Nothing is sent on pipe 1 before its address was assigned, and nothing  *)
(* that presumes a key before the key was derived.                         *)
(***************************************************************************)
InOrder == tx_fifo \in Seq(Ready)

(***************************************************************************)
(* What makes InOrder inductive: whatever is written again after a failure *)
(* was ready already, and a state is entered only with what its successors *)
(* will presume.                                                           *)
(***************************************************************************)
StateReady ==
    /\ state \in PairingStates => state \in Ready
    /\ state = "ACCEPT_ADDRESS" => assigned
    /\ state = "CONNECTED" => "UPDATE" \in Ready
    /\ tx_payload \in Ready
OrderInv == InOrder /\ StateReady /\ state \in States /\ (transmitting => tx_fifo # <<>>)

(***************************************************************************)
(* "try all channels FAILOVER_LOOP_COUNT times" (unifying_radio.c): the    *)
(* pairing is given up only when the packet was written that often on      *)
(* every channel, and no packet is written more often on any.              *)
(***************************************************************************)
AllChannelsTried ==
    state # "CONNECTED" =>
        \A c \in Channels :
            /\ written[c] <= FAILOVER_LOOP_COUNT
            /\ state = "UNPAIRED" => written[c] = FAILOVER_LOOP_COUNT

\* The driver's queue holds eight packets; a packet that does not fit resets
\* the keyboard.  The pairing runs at most one packet ahead.
QueueShort == Len(tx_fifo) <= 3

(***************************************************************************)
(* What makes QueueShort inductive: how many packets are queued or sent    *)
(* but not yet known to be.  Each of the three responses may be taken      *)
(* early, with one packet more in the queue; not so the third, which is    *)
(* known only when all that precedes REQUEST_3 has left the queue.         *)
(***************************************************************************)
Outstanding ==
    Len(tx_fifo) + (IF "TX_SUCCESS" \in events THEN 1 ELSE 0)
                 + (IF "TX_SUCCESS" \in handling THEN 1 ELSE 0)

FewOutstanding ==
    /\ state \in {"REQUEST_1", "RESPONSE_1"} =>
           Outstanding <= 1 /\ ("TX_FAILED" \in handling => "TX_SUCCESS" \notin events)
    /\ state \in {"ACCEPT_ADDRESS", "REQUEST_2", "RESPONSE_2"} => Outstanding <= 2
    /\ state \in {"REQUEST_3", "RESPONSE_3"} => Outstanding <= 3
    /\ state \in PairingStates => tx_payload = state
    /\ timer_pc = "retransmit" => state = "CONNECTED" /\ Len(tx_fifo) <= 1

\* REQUEST_3 is among the last "places" packets of the queue.
ThirdWithin(places) ==
    \A i \in 1..Len(tx_fifo) : tx_fifo[i] = "REQUEST_3" => i + places > Len(tx_fifo)
ThirdAnswered == answer = 3 \/ \E i \in 1..Len(rx_fifo) : rx_fifo[i].response = 3

ThirdResponse ==
    /\ state = "REQUEST_3" =>
           ThirdWithin(1) /\ (ThirdAnswered => Len(tx_fifo) <= 1)
    /\ state = "RESPONSE_3" =>
           ThirdWithin(2) /\ (ThirdAnswered => Len(tx_fifo) <= 2)
    /\ state \in PairingStates \ {"REQUEST_3", "RESPONSE_3", "REQUEST_4"} =>
           ThirdWithin(0) /\ ~ThirdAnswered

QueueInv == PairingTypeOK /\ FewOutstanding /\ ThirdResponse /\ QueueShort

(***************************************************************************)
(* What makes AllChannelsTried inductive, with two channels or more: the   *)
(* history "written" follows from the failover's own variables, and a      *)
(* failure that is delivered late, after its packet was sent again, can    *)
(* still be pending only in the first loop.                                *)
(***************************************************************************)
Distance(channel) ==
    IF channel >= failover_start_channel THEN channel - failover_start_channel
    ELSE channel - failover_start_channel + ChannelCount

Tried(channel) ==
    failover_loop + (IF Distance(channel) <= Distance(current_channel) THEN 1 ELSE 0)

Fresh == failover_loop = 0 /\ current_channel = failover_start_channel

LateFailures ==
    /\ Len(tx_fifo) >= 2 => Fresh
    /\ "TX_FAILED" \in handling /\ {"TX_SUCCESS", "TX_FAILED"} \subseteq events => Fresh
    /\ {"TX_SUCCESS", "TX_FAILED"} \subseteq handling /\ transmitting =>
           /\ failover_loop = 0
           /\ events \cap {"TX_SUCCESS", "TX_FAILED"} # {} => Fresh
    /\ "TX_FAILED" \in handling /\ "TX_FAILED" \in events => failover_loop = 0
    /\ {"TX_SUCCESS", "TX_FAILED"} \subseteq events /\ transmitting => failover_loop = 0

FailoverInv ==
    /\ failover_loop \in 0..FAILOVER_LOOP_COUNT
    /\ LateFailures
    /\ failover_loop = FAILOVER_LOOP_COUNT =>
           "TX_FAILED" \notin events \cup handling /\ ~transmitting
    /\ state = "UNPAIRED" =>
           /\ failover_loop = FAILOVER_LOOP_COUNT
           /\ \A c \in Channels : written[c] = FAILOVER_LOOP_COUNT
    /\ state \in PairingStates =>
           /\ failover_loop < FAILOVER_LOOP_COUNT
           /\ \A c \in Channels : written[c] = Tried(c)

(***************************************************************************)
(* Only a missing answer can stop the pairing: a state that waits for an   *)
(* acknowledgement is left, whatever is lost, merged or repeated.          *)
(***************************************************************************)
OnlyResponsesWait ==
    \A s \in {"REQUEST_1", "ACCEPT_ADDRESS", "REQUEST_2", "REQUEST_3", "REQUEST_4"} :
        state = s ~> state # s

=============================================================================
