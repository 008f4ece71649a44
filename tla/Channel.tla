------------------------------ MODULE Channel ------------------------------
(***************************************************************************)
(* embassy_sync::channel::Channel<_, _, 1>, as the firmware uses it: a     *)
(* FIFO that holds at most one message.  A channel is a sequence; send and *)
(* receive are the actions that complete a send(..).await or a             *)
(* receive().await, and they are disabled while the caller has to wait.    *)
(***************************************************************************)
EXTENDS Naturals, Sequences

\* Every channel of the firmware is declared with this capacity.
Capacity == 1

Send(ch, message) ==
    /\ Len(ch) < Capacity
    /\ ch' = Append(ch, message)

\* Take the oldest message; the caller names it Head(ch).
Receive(ch) ==
    /\ ch # <<>>
    /\ ch' = Tail(ch)

\* What a channel for these messages may hold.
Buffer(Messages) == {ch \in Seq(Messages) : Len(ch) <= Capacity}
=============================================================================
