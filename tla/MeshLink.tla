------------------------------ MODULE MeshLink ------------------------------
(***************************************************************************)
(* One direction of an osmoda-mesh connection (transport.rs, messages.rs): *)
(* a message is encrypted by Noise, then by the post-quantum layer, and    *)
(* written, each under a lock of its own, so that several senders          *)
(* (handlers, probes, room forwarding) overtake each other in between.     *)
(* Both layers count messages; the receiver accepts the next number only,  *)
(* and its first error ends the connection.  Keys and bytes are left out.  *)
(***************************************************************************)
EXTENDS Integers, Sequences

CONSTANTS
    Senders,       \* tasks that may send at the same time
    MaxSealed,     \* bound: messages on the connection
    NoMessage      \* a sender that sends nothing

Steps == {"sealed", "wrapped"}
Message == [step: Steps, noise: Nat, pq: Nat]
Frames == [noise: Nat, pq: Nat, whole: BOOLEAN]

ASSUME MeshLinkAssumption ==
    /\ MaxSealed \in Nat
    /\ NoMessage \notin Message

VARIABLES
    sending,       \* sending[s]: the numbers its message has got, or NoMessage
    sealed,        \* messages encrypted by Noise (its sending nonce)
    wrapped,       \* pq_encrypt_nonce
    wire,          \* frames that were written and not read yet
    opened,        \* pq_decrypt_nonce
    delivered,     \* messages decrypted by Noise (its receiving nonce)
    broken,        \* the receive loop has ended with an error
    \* observers: two sends overlapped; a send was cut off
    overlapped, cutOff

linkVars == <<sending, sealed, wrapped, wire, opened, delivered, broken, overlapped, cutOff>>

\* A frame carries its number in both layers; one that was not written to its
\* end is not whole.
Frame(noise, pq, whole) == [noise |-> noise, pq |-> pq, whole |-> whole]

Busy == {s \in Senders : sending[s] # NoMessage}

HasStep(s, step) ==
    /\ s \in Busy
    /\ sending[s].step = step

-----------------------------------------------------------------------------
(* send_message.                                                           *)

Seal(s) ==
    /\ s \notin Busy
    /\ sealed < MaxSealed
    /\ sending' = [sending EXCEPT ![s] = [step |-> "sealed", noise |-> sealed, pq |-> 0]]
    /\ sealed' = sealed + 1
    /\ overlapped' = (overlapped \/ Busy # {})
    /\ UNCHANGED <<wrapped, wire, opened, delivered, broken, cutOff>>

\* Mutant: the counter stays.
WrapSameNonce(s) ==
    /\ HasStep(s, "sealed")
    /\ sending' = [sending EXCEPT ![s].step = "wrapped", ![s].pq = wrapped]
    /\ UNCHANGED <<sealed, wrapped, wire, opened, delivered, broken, overlapped, cutOff>>

Wrap(s) ==
    /\ HasStep(s, "sealed")
    /\ sending' = [sending EXCEPT ![s].step = "wrapped", ![s].pq = wrapped]
    /\ wrapped' = wrapped + 1
    /\ UNCHANGED <<sealed, wire, opened, delivered, broken, overlapped, cutOff>>

\* The writer is locked until the frame is written.
WriteFrame(s) ==
    /\ HasStep(s, "wrapped")
    /\ wire' = Append(wire, Frame(sending[s].noise, sending[s].pq, TRUE))
    /\ sending' = [sending EXCEPT ![s] = NoMessage]
    /\ UNCHANGED <<sealed, wrapped, opened, delivered, broken, overlapped, cutOff>>

\* The client of a handler goes away while it waits for a lock or for room in
\* the socket: its message is lost, or the first part of it is written.
SendCutOff(s) ==
    /\ s \in Busy
    /\ wire' \in {wire} \cup
          (IF HasStep(s, "wrapped") THEN {Append(wire, Frame(sending[s].noise, sending[s].pq, FALSE))}
           ELSE {})
    /\ sending' = [sending EXCEPT ![s] = NoMessage]
    /\ cutOff' = TRUE
    /\ UNCHANGED <<sealed, wrapped, opened, delivered, broken, overlapped>>

-----------------------------------------------------------------------------
(* recv_message.                                                           *)

Acceptable(frame) == frame.whole /\ frame.pq = opened /\ frame.noise = delivered

Receive ==
    /\ ~ broken
    /\ wire # <<>>
    /\ Acceptable(Head(wire))
    /\ wire' = Tail(wire)
    /\ opened' = opened + 1
    /\ delivered' = delivered + 1
    /\ UNCHANGED <<sending, sealed, wrapped, broken, overlapped, cutOff>>

\* The counter of the outer layer has moved.  A frame that is not whole takes
\* bytes of the next one, and is waited for until there is one.
ReceiveBreaks ==
    /\ ~ broken
    /\ wire # <<>>
    /\ ~ Acceptable(Head(wire))
    /\ Head(wire).whole \/ Len(wire) > 1
    /\ broken' = TRUE
    /\ opened' = opened + 1
    /\ UNCHANGED <<sending, sealed, wrapped, wire, delivered, overlapped, cutOff>>

MeshLinkInit ==
    /\ sending = [s \in Senders |-> NoMessage]
    /\ sealed = 0 /\ wrapped = 0 /\ wire = <<>> /\ opened = 0 /\ delivered = 0
    /\ broken = FALSE /\ overlapped = FALSE /\ cutOff = FALSE

MeshLinkNext ==
    \/ \E s \in Senders : Seal(s) \/ Wrap(s) \/ WriteFrame(s) \/ SendCutOff(s)
    \/ Receive \/ ReceiveBreaks

MeshLinkSpec == MeshLinkInit /\ [][MeshLinkNext]_linkVars

-----------------------------------------------------------------------------
(* Properties.                                                             *)

\* Type correctness of senders, counters and frames.
MeshLinkTypeOK ==
    /\ sending \in [Senders -> Message \cup {NoMessage}]
    /\ sealed \in Nat /\ wrapped \in Nat /\ opened \in Nat /\ delivered \in Nat
    /\ wire \in Seq(Frames)
    /\ broken \in BOOLEAN /\ overlapped \in BOOLEAN /\ cutOff \in BOOLEAN

\* A connection on which sends have not overlapped, and none was cut off, is
\* never ended by the counters of send_message and recv_message, however far
\* the receiver lags behind.  With an overlap it may be: the two numbers of a
\* message are taken under different locks, and the frames are written under a
\* third.
QuietLinkLives == broken => overlapped \/ cutOff
=============================================================================
