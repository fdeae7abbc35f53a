------------------------------ MODULE ThpChannel ------------------------------
(***************************************************************************)
(* One THP channel with an established secure layer: the host's and the    *)
(* device's `Channel` (rust/trezor-thp/src/channel/mod.rs) exchanging      *)
(* packets over a data transfer layer that delivers in order but may lose, *)
(* duplicate or damage packets.                                            *)
(*                                                                         *)
(* A message is identified by the Noise nonce it was encrypted with, so    *)
(* that decryption succeeds exactly when the receiver's nonce is the same. *)
(* Every message is cut into FragCount fragments: one initiation packet    *)
(* and FragCount - 1 continuations, the last of which holds the checksum.  *)
(* CRC-32 is ideal: it accepts exactly the bytes that were sent.           *)
(***************************************************************************)
EXTENDS Integers, Sequences

CONSTANTS
  Piggybacking,  \* ACK piggybacking negotiated (protocol version 2.1)
  TurnTaking,    \* the peers whose application waits for its turn
  BusyErrors,    \* the device may answer TRANSPORT_BUSY
  BadHeaders,    \* damage may leave an initiation header that does not parse
  FragCount,     \* fragments per message
  MaxMsg,        \* bound: MaxMsg[p] messages are submitted by p
  LinkCap,       \* bound: packets in flight in one direction
  MaxFaults      \* bound: packets lost, duplicated, damaged or refused as busy

ASSUME ModeAssumption ==
  /\ Piggybacking \in BOOLEAN /\ TurnTaking \subseteq {"host", "device"}
  /\ BusyErrors \in BOOLEAN /\ BadHeaders \in BOOLEAN
ASSUME BoundAssumption ==
  /\ FragCount \in Nat \ {0}
  /\ MaxMsg \in [{"host", "device"} -> Nat]
  /\ LinkCap \in Nat \ {0}
  /\ MaxFaults \in Nat

VARIABLES
  canSend, syncSend, syncReceive,  \* ChannelSync
  sendAck,                         \* pending acknowledgement, or NoAck
  sendState, fragmenter,           \* SendState and its Fragmenter
  receiveState, reassembler,       \* ReceiveState and its Reassembler
  encNonce, decNonce,              \* NoiseCiphers: messages encrypted, decrypted
  link,                            \* link[p]: packets on their way to p
  faults,                          \* packets lost, duplicated, damaged or refused
  missed                           \* history: peers that failed to decrypt a message

vars == <<canSend, syncSend, syncReceive, sendAck, sendState, fragmenter,
          receiveState, reassembler, encNonce, decNonce, link, faults, missed>>

Peer == {"host", "device"}
Other(p) == IF p = "host" THEN "device" ELSE "host"
Bit == {0, 1}
NoAck == -1

ErrorType == {"TransportBusy", "DecryptionFailed"}
PacketType == {"init", "cont", "ack"} \cup ErrorType

(* n is the number of fragments announced by the length of an initiation   *)
(* packet (0 if its header does not parse), and the position of a          *)
(* continuation; ok says that the packet was not damaged on its way.       *)
(* In a reassembler good says that the checksum computed so far is that of *)
(* the message sent, zeroed that fragments were erased from its buffer.    *)
Packet == [type : PacketType, seq : Bit, ack : Bit, msg : Nat, n : Nat, ok : BOOLEAN]
Fragmenter == [seq : Bit, ack : Bit, msg : Nat, off : Nat]
Reassembler == [ack : Bit, msg : Nat, len : Nat, off : Nat,
                good : BOOLEAN, zeroed : BOOLEAN]

NoFragmenter == [seq |-> 0, ack |-> 0, msg |-> 0, off |-> 0]
NoReassembler == [ack |-> 0, msg |-> 0, len |-> 0, off |-> 0,
                  good |-> FALSE, zeroed |-> FALSE]

AckPacket(b) == [type |-> "ack", seq |-> 0, ack |-> b, msg |-> 0, n |-> 0, ok |-> TRUE]
ErrorPacket(e) == [type |-> e, seq |-> 0, ack |-> 0, msg |-> 0, n |-> 0, ok |-> TRUE]

SendStates == {"Idle", "Sending", "Failed"} \cup ErrorType
ReceiveStates == {"Idle", "Receiving", "Failed"}

TypeOK ==
  /\ canSend \in [Peer -> BOOLEAN]
  /\ syncSend \in [Peer -> Bit]
  /\ syncReceive \in [Peer -> Bit]
  /\ sendAck \in [Peer -> Bit \cup {NoAck}]
  /\ sendState \in [Peer -> SendStates]
  /\ fragmenter \in [Peer -> Fragmenter]
  /\ receiveState \in [Peer -> ReceiveStates]
  /\ reassembler \in [Peer -> Reassembler]
  /\ encNonce \in [Peer -> Nat]
  /\ decNonce \in [Peer -> Nat]
  /\ link \in [Peer -> Seq(Packet)]
  /\ faults \in Nat
  /\ missed \subseteq Peer

Init ==
  /\ canSend = [p \in Peer |-> TRUE]
  /\ syncSend = [p \in Peer |-> 0]
  /\ syncReceive = [p \in Peer |-> 0]
  /\ sendAck = [p \in Peer |-> NoAck]
  /\ sendState = [p \in Peer |-> "Idle"]
  /\ fragmenter = [p \in Peer |-> NoFragmenter]
  /\ receiveState = [p \in Peer |-> "Idle"]
  /\ reassembler = [p \in Peer |-> NoReassembler]
  /\ encNonce = [p \in Peer |-> 0]
  /\ decNonce = [p \in Peer |-> 0]
  /\ link = [p \in Peer |-> <<>>]
  /\ faults = 0
  /\ missed = {}

IsFailed(p) == sendState[p] = "Failed" \/ receiveState[p] = "Failed"
ReassemblerDone(r) == r.off >= r.len
FragmenterDone(f) == f.off = FragCount

-------------------------------------------------------------------------------
(***************************************************************************)
(* Submitting a message.                                                   *)
(***************************************************************************)

MessageInReady(p) == sendState[p] = "Idle" /\ receiveState[p] # "Failed"

(* The applications above the channel: a request is submitted when all     *)
(* responses have arrived, a response when a request is unanswered.        *)
ApplicationReady(p) ==
  p \in TurnTaking => CASE p = "host"   -> encNonce[p] = decNonce[p]
                        [] p = "device" -> encNonce[p] < decNonce[p]

(* message_in encrypts first (the nonce advances), then raw_in starts a    *)
(* transmission if the alternating-bit state lets it.  The sync bits are   *)
(* fixed here for the transmission and all its repetitions.                *)
MessageIn(p) ==
  /\ MessageInReady(p)
  /\ ApplicationReady(p)
  /\ encNonce[p] < MaxMsg[p]
  /\ encNonce' = [encNonce EXCEPT ![p] = @ + 1]
  /\ \/ /\ canSend[p]
        /\ sendState' = [sendState EXCEPT ![p] = "Sending"]
        /\ fragmenter' = [fragmenter EXCEPT ![p] =
             [seq |-> syncSend[p],
              ack |-> IF Piggybacking THEN 1 - syncReceive[p] ELSE 0,
              msg |-> encNonce[p],
              off |-> 0]]
        /\ sendAck' = [sendAck EXCEPT ![p] = IF Piggybacking THEN NoAck ELSE @]
     \/ /\ ~canSend[p]
        /\ UNCHANGED <<sendState, fragmenter, sendAck>>
  /\ UNCHANGED <<canSend, syncSend, syncReceive, receiveState, reassembler,
                 decNonce, link, faults, missed>>

(* The retransmission timer fired.  Before the last fragment was sent only *)
(* the retry counter changes, which the channel itself never reads.        *)
MutantReset(f) == f
Reset(f) == [f EXCEPT !.off = 0]

MessageRetransmit(p) ==
  /\ sendState[p] = "Sending"
  /\ FragmenterDone(fragmenter[p])
  /\ fragmenter' = [fragmenter EXCEPT ![p] = Reset(@)]
  /\ UNCHANGED <<canSend, syncSend, syncReceive, sendAck, sendState, receiveState,
                 reassembler, encNonce, decNonce, link, faults, missed>>

-------------------------------------------------------------------------------
(***************************************************************************)
(* packet_out: a pending ACK first, then a transport error, then the next  *)
(* fragment of the current message.                                        *)
(***************************************************************************)

Send(p, pkt) ==
  /\ Len(link[Other(p)]) < LinkCap
  /\ link' = [link EXCEPT ![Other(p)] = Append(@, pkt)]

SendPendingAck(p) ==
  /\ sendAck[p] # NoAck
  /\ Send(p, AckPacket(sendAck[p]))
  /\ sendAck' = [sendAck EXCEPT ![p] = NoAck]
  /\ UNCHANGED <<canSend, syncSend, syncReceive, sendState, fragmenter, receiveState,
                 reassembler, encNonce, decNonce, faults, missed>>

SendTransportError(p) ==
  /\ sendAck[p] = NoAck
  /\ sendState[p] \in ErrorType
  /\ Send(p, ErrorPacket(sendState[p]))
  /\ \/ /\ sendState[p] = "TransportBusy"  \* recoverable
        /\ sendState' = [sendState EXCEPT ![p] = "Idle"]
        /\ UNCHANGED <<receiveState, reassembler>>
     \/ /\ sendState[p] # "TransportBusy"
        /\ sendState' = [sendState EXCEPT ![p] = "Failed"]
        /\ receiveState' = [receiveState EXCEPT ![p] = "Failed"]
        /\ reassembler' = [reassembler EXCEPT ![p] = NoReassembler]
  /\ UNCHANGED <<canSend, syncSend, syncReceive, sendAck, fragmenter,
                 encNonce, decNonce, faults, missed>>

Fragment(f) ==
  [type |-> IF f.off = 0 THEN "init" ELSE "cont",
   seq  |-> IF f.off = 0 THEN f.seq ELSE 0,
   ack  |-> IF f.off = 0 THEN f.ack ELSE 0,
   msg  |-> f.msg,
   n    |-> IF f.off = 0 THEN FragCount ELSE f.off + 1,
   ok   |-> TRUE]

SendFragment(p) ==
  /\ sendAck[p] = NoAck
  /\ sendState[p] = "Sending"
  /\ ~FragmenterDone(fragmenter[p])
  /\ Send(p, Fragment(fragmenter[p]))
  /\ fragmenter' = [fragmenter EXCEPT ![p].off = @ + 1]
  /\ canSend' = [canSend EXCEPT ![p] = @ /\ fragmenter[p].off + 1 < FragCount]
  /\ UNCHANGED <<syncSend, syncReceive, sendAck, sendState, receiveState,
                 reassembler, encNonce, decNonce, faults, missed>>

PacketOut(p) == SendPendingAck(p) \/ SendTransportError(p) \/ SendFragment(p)

-------------------------------------------------------------------------------
(***************************************************************************)
(* packet_in: one action per kind of packet.  A failed channel rejects     *)
(* every packet without changing state.                                    *)
(***************************************************************************)

Receive(p) == link' = [link EXCEPT ![p] = Tail(@)]

Incoming(p, types) ==
  /\ link[p] # <<>>
  /\ Head(link[p]).type \in types
  /\ ~IsFailed(p)
  /\ Receive(p)

RejectFailed(p) ==
  /\ link[p] # <<>>
  /\ IsFailed(p)
  /\ Receive(p)
  /\ UNCHANGED <<canSend, syncSend, syncReceive, sendAck, sendState, fragmenter,
                 receiveState, reassembler, encNonce, decNonce, faults, missed>>

MutantMarkDelivered(p) ==
  /\ syncSend' = [syncSend EXCEPT ![p] = 1 - @]
  /\ sendState' = [sendState EXCEPT ![p] = "Idle"]
  /\ fragmenter' = [fragmenter EXCEPT ![p] = NoFragmenter]
  /\ UNCHANGED canSend

MutantNoWrap(p) ==
  /\ syncSend' = [syncSend EXCEPT ![p] = @ + 1]
  /\ canSend' = [canSend EXCEPT ![p] = TRUE]
  /\ sendState' = [sendState EXCEPT ![p] = "Idle"]
  /\ fragmenter' = [fragmenter EXCEPT ![p] = NoFragmenter]

(* send_mark_delivered, with the caller's change of send_state.            *)
MarkDelivered(p) ==
  /\ syncSend' = [syncSend EXCEPT ![p] = 1 - @]
  /\ canSend' = [canSend EXCEPT ![p] = TRUE]
  /\ sendState' = [sendState EXCEPT ![p] = "Idle"]
  /\ fragmenter' = [fragmenter EXCEPT ![p] = NoFragmenter]

MutantAckWithoutBit(p, pkt) == sendState[p] = "Sending" /\ pkt.ok
MutantAckWithoutChecksum(p, pkt) == sendState[p] = "Sending" /\ pkt.ack = syncSend[p]
AckAccepted(p, pkt) == sendState[p] = "Sending" /\ pkt.ok /\ pkt.ack = syncSend[p]

HandleAck(p) ==
  /\ Incoming(p, {"ack"})
  /\ IF AckAccepted(p, Head(link[p]))
     THEN MarkDelivered(p)
     ELSE UNCHANGED <<syncSend, canSend, sendState, fragmenter>>
  /\ UNCHANGED <<syncReceive, sendAck, receiveState, reassembler, encNonce,
                 decNonce, faults, missed>>

(* Errors other than TRANSPORT_BUSY make the channel inoperable.           *)
HandleError(p) ==
  /\ Incoming(p, ErrorType)
  /\ IF Head(link[p]).ok /\ Head(link[p]).type # "TransportBusy"
     THEN /\ sendState' = [sendState EXCEPT ![p] = "Failed"]
          /\ receiveState' = [receiveState EXCEPT ![p] = "Failed"]
          /\ reassembler' = [reassembler EXCEPT ![p] = NoReassembler]
          /\ fragmenter' = [fragmenter EXCEPT ![p] = NoFragmenter]
     ELSE UNCHANGED <<sendState, receiveState, reassembler, fragmenter>>
  /\ UNCHANGED <<canSend, syncSend, syncReceive, sendAck, encNonce, decNonce, faults, missed>>

(* handle_last_packet with r the reassembler after the packet was added.   *)
(* A complete message with a valid checksum waits for message_out; with    *)
(* piggybacking its ACK bit may confirm the message being sent.            *)
HandleLastPacket(p, r) ==
  /\ IF ReassemblerDone(r) /\ ~r.good
     THEN /\ receiveState' = [receiveState EXCEPT ![p] = "Idle"]
          /\ reassembler' = [reassembler EXCEPT ![p] = NoReassembler]
     ELSE /\ receiveState' = [receiveState EXCEPT ![p] = "Receiving"]
          /\ reassembler' = [reassembler EXCEPT ![p] = r]
  /\ IF /\ ReassemblerDone(r) /\ r.good
        /\ sendState[p] = "Sending" /\ Piggybacking /\ ~canSend[p]
        /\ r.ack = syncSend[p]
     THEN MarkDelivered(p)
     ELSE UNCHANGED <<syncSend, canSend, sendState, fragmenter>>

(* A continuation carries no sequence number: it is appended to whatever   *)
(* message is being reassembled, or ignored.                               *)
Appended(r, pkt) ==
  IF ReassemblerDone(r)
  THEN r
  ELSE [r EXCEPT !.off = @ + 1,
                 !.good = @ /\ pkt.ok /\ pkt.msg = r.msg /\ pkt.n = r.off + 1]

HandleCont(p) ==
  /\ Incoming(p, {"cont"})
  /\ IF receiveState[p] = "Receiving"
     THEN HandleLastPacket(p, Appended(reassembler[p], Head(link[p])))
     ELSE UNCHANGED <<receiveState, reassembler, syncSend, canSend, sendState, fragmenter>>
  /\ UNCHANGED <<syncReceive, sendAck, encNonce, decNonce, faults, missed>>

(* receive_start *)
MutantReceiveStart(p, pkt) == TRUE
ReceiveStart(p, pkt) == pkt.seq = syncReceive[p]

NewReassembler(pkt) ==
  [ack |-> pkt.ack, msg |-> pkt.msg, len |-> pkt.n, off |-> 1,
   good |-> pkt.ok, zeroed |-> FALSE]

(* handle_init clears the receive buffer before it parses the header.  If  *)
(* that fails the previous reassembler stays: its checksum was computed    *)
(* from the fragments and not from the buffer, so only a checksum that had *)
(* already arrived is spoiled.                                             *)
Zeroed(r) ==
  IF ReassemblerDone(r) THEN [r EXCEPT !.good = FALSE] ELSE [r EXCEPT !.zeroed = TRUE]

HandleBadHeader(p) ==
  /\ reassembler' = IF receiveState[p] = "Receiving"
                    THEN [reassembler EXCEPT ![p] = Zeroed(@)]
                    ELSE reassembler
  /\ UNCHANGED <<sendAck, receiveState, syncSend, canSend, sendState, fragmenter>>

MutantAckExpected(p, pkt) ==
  /\ sendAck' = IF receiveState[p] = "Receiving"
                THEN sendAck
                ELSE [sendAck EXCEPT ![p] = syncReceive[p]]
  /\ UNCHANGED <<receiveState, reassembler, syncSend, canSend, sendState, fragmenter>>

(* An initiation packet with the wrong sequence bit repeats a message that *)
(* was received: its ACK was lost, and is sent again unless it travels     *)
(* with the message being sent or another message is being reassembled.    *)
HandleInvalidSeq(p, pkt) ==
  /\ sendAck' = IF \/ Piggybacking /\ sendState[p] = "Sending"
                   \/ receiveState[p] = "Receiving"
                THEN sendAck
                ELSE [sendAck EXCEPT ![p] = pkt.seq]
  /\ UNCHANGED <<receiveState, reassembler, syncSend, canSend, sendState, fragmenter>>

HandleInit(p) ==
  /\ Incoming(p, {"init"})
  /\ LET pkt == Head(link[p]) IN
       \/ /\ ~ReceiveStart(p, pkt)
          /\ HandleInvalidSeq(p, pkt)
       \/ /\ ReceiveStart(p, pkt)
          /\ sendState[p] = "Sending" /\ ~Piggybacking  \* half-duplex in 2.0
          /\ UNCHANGED <<sendAck, receiveState, reassembler, syncSend, canSend,
                         sendState, fragmenter>>
       \/ /\ ReceiveStart(p, pkt)
          /\ sendState[p] = "Sending" => Piggybacking
          /\ \/ /\ pkt.n = 0
                /\ HandleBadHeader(p)
             \/ /\ pkt.n > 0
                /\ HandleLastPacket(p, NewReassembler(pkt))
                /\ UNCHANGED sendAck
  /\ UNCHANGED <<syncReceive, encNonce, decNonce, faults, missed>>

PacketIn(p) ==
  RejectFailed(p) \/ HandleAck(p) \/ HandleError(p) \/ HandleCont(p) \/ HandleInit(p)

(* The application picks up the reassembled message, whose checksum is     *)
(* verified again.  The acknowledgement is scheduled before decryption.    *)
MutantDecrypts(p) == ~reassembler[p].zeroed
Decrypts(p) == reassembler[p].msg = decNonce[p] /\ ~reassembler[p].zeroed

MessageOut(p) ==
  /\ receiveState[p] = "Receiving"
  /\ ReassemblerDone(reassembler[p])
  /\ reassembler[p].good
  /\ sendAck' = [sendAck EXCEPT ![p] = syncReceive[p]]
  /\ syncReceive' = [syncReceive EXCEPT ![p] = 1 - @]
  /\ reassembler' = [reassembler EXCEPT ![p] = NoReassembler]
  /\ \/ /\ Decrypts(p)
        /\ decNonce' = [decNonce EXCEPT ![p] = @ + 1]
        /\ receiveState' = [receiveState EXCEPT ![p] = "Idle"]
        /\ UNCHANGED <<sendState, fragmenter, missed>>
     \/ /\ ~Decrypts(p)
        /\ sendState' = [sendState EXCEPT ![p] =
                           IF p = "host" THEN "Failed" ELSE "DecryptionFailed"]
        /\ receiveState' = [receiveState EXCEPT ![p] =
                              IF p = "host" THEN "Failed" ELSE "Idle"]
        /\ fragmenter' = [fragmenter EXCEPT ![p] = NoFragmenter]
        /\ missed' = missed \cup {p}
        /\ UNCHANGED decNonce
  /\ UNCHANGED <<canSend, syncSend, encNonce, link, faults>>

(* The device is busy with another channel: the packet is not given to the *)
(* channel, which is told to answer TRANSPORT_BUSY.                        *)
SendTransportBusy ==
  /\ BusyErrors
  /\ faults < MaxFaults
  /\ faults' = faults + 1
  /\ link["device"] # <<>>
  /\ ~IsFailed("device")
  /\ Receive("device")
  /\ sendState' = [sendState EXCEPT !["device"] = "TransportBusy"]
  /\ fragmenter' = [fragmenter EXCEPT !["device"] = NoFragmenter]
  /\ UNCHANGED <<canSend, syncSend, syncReceive, sendAck, receiveState, reassembler,
                 encNonce, decNonce, missed>>

-------------------------------------------------------------------------------
(***************************************************************************)
(* The data transfer layer: it "can discard or duplicate messages, but it  *)
(* cannot change their order" (specification.md:327).  A damaged packet    *)
(* arrives as any kind of packet, with any sync bits and length.  Faults   *)
(* hit the next packet to arrive, which loses no behaviour of a FIFO link. *)
(***************************************************************************)

Fault(p) ==
  /\ faults < MaxFaults
  /\ link[p] # <<>>
  /\ faults' = faults + 1
  /\ UNCHANGED <<canSend, syncSend, syncReceive, sendAck, sendState, fragmenter,
                 receiveState, reassembler, encNonce, decNonce, missed>>

Lose(p) == Fault(p) /\ Receive(p)

Duplicate(p) ==
  /\ Fault(p)
  /\ Len(link[p]) < LinkCap
  /\ link' = [link EXCEPT ![p] = <<Head(@)>> \o @]

DamagedPacket(t, s, a, m, n) ==
  [type |-> t, seq |-> s, ack |-> a, msg |-> m, n |-> n, ok |-> FALSE]

Damage(p) ==
  /\ Fault(p)
  /\ Head(link[p]).ok
  /\ \E t \in PacketType, s, a \in Bit, n \in 0..(FragCount + 1) :
       /\ t = "init" /\ n = 0 => BadHeaders
       /\ t # "init" => s = 0 /\ n = 0  \* fields the receiver does not read
       /\ t # "ack" => a = 0
       /\ link' = [link EXCEPT ![p] =
                     [@ EXCEPT ![1] = DamagedPacket(t, s, a, Head(link[p]).msg, n)]]

Next ==
  \/ \E p \in Peer :
       \/ MessageIn(p) \/ MessageRetransmit(p) \/ MessageOut(p)
       \/ PacketOut(p) \/ PacketIn(p)
       \/ Lose(p) \/ Duplicate(p) \/ Damage(p)
  \/ SendTransportBusy

Spec == Init /\ [][Next]_vars

(* The event loops poll the interfaces and drain the write queue, timers   *)
(* fire, and a task waiting for a message runs before the next packet is   *)
(* read (interface_context.py: read_loop, write_loop, retransmission_loop).*)
Fairness ==
  \A p \in Peer :
    /\ WF_vars(PacketOut(p))
    /\ WF_vars(PacketIn(p))
    /\ WF_vars(MessageRetransmit(p))
    /\ SF_vars(MessageOut(p))

FairSpec == Spec /\ Fairness

-------------------------------------------------------------------------------
(***************************************************************************)
(* Properties.                                                             *)
(***************************************************************************)

(* Messages whose delivery was confirmed to the application of p.          *)
Confirmed(p) == IF sendState[p] = "Sending" THEN encNonce[p] - 1 ELSE encNonce[p]

(* The channel implements a reliable exchange: the messages of each        *)
(* direction are delivered once each, in order, and message_in_ready       *)
(* becomes true again only after the peer picked the message up.           *)
Exchange == INSTANCE ReliableExchange WITH
  submitted <- encNonce,
  delivered <- [p \in Peer |-> decNonce[Other(p)]],
  confirmed <- [p \in Peer |-> Confirmed(p)]

ImplementsExchange == Exchange!Spec

(* "Sender should not assume a message to be received without a receipt of *)
(* an acknowledgement message" (specification.md:317): a message the       *)
(* sender counts as delivered was picked up by the peer.                   *)
ConfirmedWasDelivered == \A p \in Peer : Confirmed(p) <= decNonce[Other(p)]

(* Losing, repeating or damaging packets never makes the channel           *)
(* inoperable: no message is decrypted with the wrong nonce, so neither    *)
(* become_failed nor DECRYPTION_FAILED is reached.                         *)
NeverFails == \A p \in Peer : ~IsFailed(p) /\ sendState[p] # "DecryptionFailed"

(* "Is channel ready to send next message?" (mod.rs:709): when             *)
(* message_in_ready answers true, message_in starts a transmission; it     *)
(* does not spend a nonce on a message that is never sent.                 *)
ReadyMeansSendable == \A p \in Peer : MessageInReady(p) => canSend[p]

(* The CRC "is used to detect data corruption or the loss of continuation  *)
(* packets" (specification.md:222): a message that passes verify is the    *)
(* one the peer is sending, complete and unchanged.                        *)
CorruptionDetected ==
  \A p \in Peer :
    receiveState[p] = "Receiving" /\ ReassemblerDone(reassembler[p]) /\ reassembler[p].good
      => Decrypts(p)

(* TRANSPORT_BUSY answers cost the host no request: while it is operable   *)
(* and ready for the next message, message_out of the device has taken all *)
(* earlier ones, and the device expects the bit the host will use.         *)
BusyLosesNoRequest ==
  MessageInReady("host") => syncReceive["device"] = syncSend["host"]

(* Once a side failed to decrypt a message, or learned that the other one  *)
(* did, no message is ever handed to its application again: not even when  *)
(* TRANSPORT_BUSY takes the place of the DECRYPTION_FAILED that the device *)
(* was to send, so that it goes on receiving (mod.rs:255).                 *)
NoDeliveryAfterFailure ==
  [][\A p \in Peer : p \in missed \/ IsFailed(p) => decNonce'[p] = decNonce[p]]_vars

(* "The protocol guarantees the eventual and non-duplicative delivery of   *)
(* messages" (specification.md:327): every submitted message is picked up. *)
EventualDelivery ==
  \A p \in Peer : \A k \in 1..MaxMsg[p] : encNonce[p] >= k ~> decNonce[Other(p)] >= k

-------------------------------------------------------------------------------
(***************************************************************************)
(* The inductive invariant of a protocol 2.0 channel (no piggybacking, no  *)
(* TRANSPORT_BUSY, headers that parse), for messages from p to Other(p).   *)
(***************************************************************************)

Protocol20 == ~Piggybacking /\ ~BusyErrors /\ ~BadHeaders

(* Nobody is inoperable or about to report an error, and a message being   *)
(* sent is the last one encrypted, under the current send bit.             *)
SendInv(p) ==
  /\ sendState[p] \in {"Idle", "Sending"}
  /\ receiveState[p] \in {"Idle", "Receiving"}
  /\ sendState[p] = "Idle" => canSend[p]
  /\ sendState[p] = "Sending" => /\ encNonce[p] >= 1
                                 /\ fragmenter[p].msg = encNonce[p] - 1
                                 /\ fragmenter[p].seq = syncSend[p]

(* The receiver is level with the sender and agrees on the bit, or one     *)
(* message ahead and expects the other one.                                *)
SyncInv(p) ==
  \/ /\ decNonce[Other(p)] = Confirmed(p)
     /\ syncReceive[Other(p)] = syncSend[p]
  \/ /\ decNonce[Other(p)] = Confirmed(p) + 1
     /\ syncReceive[Other(p)] # syncSend[p]
     /\ sendState[p] = "Sending"

(* Packets s on their way to a receiver that expects message next under    *)
(* the given bit from a sender that encrypted `sent' messages: an intact   *)
(* initiation packet belongs to the next message or to the last one        *)
(* delivered, its sequence bit tells which, and no intact packet reports   *)
(* an error.                                                               *)
IntactInit(pkt) == pkt.type = "init" /\ pkt.ok

DataInv(s, next, bit, sent) ==
  \A i \in 1..Len(s) :
    /\ s[i].type = "init" => s[i].n >= 1
    /\ s[i].type \in ErrorType => ~s[i].ok
    /\ IntactInit(s[i]) => /\ s[i].msg <= next /\ s[i].msg >= next - 1
                           /\ s[i].msg < sent
                           /\ s[i].msg = next <=> s[i].seq = bit

(* Initiation packets arrive in the order of their messages.               *)
OrderInv(s) ==
  \A i, j \in 1..Len(s) :
    i < j /\ IntactInit(s[i]) /\ IntactInit(s[j]) => s[i].msg <= s[j].msg

(* What passes the checksum so far is the message being sent, and no       *)
(* packet of an earlier one is still on its way.                           *)
OnlyInits(s, m) == \A i \in 1..Len(s) : IntactInit(s[i]) => s[i].msg = m

ReassemblyInv(p) ==
  LET q == Other(p) IN
  receiveState[q] = "Receiving" =>
    /\ ~reassembler[q].zeroed
    /\ reassembler[q].good => /\ reassembler[q].msg = decNonce[q]
                              /\ decNonce[q] < encNonce[p]
                              /\ OnlyInits(link[q], decNonce[q])

(* Acknowledgements s on their way to a sender whose send bit is bit, with *)
(* another one pending at the receiver.  None confirms a message that was  *)
(* not delivered, and behind the first one that confirms, all do: those    *)
(* under way when it arrives will not confirm the next message.            *)
IntactAck(pkt) == pkt.type = "ack" /\ pkt.ok

NoAckOf(s, bit) == \A i \in 1..Len(s) : IntactAck(s[i]) => s[i].ack # bit

AckOrderInv(s, bit) ==
  \A i, j \in 1..Len(s) :
    i < j /\ IntactAck(s[i]) /\ IntactAck(s[j]) /\ s[i].ack = bit => s[j].ack = bit

AckInv(s, pending, bit, level) ==
  /\ level => pending # bit /\ NoAckOf(s, bit)
  /\ pending = 1 - bit => NoAckOf(s, bit)
  /\ AckOrderInv(s, bit)

(* Every step of a protocol 2.0 channel preserves this for both directions *)
(* and it implies ConfirmedWasDelivered, NeverFails and the refinement.    *)
DirectionInv(p) ==
  LET q == Other(p) IN
  /\ SendInv(p)
  /\ SyncInv(p)
  /\ DataInv(link[q], decNonce[q], syncReceive[q], encNonce[p])
  /\ OrderInv(link[q])
  /\ ReassemblyInv(p)
  /\ AckInv(link[p], sendAck[q], syncSend[p], decNonce[q] = Confirmed(p))

IndInv == \A p \in Peer : DirectionInv(p)
===============================================================================
