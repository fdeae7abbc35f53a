----------------------------- MODULE ThpHandshake -----------------------------
(***************************************************************************)
(* Opening a THP channel: the host's Mux and ChannelOpen                   *)
(* (rust/trezor-thp/src/channel/host.rs), the device's Mux and ChannelOpen *)
(* (device.rs) as driven by ThpContext, and the first application message. *)
(*                                                                         *)
(* A message is one packet here: ThpChannel has the fragments, checksums   *)
(* and damaged packets.  The Noise messages stand for themselves: each     *)
(* ChannelOpen writes and reads a given handshake message once.            *)
(***************************************************************************)
EXTENDS Integers, FiniteSets, Sequences

CONSTANTS
  Pairing,       \* answers of the credential verifier (PairingState)
  FirstMessages, \* FirstMessages[b]: first messages of a host whose piggybacking is b
  QueueLen,      \* BROADCAST_OUTGOING_QUEUE_LEN
  MaxOpening,    \* MAX_CHANNELS_OPENING
  MaxRetry,      \* MAX_RETRANSMISSION_COUNT
  MaxRequests,   \* bound: channels requested by the host
  LinkCap,       \* bound: packets in flight in one direction
  MaxFaults      \* bound: packets lost or duplicated in a behaviour

ASSUME HandshakeAssumption ==
  /\ Pairing # {} /\ Pairing \subseteq 0..2
  /\ FirstMessages \in [BOOLEAN -> SUBSET {"short", "long"}]
  /\ {QueueLen, MaxOpening, MaxRequests, LinkCap} \subseteq Nat \ {0}
  /\ {MaxRetry, MaxFaults} \subseteq Nat

VARIABLES
  mux,       \* host::Mux: channel_allocation, its nonce and channel id
  host,      \* the host's ChannelOpen, or Channel once it is complete
  device,    \* device[c]: the device's ChannelOpen, or Channel, with id c
  outgoing,  \* device::Mux: channels to be told that they are unallocated
  link,      \* link[p]: packets on their way to p
  requests,  \* channels requested so far
  faults     \* packets lost or duplicated so far

vars == <<mux, host, device, outgoing, link, requests, faults>>

Peer == {"host", "device"}
Bit == {0, 1}
NoAck == -1
Broadcast == 0
Channels == 1..(MaxRequests + MaxFaults)
Nonces == 0..MaxRequests
Unpaired == 0

AppMessage == {"short", "long"}
HandshakeMessage == {"InitiationRequest", "InitiationResponse",
                     "CompletionRequest", "CompletionResponse"}
Message == HandshakeMessage \cup AppMessage
TransportError == {"DeviceLocked", "UnallocatedChannel"}

(* Why the device closes a channel: it was not unlocked, the handshake     *)
(* failed, newer channels needed the place, or nothing was acknowledged.   *)
Cause == {"None", "Locked", "Failed", "Evicted", "Exhausted"}

(* chan is the channel the packet is for, or the one that is allocated;    *)
(* val is the nonce of an allocation or the pairing state of a response.   *)
Packet == [type : Message \cup TransportError \cup
                  {"ack", "ChannelAllocationRequest", "ChannelAllocationResponse"},
           chan : Channels \cup {Broadcast}, seq : Bit, ack : Bit,
           val : Nonces \cup Pairing \cup {Unpaired}]

HostState == {"None", "Initial", "SendingInitiationRequest", "SendingCompletionRequest",
              "Finished", "Open", "Failed"}
DeviceState == {"None", "SendingChannelResponse", "StaticKeyRequired",
                "SendingInitiationResponse", "SendingCompletionResponse",
                "SendingDeviceLocked", "Open", "Closed"}

(* The Channel both ends are built on: ChannelSync, send_ack, send_state   *)
(* (what is being sent, with which sync bits, whether it was sent and how  *)
(* often again), with the state of the handshake and what it agreed on.    *)
Channel(states) ==
  [state : states, piggy : BOOLEAN, canSend : BOOLEAN, sendBit : Bit, recvBit : Bit,
   sendAck : Bit \cup {NoAck},
   sending : Message \cup {"Idle", "Failed", "ChannelAllocationResponse", "DeviceLocked"},
   seq : Bit, ack : Bit, sent : BOOLEAN, retry : 0..MaxRetry, nonce : Nonces,
   pairing : Pairing \cup {Unpaired}, cause : Cause, got : BOOLEAN]

NoChannel ==
  [state |-> "None", piggy |-> FALSE, canSend |-> TRUE, sendBit |-> 0, recvBit |-> 0,
   sendAck |-> NoAck, sending |-> "Idle", seq |-> 0, ack |-> 0, sent |-> FALSE,
   retry |-> 0, nonce |-> 0, pairing |-> Unpaired, cause |-> "None", got |-> FALSE]

TypeOK ==
  /\ mux \in [state : {"None", "SendingRequest", "SentRequest", "ReceivedId"},
             nonce : Nonces, chan : Channels \cup {Broadcast}]
  /\ host \in Channel(HostState)
  /\ device \in [Channels -> Channel(DeviceState)]
  /\ outgoing \in Seq(Channels) /\ Len(outgoing) <= QueueLen
  /\ link \in [Peer -> Seq(Packet)]
  /\ requests \in 0..MaxRequests /\ faults \in 0..MaxFaults

Init ==
  /\ mux = [state |-> "None", nonce |-> 0, chan |-> Broadcast]
  /\ host = NoChannel
  /\ device = [c \in Channels |-> NoChannel]
  /\ outgoing = <<>>
  /\ link = [p \in Peer |-> <<>>]
  /\ requests = 0 /\ faults = 0

-------------------------------------------------------------------------------
(***************************************************************************)
(* The Channel shared by both ends.                                        *)
(***************************************************************************)

Sending(ch) == ch.sending \in Message \cup {"ChannelAllocationResponse"}
IsFailed(ch) == ch.sending = "Failed"
CanStart(ch) == ch.sending = "Idle" /\ ch.canSend

(* raw_in_ext.  With piggybacking the sync bits carry the acknowledgement, *)
(* so the pending one is cancelled; the first request announces that the   *)
(* host wants piggybacking by setting its ACK bit.                         *)
RawIn(ch, m, overrideAckBit) ==
  [ch EXCEPT !.sending = m, !.sent = FALSE, !.retry = 0, !.seq = ch.sendBit,
             !.ack = IF ~ch.piggy THEN 0 ELSE IF overrideAckBit THEN 1 ELSE 1 - ch.recvBit,
             !.sendAck = IF ch.piggy THEN NoAck ELSE @]

(* send_state without a message: the bits of the last one are forgotten.   *)
Stop(ch, next) ==
  [ch EXCEPT !.sending = next, !.seq = 0, !.ack = 0, !.sent = FALSE, !.retry = 0]

MutantDelivered(ch) == [Stop(ch, "Idle") EXCEPT !.sendBit = 1 + @, !.canSend = TRUE]
Delivered(ch) == [Stop(ch, "Idle") EXCEPT !.sendBit = 1 - @, !.canSend = TRUE]
BecomeFailed(ch) == Stop(ch, "Failed")

(* packet_out: what is sent next, and the channel afterwards.  Nobody      *)
(* acknowledges the allocation response.                                   *)
PacketOutReady(ch) ==
  \/ ch.sendAck # NoAck
  \/ ch.sending = "DeviceLocked"
  \/ Sending(ch) /\ ~ch.sent

NextPacket(c, ch) ==
  IF ch.sendAck # NoAck
  THEN [type |-> "ack", chan |-> c, seq |-> 0, ack |-> ch.sendAck, val |-> 0]
  ELSE [type |-> ch.sending, chan |-> c,
        seq |-> IF ch.sending = "DeviceLocked" THEN 0 ELSE ch.seq,
        ack |-> IF ch.sending = "DeviceLocked" THEN 0 ELSE ch.ack,
        val |-> IF ch.sending = "ChannelAllocationResponse" THEN ch.nonce ELSE ch.pairing]

AfterPacketOut(ch) ==
  IF ch.sendAck # NoAck THEN [ch EXCEPT !.sendAck = NoAck]
  ELSE CASE ch.sending = "DeviceLocked" -> BecomeFailed(ch)
         [] ch.sending = "ChannelAllocationResponse" -> Stop(ch, "Idle")
         [] OTHER -> [ch EXCEPT !.sent = TRUE, !.canSend = FALSE]

MutantRetransmit(ch) == ch
(* message_retransmit, without the count.                                  *)
Retransmit(ch) == [ch EXCEPT !.sent = FALSE]

(* handle_ack *)
HandleAck(ch, pkt) == IF Sending(ch) /\ pkt.ack = ch.sendBit THEN Delivered(ch) ELSE ch

(* handle_invalid_seq: the acknowledgement is repeated, unless it travels  *)
(* with the message being sent.                                            *)
HandleInvalidSeq(ch, pkt) ==
  IF ch.piggy /\ Sending(ch) THEN ch ELSE [ch EXCEPT !.sendAck = pkt.seq]

MutantAccepts(ch, pkt) == pkt.seq = ch.recvBit
(* Whether handle_packet accepts a message: half-duplex in version 2.0.    *)
Accepts(ch, pkt) == pkt.seq = ch.recvBit /\ (Sending(ch) => ch.piggy)

(* handle_last_packet (the ACK bit may confirm what is being sent), then   *)
(* raw_out.                                                                *)
Accepted(ch, pkt) ==
  LET acked == IF Sending(ch) /\ ch.piggy /\ ~ch.canSend /\ pkt.ack = ch.sendBit
               THEN Delivered(ch) ELSE ch
  IN  [acked EXCEPT !.sendAck = ch.recvBit, !.recvBit = 1 - @]

NotAccepted(ch, pkt) == IF pkt.seq # ch.recvBit THEN HandleInvalidSeq(ch, pkt) ELSE ch

-------------------------------------------------------------------------------
(***************************************************************************)
(* The host.                                                               *)
(***************************************************************************)

Send(p, pkt) ==
  /\ Len(link[p]) < LinkCap
  /\ link' = [link EXCEPT ![p] = Append(@, pkt)]

Receive(p) == link' = [link EXCEPT ![p] = Tail(@)]

(* The application requests a channel: the first one, another one because  *)
(* no id has arrived, or because the handshake failed.                     *)
RequestChannel ==
  /\ requests < MaxRequests
  /\ host.state \in {"None", "Failed"}
  /\ requests' = requests + 1
  /\ mux' = [mux EXCEPT !.state = "SendingRequest"]
  /\ host' = NoChannel
  /\ UNCHANGED <<device, outgoing, link, faults>>

(* Mux::packet_out, with a random nonce: no two are the same.              *)
HostMuxOut ==
  /\ mux.state = "SendingRequest"
  /\ Send("device", [type |-> "ChannelAllocationRequest", chan |-> Broadcast,
                     seq |-> 0, ack |-> 0, val |-> requests])
  /\ mux' = [mux EXCEPT !.state = "SentRequest", !.nonce = requests]
  /\ UNCHANGED <<host, device, outgoing, requests, faults>>

MutantNonceMatches(pkt) == mux.state = "SentRequest"
(* handle_allocation_response *)
NonceMatches(pkt) == mux.state = "SentRequest" /\ pkt.val = mux.nonce

HostMuxIn ==
  /\ link["host"] # <<>>
  /\ Head(link["host"]).type = "ChannelAllocationResponse"
  /\ Receive("host")
  /\ mux' = IF NonceMatches(Head(link["host"]))
            THEN [mux EXCEPT !.state = "ReceivedId", !.chan = Head(link["host"]).chan]
            ELSE mux
  /\ UNCHANGED <<host, device, outgoing, requests, faults>>

(* Mux::channel_alloc; the application calls set_device_protocol_version,  *)
(* or does not know version 2.1.                                           *)
ChannelAlloc ==
  /\ mux.state = "ReceivedId"
  /\ mux' = [mux EXCEPT !.state = "None"]
  /\ \E piggy \in BOOLEAN : host' = [NoChannel EXCEPT !.state = "Initial", !.piggy = piggy]
  /\ UNCHANGED <<device, outgoing, link, requests, faults>>

(* ChannelOpen::packet_out and Channel::packet_out.                        *)
HostPacketOut ==
  LET ch == IF host.state = "Initial"
            THEN [RawIn(host, "InitiationRequest", TRUE)
                    EXCEPT !.state = "SendingInitiationRequest"]
            ELSE host
  IN  /\ PacketOutReady(ch)
      /\ Send("device", NextPacket(mux.chan, ch))
      /\ host' = AfterPacketOut(ch)
      /\ UNCHANGED <<mux, device, outgoing, requests, faults>>

HostRetransmit ==
  /\ Sending(host) /\ host.sent
  /\ host' = Retransmit(host)
  /\ UNCHANGED <<mux, device, outgoing, link, requests, faults>>

MutantHostIncoming(ch, pkt) ==
  CASE pkt.type = "InitiationResponse" /\ CanStart(ch)
         -> [RawIn(ch, "CompletionRequest", FALSE) EXCEPT !.state = "SendingCompletionRequest"]
    [] pkt.type = "CompletionResponse" -> [ch EXCEPT !.state = "Finished"]
    [] OTHER -> [BecomeFailed(ch) EXCEPT !.state = "Failed"]

(* ChannelOpen::incoming_internal on ch, which received pkt.               *)
HostIncoming(ch, pkt) ==
  CASE ch.state = "SendingInitiationRequest" /\ pkt.type = "InitiationResponse" /\ CanStart(ch)
         -> [RawIn(ch, "CompletionRequest", FALSE) EXCEPT !.state = "SendingCompletionRequest"]
    [] ch.state = "SendingCompletionRequest" /\ pkt.type = "CompletionResponse"
         -> [ch EXCEPT !.state = "Finished", !.pairing = pkt.val]
    [] OTHER -> [BecomeFailed(ch) EXCEPT !.state = "Failed"]

(* ChannelOpen::packet_in and Channel::packet_in.  Packets for an          *)
(* abandoned channel are ignored, and so is everything before the first    *)
(* packet was sent.                                                        *)
HostPacketIn ==
  /\ link["host"] # <<>>
  /\ Head(link["host"]).type # "ChannelAllocationResponse"
  /\ Receive("host")
  /\ LET pkt == Head(link["host"]) IN
       host' = CASE \/ host.state \in {"None", "Initial", "Failed"}
                    \/ pkt.chan # mux.chan -> host
                 [] OTHER ->
                      CASE pkt.type = "ack" -> HandleAck(host, pkt)
                        [] pkt.type \in TransportError ->
                             [BecomeFailed(host) EXCEPT !.state = "Failed"]
                        [] pkt.type \in Message ->
                             IF Accepts(host, pkt)
                             THEN HostIncoming(Accepted(host, pkt), pkt)
                             ELSE NotAccepted(host, pkt)
  /\ UNCHANGED <<mux, device, outgoing, requests, faults>>

(* ChannelOpen::complete does not wait for the last ACK to be sent.        *)
HostComplete ==
  /\ host.state = "Finished"
  /\ host' = [host EXCEPT !.state = "Open"]
  /\ UNCHANGED <<mux, device, outgoing, link, requests, faults>>

(* Channel::message_in with the first message.                             *)
HostMessageIn ==
  /\ host.state = "Open" /\ ~host.got
  /\ CanStart(host)
  /\ \E m \in FirstMessages[host.piggy] :
       host' = [RawIn(host, m, FALSE) EXCEPT !.got = TRUE]
  /\ UNCHANGED <<mux, device, outgoing, link, requests, faults>>

-------------------------------------------------------------------------------
(***************************************************************************)
(* The device: Mux and ChannelOpen, called by ThpContext.                  *)
(***************************************************************************)

Allocated(c) == device[c].state \notin {"None", "Closed"}
Opening(c) == Allocated(c) /\ device[c].state # "Open"

(* channel_close, and what the channel was and why it was closed.          *)
Close(ch, cause) ==
  [NoChannel EXCEPT !.state = "Closed", !.nonce = ch.nonce, !.cause = cause]

(* A handshake that failed: unless it was the locked device that ended it. *)
Fail(ch) == Close(ch, IF ch.cause = "Locked" THEN "Locked" ELSE "Failed")

(* lru_needs_closing(channel_opening): channel ids and last_usage both     *)
(* grow with every allocation.  The application's table is never full, as  *)
(* one host opens one channel at a time.                                   *)
NeedsClosing ==
  LET opening == {c \in Channels : Opening(c)}
  IN  {c \in opening : Cardinality(opening) >= MaxOpening /\ \A d \in opening : c <= d}

(* handle_broadcast, then ThpContext::packet_in_alloc: every request opens *)
(* a channel, with the next id that is not in use, in place of the oldest  *)
(* one if the table is full.                                               *)
DeviceAlloc ==
  /\ link["device"] # <<>>
  /\ Head(link["device"]).type = "ChannelAllocationRequest"
  /\ Receive("device")
  /\ \E c \in Channels :
       /\ device[c].state = "None"
       /\ \A d \in Channels : d < c => device[d].state # "None"
       /\ device' = [d \in Channels |->
            CASE d = c ->
                   [RawIn(NoChannel, "ChannelAllocationResponse", FALSE) EXCEPT
                      !.state = "SendingChannelResponse", !.nonce = Head(link["device"]).val]
              [] d # c /\ d \in NeedsClosing -> Close(device[d], "Evicted")
              [] d # c /\ d \notin NeedsClosing -> device[d]]
  /\ UNCHANGED <<mux, host, outgoing, requests, faults>>

(* ThpContext::packet_in for a channel that is in neither table.  A full   *)
(* queue drops the answer.                                                 *)
DeviceUnallocated ==
  /\ link["device"] # <<>>
  /\ LET c == Head(link["device"]).chan IN
       /\ c # Broadcast /\ ~Allocated(c)
       /\ outgoing' = IF Len(outgoing) < QueueLen THEN Append(outgoing, c) ELSE outgoing
  /\ Receive("device")
  /\ UNCHANGED <<mux, host, device, requests, faults>>

DeviceMuxOut ==
  /\ outgoing # <<>>
  /\ Send("host", [type |-> "UnallocatedChannel", chan |-> Head(outgoing),
                   seq |-> 0, ack |-> 0, val |-> 0])
  /\ outgoing' = Tail(outgoing)
  /\ UNCHANGED <<mux, host, device, requests, faults>>

(* enable_ack_piggybacking_if_requested *)
EnablePiggybacking(ch, pkt) == ch.piggy \/ pkt.ack = 1

(* ChannelOpen::incoming_internal on ch, which received pkt; ps is what    *)
(* the credential verifier answers.  Any other message fails the           *)
(* handshake, and ThpContext closes the channel.                           *)
DeviceIncoming(ch, pkt, ps) ==
  CASE ch.state = "SendingChannelResponse" /\ pkt.type = "InitiationRequest"
         -> [ch EXCEPT !.state = "StaticKeyRequired", !.piggy = EnablePiggybacking(ch, pkt)]
    [] ch.state = "SendingInitiationResponse" /\ pkt.type = "CompletionRequest" /\ CanStart(ch)
         -> [RawIn(ch, "CompletionResponse", FALSE) EXCEPT
               !.state = "SendingCompletionResponse", !.pairing = ps]
    [] OTHER -> Fail(ch)

MutantHandshakeDone(ch) == ch.state = "SendingCompletionResponse"
(* Done only after peer acknowledges completion response.                  *)
HandshakeDone(ch) == ch.state = "SendingCompletionResponse" /\ ch.sending = "Idle"

(* ThpContext moves the channel to the application's table.                *)
CompleteIfDone(ch) == IF HandshakeDone(ch) THEN [ch EXCEPT !.state = "Open"] ELSE ch

(* ChannelOpen::packet_in.  A message longer than the handshake's buffer   *)
(* is ignored.                                                             *)
DeviceHandshakeIn(ch, pkt, ps) ==
  CASE IsFailed(ch) -> Fail(ch)
    [] ~IsFailed(ch) /\ pkt.type = "ack" -> HandleAck(ch, pkt)
    [] ~IsFailed(ch) /\ pkt.type \in Message ->
         IF ~Accepts(ch, pkt) THEN NotAccepted(ch, pkt)
         ELSE IF pkt.type = "long" THEN ch
         ELSE DeviceIncoming(Accepted(ch, pkt), pkt, ps)

(* Channel::packet_in, and message_out when it completes a message.        *)
DeviceChannelIn(ch, pkt) ==
  CASE pkt.type = "ack" -> HandleAck(ch, pkt)
    [] pkt.type \in Message ->
         IF Accepts(ch, pkt) THEN [Accepted(ch, pkt) EXCEPT !.got = TRUE]
         ELSE NotAccepted(ch, pkt)

DevicePacketIn ==
  /\ link["device"] # <<>>
  /\ LET pkt == Head(link["device"]) IN
       /\ pkt.chan # Broadcast /\ Allocated(pkt.chan)
       /\ \E ps \in Pairing :
            device' = [device EXCEPT ![pkt.chan] =
              IF Opening(pkt.chan) THEN CompleteIfDone(DeviceHandshakeIn(@, pkt, ps))
              ELSE DeviceChannelIn(@, pkt)]
  /\ Receive("device")
  /\ UNCHANGED <<mux, host, outgoing, requests, faults>>

(* ThpContext::packet_out: broadcast messages first; a failed handshake is *)
(* closed when its last packet was sent.                                   *)
DevicePacketOut(c) ==
  /\ Allocated(c) /\ PacketOutReady(device[c])
  /\ outgoing = <<>>
  /\ Send("host", NextPacket(c, device[c]))
  /\ device' = [device EXCEPT ![c] =
       IF IsFailed(AfterPacketOut(@)) THEN Fail(@) ELSE AfterPacketOut(@)]
  /\ UNCHANGED <<mux, host, outgoing, requests, faults>>

(* ThpContext::message_retransmit.  The attempt counts even if the last    *)
(* one is not on its way yet, and one too many closes the channel.         *)
DeviceRetransmit(c) ==
  /\ Sending(device[c])
  /\ LET n == device[c].retry + 1 IN
       device' = [device EXCEPT ![c] =
         IF n > MaxRetry THEN Close(@, "Exhausted") ELSE [Retransmit(@) EXCEPT !.retry = n]]
  /\ UNCHANGED <<mux, host, outgoing, link, requests, faults>>

(* handshake_static_key serves every handshake that waits for the key.     *)
SetStaticKey(ch) ==
  IF CanStart(ch)
  THEN [RawIn(ch, "InitiationResponse", FALSE) EXCEPT !.state = "SendingInitiationResponse"]
  ELSE Fail(ch)

KeyRequired == {c \in Channels : device[c].state = "StaticKeyRequired"}

HandshakeStaticKey ==
  /\ KeyRequired # {}
  /\ device' = [c \in Channels |->
       IF c \in KeyRequired THEN SetStaticKey(device[c]) ELSE device[c]]
  /\ UNCHANGED <<mux, host, outgoing, link, requests, faults>>

(* send_device_locked: the user did not unlock the device.                 *)
SendDeviceLocked ==
  /\ KeyRequired # {}
  /\ device' = [c \in Channels |->
       IF c \in KeyRequired
       THEN [device[c] EXCEPT !.state = "SendingDeviceLocked", !.sending = "DeviceLocked",
                              !.cause = "Locked"]
       ELSE device[c]]
  /\ UNCHANGED <<mux, host, outgoing, link, requests, faults>>

-------------------------------------------------------------------------------
(***************************************************************************)
(* The data transfer layer loses and repeats packets.                      *)
(***************************************************************************)

Lose(p) ==
  /\ faults < MaxFaults /\ link[p] # <<>>
  /\ Receive(p)
  /\ faults' = faults + 1
  /\ UNCHANGED <<mux, host, device, outgoing, requests>>

Duplicate(p) ==
  /\ faults < MaxFaults /\ link[p] # <<>>
  /\ link' = [link EXCEPT ![p] = <<Head(@)>> \o @]
  /\ faults' = faults + 1
  /\ UNCHANGED <<mux, host, device, outgoing, requests>>

HostNext ==
  \/ HostMuxOut \/ HostMuxIn \/ ChannelAlloc
  \/ HostPacketOut \/ HostRetransmit \/ HostPacketIn \/ HostComplete \/ HostMessageIn

DeviceIn == DeviceAlloc \/ DeviceUnallocated \/ DevicePacketIn
AnswerKeyRequest == HandshakeStaticKey \/ SendDeviceLocked

Next ==
  \/ RequestChannel \/ HostNext
  \/ DeviceIn \/ DeviceMuxOut \/ AnswerKeyRequest
  \/ \E c \in Channels : DevicePacketOut(c) \/ DeviceRetransmit(c)
  \/ \E p \in Peer : Lose(p) \/ Duplicate(p)

Spec == Init /\ [][Next]_vars

(* Both event loops read and write packets, timers fire, the host's        *)
(* application continues an opened channel, and the request for the static *)
(* key is answered.  A channel is written to although others are ready:    *)
(* every one of them has finitely many packets until a timer fires.        *)
Fairness ==
  /\ WF_vars(HostMuxOut) /\ WF_vars(HostMuxIn \/ HostPacketIn) /\ WF_vars(ChannelAlloc)
  /\ WF_vars(HostPacketOut) /\ WF_vars(HostRetransmit) /\ WF_vars(HostComplete)
  /\ WF_vars(DeviceIn) /\ WF_vars(DeviceMuxOut) /\ WF_vars(AnswerKeyRequest)
  /\ \A c \in Channels : SF_vars(DevicePacketOut(c)) /\ WF_vars(DeviceRetransmit(c))

FairSpec == Spec /\ Fairness

-------------------------------------------------------------------------------
(***************************************************************************)
(* Properties.                                                             *)
(***************************************************************************)

(* The device's end of the channel the host opens.                         *)
OtherEnd == IF mux.chan = Broadcast THEN NoChannel ELSE device[mux.chan]
HostDone == host.state \in {"Finished", "Open"}

(* The device closed the channel although nothing is wrong with it.        *)
GaveUp(ch) == ch.cause \in {"Evicted", "Exhausted"}

(* When the host's handshake_done is true, the device is at the other end  *)
(* of the same channel, past the completion request, and both agree on the *)
(* pairing state and on ACK piggybacking (incoming_internal of both ends), *)
(* unless the device has given the channel up.                             *)
EndsAgree ==
  HostDone /\ ~GaveUp(OtherEnd) =>
    /\ OtherEnd.state \in {"SendingCompletionResponse", "Open"}
    /\ OtherEnd.pairing = host.pairing
    /\ OtherEnd.piggy = host.piggy

(* "Done only after peer acknowledges completion response" (device.rs:411) *)
(* so a channel the device hands to the application is one the host opened *)
(* as well.                                                                *)
DoneAfterHost == \A c \in Channels : device[c].state = "Open" => HostDone /\ mux.chan = c

(* The channel the host opens was allocated in answer to its last request  *)
(* and not to one it had abandoned (handle_allocation_response).           *)
AnswersLastRequest ==
  mux.state = "ReceivedId" => OtherEnd.nonce = mux.nonce

(* Lost, repeated and late packets never make a handshake fail             *)
(* (PacketInResult::Failed in packet_in_handshake): whenever the device    *)
(* closes a channel it was not unlocked, newer channels needed the place   *)
(* or its retransmissions were not acknowledged.                           *)
HandshakeNeverFails ==
  \A c \in Channels : device[c].state = "Closed" => device[c].cause # "Failed"

(* A host that started the handshake finishes it, unless the device closes *)
(* the channel for one of those reasons.  A locked device has acknowledged *)
(* the request, and if its error is lost the host waits for a response     *)
(* (send_device_locked).                                                   *)
HandshakeEnds ==
  host.state = "SendingInitiationRequest" ~>
    HostDone \/ OtherEnd.cause \in {"Locked", "Evicted", "Exhausted"}

(* The first application message arrives, unless the device has given the  *)
(* channel up: "The protocol guarantees the eventual and non-duplicative   *)
(* delivery of messages" (specification.md:327).                           *)
FirstMessageDelivered == host.got ~> OtherEnd.got \/ GaveUp(OtherEnd)
===============================================================================
