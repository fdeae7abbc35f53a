-------------------------- MODULE ThpHandshakeProofs --------------------------
(***************************************************************************)
(* The handshake, for any number of requests, lost and repeated packets,   *)
(* pairing states and queue lengths: both ends agree on a channel the host *)
(* has opened, the device hands over no other channel, the host opens one  *)
(* that answers its last request, and, with first messages that do not     *)
(* overtake the handshake, none fails: the device closes a channel only    *)
(* because it stays locked, needs the place or hears nothing of the host.  *)
(*                                                                         *)
(* A channel is unused, or closed, or the one the host is opening; the     *)
(* inductive invariant says of the last how far both ends are, which       *)
(* packets may be under way, and that requests and responses are not       *)
(* overtaken.                                                              *)
(***************************************************************************)
EXTENDS ThpHandshake, Functions, TLAPS

(* Most leaves are first-order; the others cite SMT.                       *)
USE Zenon

-------------------------------------------------------------------------------
(***************************************************************************)
(* Sequences, as the provers need them.                                    *)
(***************************************************************************)

(* A sequence is a function on its positions.                              *)
LEMMA SeqType ==
  ASSUME NEW S, NEW s \in Seq(S)
  PROVE  Len(s) \in Nat /\ DOMAIN s = 1..Len(s) /\ s \in [1..Len(s) -> S]
BY SMT

(* Its elements.                                                           *)
LEMMA SeqRange ==
  ASSUME NEW S, NEW s \in Seq(S)
  PROVE  Range(s) \subseteq S
BY SeqType, SMT DEF Range

(* The empty sequence, the only one of length 0.                           *)
LEMMA SeqEmpty ==
  ASSUME NEW S
  PROVE  <<>> \in Seq(S) /\ Len(<<>>) = 0 /\ \A s \in Seq(S) : s # <<>> => Len(s) \in Nat \ {0}
BY SMT

(* One element more at the end.                                            *)
LEMMA SeqAppend ==
  ASSUME NEW S, NEW s \in Seq(S), NEW x \in S
  PROVE  /\ Append(s, x) \in Seq(S) /\ Append(s, x) # <<>> /\ Len(Append(s, x)) = Len(s) + 1
         /\ \A n \in 1..Len(s) : Append(s, x)[n] = s[n]
         /\ Append(s, x)[Len(s) + 1] = x
BY SMT

(* One sequence after another.                                             *)
LEMMA SeqConcat ==
  ASSUME NEW S, NEW s \in Seq(S), NEW t \in Seq(S)
  PROVE  /\ s \o t \in Seq(S) /\ Len(s \o t) = Len(s) + Len(t)
         /\ \A n \in 1..Len(s) + Len(t) : (s \o t)[n] = IF n <= Len(s) THEN s[n] ELSE t[n - Len(s)]
BY SMT

(* The first element and the others.                                       *)
LEMMA SeqTail ==
  ASSUME NEW S, NEW s \in Seq(S), s # <<>>
  PROVE  /\ Head(s) \in S /\ Tail(s) \in Seq(S) /\ Len(Tail(s)) = Len(s) - 1
         /\ \A n \in 1..Len(Tail(s)) : Tail(s)[n] = s[n + 1]
BY SMT

-------------------------------------------------------------------------------
(* The packets on their way to p.                                          *)
Under(p) == Range(link[p])

(* No packet of type b comes before one of type a in s.                    *)
Ordered(s, c, a, b) ==
  \A i, j \in DOMAIN s :
    s[i].chan = c /\ s[i].type = a /\ s[j].chan = c /\ s[j].type = b => i < j

(* What each direction carries.                                            *)
ToDevice == {"ack", "InitiationRequest", "CompletionRequest"} \cup AppMessage
ToHost == {"ack", "ChannelAllocationResponse", "InitiationResponse", "CompletionResponse"}
Routed ==
  /\ \A pkt \in Under("device") :
       IF pkt.chan = Broadcast THEN pkt.type = "ChannelAllocationRequest"
       ELSE pkt.type \in ToDevice
  /\ \A pkt \in Under("host") : pkt.chan # Broadcast /\ pkt.type \in ToHost \cup TransportError

-------------------------------------------------------------------------------
(* A channel that only the device knows, which has at most been offered.   *)
New(ch) ==
  /\ ch.canSend /\ ch.sendBit = 0 /\ ch.recvBit = 0 /\ ch.sendAck = NoAck /\ ~ch.piggy
  /\ \/ ch.state = "None" /\ ch.sending = "Idle"
     \/ ch.state = "SendingChannelResponse" /\ ch.sending \in {"Idle", "ChannelAllocationResponse"}

Offered(ch) == New(ch) /\ ch.state = "SendingChannelResponse" /\ ch.sending = "Idle"

Unused(c) ==
  /\ New(device[c])
  /\ \A pkt \in Under("device") : pkt.chan # c
  /\ \A pkt \in Under("host") : pkt.chan = c =>
       /\ pkt.type = "ChannelAllocationResponse" /\ pkt.val = device[c].nonce
       /\ Offered(device[c])

(* No short message of a host with piggybacking overtakes the end of the   *)
(* handshake.                                                              *)
Polite == "short" \notin FirstMessages[TRUE]

(* A channel the device closed.                                            *)
Over(ch) == ch.state = "Closed" /\ ch.sending = "Idle" /\ (Polite => ch.cause # "Failed")

(* A channel that was closed before the host used it.                      *)
Withdrawn(c) ==
  /\ Over(device[c]) /\ c \notin Range(outgoing)
  /\ \A pkt \in Under("device") : pkt.chan # c
  /\ \A pkt \in Under("host") : pkt.chan = c =>
       pkt.type = "ChannelAllocationResponse" /\ pkt.val = device[c].nonce

Fresh(c) == Unused(c) \/ Withdrawn(c)

(* Transport errors are about closed channels, and fail those.             *)
Errors ==
  /\ host.state = "Failed" => mux.chan # Broadcast /\ Over(device[mux.chan])
  /\ \A c \in Range(outgoing) : Over(device[c])
  /\ \A pkt \in Under("host") : pkt.type \in TransportError => Over(device[pkt.chan])

(* The nonce an allocation response must have, and the ones before it.     *)
Awaiting == mux.state \in {"SendingRequest", "SentRequest"}
Awaited == IF mux.state = "SendingRequest" THEN requests ELSE mux.nonce
Allocation ==
  /\ \A pkt \in Under("device") : pkt.chan = Broadcast => pkt.val <= requests
  /\ \A c \in Channels : device[c].nonce <= requests
  /\ \A pkt \in Under("host") : pkt.type = "ChannelAllocationResponse" =>
       /\ pkt.val <= requests
       /\ Awaiting /\ pkt.val = Awaited => Fresh(pkt.chan)
  /\ mux.state # "None" => host.state = "None"
  /\ mux.state = "ReceivedId" \/ host.state = "Initial" =>
       /\ mux.chan # Broadcast /\ Fresh(mux.chan)
       /\ Offered(device[mux.chan]) \/ Over(device[mux.chan])
  /\ AnswersLastRequest

-------------------------------------------------------------------------------
Started == {"SendingInitiationRequest", "SendingCompletionRequest", "Finished", "Open"}

(* The ACK bit of the first request asks for piggybacking; those of the    *)
(* messages after the completion request confirm it.                       *)
Bit1If(piggy) == IF piggy THEN 1 ELSE 0

HostEnd(h) ==
  /\ h.state \in {"None", "Initial"} =>
       h.sendBit = 0 /\ h.recvBit = 0 /\ h.sendAck = NoAck /\ h.sending = "Idle"
  /\ h.state = "Failed" => h.sending = "Failed"
  /\ h.state = "SendingInitiationRequest" =>
       /\ h.recvBit = 0 /\ h.sendAck = NoAck
       /\ \/ h.sending = "InitiationRequest" /\ h.sendBit = 0 /\ h.seq = 0
             /\ h.ack = Bit1If(h.piggy) /\ ~h.canSend
          \/ h.sending = "Idle" /\ h.sendBit = 1 /\ h.canSend
  /\ h.state = "SendingCompletionRequest" =>
       /\ h.recvBit = 1 /\ h.sendAck \in {NoAck, 0}
       /\ \/ h.sending = "CompletionRequest" /\ h.sendBit = 1 /\ h.seq = 1 /\ h.ack = 0
          \/ h.sending = "Idle"
  /\ h.state \in {"Finished", "Open"} =>
       /\ h.recvBit = 0 /\ h.sending \in AppMessage \cup {"Idle"}
       /\ Polite /\ h.piggy => h.sending # "short"

(* The host has sent its completion request.                               *)
Requested(h) == h.sending = "CompletionRequest" => ~h.canSend
(* The device has sent its initiation response.                            *)
Answered(d) == d.sending = "InitiationResponse" => ~d.canSend

(* How far the device is with a host h.                                    *)
DeviceEnd(d, h) ==
  /\ d.state = "SendingChannelResponse" => Offered(d)
  /\ d.state \in {"StaticKeyRequired", "SendingInitiationResponse", "SendingCompletionResponse",
                  "Open"} => d.piggy = h.piggy
  /\ d.state \in {"StaticKeyRequired", "SendingDeviceLocked", "SendingInitiationResponse"} =>
       d.recvBit = 1
  /\ d.state = "StaticKeyRequired" => d.sending = "Idle" /\ d.canSend /\ d.sendBit = 0
  /\ d.state = "SendingDeviceLocked" => d.sending = "DeviceLocked" /\ d.cause = "Locked"
  /\ d.state = "SendingInitiationResponse" =>
       \/ d.sending = "InitiationResponse" /\ d.sendBit = 0 /\ d.seq = 0 /\ d.ack = 0
       \/ d.sending = "Idle" /\ d.sendBit = 1 /\ d.canSend
  /\ d.state = "SendingCompletionResponse" =>
       /\ d.recvBit = 0 /\ d.sending = "CompletionResponse" /\ d.sendBit = 1 /\ d.seq = 1
       /\ d.ack = Bit1If(h.piggy)
       /\ Requested(h)
  /\ d.state = "Open" => d.sending = "Idle"
  /\ d.state = "Closed" => Over(d)

Together(d, h) ==
  /\ h.state = "SendingInitiationRequest" =>
       d.state \in {"SendingChannelResponse", "StaticKeyRequired", "SendingDeviceLocked",
                    "SendingInitiationResponse", "Closed"}
  /\ h.state = "SendingCompletionRequest" =>
       \/ d.state = "SendingInitiationResponse" /\ Answered(d)
       \/ d.state = "SendingCompletionResponse"
       \/ d.state = "Closed" /\ GaveUp(d)
  /\ h.state \in {"Finished", "Open"} =>
       \/ d.state \in {"SendingCompletionResponse", "Open"} /\ d.pairing = h.pairing
       \/ d.state = "Closed" /\ (Polite => GaveUp(d))

(* What a packet for the device, or for the host, tells of both ends.      *)
FromHost(pkt, d, h) ==
  /\ pkt.type = "InitiationRequest" =>
       /\ pkt.seq = 0 /\ pkt.ack = Bit1If(h.piggy)
       /\ d.state \notin {"SendingCompletionResponse", "Open"}
  /\ pkt.type = "CompletionRequest" =>
       /\ pkt.seq = 1 /\ pkt.ack = 0
       /\ h.state # "SendingInitiationRequest" /\ Requested(h)
  /\ pkt.type = "ack" =>
       /\ h.state # "SendingInitiationRequest"
       /\ pkt.ack = 1 => h.state \in {"Finished", "Open"}
  /\ pkt.type \in AppMessage =>
       h.state \in {"Finished", "Open"} /\ (Polite /\ h.piggy => pkt.type = "long")

FromDevice(pkt, d, h) ==
  /\ pkt.type = "InitiationResponse" =>
       /\ pkt.seq = 0 /\ pkt.ack = 0
       /\ h.state \notin {"Finished", "Open"}
       /\ \/ d.state = "SendingInitiationResponse" /\ Answered(d)
          \/ d.state = "SendingCompletionResponse"
          \/ d.state = "Closed" /\ GaveUp(d)
  /\ pkt.type = "CompletionResponse" =>
       /\ pkt.seq = 1 /\ pkt.ack = Bit1If(h.piggy) /\ pkt.val \in Pairing \cup {Unpaired}
       /\ \/ d.state \in {"SendingCompletionResponse", "Open"} /\ pkt.val = d.pairing
          \/ /\ d.state = "Closed"
             /\ \/ h.state \in {"Finished", "Open"}
                \/ h.state = "SendingCompletionRequest" /\ Requested(h)

(* The channel the host is opening.                                        *)
Talking ==
  host.state \in Started =>
    LET c == mux.chan
        d == device[c]
    IN  /\ c # Broadcast
        /\ DeviceEnd(d, host) /\ Together(d, host)
        /\ \A pkt \in Under("device") : pkt.chan = c => FromHost(pkt, d, host)
        /\ \A pkt \in Under("host") : pkt.chan = c => FromDevice(pkt, d, host)
        /\ Ordered(link["device"], c, "InitiationRequest", "CompletionRequest")
        /\ Ordered(link["host"], c, "InitiationResponse", "CompletionResponse")

Others ==
  \A c \in Channels : (c = mux.chan /\ host.state \in Started) \/ Unused(c) \/ Over(device[c])

Inv ==
  /\ TypeOK /\ Routed /\ Errors /\ Allocation
  /\ Others /\ HostEnd(host) /\ Talking

-------------------------------------------------------------------------------
(***************************************************************************)
(* Links.                                                                  *)
(***************************************************************************)

(* A packet is added.                                                      *)
LEMMA AppendLink ==
  ASSUME NEW s \in Seq(Packet), NEW pkt \in Packet
  PROVE  /\ Append(s, pkt) \in Seq(Packet)
         /\ Range(Append(s, pkt)) = Range(s) \cup {pkt}
         /\ \A c, a, b : /\ Ordered(s, c, a, b) /\ a # b
                         /\ pkt.chan = c /\ pkt.type = a =>
                              \A q \in Range(s) : ~(q.chan = c /\ q.type = b)
                         => Ordered(Append(s, pkt), c, a, b)
<1> DEFINE t == Append(s, pkt)
<1>1. /\ t \in Seq(Packet) /\ Len(t) = Len(s) + 1 /\ t[Len(s) + 1] = pkt
      /\ \A i \in 1..Len(s) : t[i] = s[i]
  BY SeqAppend, SMTT(30)
<1>2. /\ Len(s) \in Nat /\ DOMAIN s = 1..Len(s) /\ DOMAIN t = 1..(Len(s) + 1)
  BY <1>1, SeqType
<1> HIDE DEF t
<1>3. \A i \in DOMAIN t : i = Len(s) + 1 \/ i \in DOMAIN s
  BY <1>2, SMTT(30)
<1>4. Range(t) = Range(s) \cup {pkt}
  <2>1. Range(t) \subseteq Range(s) \cup {pkt}
    BY <1>1, <1>2, <1>3 DEF Range
  <2>2. Range(s) \cup {pkt} \subseteq Range(t)
    BY <1>1, <1>2, SMTT(30) DEF Range
  <2> QED
    BY <2>1, <2>2
<1>5. ASSUME NEW c, NEW a, NEW b, Ordered(s, c, a, b), a # b,
             pkt.chan = c /\ pkt.type = a => \A q \in Range(s) : ~(q.chan = c /\ q.type = b)
      PROVE  Ordered(t, c, a, b)
  <2> SUFFICES ASSUME NEW i \in DOMAIN t, NEW j \in DOMAIN t,
                      t[i].chan = c, t[i].type = a, t[j].chan = c, t[j].type = b
               PROVE  i < j
    BY DEF Ordered
  <2>1. CASE i \in DOMAIN s /\ j \in DOMAIN s
    BY <1>1, <1>2, <1>5, <2>1 DEF Ordered
  <2>2. CASE i \in DOMAIN s /\ j = Len(s) + 1
    BY <1>2, <2>2, SMTT(30)
  <2>3. CASE i = Len(s) + 1
    <3>1. j \in DOMAIN s
      BY <1>1, <1>3, <1>5, <2>3
    <3> QED
      BY <1>1, <1>2, <1>5, <2>3, <3>1 DEF Range
  <2> QED
    BY <1>3, <2>1, <2>2, <2>3
<1> QED
  BY <1>1, <1>4, <1>5 DEF t

(* The first packet is taken.                                              *)
LEMMA TailLink ==
  ASSUME NEW s \in Seq(Packet), s # <<>>
  PROVE  /\ Tail(s) \in Seq(Packet) /\ Head(s) \in Packet
         /\ Range(s) = {Head(s)} \cup Range(Tail(s))
         /\ \A c, a, b : Ordered(s, c, a, b) =>
              /\ Ordered(Tail(s), c, a, b)
              /\ Head(s).chan = c /\ Head(s).type = b =>
                   \A q \in Range(s) : ~(q.chan = c /\ q.type = a)
<1> DEFINE t == Tail(s)
<1>1. /\ t \in Seq(Packet) /\ Len(t) = Len(s) - 1 /\ Head(s) \in Packet
      /\ \A i \in 1..Len(t) : t[i] = s[i + 1]
  BY SeqTail
<1>2. /\ Len(s) \in Nat \ {0} /\ DOMAIN s = 1..Len(s) /\ DOMAIN t = 1..(Len(s) - 1)
  BY <1>1, SeqType, SeqEmpty
<1>3. Head(s) = s[1]
  BY SMTT(30)
<1> HIDE DEF t
<1>4. Range(s) = {Head(s)} \cup Range(t)
  <2>1. ASSUME NEW i \in DOMAIN s
        PROVE  i = 1 \/ (i - 1 \in DOMAIN t /\ t[i - 1] = s[i])
    BY <1>1, <1>2, SMTT(30)
  <2>2. Range(s) \subseteq {Head(s)} \cup Range(t)
    BY <1>3, <2>1, ZenonT(30) DEF Range
  <2>3. Range(t) \subseteq Range(s)
    BY <1>1, <1>2, SMTT(30) DEF Range
  <2>4. Head(s) \in Range(s)
    BY <1>2, <1>3, SMTT(30) DEF Range
  <2> QED
    BY <2>2, <2>3, <2>4
<1>5. ASSUME NEW c, NEW a, NEW b, Ordered(s, c, a, b)
      PROVE  /\ Ordered(t, c, a, b)
             /\ Head(s).chan = c /\ Head(s).type = b =>
                  \A q \in Range(s) : ~(q.chan = c /\ q.type = a)
  <2>1. Ordered(t, c, a, b)
    <3> SUFFICES ASSUME NEW i \in DOMAIN t, NEW j \in DOMAIN t,
                        t[i].chan = c, t[i].type = a, t[j].chan = c, t[j].type = b
                 PROVE  i < j
      BY DEF Ordered
    <3>1. i + 1 \in DOMAIN s /\ j + 1 \in DOMAIN s /\ t[i] = s[i + 1] /\ t[j] = s[j + 1]
      BY <1>1, <1>2, SMTT(30)
    <3> QED
      BY <1>2, <1>5, <3>1, SMTT(30) DEF Ordered
  <2>2. ASSUME Head(s).chan = c, Head(s).type = b, NEW i \in DOMAIN s
        PROVE  ~(s[i].chan = c /\ s[i].type = a)
    BY <1>2, <1>3, <1>5, <2>2, SMTT(30) DEF Ordered
  <2> QED
    BY <2>1, <2>2 DEF Range
<1> QED
  BY <1>1, <1>4, <1>5 DEF t

(* The first packet is repeated.                                           *)
LEMMA RepeatLink ==
  ASSUME NEW s \in Seq(Packet), s # <<>>
  PROVE  /\ <<Head(s)>> \o s \in Seq(Packet)
         /\ Range(<<Head(s)>> \o s) = Range(s)
         /\ \A c, a, b : Ordered(s, c, a, b) => Ordered(<<Head(s)>> \o s, c, a, b)
<1> DEFINE t == <<Head(s)>> \o s
<1>1. Head(s) \in Packet /\ Head(s) = s[1]
  BY SeqTail, SMTT(30)
<1>2. <<Head(s)>> \in Seq(Packet) /\ Len(<<Head(s)>>) = 1 /\ <<Head(s)>>[1] = Head(s)
  BY <1>1, SMTT(30)
<1>3. /\ t \in Seq(Packet) /\ Len(t) = Len(s) + 1
      /\ \A i \in 1..(1 + Len(s)) : t[i] = IF i <= 1 THEN <<Head(s)>>[i] ELSE s[i - 1]
  BY <1>2, SeqConcat, SeqType, SMTT(30)
<1>4. /\ Len(s) \in Nat \ {0} /\ DOMAIN s = 1..Len(s) /\ DOMAIN t = 1..(Len(s) + 1)
  BY <1>3, SeqType, SeqEmpty
<1> HIDE DEF t
<1>5. \A i \in DOMAIN t : \/ i = 1 /\ t[i] = s[1]
                          \/ i - 1 \in DOMAIN s /\ t[i] = s[i - 1]
  BY <1>1, <1>2, <1>3, <1>4, SMTT(30)
<1>6. Range(t) = Range(s)
  <2>1. Range(t) \subseteq Range(s)
    BY <1>4, <1>5, SMTT(30) DEF Range
  <2>2. ASSUME NEW i \in DOMAIN s
        PROVE  i + 1 \in DOMAIN t /\ t[i + 1] = s[i]
    BY <1>3, <1>4, SMTT(30)
  <2> QED
    BY <2>1, <2>2 DEF Range
<1>7. ASSUME NEW c, NEW a, NEW b, Ordered(s, c, a, b)
      PROVE  Ordered(t, c, a, b)
  <2> SUFFICES ASSUME NEW i \in DOMAIN t, NEW j \in DOMAIN t,
                      t[i].chan = c, t[i].type = a, t[j].chan = c, t[j].type = b
               PROVE  i < j
    BY DEF Ordered
  <2>1. PICK k \in DOMAIN s : t[i] = s[k] /\ (k = i - 1 \/ (i = 1 /\ k = 1))
    BY <1>4, <1>5, SMTT(30)
  <2>2. PICK m \in DOMAIN s : t[j] = s[m] /\ (m = j - 1 \/ (j = 1 /\ m = 1))
    BY <1>4, <1>5, SMTT(30)
  <2>3. k < m
    BY <1>7, <2>1, <2>2 DEF Ordered
  <2> QED
    BY <1>4, <2>1, <2>2, <2>3, SMTT(30)
<1> QED
  BY <1>3, <1>6, <1>7 DEF t

-------------------------------------------------------------------------------
(***************************************************************************)
(* The Channel both ends are built on.                                     *)
(***************************************************************************)

(* No message has been retransmitted yet.                                  *)
LEMMA NoRetry == 0 \in 0..MaxRetry /\ MaxRetry \in Nat
BY HandshakeAssumption, SMTT(30)

(* raw_in_ext, with the ACK bit of the first message or of a later one.    *)
Raw(ch, m, ack) ==
  [ch EXCEPT !.sending = m, !.sent = FALSE, !.retry = 0, !.seq = ch.sendBit, !.ack = ack,
             !.sendAck = IF ch.piggy THEN NoAck ELSE @]

(* The ACK bit of the first message asks for piggybacking.                 *)
LEMMA RawInFacts ==
  ASSUME NEW ch, NEW m
  PROVE  /\ RawIn(ch, m, TRUE) = Raw(ch, m, Bit1If(ch.piggy))
         /\ RawIn(ch, m, FALSE) = Raw(ch, m, IF ch.piggy THEN 1 - ch.recvBit ELSE 0)
<1>1. ASSUME NEW a, NEW b, a = b
      PROVE  [ch EXCEPT !.sending = m, !.sent = FALSE, !.retry = 0, !.seq = ch.sendBit,
                        !.ack = a, !.sendAck = IF ch.piggy THEN NoAck ELSE @] = Raw(ch, m, b)
  BY <1>1 DEF Raw
<1>2. /\ (IF ~ch.piggy THEN 0 ELSE IF TRUE THEN 1 ELSE 1 - ch.recvBit) = Bit1If(ch.piggy)
      /\ (IF ~ch.piggy THEN 0 ELSE IF FALSE THEN 1 ELSE 1 - ch.recvBit)
           = (IF ch.piggy THEN 1 - ch.recvBit ELSE 0)
  BY DEF Bit1If
<1> QED
  BY <1>1, <1>2 DEF RawIn

(* raw_in_ext queues a message and changes nothing else but the ACK.       *)
LEMMA RawFacts ==
  ASSUME NEW S, NEW ch \in Channel(S), NEW m \in Message \cup {"ChannelAllocationResponse"},
         NEW ack \in Bit
  PROVE  LET r == Raw(ch, m, ack)
         IN  /\ r \in Channel(S)
             /\ r.state = ch.state /\ r.piggy = ch.piggy /\ r.canSend = ch.canSend
             /\ r.sendBit = ch.sendBit /\ r.recvBit = ch.recvBit
             /\ r.sendAck = (IF ch.piggy THEN NoAck ELSE ch.sendAck)
             /\ r.sending = m /\ r.seq = ch.sendBit /\ ~r.sent /\ r.ack = ack
             /\ r.nonce = ch.nonce /\ r.pairing = ch.pairing /\ r.cause = ch.cause
             /\ r.got = ch.got
<1> DEFINE sendAck == IF ch.piggy THEN NoAck ELSE ch.sendAck
<1>1. sendAck \in Bit \cup {NoAck}
  BY DEF Channel
<1>2. Raw(ch, m, ack) = [ch EXCEPT !.sending = m, !.sent = FALSE, !.retry = 0,
                                  !.seq = ch.sendBit, !.ack = ack, !.sendAck = sendAck]
  BY DEF Raw, Channel
<1> HIDE DEF sendAck
<1>3. Raw(ch, m, ack) \in Channel(S)
  BY <1>1, <1>2, NoRetry, ZenonT(30) DEF Channel
<1> QED
  BY <1>2, <1>3 DEF Channel, sendAck

(* What is being sent is dropped, or was delivered.                        *)
LEMMA StopFacts ==
  ASSUME NEW S, NEW ch \in Channel(S), NEW next \in {"Idle", "Failed"}
  PROVE  LET r == Stop(ch, next)
         IN  /\ r \in Channel(S)
             /\ r.state = ch.state /\ r.piggy = ch.piggy /\ r.canSend = ch.canSend
             /\ r.sendBit = ch.sendBit /\ r.recvBit = ch.recvBit /\ r.sendAck = ch.sendAck
             /\ r.sending = next /\ r.nonce = ch.nonce /\ r.pairing = ch.pairing
             /\ r.cause = ch.cause /\ r.got = ch.got
BY NoRetry, ZenonT(30) DEF Stop, Channel, Bit

(* A delivered message: the sequence bit flips and the next may start.     *)
LEMMA DeliveredFacts ==
  ASSUME NEW S, NEW ch \in Channel(S)
  PROVE  LET r == Delivered(ch)
         IN  /\ r \in Channel(S)
             /\ r.state = ch.state /\ r.piggy = ch.piggy /\ r.canSend
             /\ r.sendBit = 1 - ch.sendBit /\ r.recvBit = ch.recvBit /\ r.sendAck = ch.sendAck
             /\ r.sending = "Idle" /\ r.nonce = ch.nonce /\ r.pairing = ch.pairing
             /\ r.cause = ch.cause /\ r.got = ch.got
<1> DEFINE s == Stop(ch, "Idle")
<1>1. /\ s \in Channel(S) /\ s.sendBit = ch.sendBit
      /\ s.state = ch.state /\ s.piggy = ch.piggy /\ s.recvBit = ch.recvBit
      /\ s.sendAck = ch.sendAck /\ s.sending = "Idle" /\ s.nonce = ch.nonce
      /\ s.pairing = ch.pairing /\ s.cause = ch.cause /\ s.got = ch.got
  BY StopFacts, ZenonT(30)
<1>2. Delivered(ch) = [s EXCEPT !.sendBit = 1 - ch.sendBit, !.canSend = TRUE]
  BY <1>1 DEF Delivered, Channel
<1>3. 1 - ch.sendBit \in Bit
  BY SMTT(30) DEF Channel, Bit
<1> HIDE DEF s
<1>4. Delivered(ch) \in Channel(S)
  BY <1>1, <1>2, <1>3, ZenonT(30) DEF Channel
<1> QED
  BY <1>1, <1>2, <1>4, SMTT(30) DEF Channel

(* handle_ack and handle_invalid_seq.                                      *)
LEMMA HandleAckFacts ==
  ASSUME NEW S, NEW ch \in Channel(S), NEW pkt
  PROVE  LET r == HandleAck(ch, pkt)
         IN  /\ r \in Channel(S)
             /\ r = ch \/ (Sending(ch) /\ pkt.ack = ch.sendBit /\ r = Delivered(ch))
             /\ Sending(ch) /\ pkt.ack = ch.sendBit => r = Delivered(ch)
BY DeliveredFacts DEF HandleAck

(* A message that is not accepted is at most acknowledged again.           *)
LEMMA NotAcceptedFacts ==
  ASSUME NEW S, NEW ch \in Channel(S), NEW pkt \in Packet
  PROVE  LET r == NotAccepted(ch, pkt)
         IN  /\ r \in Channel(S)
             /\ \/ r = ch
                \/ /\ pkt.seq # ch.recvBit /\ r.sendAck = pkt.seq
                   /\ r.state = ch.state /\ r.piggy = ch.piggy /\ r.canSend = ch.canSend
                   /\ r.sendBit = ch.sendBit /\ r.recvBit = ch.recvBit
                   /\ r.sending = ch.sending /\ r.seq = ch.seq /\ r.ack = ch.ack
                   /\ r.nonce = ch.nonce /\ r.pairing = ch.pairing
                   /\ r.cause = ch.cause /\ r.got = ch.got
BY SMTT(30) DEF NotAccepted, HandleInvalidSeq, Channel, Bit, Packet

(* handle_last_packet and raw_out.                                         *)
Acked(ch, pkt) == Sending(ch) /\ ch.piggy /\ ~ch.canSend /\ pkt.ack = ch.sendBit

(* An accepted message flips the receive bit and is to be acknowledged.    *)
LEMMA AcceptedFacts ==
  ASSUME NEW S, NEW ch \in Channel(S), NEW pkt
  PROVE  LET r == Accepted(ch, pkt)
         IN  /\ r \in Channel(S)
             /\ r.state = ch.state /\ r.piggy = ch.piggy
             /\ r.recvBit = 1 - ch.recvBit /\ r.sendAck = ch.recvBit
             /\ Acked(ch, pkt) => r.sending = "Idle" /\ r.canSend /\ r.sendBit = 1 - ch.sendBit
             /\ ~Acked(ch, pkt) =>
                  r.sending = ch.sending /\ r.canSend = ch.canSend /\ r.sendBit = ch.sendBit
             /\ r.nonce = ch.nonce /\ r.pairing = ch.pairing
             /\ r.cause = ch.cause /\ r.got = ch.got
<1> DEFINE a == IF Acked(ch, pkt) THEN Delivered(ch) ELSE ch
<1>1. /\ a \in Channel(S)
      /\ a.state = ch.state /\ a.piggy = ch.piggy
      /\ a.recvBit = ch.recvBit
      /\ Acked(ch, pkt) => a.sending = "Idle" /\ a.canSend /\ a.sendBit = 1 - ch.sendBit
      /\ ~Acked(ch, pkt) =>
           a.sending = ch.sending /\ a.canSend = ch.canSend /\ a.sendBit = ch.sendBit
      /\ a.nonce = ch.nonce /\ a.pairing = ch.pairing
      /\ a.cause = ch.cause /\ a.got = ch.got
  <2>1. CASE Acked(ch, pkt)
    BY <2>1, DeliveredFacts
  <2>2. CASE ~Acked(ch, pkt)
    BY <2>2, ZenonT(30) DEF Channel
  <2> QED
    BY <2>1, <2>2
<1>2. Accepted(ch, pkt) = [a EXCEPT !.sendAck = ch.recvBit, !.recvBit = 1 - ch.recvBit]
  BY <1>1 DEF Accepted, Acked, Channel
<1>3. ch.recvBit \in Bit /\ 1 - ch.recvBit \in Bit
  BY <1>1, SMTT(30) DEF Channel, Bit
<1> HIDE DEF a
<1>4. Accepted(ch, pkt) \in Channel(S)
  BY <1>1, <1>2, <1>3 DEF Channel
<1>5. LET r == Accepted(ch, pkt)
      IN  /\ r.state = a.state /\ r.piggy = a.piggy /\ r.recvBit = 1 - ch.recvBit
          /\ r.sendAck = ch.recvBit /\ r.sending = a.sending /\ r.canSend = a.canSend
          /\ r.sendBit = a.sendBit /\ r.nonce = a.nonce /\ r.pairing = a.pairing
          /\ r.cause = a.cause /\ r.got = a.got
  BY <1>1, <1>2 DEF Channel
<1> QED
  BY <1>1, <1>4, <1>5

(* What packet_out of the channel ch puts out: the packet pkt, leaving r.   *)
PutsOut(S, c, ch, pkt, r) ==
  /\ pkt \in Packet /\ pkt.chan = c /\ r \in Channel(S)
  /\ r.state = ch.state /\ r.piggy = ch.piggy /\ r.sendBit = ch.sendBit
  /\ r.recvBit = ch.recvBit /\ r.nonce = ch.nonce /\ r.pairing = ch.pairing
  /\ r.cause = ch.cause /\ r.got = ch.got
  /\ \/ /\ ch.sendAck # NoAck /\ pkt.type = "ack" /\ pkt.ack = ch.sendAck
        /\ r.sendAck = NoAck /\ r.sending = ch.sending /\ r.canSend = ch.canSend
        /\ r.seq = ch.seq /\ r.ack = ch.ack
     \/ /\ ch.sendAck = NoAck /\ r.sendAck = NoAck /\ pkt.type = "DeviceLocked"
        /\ ch.sending = "DeviceLocked" /\ r.sending = "Failed"
     \/ /\ ch.sendAck = NoAck /\ r.sendAck = NoAck /\ r.canSend = ch.canSend
        /\ pkt.type = "ChannelAllocationResponse" /\ pkt.val = ch.nonce
        /\ ch.sending = "ChannelAllocationResponse" /\ r.sending = "Idle"
     \/ /\ ch.sendAck = NoAck /\ r.sendAck = NoAck /\ pkt.type \in Message
        /\ pkt.type = ch.sending /\ pkt.seq = ch.seq /\ pkt.ack = ch.ack
        /\ pkt.val = ch.pairing /\ r.sending = ch.sending
        /\ r.seq = ch.seq /\ r.ack = ch.ack /\ ~r.canSend

(* packet_out: the packet and the channel afterwards.                      *)
LEMMA PacketOutFacts ==
  ASSUME NEW S, NEW ch \in Channel(S), PacketOutReady(ch), NEW c \in Channels
  PROVE  PutsOut(S, c, ch, NextPacket(c, ch), AfterPacketOut(ch))
<1> DEFINE pkt == NextPacket(c, ch)
           r == AfterPacketOut(ch)
<1>1. 0 \in Nonces /\ 0 \in Bit
  BY HandshakeAssumption, SMTT(30) DEF Nonces, Bit
<1>2. CASE ch.sendAck # NoAck
  <2>1. /\ pkt = [type |-> "ack", chan |-> c, seq |-> 0, ack |-> ch.sendAck, val |-> 0]
        /\ r = [ch EXCEPT !.sendAck = NoAck]
    BY <1>2 DEF NextPacket, AfterPacketOut
  <2>2. ch.sendAck \in Bit
    BY <1>2 DEF Channel
  <2>3. pkt \in Packet
    BY <1>1, <2>1, <2>2, SMTT(30) DEF Packet
  <2> QED
    BY <1>2, <2>1, <2>3, SMTT(30) DEF Channel, PutsOut
<1>3. CASE ch.sendAck = NoAck /\ ch.sending = "DeviceLocked"
  <2>1. /\ pkt = [type |-> "DeviceLocked", chan |-> c, seq |-> 0, ack |-> 0, val |-> ch.pairing]
        /\ r = Stop(ch, "Failed")
    BY <1>3 DEF NextPacket, AfterPacketOut, BecomeFailed
  <2>2. pkt \in Packet
    BY <1>1, <2>1, SMTT(30) DEF Packet, TransportError, Channel
  <2> QED
    BY <1>3, <2>1, <2>2, StopFacts, SMTT(30) DEF PutsOut
<1>4. CASE ch.sendAck = NoAck /\ ch.sending = "ChannelAllocationResponse"
  <2>1. /\ pkt = [type |-> "ChannelAllocationResponse", chan |-> c, seq |-> ch.seq,
                  ack |-> ch.ack, val |-> ch.nonce]
        /\ r = Stop(ch, "Idle")
    BY <1>4 DEF NextPacket, AfterPacketOut
  <2>2. pkt \in Packet
    BY <2>1, SMTT(30) DEF Packet, Channel
  <2> QED
    BY <1>4, <2>1, <2>2, StopFacts, SMTT(30) DEF PutsOut
<1>5. CASE ch.sendAck = NoAck /\ ch.sending \in Message
  <2>1. ch.sending # "DeviceLocked" /\ ch.sending # "ChannelAllocationResponse"
    BY <1>5 DEF Message, HandshakeMessage, AppMessage
  <2>2. /\ pkt = [type |-> ch.sending, chan |-> c, seq |-> ch.seq, ack |-> ch.ack,
                  val |-> ch.pairing]
        /\ r = [ch EXCEPT !.sent = TRUE, !.canSend = FALSE]
    BY <1>5, <2>1 DEF NextPacket, AfterPacketOut
  <2>3. pkt \in Packet
    BY <1>5, <2>2, SMTT(30) DEF Packet, Channel
  <2>4. r \in Channel(S)
    BY <2>2 DEF Channel
  <2>5. /\ r.state = ch.state /\ r.piggy = ch.piggy /\ r.sendBit = ch.sendBit
        /\ r.recvBit = ch.recvBit /\ r.nonce = ch.nonce /\ r.pairing = ch.pairing
        /\ r.cause = ch.cause /\ r.got = ch.got /\ r.sendAck = ch.sendAck
        /\ r.sending = ch.sending /\ r.seq = ch.seq /\ r.ack = ch.ack /\ ~r.canSend
    BY <2>2 DEF Channel
  <2>6. /\ pkt.type = ch.sending /\ pkt.chan = c /\ pkt.seq = ch.seq /\ pkt.ack = ch.ack
        /\ pkt.val = ch.pairing
    BY <2>2, SMTT(30)
  <2> QED
    BY <1>5, <2>3, <2>4, <2>5, <2>6 DEF PutsOut
<1> QED
  BY <1>2, <1>3, <1>4, <1>5 DEF PacketOutReady, Sending

-------------------------------------------------------------------------------
(***************************************************************************)
(* What the steps have in common.                                          *)
(***************************************************************************)

(* What is on its way are packets, each for a channel or for all of them.  *)
LEMMA Flying ==
  ASSUME TypeOK
  PROVE  /\ \A p \in Peer : Range(link[p]) \subseteq Packet
         /\ Routed => \A pkt \in Range(link["host"]) : pkt.chan \in Channels
<1>1. \A p \in Peer : Range(link[p]) \subseteq Packet
  BY SeqRange DEF TypeOK
<1> QED
  BY <1>1 DEF Routed, Under, Packet, Peer

(* A link takes a packet, and no other link changes.                       *)
LEMMA SendFacts ==
  ASSUME TypeOK, NEW p \in Peer, NEW pkt \in Packet, Send(p, pkt)
  PROVE  /\ link' \in [Peer -> Seq(Packet)]
         /\ Range(link'[p]) = Range(link[p]) \cup {pkt}
         /\ \A q \in Peer : q # p => link'[q] = link[q]
         /\ \A c, a, b : /\ Ordered(link[p], c, a, b) /\ a # b
                         /\ pkt.chan = c /\ pkt.type = a =>
                              \A q \in Range(link[p]) : ~(q.chan = c /\ q.type = b)
                         => Ordered(link'[p], c, a, b)
<1>1. link[p] \in Seq(Packet) /\ link' = [link EXCEPT ![p] = Append(link[p], pkt)]
  BY DEF TypeOK, Send
<1>2. link'[p] = Append(link[p], pkt) /\ \A q \in Peer : q # p => link'[q] = link[q]
  BY <1>1 DEF TypeOK
<1>3. link' \in [Peer -> Seq(Packet)]
  BY <1>1, AppendLink DEF TypeOK
<1> QED
  BY <1>1, <1>2, <1>3, AppendLink

(* Every packet on its way was on its way before, and in the same order.   *)
Fewer(p) ==
  /\ Range(link'[p]) \subseteq Range(link[p])
  /\ \A c, a, b : Ordered(link[p], c, a, b) => Ordered(link'[p], c, a, b)

(* A link that does not change.                                            *)
LEMMA SameLink ==
  ASSUME NEW p, link'[p] = link[p]
  PROVE  Fewer(p)
BY DEF Fewer

(* A packet is received.                                                   *)
LEMMA ReceiveFacts ==
  ASSUME TypeOK, NEW p \in Peer, link[p] # <<>>, Receive(p)
  PROVE  /\ link' \in [Peer -> Seq(Packet)]
         /\ Head(link[p]) \in Packet /\ Head(link[p]) \in Range(link[p])
         /\ \A q \in Peer : Fewer(q)
         /\ \A q \in Peer : q # p => link'[q] = link[q]
         /\ \A c, a, b : /\ Ordered(link[p], c, a, b)
                         /\ Head(link[p]).chan = c /\ Head(link[p]).type = b
                         => \A q \in Range(link[p]) : ~(q.chan = c /\ q.type = a)
<1>1. link[p] \in Seq(Packet) /\ link' = [link EXCEPT ![p] = Tail(link[p])]
  BY DEF TypeOK, Receive
<1>2. link'[p] = Tail(link[p]) /\ \A q \in Peer : q # p => link'[q] = link[q]
  BY <1>1 DEF TypeOK
<1>3. link' \in [Peer -> Seq(Packet)]
  BY <1>1, TailLink DEF TypeOK
<1>4. Fewer(p)
  BY <1>1, <1>2, TailLink, SMTT(30) DEF Fewer
<1>5. \A q \in Peer : Fewer(q)
  BY <1>2, <1>4, SameLink
<1> QED
  BY <1>1, <1>2, <1>3, <1>5, TailLink, SMTT(30)

(* Channels that a step does not touch stay unused, or closed, or fresh.   *)
LEMMA Untouched ==
  ASSUME NEW c \in Channels, device'[c] = device[c],
         \A p \in Peer : \A pkt \in Range(link'[p]) : pkt \in Range(link[p]) \/ pkt.chan # c
  PROVE  /\ Unused(c) => Unused(c)'
         /\ Over(device[c]) => Over(device'[c])
         /\ Range(outgoing') \subseteq Range(outgoing) /\ Fresh(c) => Fresh(c)'
<1>1. Unused(c) => Unused(c)'
  BY DEF Unused, Under, Peer
<1>2. Range(outgoing') \subseteq Range(outgoing) /\ Withdrawn(c) => Withdrawn(c)'
  BY DEF Withdrawn, Under, Peer
<1> QED
  BY <1>1, <1>2 DEF Fresh

(* Channels are numbered, and so are nonces and pairing states.            *)
LEMMA ChannelFacts == Broadcast \notin Channels
BY SMTT(30) DEF Broadcast, Channels

(* Bounds, nonces, pairing states and what packets carry are numbers.      *)
LEMMA NumberFacts ==
  /\ MaxRequests \in Nat /\ MaxFaults \in Nat /\ QueueLen \in Nat
  /\ Nonces \subseteq Int /\ Pairing \subseteq Int
  /\ \A pkt \in Packet : pkt.val \in Int
<1>1. MaxRequests \in Nat /\ MaxFaults \in Nat /\ QueueLen \in Nat /\ Pairing \subseteq Int
  BY HandshakeAssumption, SMTT(30)
<1>2. Nonces \subseteq Int
  BY SMTT(30) DEF Nonces
<1>3. \A pkt \in Packet : pkt.val \in Nonces \cup Pairing \cup {Unpaired}
  BY DEF Packet
<1>4. Unpaired \in Int
  BY SMTT(30) DEF Unpaired
<1> QED
  BY <1>1, <1>2, <1>3, <1>4

(* A step on other channels than the ones the host is opening.             *)
LEMMA Elsewhere ==
  ASSUME Inv, NEW c \in Channels, c # mux.chan \/ host.state \notin Started
  PROVE  Unused(c) \/ Over(device[c])
BY DEF Inv, Others

(* Packets are lost, repeated or received, and nothing else happens.       *)
LEMMA OnlyFewer ==
  ASSUME Inv, TypeOK', \A p \in Peer : Fewer(p),
         UNCHANGED <<mux, host, device, outgoing, requests>>
  PROVE  Inv'
<1>1. /\ Range(link'["device"]) \subseteq Range(link["device"])
      /\ Range(link'["host"]) \subseteq Range(link["host"])
  BY DEF Fewer, Peer
<1>2. \A c \in Channels : (Unused(c) => Unused(c)') /\ (Fresh(c) => Fresh(c)')
  BY <1>1, Untouched DEF Peer
<1>3. Routed' /\ Errors'
  BY <1>1 DEF Inv, Routed, Errors, Under
<1>4. Allocation'
  <2>1. \A pkt \in Range(link'["host"]) : pkt \in Packet /\ pkt.chan \in Channels
    BY <1>1, Flying DEF Inv, Peer
  <2>2. mux.chan \in Channels \cup {Broadcast}
    BY DEF Inv, TypeOK
  <2> QED
    BY <1>1, <1>2, <2>1, <2>2
    DEF Inv, Allocation, Under, Awaiting, Awaited, AnswersLastRequest, OtherEnd
<1>5. Others'
  BY <1>2 DEF Inv, Others
<1>6. Talking'
  BY <1>1 DEF Inv, Talking, Under, Fewer, Peer
<1> QED
  BY <1>3, <1>4, <1>5, <1>6 DEF Inv

(* The host h of a started handshake goes on as g.                         *)
Done == {"Finished", "Open"}
Forward(h, g) ==
  /\ g.piggy = h.piggy /\ g.state \in Started
  /\ h.state # "SendingInitiationRequest" =>
       g.state # "SendingInitiationRequest" /\ (Requested(h) => Requested(g))
  /\ h.state \in Done => g.state \in Done

(* A host that goes on knows what it knew of the packets for the device.   *)
LEMMA ForwardFacts ==
  ASSUME NEW d, NEW h, NEW g, Forward(h, g), h.state \in Started,
         DeviceEnd(d, h), Together(d, h)
  PROVE  /\ DeviceEnd(d, g)
         /\ \A pkt : FromHost(pkt, d, h) => FromHost(pkt, d, g)
         /\ \A pkt : FromDevice(pkt, d, h) /\ (pkt.type = "InitiationResponse" => g.state \notin Done)
                     => FromDevice(pkt, d, g)
<1>1. DeviceEnd(d, g)
  <2>1. d.state = "SendingCompletionResponse" => Requested(g)
    BY DEF Forward, DeviceEnd, Together, Started
  <2> QED
    BY <2>1 DEF Forward, DeviceEnd
<1>2. ASSUME NEW pkt, FromHost(pkt, d, h)
      PROVE  FromHost(pkt, d, g)
  BY <1>2 DEF Forward, FromHost, Done
<1>3. ASSUME NEW pkt, FromDevice(pkt, d, h), pkt.type = "InitiationResponse" => g.state \notin Done
      PROVE  FromDevice(pkt, d, g)
  <2>1. d.state = "Closed" /\ h.state = "SendingCompletionRequest" /\ Requested(h) =>
          g.state \in {"Finished", "Open"} \/ (g.state = "SendingCompletionRequest" /\ Requested(g))
    BY DEF Forward, Started
  <2> QED
    BY <1>3, <2>1 DEF Forward, FromDevice, Done
<1> QED
  BY <1>1, <1>2, <1>3

(* The host goes on, and may send a packet.                                *)
LEMMA HostMoves ==
  ASSUME Inv, TypeOK', host.state \in Started, Forward(host, host'), HostEnd(host'),
         Together(device[mux.chan], host'),
         UNCHANGED <<mux, device, outgoing, requests>>,
         Fewer("host"),
         \A pkt \in Range(link'["host"]) :
           pkt.chan = mux.chan /\ pkt.type = "InitiationResponse" => host'.state \notin Done,
         \A pkt \in Range(link'["device"]) :
           \/ pkt \in Range(link["device"])
           \/ /\ pkt.chan = mux.chan /\ pkt.type \in ToDevice
              /\ FromHost(pkt, device[mux.chan], host'),
         Ordered(link'["device"], mux.chan, "InitiationRequest", "CompletionRequest")
  PROVE  Inv'
<1>1. /\ mux.chan \in Channels
      /\ DeviceEnd(device[mux.chan], host) /\ Together(device[mux.chan], host)
  BY DEF Inv, Talking, TypeOK
<1>2. Range(link'["host"]) \subseteq Range(link["host"])
  BY DEF Fewer
<1>3. \A c \in Channels : c # mux.chan /\ Unused(c) => Unused(c)'
  BY <1>2, Untouched DEF Peer
<1>4. /\ host.state # "None" /\ host.state # "Initial"
      /\ host'.state # "None" /\ host'.state # "Initial"
  BY DEF Started, Forward
<1>5. mux.state = "None"
  BY <1>4 DEF Inv, Allocation
<1>6. Routed'
  BY <1>1, <1>2, ChannelFacts DEF Inv, Routed, Under
<1>7. Errors'
  BY <1>2 DEF Inv, Errors, Under, Forward, Started
<1>8. Allocation'
  <2>1. \A pkt \in Under("device")' : pkt.chan = Broadcast => pkt.val <= requests
    BY <1>1, ChannelFacts DEF Inv, Allocation, Under
  <2>2. \A pkt \in Under("host")' : pkt.type = "ChannelAllocationResponse" => pkt.val <= requests
    BY <1>2 DEF Inv, Allocation, Under
  <2> QED
    BY <1>4, <1>5, <2>1, <2>2 DEF Inv, Allocation, Awaiting, AnswersLastRequest
<1>9. Others'
  BY <1>3 DEF Inv, Others, Forward
<1>10. Talking'
  <2>1. DeviceEnd(device[mux.chan], host')
    BY <1>1, ForwardFacts
  <2>2. ASSUME NEW pkt \in Range(link'["device"]), pkt.chan = mux.chan
        PROVE  FromHost(pkt, device[mux.chan], host')
    BY <1>1, <2>2, ForwardFacts DEF Inv, Talking, Under
  <2>3. ASSUME NEW pkt \in Range(link'["host"]), pkt.chan = mux.chan
        PROVE  FromDevice(pkt, device[mux.chan], host')
    BY <1>1, <1>2, <2>3, ForwardFacts DEF Inv, Talking, Under
  <2>4. Ordered(link'["host"], mux.chan, "InitiationResponse", "CompletionResponse")
    BY DEF Inv, Talking, Fewer
  <2> QED
    BY <1>1, <2>1, <2>2, <2>3, <2>4, ChannelFacts DEF Talking, Under
<1> QED
  BY <1>6, <1>7, <1>8, <1>9, <1>10 DEF Inv

(* The device's end d of a started handshake goes on as e.                 *)
DeviceForward(d, e) ==
  /\ d.state = "SendingInitiationResponse" /\ Answered(d) =>
       \/ e.state = "SendingInitiationResponse" /\ Answered(e)
       \/ e.state = "SendingCompletionResponse"
       \/ e.state = "Closed" /\ GaveUp(e)
  /\ d.state \in {"SendingCompletionResponse", "Open"} =>
       \/ e.state \in {"SendingCompletionResponse", "Open"} /\ e.pairing = d.pairing
       \/ e.state = "Closed"

(* A device that goes on knows what it knew of the packets under way.      *)
LEMMA DeviceForwardFacts ==
  ASSUME NEW d, NEW e, NEW h, DeviceForward(d, e), DeviceEnd(d, h), Together(d, h),
         Together(e, h), h.state \in Started, d.state # "Closed"
  PROVE  /\ \A pkt : /\ FromHost(pkt, d, h)
                     /\ pkt.type = "InitiationRequest" =>
                          e.state \notin {"SendingCompletionResponse", "Open"}
                     => FromHost(pkt, e, h)
         /\ \A pkt : FromDevice(pkt, d, h) => FromDevice(pkt, e, h)
<1>1. ASSUME NEW pkt, FromHost(pkt, d, h),
             pkt.type = "InitiationRequest" =>
               e.state \notin {"SendingCompletionResponse", "Open"}
      PROVE  FromHost(pkt, e, h)
  BY <1>1 DEF FromHost
<1>2. ASSUME NEW pkt, FromDevice(pkt, d, h)
      PROVE  FromDevice(pkt, e, h)
  <2>1. CASE pkt.type = "InitiationResponse"
    BY <1>2, <2>1 DEF FromDevice, DeviceForward, Together, Started
  <2>2. CASE pkt.type = "CompletionResponse"
    BY <1>2, <2>2 DEF FromDevice, DeviceForward, DeviceEnd, Together, Started
  <2> QED
    BY <2>1, <2>2 DEF FromDevice
<1> QED
  BY <1>1, <1>2

(* The device goes on, and may send a packet.                              *)
LEMMA DeviceMoves ==
  ASSUME Inv, TypeOK', host.state \in Started, device[mux.chan].state # "Closed",
         DeviceForward(device[mux.chan], device'[mux.chan]),
         DeviceEnd(device'[mux.chan], host), Together(device'[mux.chan], host),
         device'[mux.chan].nonce <= requests,
         \A c \in Channels : c # mux.chan => device'[c] = device[c],
         UNCHANGED <<mux, host, outgoing, requests>>,
         Fewer("device"),
         \A pkt \in Range(link'["device"]) :
           pkt.chan = mux.chan /\ pkt.type = "InitiationRequest" =>
             device'[mux.chan].state \notin {"SendingCompletionResponse", "Open"},
         \A pkt \in Range(link'["host"]) :
           \/ pkt \in Range(link["host"])
           \/ /\ pkt.chan = mux.chan
              /\ pkt.type \in (ToHost \ {"ChannelAllocationResponse"}) \cup {"DeviceLocked"}
              /\ FromDevice(pkt, device'[mux.chan], host)
              /\ pkt.type = "DeviceLocked" => Over(device'[mux.chan]),
         Ordered(link'["host"], mux.chan, "InitiationResponse", "CompletionResponse")
  PROVE  Inv'
<1>1. /\ mux.chan \in Channels
      /\ DeviceEnd(device[mux.chan], host) /\ Together(device[mux.chan], host)
  BY DEF Inv, Talking, TypeOK
<1>2. Range(link'["device"]) \subseteq Range(link["device"])
  BY DEF Fewer
<1>3. \A c \in Channels : c # mux.chan =>
        (Unused(c) => Unused(c)') /\ (Over(device[c]) => Over(device'[c]))
  BY <1>2, Untouched DEF Peer
<1>4. host.state # "None" /\ host.state # "Initial"
  BY DEF Started
<1>5. mux.state = "None"
  BY <1>4 DEF Inv, Allocation
<1>6. \A c : Over(c) => c.state = "Closed"
  BY DEF Over
<1>7. Routed'
  BY <1>1, <1>2, ChannelFacts DEF Inv, Routed, Under, TransportError
<1>8. Errors'
  <2>1. Range(outgoing) \subseteq Channels
    BY SeqRange DEF Inv, TypeOK
  <2>2. \A pkt \in Range(link["host"]) : pkt.chan \in Channels
    BY Flying DEF Inv
  <2>3. \A c \in Range(outgoing) : Over(device'[c])
    BY <1>3, <1>6, <2>1 DEF Inv, Errors
  <2>4. ASSUME NEW pkt \in Range(link'["host"]), pkt.type \in TransportError
        PROVE  Over(device'[pkt.chan])
    BY <1>3, <1>6, <2>2, <2>4 DEF Inv, Errors, Under, TransportError, ToHost
  <2> QED
    BY <2>3, <2>4 DEF Errors, Under, Started
<1>9. Allocation'
  <2>1. \A pkt \in Under("device")' : pkt.chan = Broadcast => pkt.val <= requests
    BY <1>2 DEF Inv, Allocation, Under
  <2>2. \A pkt \in Under("host")' : pkt.type = "ChannelAllocationResponse" => pkt.val <= requests
    BY DEF Inv, Allocation, Under
  <2>3. \A c \in Channels : device'[c].nonce <= requests
    BY DEF Inv, Allocation
  <2> QED
    BY <1>4, <1>5, <2>1, <2>2, <2>3 DEF Inv, Allocation, Awaiting, AnswersLastRequest
<1>10. Others'
  BY <1>3 DEF Inv, Others
<1>11. Talking'
  <2>1. ASSUME NEW pkt \in Range(link'["device"]), pkt.chan = mux.chan
        PROVE  FromHost(pkt, device'[mux.chan], host)
    BY <1>1, <1>2, <2>1, DeviceForwardFacts DEF Inv, Talking, Under
  <2>2. ASSUME NEW pkt \in Range(link'["host"]), pkt.chan = mux.chan
        PROVE  FromDevice(pkt, device'[mux.chan], host)
    BY <1>1, <2>2, DeviceForwardFacts DEF Inv, Talking, Under
  <2>3. Ordered(link'["device"], mux.chan, "InitiationRequest", "CompletionRequest")
    BY DEF Inv, Talking, Fewer
  <2> QED
    BY <1>1, <2>1, <2>2, <2>3, ChannelFacts DEF Talking, Under
<1> QED
  BY <1>7, <1>8, <1>9, <1>10, <1>11 DEF Inv

-------------------------------------------------------------------------------
(***************************************************************************)
(* The links and the host.                                                 *)
(***************************************************************************)

(* A record of a channel that is not in use.                               *)
LEMMA NoChannelFacts ==
  /\ NoChannel \in Channel(HostState) /\ NoChannel \in Channel(DeviceState)
  /\ NoChannel.state = "None" /\ NoChannel.nonce = 0 /\ New(NoChannel)
<1>1. 0 \in Nonces
  BY HandshakeAssumption, SMTT(30) DEF Nonces
<1>2. NoChannel \in Channel(HostState)
  BY <1>1, NoRetry DEF NoChannel, Channel, HostState, Bit, Cause
<1>3. NoChannel \in Channel(DeviceState)
  BY <1>1, NoRetry DEF NoChannel, Channel, DeviceState, Bit, Cause
<1>4. NoChannel.state = "None" /\ NoChannel.nonce = 0 /\ New(NoChannel)
  BY DEF NoChannel, New
<1> QED
  BY <1>2, <1>3, <1>4

(* Nothing is allocated and nothing is on its way.                         *)
LEMMA InitInv == Init => Inv
<1> SUFFICES ASSUME Init
             PROVE  Inv
  OBVIOUS
<1>1. /\ Under("device") = {} /\ Under("host") = {} /\ Range(outgoing) = {}
      /\ link \in [Peer -> Seq(Packet)] /\ outgoing \in Seq(Channels) /\ Len(outgoing) = 0
  <2>1. link["device"] = <<>> /\ link["host"] = <<>> /\ outgoing = <<>> /\ Range(<<>>) = {}
    BY SMTT(30) DEF Init, Peer, Range
  <2> QED
    BY <2>1, SMTT(30) DEF Init, Under
<1>2. /\ host = NoChannel /\ host.state = "None" /\ mux.state = "None"
      /\ \A c \in Channels : device[c] = NoChannel
  BY NoChannelFacts DEF Init
<1>3. TypeOK
  <2>1. mux \in [state : {"None", "SendingRequest", "SentRequest", "ReceivedId"},
                 nonce : Nonces, chan : Channels \cup {Broadcast}]
    BY HandshakeAssumption, SMTT(30) DEF Init, Nonces
  <2>2. device \in [Channels -> Channel(DeviceState)]
    BY NoChannelFacts DEF Init
  <2>3. requests \in 0..MaxRequests /\ faults \in 0..MaxFaults /\ Len(outgoing) <= QueueLen
    BY <1>1, HandshakeAssumption, SMTT(30) DEF Init
  <2> QED
    BY <1>1, <1>2, <2>1, <2>2, <2>3, NoChannelFacts DEF TypeOK
<1>4. Routed /\ Errors
  BY <1>1, <1>2 DEF Routed, Errors
<1>5. Allocation
  <2>1. \A c \in Channels : device[c].nonce <= requests
    BY <1>2, NoChannelFacts, SMTT(30) DEF Init
  <2> QED
    BY <1>1, <1>2, <2>1 DEF Allocation, AnswersLastRequest
<1>6. Others
  BY <1>1, <1>2, NoChannelFacts DEF Others, Unused
<1>7. HostEnd(host) /\ Talking
  BY <1>2, NoChannelFacts DEF HostEnd, Talking, Started, New
<1> QED
  BY <1>3, <1>4, <1>5, <1>6, <1>7 DEF Inv

(* Packets are lost and repeated.                                          *)
LEMMA FaultInv ==
  ASSUME Inv, NEW p \in Peer, Lose(p) \/ Duplicate(p)
  PROVE  Inv'
<1>1. /\ faults < MaxFaults /\ link[p] # <<>> /\ faults' = faults + 1 /\ TypeOK
      /\ UNCHANGED <<mux, host, device, outgoing, requests>>
  BY DEF Lose, Duplicate, Inv
<1>2. link' \in [Peer -> Seq(Packet)] /\ \A q \in Peer : Fewer(q)
  <2>1. CASE Lose(p)
    BY <1>1, <2>1, ReceiveFacts DEF Lose
  <2>2. CASE Duplicate(p)
    <3>1. link[p] \in Seq(Packet) /\ link' = [link EXCEPT ![p] = <<Head(link[p])>> \o link[p]]
      BY <1>1, <2>2 DEF TypeOK, Duplicate
    <3>2. /\ link'[p] = <<Head(link[p])>> \o link[p]
          /\ \A q \in Peer : q # p => link'[q] = link[q]
      BY <1>1, <3>1 DEF TypeOK
    <3>3. link' \in [Peer -> Seq(Packet)] /\ Fewer(p)
      BY <1>1, <3>1, <3>2, RepeatLink DEF TypeOK, Fewer
    <3> QED
      BY <3>2, <3>3, SameLink
  <2> QED
    BY <2>1, <2>2
<1>3. faults' \in 0..MaxFaults
  BY <1>1, HandshakeAssumption, SMTT(30) DEF TypeOK
<1>4. TypeOK'
  BY <1>1, <1>2, <1>3 DEF TypeOK
<1> QED
  BY <1>1, <1>2, <1>4, OnlyFewer

(* A host without a channel, or with one that failed, has no handshake.    *)
LEMMA NoHandshake ==
  ASSUME Inv, host.state \in {"None", "Initial", "Failed"}
  PROVE  \A c \in Channels : Unused(c) \/ Over(device[c])
BY Elsewhere DEF Started

(* The application requests a channel: no response has its nonce yet.      *)
LEMMA RequestChannelInv ==
  ASSUME Inv, RequestChannel
  PROVE  Inv'
<1>1. /\ requests < MaxRequests /\ requests' = requests + 1
      /\ mux' = [mux EXCEPT !.state = "SendingRequest"] /\ host' = NoChannel
      /\ host.state \in {"None", "Failed"} /\ requests \in Nat
      /\ UNCHANGED <<device, outgoing, link, faults>>
  BY HandshakeAssumption, SMTT(30) DEF RequestChannel, Inv, TypeOK
<1>2. /\ mux'.state = "SendingRequest" /\ mux'.nonce = mux.nonce /\ mux'.chan = mux.chan
      /\ host'.state = "None"
  BY <1>1, NoChannelFacts DEF Inv, TypeOK
<1>3. TypeOK'
  <2>1. requests' \in 0..MaxRequests
    BY <1>1, NumberFacts, SMTT(30)
  <2>2. mux' \in [state : {"None", "SendingRequest", "SentRequest", "ReceivedId"},
                  nonce : Nonces, chan : Channels \cup {Broadcast}]
    BY <1>1 DEF Inv, TypeOK
  <2> QED
    BY <1>1, <2>1, <2>2, NoChannelFacts DEF Inv, TypeOK
<1>4. Routed' /\ Errors'
  BY <1>1, <1>2 DEF Inv, Routed, Errors, Under
<1>5. \A pkt \in Under("host") \cup Under("device") : pkt.val \in Int
  BY Flying, NumberFacts DEF Inv, Under, Peer
<1>6. \A c \in Channels : device[c].nonce \in Int
  BY HandshakeAssumption, SMTT(30) DEF Inv, TypeOK, Channel, Nonces
<1>7. Allocation'
  <2>1. \A pkt \in Under("device")' : pkt.chan = Broadcast => pkt.val <= requests'
    BY <1>1, <1>5, SMTT(30) DEF Inv, Allocation, Under
  <2>2. \A c \in Channels : device'[c].nonce <= requests'
    BY <1>1, <1>6, SMTT(30) DEF Inv, Allocation
  <2>3. \A pkt \in Under("host")' : pkt.type = "ChannelAllocationResponse" =>
          pkt.val <= requests' /\ pkt.val # requests'
    BY <1>1, <1>5, SMTT(30) DEF Inv, Allocation, Under
  <2> QED
    BY <1>2, <2>1, <2>2, <2>3 DEF Allocation, Awaited, AnswersLastRequest
<1>8. Others'
  BY <1>1, NoHandshake DEF Others, Unused, Under
<1>9. HostEnd(host)' /\ Talking'
  BY <1>1, <1>2, NoChannelFacts DEF HostEnd, Talking, Started, New
<1> QED
  BY <1>3, <1>4, <1>7, <1>8, <1>9 DEF Inv

(* The request is sent with a nonce of its own.                            *)
LEMMA HostMuxOutInv ==
  ASSUME Inv, HostMuxOut
  PROVE  Inv'
<1> DEFINE pkt == [type |-> "ChannelAllocationRequest", chan |-> Broadcast,
                   seq |-> 0, ack |-> 0, val |-> requests]
<1>1. /\ mux.state = "SendingRequest" /\ Send("device", pkt)
      /\ mux' = [mux EXCEPT !.state = "SentRequest", !.nonce = requests]
      /\ UNCHANGED <<host, device, outgoing, requests, faults>>
  BY DEF HostMuxOut
<1>2. pkt \in Packet /\ requests \in Nonces
  BY HandshakeAssumption DEF Packet, Bit, Nonces, Inv, TypeOK
<1>3. /\ link' \in [Peer -> Seq(Packet)] /\ link'["host"] = link["host"]
      /\ Range(link'["device"]) = Range(link["device"]) \cup {pkt}
  BY <1>1, <1>2, SendFacts DEF Inv, Peer
<1>4. /\ mux'.state = "SentRequest" /\ mux'.nonce = requests /\ mux'.chan = mux.chan
      /\ pkt.chan = Broadcast /\ pkt.type = "ChannelAllocationRequest" /\ pkt.val = requests
  BY <1>1 DEF Inv, TypeOK
<1> HIDE DEF pkt
<1>5. TypeOK'
  BY <1>1, <1>2, <1>3 DEF Inv, TypeOK
<1>6. \A c \in Channels : (Unused(c) => Unused(c)') /\ (Fresh(c) => Fresh(c)')
  BY <1>1, <1>3, <1>4, Untouched, ChannelFacts DEF Peer
<1>7. host.state = "None"
  BY <1>1 DEF Inv, Allocation
<1>8. Routed' /\ Errors'
  BY <1>1, <1>3, <1>4, <1>7 DEF Inv, Routed, Errors, Under
<1>9. Allocation'
  <2>1. \A q \in Under("device")' : q.chan = Broadcast => q.val <= requests
    <3>1. requests <= requests
      BY SMTT(30) DEF Inv, TypeOK
    <3> QED
      BY <1>3, <1>4, <3>1 DEF Inv, Allocation, Under
  <2>2. ASSUME NEW q \in Under("host")', q.type = "ChannelAllocationResponse"
        PROVE  q.val <= requests /\ (q.val = requests => Fresh(q.chan)')
    <3>1. q.chan \in Channels
      BY <1>3, Flying DEF Inv, Under
    <3> QED
      BY <1>1, <1>3, <1>6, <2>2, <3>1 DEF Inv, Allocation, Under, Awaiting, Awaited
  <2> QED
    BY <1>1, <1>4, <1>7, <2>1, <2>2 DEF Inv, Allocation, Awaited, AnswersLastRequest
<1>10. Others'
  BY <1>1, <1>6, <1>7, NoHandshake DEF Others
<1>11. HostEnd(host)' /\ Talking'
  BY <1>1, <1>7 DEF Inv, HostEnd, Talking, Started
<1> QED
  BY <1>5, <1>8, <1>9, <1>10, <1>11 DEF Inv

(* An allocation response: one with the nonce of the last request is for a *)
(* channel that was not used before.                                       *)
LEMMA HostMuxInInv ==
  ASSUME Inv, HostMuxIn
  PROVE  Inv'
<1> DEFINE pkt == Head(link["host"])
<1>1. /\ link["host"] # <<>> /\ Receive("host") /\ pkt.type = "ChannelAllocationResponse"
      /\ UNCHANGED <<host, device, outgoing, requests, faults>>
  BY DEF HostMuxIn
<1>2. /\ link' \in [Peer -> Seq(Packet)] /\ \A p \in Peer : Fewer(p)
      /\ pkt \in Range(link["host"])
  BY <1>1, ReceiveFacts DEF Inv, Peer
<1>3. pkt.chan \in Channels
  BY <1>2, Flying DEF Inv
<1>4. /\ Range(link'["device"]) \subseteq Range(link["device"])
      /\ Range(link'["host"]) \subseteq Range(link["host"])
  BY <1>2 DEF Fewer, Peer
<1>5. CASE mux' = mux
  <2>1. TypeOK'
    BY <1>1, <1>2, <1>5 DEF Inv, TypeOK
  <2> QED
    BY <1>1, <1>2, <1>5, <2>1, OnlyFewer
<1>6. CASE NonceMatches(pkt) /\ mux' = [mux EXCEPT !.state = "ReceivedId", !.chan = pkt.chan]
  <2>1. /\ mux.state = "SentRequest" /\ pkt.val = mux.nonce /\ host.state = "None"
        /\ mux'.state = "ReceivedId" /\ mux'.nonce = mux.nonce /\ mux'.chan = pkt.chan
    BY <1>6 DEF NonceMatches, Inv, TypeOK, Allocation
  <2>2. TypeOK'
    BY <1>1, <1>2, <1>3, <1>6 DEF Inv, TypeOK
  <2>3. Fresh(pkt.chan)
    BY <1>1, <1>2, <2>1 DEF Inv, Allocation, Under, Awaiting, Awaited
  <2>4. /\ Offered(device[pkt.chan]) \/ Over(device[pkt.chan])
        /\ device[pkt.chan].nonce = mux.nonce
    BY <1>2, <2>1, <2>3 DEF Fresh, Unused, Withdrawn, Under
  <2>5. \A c \in Channels : (Unused(c) => Unused(c)') /\ (Fresh(c) => Fresh(c)')
    BY <1>1, <1>4, Untouched DEF Peer
  <2>6. Routed' /\ Errors'
    BY <1>1, <1>4, <2>1 DEF Inv, Routed, Errors, Under
  <2>7. Allocation'
    <3>1. AnswersLastRequest'
      BY <1>1, <1>3, <2>1, <2>4, ChannelFacts DEF AnswersLastRequest, OtherEnd
    <3> QED
      BY <1>1, <1>3, <1>4, <2>1, <2>3, <2>4, <2>5, <3>1, ChannelFacts
      DEF Inv, Allocation, Awaiting, Under
  <2>8. Others'
    BY <1>1, <2>1, <2>5, NoHandshake DEF Others
  <2>9. HostEnd(host)' /\ Talking'
    BY <1>1, <2>1 DEF Inv, HostEnd, Talking, Started
  <2> QED
    BY <2>2, <2>6, <2>7, <2>8, <2>9 DEF Inv
<1> QED
  BY <1>5, <1>6 DEF HostMuxIn

(* channel_alloc.                                                          *)
LEMMA ChannelAllocInv ==
  ASSUME Inv, ChannelAlloc
  PROVE  Inv'
<1>1. /\ mux.state = "ReceivedId" /\ mux' = [mux EXCEPT !.state = "None"]
      /\ UNCHANGED <<device, outgoing, link, requests, faults>>
  BY DEF ChannelAlloc
<1>2. PICK piggy \in BOOLEAN : host' = [NoChannel EXCEPT !.state = "Initial", !.piggy = piggy]
  BY DEF ChannelAlloc
<1>3. /\ mux'.state = "None" /\ mux'.chan = mux.chan /\ mux'.nonce = mux.nonce
      /\ host.state = "None" /\ host'.state = "Initial"
      /\ host'.sendBit = 0 /\ host'.recvBit = 0 /\ host'.sendAck = NoAck
      /\ host'.sending = "Idle"
  BY <1>1, <1>2 DEF Inv, TypeOK, Allocation, NoChannel
<1>4. TypeOK'
  <2>1. host' \in Channel(HostState)
    BY <1>2, NoChannelFacts DEF Channel, HostState
  <2>2. mux' \in [state : {"None", "SendingRequest", "SentRequest", "ReceivedId"},
                  nonce : Nonces, chan : Channels \cup {Broadcast}]
    BY <1>1 DEF Inv, TypeOK
  <2> QED
    BY <1>1, <2>1, <2>2 DEF Inv, TypeOK
<1>5. \A c \in Channels : (Unused(c) => Unused(c)') /\ (Fresh(c) => Fresh(c)')
  BY <1>1, Untouched DEF Peer
<1>6. Routed' /\ Errors'
  BY <1>1, <1>3 DEF Inv, Routed, Errors, Under
<1>7. Allocation'
  <2>1. mux.chan \in Channels /\ Fresh(mux.chan)
    BY <1>1 DEF Inv, Allocation, TypeOK
  <2> QED
    BY <1>1, <1>3, <1>5, <2>1 DEF Inv, Allocation, Awaiting, AnswersLastRequest, Under
<1>8. Others'
  BY <1>1, <1>3, <1>5, NoHandshake DEF Others
<1>9. HostEnd(host)' /\ Talking'
  BY <1>3 DEF HostEnd, Talking, Started
<1> QED
  BY <1>4, <1>6, <1>7, <1>8, <1>9 DEF Inv

(* A host that is opening a channel, or has failed to.                     *)
LEMMA HasChannel ==
  ASSUME Inv, host.state \in Started \cup {"Failed", "Initial"}
  PROVE  mux.chan \in Channels /\ mux.state = "None"
BY DEF Inv, Talking, Errors, Allocation, TypeOK, Started

(* The first request starts the handshake.                                 *)
LEMMA HostStartsInv ==
  ASSUME Inv, HostPacketOut, host.state = "Initial"
  PROVE  Inv'
<1> DEFINE raw == RawIn(host, "InitiationRequest", TRUE)
           ch == [raw EXCEPT !.state = "SendingInitiationRequest"]
           pkt == NextPacket(mux.chan, ch)
<1>1. /\ PacketOutReady(ch) /\ Send("device", pkt) /\ host' = AfterPacketOut(ch)
      /\ UNCHANGED <<mux, device, outgoing, requests, faults>>
  BY DEF HostPacketOut
<1>2. /\ mux.chan \in Channels /\ mux.state = "None" /\ Fresh(mux.chan)
      /\ Offered(device[mux.chan]) \/ Over(device[mux.chan])
  BY HasChannel DEF Inv, Allocation
<1>3. /\ raw \in Channel(HostState) /\ raw.sendAck = NoAck /\ raw.sending = "InitiationRequest"
      /\ raw.sendBit = 0 /\ raw.recvBit = 0 /\ raw.seq = 0 /\ raw.ack = Bit1If(host.piggy)
      /\ raw.piggy = host.piggy
  <2>1. host \in Channel(HostState) /\ host.sendBit = 0 /\ host.recvBit = 0 /\ host.sendAck = NoAck
    BY DEF Inv, TypeOK, HostEnd
  <2>2. "InitiationRequest" \in Message /\ Bit1If(host.piggy) \in Bit
    BY DEF Message, HandshakeMessage, Bit1If, Bit
  <2>3. raw = Raw(host, "InitiationRequest", Bit1If(host.piggy))
    BY RawInFacts
  <2> DEFINE r == Raw(host, "InitiationRequest", Bit1If(host.piggy))
  <2>4. /\ r \in Channel(HostState) /\ r.piggy = host.piggy /\ r.sending = "InitiationRequest"
        /\ r.sendBit = host.sendBit /\ r.recvBit = host.recvBit /\ r.seq = host.sendBit
        /\ r.sendAck = (IF host.piggy THEN NoAck ELSE host.sendAck) /\ r.ack = Bit1If(host.piggy)
    BY <2>1, <2>2, RawFacts, SMTT(30)
  <2> HIDE DEF r
  <2> QED
    BY <2>1, <2>3, <2>4 DEF r
<1> HIDE DEF raw
<1>4. /\ ch \in Channel(HostState) /\ ch.sendAck = NoAck /\ ch.sending = "InitiationRequest"
      /\ ch.sendBit = 0 /\ ch.recvBit = 0 /\ ch.seq = 0 /\ ch.ack = Bit1If(host.piggy)
      /\ ch.piggy = host.piggy /\ ch.state = "SendingInitiationRequest"
  BY <1>3 DEF Channel, HostState
<1> HIDE DEF ch
<1>5. /\ pkt \in Packet /\ pkt.chan = mux.chan /\ host' \in Channel(HostState)
      /\ pkt.type = "InitiationRequest" /\ pkt.seq = 0 /\ pkt.ack = Bit1If(host.piggy)
      /\ host'.state = "SendingInitiationRequest" /\ host'.piggy = host.piggy
      /\ host'.sendBit = 0 /\ host'.recvBit = 0 /\ host'.sendAck = NoAck
      /\ host'.sending = "InitiationRequest" /\ host'.seq = 0
      /\ host'.ack = Bit1If(host.piggy) /\ ~host'.canSend
  <2>1. PutsOut(HostState, mux.chan, ch, pkt, host')
    BY <1>1, <1>2, <1>4, PacketOutFacts
  <2> HIDE DEF pkt
  <2> QED
    BY <1>4, <2>1, SMTT(30) DEF PutsOut
<1> HIDE DEF pkt
<1>6. /\ link' \in [Peer -> Seq(Packet)] /\ link'["host"] = link["host"]
      /\ Range(link'["device"]) = Range(link["device"]) \cup {pkt}
  BY <1>1, <1>5, SendFacts DEF Inv, Peer
<1>7. TypeOK'
  BY <1>1, <1>5, <1>6 DEF Inv, TypeOK
<1>8. Routed' /\ Errors'
  BY <1>1, <1>2, <1>5, <1>6, ChannelFacts DEF Inv, Routed, Errors, Under, ToDevice
<1>9. Allocation'
  BY <1>1, <1>2, <1>5, <1>6, ChannelFacts
  DEF Inv, Allocation, Awaiting, AnswersLastRequest, Under
<1>10. Others'
  <2>1. \A c \in Channels : c # mux.chan /\ Unused(c) => Unused(c)'
    BY <1>1, <1>5, <1>6, Untouched DEF Peer
  <2> QED
    BY <1>1, <1>5, <2>1, NoHandshake DEF Others, Started
<1>11. HostEnd(host)'
  BY <1>5 DEF HostEnd
<1>12. Talking'
  <2>1. DeviceEnd(device[mux.chan], host') /\ Together(device[mux.chan], host')
    BY <1>2, <1>5 DEF Offered, Over, DeviceEnd, Together
  <2>2. \A q \in Range(link'["device"]) : q.chan = mux.chan => q = pkt
    BY <1>2, <1>6 DEF Fresh, Unused, Withdrawn, Under
  <2>3. FromHost(pkt, device[mux.chan], host')
    BY <1>2, <1>5 DEF FromHost, Offered, Over, AppMessage
  <2>4. \A q \in Range(link'["host"]) : q.chan = mux.chan => q.type = "ChannelAllocationResponse"
    BY <1>2, <1>6 DEF Fresh, Unused, Withdrawn, Under
  <2>5. Ordered(link'["host"], mux.chan, "InitiationResponse", "CompletionResponse")
    BY <2>4 DEF Ordered, Range
  <2>6. Ordered(link'["device"], mux.chan, "InitiationRequest", "CompletionRequest")
    BY <1>5, <2>2 DEF Ordered, Range
  <2> QED
    BY <1>1, <1>2, <2>1, <2>2, <2>3, <2>4, <2>5, <2>6, ChannelFacts
    DEF Talking, Under, FromDevice
<1> QED
  BY <1>7, <1>8, <1>9, <1>10, <1>11, <1>12 DEF Inv

(* The host of a started handshake sends an acknowledgement or a message.  *)
LEMMA HostSendsInv ==
  ASSUME Inv, HostPacketOut, host.state \in Started
  PROVE  Inv'
<1> DEFINE c == mux.chan
           d == device[c]
           pkt == NextPacket(c, host)
<1>1. /\ PacketOutReady(host) /\ Send("device", pkt) /\ host' = AfterPacketOut(host)
      /\ UNCHANGED <<mux, device, outgoing, requests, faults>>
  BY DEF HostPacketOut, Started
<1>2. /\ c \in Channels /\ host \in Channel(HostState) /\ HostEnd(host) /\ Together(d, host)
      /\ \A q \in Range(link["device"]) : q.chan = c => FromHost(q, d, host)
      /\ Ordered(link["device"], c, "InitiationRequest", "CompletionRequest")
  BY HasChannel DEF Inv, TypeOK, Talking, Under
<1>3. /\ pkt \in Packet /\ pkt.chan = c /\ host' \in Channel(HostState)
      /\ host'.state = host.state /\ host'.piggy = host.piggy /\ host'.sendBit = host.sendBit
      /\ host'.recvBit = host.recvBit /\ host'.pairing = host.pairing
      /\ host'.sending = host.sending /\ host'.seq = host.seq /\ host'.ack = host.ack
      /\ host'.sendAck = NoAck
      /\ \/ /\ host.sendAck # NoAck /\ pkt.type = "ack" /\ pkt.ack = host.sendAck
            /\ host'.canSend = host.canSend
         \/ /\ pkt.type \in Message /\ pkt.type = host.sending /\ pkt.seq = host.seq
            /\ pkt.ack = host.ack /\ ~host'.canSend
  <2>1. host.sending \notin {"DeviceLocked", "ChannelAllocationResponse"}
    BY <1>2 DEF HostEnd, Started, AppMessage
  <2>2. PutsOut(HostState, c, host, pkt, host')
    BY <1>1, <1>2, PacketOutFacts
  <2> HIDE DEF pkt, c
  <2> QED
    BY <2>1, <2>2 DEF PutsOut
<1>4. /\ link' \in [Peer -> Seq(Packet)] /\ link'["host"] = link["host"]
      /\ Range(link'["device"]) = Range(link["device"]) \cup {pkt}
      /\ \A x, a, b : /\ Ordered(link["device"], x, a, b) /\ a # b
                      /\ pkt.chan = x /\ pkt.type = a =>
                           \A q \in Range(link["device"]) : ~(q.chan = x /\ q.type = b)
                      => Ordered(link'["device"], x, a, b)
  BY <1>1, <1>3, SendFacts DEF Inv, Peer
<1> HIDE DEF pkt, c, d
<1>5. TypeOK'
  BY <1>1, <1>3, <1>4 DEF Inv, TypeOK
<1>6. HostEnd(host')
  BY <1>2, <1>3 DEF HostEnd, Started, Message, HandshakeMessage, AppMessage
<1>7. Forward(host, host') /\ Together(d, host')
  BY <1>2, <1>3 DEF Forward, Together, Requested, Started
<1>8. pkt.type \in ToDevice /\ FromHost(pkt, d, host')
  <2>1. CASE pkt.type = "ack"
    <3>1. host.state # "SendingInitiationRequest" /\ (pkt.ack = 1 => host.state \in Done)
      BY <1>2, <1>3, <2>1, SMTT(30) DEF HostEnd, Started, Done, NoAck, Message, HandshakeMessage, AppMessage
    <3> QED
      BY <1>3, <2>1, <3>1 DEF FromHost, ToDevice, Done, AppMessage
  <2>2. CASE host.state = "SendingInitiationRequest" /\ pkt.type # "ack"
    BY <1>2, <1>3, <2>2 DEF HostEnd, FromHost, ToDevice, Together, AppMessage, Message,
      HandshakeMessage
  <2>3. CASE host.state = "SendingCompletionRequest" /\ pkt.type # "ack"
    BY <1>2, <1>3, <2>3 DEF HostEnd, FromHost, ToDevice, Requested, AppMessage, Message,
      HandshakeMessage
  <2>4. CASE host.state \in Done /\ pkt.type # "ack"
    BY <1>2, <1>3, <2>4 DEF HostEnd, FromHost, ToDevice, Done, AppMessage, Message,
      HandshakeMessage
  <2> QED
    BY <2>1, <2>2, <2>3, <2>4 DEF Started, Done
<1>9. Ordered(link'["device"], c, "InitiationRequest", "CompletionRequest")
  <2>1. pkt.type = "InitiationRequest" => host.state = "SendingInitiationRequest"
    BY <1>2, <1>3 DEF HostEnd, Started, AppMessage
  <2>2. host.state = "SendingInitiationRequest" =>
          \A q \in Range(link["device"]) : ~(q.chan = c /\ q.type = "CompletionRequest")
    BY <1>2 DEF FromHost
  <2> QED
    BY <1>2, <1>4, <2>1, <2>2
<1>10. \A q \in Range(link'["host"]) :
         q.chan = c /\ q.type = "InitiationResponse" => host'.state \notin Done
  BY <1>3, <1>4 DEF Inv, Talking, Under, FromDevice, Done, c
<1> QED
  BY <1>1, <1>3, <1>4, <1>5, <1>6, <1>7, <1>8, <1>9, <1>10, SameLink, HostMoves DEF c, d

(* A host whose handshake failed may still send an acknowledgement.        *)
LEMMA FailedSendsInv ==
  ASSUME Inv, HostPacketOut, host.state = "Failed"
  PROVE  Inv'
<1> DEFINE pkt == NextPacket(mux.chan, host)
<1>1. /\ PacketOutReady(host) /\ Send("device", pkt) /\ host' = AfterPacketOut(host)
      /\ UNCHANGED <<mux, device, outgoing, requests, faults>>
  BY DEF HostPacketOut
<1>2. /\ mux.chan \in Channels /\ mux.state = "None" /\ host \in Channel(HostState)
      /\ host.sending = "Failed" /\ Over(device[mux.chan])
  BY HasChannel DEF Inv, TypeOK, HostEnd, Errors
<1>3. /\ pkt \in Packet /\ pkt.chan = mux.chan /\ pkt.type = "ack"
      /\ host' \in Channel(HostState) /\ host'.state = "Failed" /\ host'.sending = "Failed"
  <2>1. /\ host.sending \notin Message /\ host.sending # "DeviceLocked"
        /\ host.sending # "ChannelAllocationResponse"
    BY <1>2 DEF Message, HandshakeMessage, AppMessage
  <2>2. PutsOut(HostState, mux.chan, host, pkt, host')
    BY <1>1, <1>2, PacketOutFacts
  <2> HIDE DEF pkt
  <2> QED
    BY <1>2, <2>1, <2>2 DEF PutsOut
<1> HIDE DEF pkt
<1>4. /\ link' \in [Peer -> Seq(Packet)] /\ link'["host"] = link["host"]
      /\ Range(link'["device"]) = Range(link["device"]) \cup {pkt}
  BY <1>1, <1>3, SendFacts DEF Inv, Peer
<1>5. TypeOK'
  BY <1>1, <1>3, <1>4 DEF Inv, TypeOK
<1>6. Routed' /\ Errors'
  BY <1>1, <1>2, <1>3, <1>4, ChannelFacts DEF Inv, Routed, Errors, Under, ToDevice
<1>7. Allocation'
  BY <1>1, <1>2, <1>3, <1>4, ChannelFacts
  DEF Inv, Allocation, Awaiting, AnswersLastRequest, Under
<1>8. Others'
  <2>1. \A c \in Channels : c # mux.chan /\ Unused(c) => Unused(c)'
    BY <1>1, <1>3, <1>4, Untouched DEF Peer
  <2> QED
    BY <1>1, <1>2, <2>1, NoHandshake DEF Others
<1>9. HostEnd(host)' /\ Talking'
  BY <1>3 DEF HostEnd, Talking, Started
<1> QED
  BY <1>5, <1>6, <1>7, <1>8, <1>9 DEF Inv

(* ChannelOpen::packet_out and Channel::packet_out of the host.            *)
LEMMA HostPacketOutInv ==
  ASSUME Inv, HostPacketOut
  PROVE  Inv'
<1>1. host.state # "None"
  BY DEF HostPacketOut, PacketOutReady, Sending, Inv, HostEnd, Message, HandshakeMessage, AppMessage
<1>2. host.state \in HostState
  BY DEF Inv, TypeOK, Channel
<1> QED
  BY <1>1, <1>2, HostStartsInv, HostSendsInv, FailedSendsInv DEF HostState, Started

(* The host goes on without sending anything.                              *)
LEMMA HostStays ==
  ASSUME Inv, TypeOK', host.state \in Started, Forward(host, host'), HostEnd(host'),
         Together(device[mux.chan], host'),
         UNCHANGED <<mux, device, outgoing, requests>>, \A p \in Peer : Fewer(p),
         host'.state \in Done => host.state \in Done
  PROVE  Inv'
<1>1. /\ Range(link'["device"]) \subseteq Range(link["device"])
      /\ Range(link'["host"]) \subseteq Range(link["host"])
  BY DEF Fewer, Peer
<1>2. \A pkt \in Range(link'["host"]) :
        pkt.chan = mux.chan /\ pkt.type = "InitiationResponse" => host'.state \notin Done
  BY <1>1 DEF Inv, Talking, Under, FromDevice, Done
<1>3. Ordered(link'["device"], mux.chan, "InitiationRequest", "CompletionRequest")
  BY DEF Inv, Talking, Fewer, Peer
<1> QED
  BY <1>1, <1>2, <1>3, HostMoves DEF Peer

(* A timer fires, or the application takes the channel over.               *)
LEMMA HostLocalInv ==
  ASSUME Inv, HostRetransmit \/ HostComplete
  PROVE  Inv'
<1>1. /\ UNCHANGED <<mux, device, outgoing, link, requests, faults>>
      /\ host \in Channel(HostState) /\ HostEnd(host)
      /\ link'["device"] = link["device"] /\ link'["host"] = link["host"]
  BY DEF HostRetransmit, HostComplete, Inv, TypeOK
<1>2. host.state \in Started
  BY <1>1 DEF HostRetransmit, HostComplete, HostEnd, Started, Sending, Message, HandshakeMessage,
    AppMessage, Channel, HostState
<1>3. /\ host' \in Channel(HostState)
      /\ host'.piggy = host.piggy /\ host'.canSend = host.canSend
      /\ host'.sendBit = host.sendBit /\ host'.recvBit = host.recvBit
      /\ host'.sendAck = host.sendAck /\ host'.sending = host.sending
      /\ host'.seq = host.seq /\ host'.ack = host.ack /\ host'.pairing = host.pairing
      /\ host'.state = host.state \/ (host.state = "Finished" /\ host'.state = "Open")
  <2>1. CASE HostRetransmit
    <3>1. host' = [host EXCEPT !.sent = FALSE]
      BY <2>1 DEF HostRetransmit, Retransmit
    <3> QED
      BY <1>1, <3>1 DEF Channel
  <2>2. CASE HostComplete
    <3>1. host.state = "Finished" /\ host' = [host EXCEPT !.state = "Open"]
      BY <2>2 DEF HostComplete
    <3> QED
      BY <1>1, <3>1 DEF Channel, HostState
  <2> QED
    BY <2>1, <2>2
<1>4. TypeOK'
  BY <1>1, <1>3 DEF Inv, TypeOK
<1>5. HostEnd(host')
  BY <1>1, <1>2, <1>3 DEF HostEnd, Started
<1>6. Forward(host, host') /\ Together(device[mux.chan], host')
  BY <1>2, <1>3 DEF Inv, Talking, Together, Forward, Requested, Started, Done
<1> QED
  BY <1>1, <1>2, <1>3, <1>4, <1>5, <1>6, SameLink, HostStays DEF Peer, Done

(* The first message of the application.                                   *)
LEMMA HostMessageInInv ==
  ASSUME Inv, HostMessageIn
  PROVE  Inv'
<1>1. /\ UNCHANGED <<mux, device, outgoing, link, requests, faults>>
      /\ host \in Channel(HostState) /\ HostEnd(host) /\ host.state = "Open"
      /\ host.piggy \in BOOLEAN /\ host.recvBit \in Bit
      /\ link'["device"] = link["device"] /\ link'["host"] = link["host"]
  BY DEF HostMessageIn, Inv, TypeOK, Channel
<1>2. PICK m \in FirstMessages[host.piggy] : host' = [RawIn(host, m, FALSE) EXCEPT !.got = TRUE]
  BY DEF HostMessageIn
<1>3. m \in AppMessage /\ m \in Message /\ (Polite /\ host.piggy => m # "short")
  BY <1>1, <1>2, HandshakeAssumption DEF AppMessage, Message, Polite
<1> DEFINE ack == IF host.piggy THEN 1 - host.recvBit ELSE 0
           r == Raw(host, m, ack)
<1>4. ack \in Bit
  BY <1>1, SMTT(30) DEF Bit
<1>5. host' = [r EXCEPT !.got = TRUE]
  BY <1>2, RawInFacts
<1> HIDE DEF ack
<1>6. /\ r \in Channel(HostState) /\ r.state = "Open" /\ r.piggy = host.piggy
      /\ r.canSend = host.canSend /\ r.sending = m /\ r.pairing = host.pairing
      /\ r.recvBit = host.recvBit
  BY <1>1, <1>3, <1>4, RawFacts, SMTT(30)
<1> HIDE DEF r
<1>7. /\ host' \in Channel(HostState) /\ host'.state = "Open" /\ host'.piggy = host.piggy
      /\ host'.canSend = host.canSend /\ host'.sending = m /\ host'.pairing = host.pairing
      /\ host'.recvBit = host.recvBit
  BY <1>5, <1>6 DEF Channel
<1>8. TypeOK'
  BY <1>1, <1>7 DEF Inv, TypeOK
<1>9. HostEnd(host')
  BY <1>1, <1>3, <1>7 DEF HostEnd
<1>10. m # "CompletionRequest"
  BY <1>3 DEF AppMessage
<1>11. Forward(host, host') /\ Together(device[mux.chan], host')
  BY <1>1, <1>7, <1>10 DEF Inv, Talking, Together, Forward, Requested, Started, Done
<1> QED
  BY <1>1, <1>7, <1>8, <1>9, <1>11, SameLink, HostStays DEF Peer, Done, Started

(* A transport error fails the handshake.                                  *)
LEMMA HostFailsInv ==
  ASSUME Inv, host.state \in Started, NEW pkt \in Range(link["host"]),
         pkt.chan = mux.chan, pkt.type \in TransportError, \A p \in Peer : Fewer(p),
         link' \in [Peer -> Seq(Packet)],
         host' = [BecomeFailed(host) EXCEPT !.state = "Failed"],
         UNCHANGED <<mux, device, outgoing, requests, faults>>
  PROVE  Inv'
<1>1. /\ Range(link'["device"]) \subseteq Range(link["device"])
      /\ Range(link'["host"]) \subseteq Range(link["host"])
  BY DEF Fewer, Peer
<1>2. /\ mux.chan \in Channels /\ mux.state = "None" /\ host \in Channel(HostState)
      /\ Over(device[mux.chan])
  BY HasChannel DEF Inv, TypeOK, Errors, Under
<1>3. host' \in Channel(HostState) /\ host'.state = "Failed" /\ host'.sending = "Failed"
  <2> DEFINE r == Stop(host, "Failed")
  <2>1. r \in Channel(HostState) /\ r.sending = "Failed"
    BY <1>2, StopFacts
  <2>2. host' = [r EXCEPT !.state = "Failed"]
    BY DEF BecomeFailed
  <2> HIDE DEF r
  <2> QED
    BY <2>1, <2>2 DEF Channel, HostState
<1>4. TypeOK'
  BY <1>3 DEF Inv, TypeOK
<1>5. Routed' /\ Errors'
  BY <1>1, <1>2, <1>3, ChannelFacts DEF Inv, Routed, Errors, Under
<1>6. Allocation'
  BY <1>1, <1>2, <1>3 DEF Inv, Allocation, Awaiting, AnswersLastRequest, Under
<1>7. Others'
  <2>1. \A c \in Channels : c # mux.chan /\ Unused(c) => Unused(c)'
    BY <1>1, Untouched DEF Peer
  <2> QED
    BY <1>2, <2>1, Elsewhere DEF Others
<1>8. HostEnd(host)' /\ Talking'
  BY <1>3 DEF HostEnd, Talking, Started
<1> QED
  BY <1>4, <1>5, <1>6, <1>7, <1>8 DEF Inv

(* The host h reads the initiation response.                               *)
LEMMA HostReadsInitiation ==
  ASSUME NEW h \in Channel(HostState), NEW pkt, h.state = "SendingInitiationRequest",
         HostEnd(h), pkt.type = "InitiationResponse", pkt.ack = 0, Accepts(h, pkt)
  PROVE  LET g == HostIncoming(Accepted(h, pkt), pkt)
         IN  /\ g \in Channel(HostState) /\ g.state = "SendingCompletionRequest"
             /\ g.piggy = h.piggy /\ HostEnd(g)
<1> DEFINE r == Accepted(h, pkt)
           ack == IF r.piggy THEN 1 - r.recvBit ELSE 0
           raw == Raw(r, "CompletionRequest", ack)
           g == [raw EXCEPT !.state = "SendingCompletionRequest"]
<1>1. /\ h.recvBit = 0
      /\ \/ h.sending = "InitiationRequest" /\ h.sendBit = 0 /\ ~h.canSend
         \/ h.sending = "Idle" /\ h.sendBit = 1 /\ h.canSend
      /\ Sending(h) => h.piggy
  BY DEF HostEnd, Accepts
<1>2. /\ Sending(h) <=> h.sending = "InitiationRequest"
      /\ "CompletionRequest" \in Message
  BY <1>1 DEF Sending, Message, HandshakeMessage, AppMessage
<1>3. /\ r \in Channel(HostState) /\ r.state = "SendingInitiationRequest" /\ r.piggy = h.piggy
      /\ r.recvBit = 1 /\ r.sendAck = 0 /\ r.sending = "Idle" /\ r.canSend /\ r.sendBit = 1
  <2>1. Acked(h, pkt) \/ (h.sending = "Idle" /\ h.sendBit = 1 /\ h.canSend)
    BY <1>1, <1>2 DEF Acked
  <2>2. Acked(h, pkt) => h.sendBit = 0
    BY <1>1, <1>2 DEF Acked
  <2> QED
    BY <1>1, <2>1, <2>2, AcceptedFacts, SMTT(30)
<1> HIDE DEF r
<1>4. HostIncoming(r, pkt) = g
  <2>1. HostIncoming(r, pkt) =
          [RawIn(r, "CompletionRequest", FALSE) EXCEPT !.state = "SendingCompletionRequest"]
    BY <1>3 DEF HostIncoming, CanStart
  <2> QED
    BY <2>1, RawInFacts
<1>5. ack = 0 /\ ack \in Bit
  BY <1>3, SMTT(30) DEF Bit
<1> HIDE DEF ack
<1>6. /\ raw \in Channel(HostState) /\ raw.piggy = h.piggy /\ raw.sendBit = 1 /\ raw.recvBit = 1
      /\ raw.sending = "CompletionRequest" /\ raw.seq = 1 /\ raw.ack = 0
      /\ raw.sendAck = (IF r.piggy THEN NoAck ELSE r.sendAck)
  BY <1>2, <1>3, <1>5, RawFacts, SMTT(30)
<1> HIDE DEF raw
<1>7. /\ g \in Channel(HostState) /\ g.piggy = h.piggy /\ g.sendBit = 1 /\ g.recvBit = 1
      /\ g.sending = "CompletionRequest" /\ g.seq = 1 /\ g.ack = 0
      /\ g.sendAck \in {NoAck, 0} /\ g.state = "SendingCompletionRequest"
  BY <1>3, <1>6, ZenonT(60) DEF Channel, HostState
<1> HIDE DEF g
<1>8. HostEnd(g)
  BY <1>7 DEF HostEnd
<1> QED
  BY <1>4, <1>7, <1>8 DEF r

(* The host h reads the completion response.                               *)
LEMMA HostReadsCompletion ==
  ASSUME NEW h \in Channel(HostState), NEW pkt \in Packet, h.state = "SendingCompletionRequest",
         HostEnd(h), Requested(h), pkt.type = "CompletionResponse", pkt.ack = Bit1If(h.piggy),
         Accepts(h, pkt), pkt.val \in Pairing \cup {Unpaired}
  PROVE  LET g == HostIncoming(Accepted(h, pkt), pkt)
         IN  /\ g \in Channel(HostState) /\ g.state = "Finished" /\ g.pairing = pkt.val
             /\ g.piggy = h.piggy /\ g.sending = "Idle" /\ HostEnd(g)
<1> DEFINE r == Accepted(h, pkt)
           g == [r EXCEPT !.state = "Finished", !.pairing = pkt.val]
<1>1. /\ h.recvBit = 1
      /\ \/ h.sending = "CompletionRequest" /\ h.sendBit = 1 /\ ~h.canSend
         \/ h.sending = "Idle"
      /\ Sending(h) => h.piggy
  BY DEF HostEnd, Accepts, Requested
<1>2. Sending(h) <=> h.sending = "CompletionRequest"
  BY <1>1 DEF Sending, Message, HandshakeMessage, AppMessage
<1>3. /\ r \in Channel(HostState) /\ r.state = "SendingCompletionRequest" /\ r.piggy = h.piggy
      /\ r.recvBit = 0 /\ r.sending = "Idle"
  <2>1. Acked(h, pkt) \/ h.sending = "Idle"
    BY <1>1, <1>2 DEF Acked, Bit1If
  <2> QED
    BY <1>1, <2>1, AcceptedFacts, SMTT(30)
<1> HIDE DEF r
<1>4. HostIncoming(r, pkt) = g
  BY <1>3 DEF HostIncoming
<1>5. /\ g \in Channel(HostState) /\ g.piggy = h.piggy /\ g.recvBit = 0
      /\ g.sending = "Idle" /\ g.state = "Finished" /\ g.pairing = pkt.val
  BY <1>3 DEF Channel, HostState
<1> HIDE DEF g
<1>6. HostEnd(g)
  BY <1>5 DEF HostEnd
<1> QED
  BY <1>4, <1>5, <1>6 DEF r

(* The host repeats an acknowledgement.                                    *)
LEMMA HostRepeats ==
  ASSUME NEW h \in Channel(HostState), NEW pkt \in Packet, NEW d, h.state \in Started,
         HostEnd(h), Together(d, h), FromDevice(pkt, d, h),
         pkt.type \in {"InitiationResponse", "CompletionResponse"}
  PROVE  LET g == NotAccepted(h, pkt)
         IN  /\ g \in Channel(HostState) /\ HostEnd(g) /\ Forward(h, g) /\ Together(d, g)
             /\ g.state = h.state
<1> DEFINE g == NotAccepted(h, pkt)
<1>1. /\ g \in Channel(HostState)
      /\ \/ g = h
         \/ /\ pkt.seq # h.recvBit /\ g.sendAck = pkt.seq
            /\ g.state = h.state /\ g.piggy = h.piggy /\ g.canSend = h.canSend
            /\ g.sendBit = h.sendBit /\ g.recvBit = h.recvBit
            /\ g.sending = h.sending /\ g.seq = h.seq /\ g.ack = h.ack /\ g.pairing = h.pairing
  BY NotAcceptedFacts, SMTT(30)
<1>2. h.state = "SendingInitiationRequest" => pkt.seq = h.recvBit
  BY DEF HostEnd, FromDevice, Together, Started
<1>3. pkt.seq \in {0, 1}
  BY DEF Packet, Bit
<1> HIDE DEF g
<1>4. HostEnd(g)
  BY <1>1, <1>2, <1>3, ZenonT(30) DEF HostEnd, Started
<1>5. Forward(h, g) /\ Together(d, g) /\ g.state = h.state
  BY <1>1 DEF Forward, Together, Requested
<1> QED
  BY <1>1, <1>4, <1>5 DEF g

(* The host handles an acknowledgement.                                    *)
LEMMA HostAcked ==
  ASSUME NEW h \in Channel(HostState), NEW pkt \in Packet, NEW d, h.state \in Started,
         HostEnd(h), Together(d, h)
  PROVE  LET g == HandleAck(h, pkt)
         IN  /\ g \in Channel(HostState) /\ HostEnd(g) /\ Forward(h, g) /\ Together(d, g)
             /\ g.state = h.state
<1> DEFINE g == HandleAck(h, pkt)
<1>1. /\ g \in Channel(HostState)
      /\ \/ g = h
         \/ /\ Sending(h) /\ g.sendBit = 1 - h.sendBit /\ g.recvBit = h.recvBit
            /\ g.state = h.state /\ g.piggy = h.piggy /\ g.canSend
            /\ g.sending = "Idle" /\ g.sendAck = h.sendAck /\ g.pairing = h.pairing
  BY HandleAckFacts, DeliveredFacts, SMTT(30)
<1> HIDE DEF g
<1>2. HostEnd(g)
  BY <1>1, SMTT(30) DEF HostEnd, Started, Sending, Message, HandshakeMessage, AppMessage
<1>3. Forward(h, g) /\ Together(d, g) /\ g.state = h.state
  BY <1>1 DEF Forward, Together, Requested
<1> QED
  BY <1>1, <1>2, <1>3 DEF g

(* ChannelOpen::packet_in and Channel::packet_in of the host.              *)
LEMMA HostPacketInInv ==
  ASSUME Inv, HostPacketIn
  PROVE  Inv'
<1> DEFINE pkt == Head(link["host"])
           c == mux.chan
           d == device[c]
<1>1. /\ link["host"] # <<>> /\ Receive("host") /\ pkt.type # "ChannelAllocationResponse"
      /\ UNCHANGED <<mux, device, outgoing, requests, faults>>
  BY DEF HostPacketIn
<1>2. /\ link' \in [Peer -> Seq(Packet)] /\ \A p \in Peer : Fewer(p)
      /\ pkt \in Range(link["host"]) /\ pkt \in Packet
      /\ \A x, a, b : Ordered(link["host"], x, a, b) /\ pkt.chan = x /\ pkt.type = b
                      => \A q \in Range(link["host"]) : ~(q.chan = x /\ q.type = a)
  BY <1>1, ReceiveFacts DEF Inv, Peer
<1>3. host' \in Channel(HostState) => TypeOK'
  BY <1>1, <1>2 DEF Inv, TypeOK
<1>4. CASE host.state \notin Started \/ pkt.chan # c
  <2>1. host.state \in HostState /\ host \in Channel(HostState)
    BY DEF Inv, TypeOK, Channel
  <2>2. host' = host
    BY <1>4, <2>1 DEF HostPacketIn, Started, HostState
  <2> QED
    BY <1>1, <1>2, <1>3, <2>1, <2>2, OnlyFewer
<1>5. CASE host.state \in Started /\ pkt.chan = c
  <2>1. /\ c \in Channels /\ host \in Channel(HostState) /\ HostEnd(host)
        /\ DeviceEnd(d, host) /\ Together(d, host) /\ FromDevice(pkt, d, host)
        /\ Ordered(link["host"], c, "InitiationResponse", "CompletionResponse")
        /\ d \in Channel(DeviceState)
    BY <1>2, <1>5, HasChannel DEF Inv, TypeOK, Talking, Under
  <2>2. pkt.type \in {"ack", "InitiationResponse", "CompletionResponse"} \cup TransportError
    BY <1>1, <1>2 DEF Inv, Routed, Under, ToHost
  <2>3. /\ pkt.type = "ack" => host' = HandleAck(host, pkt)
        /\ pkt.type \in TransportError => host' = [BecomeFailed(host) EXCEPT !.state = "Failed"]
        /\ pkt.type \in {"InitiationResponse", "CompletionResponse"} =>
             host' = IF Accepts(host, pkt) THEN HostIncoming(Accepted(host, pkt), pkt)
                     ELSE NotAccepted(host, pkt)
    <3>1. ~(host.state \in {"None", "Initial", "Failed"} \/ pkt.chan # mux.chan)
      BY <1>5 DEF Started
    <3>2. host' = CASE pkt.type = "ack" -> HandleAck(host, pkt)
                    [] pkt.type \in TransportError ->
                         [BecomeFailed(host) EXCEPT !.state = "Failed"]
                    [] pkt.type \in Message ->
                         IF Accepts(host, pkt) THEN HostIncoming(Accepted(host, pkt), pkt)
                         ELSE NotAccepted(host, pkt)
      BY <3>1 DEF HostPacketIn
    <3> HIDE DEF pkt
    <3>3. /\ "ack" \notin TransportError /\ "ack" \notin Message
          /\ \A t \in TransportError : t \notin Message
          /\ \A t \in {"InitiationResponse", "CompletionResponse"} :
               t \in Message /\ t \notin TransportError
      BY DEF TransportError, Message, HandshakeMessage, AppMessage
    <3> QED
      BY <3>2, <3>3
  <2> HIDE DEF pkt, c, d
  <2>4. CASE pkt.type = "ack"
    BY <1>1, <1>2, <1>3, <1>5, <2>1, <2>3, <2>4, HostAcked, HostStays DEF c, d
  <2>5. CASE pkt.type \in TransportError
    BY <1>1, <1>2, <1>5, <2>3, <2>5, HostFailsInv DEF c
  <2>6. CASE pkt.type \in {"InitiationResponse", "CompletionResponse"} /\ ~Accepts(host, pkt)
    BY <1>1, <1>2, <1>3, <1>5, <2>1, <2>3, <2>6, HostRepeats, HostStays DEF c, d
  <2>7. CASE pkt.type = "InitiationResponse" /\ Accepts(host, pkt)
    <3>1. host.state = "SendingInitiationRequest" /\ pkt.ack = 0
      BY <1>5, <2>1, <2>7, SMTT(30) DEF FromDevice, Accepts, HostEnd, Started
    <3>2. /\ host' \in Channel(HostState) /\ host'.state = "SendingCompletionRequest"
          /\ host'.piggy = host.piggy /\ HostEnd(host')
      BY <2>1, <2>3, <2>7, <3>1, HostReadsInitiation, ZenonT(30)
    <3>3. Forward(host, host') /\ Together(d, host')
      BY <2>1, <2>7, <3>1, <3>2 DEF Forward, Together, FromDevice, Started, Done
    <3> QED
      BY <1>1, <1>2, <1>3, <1>5, <3>2, <3>3, HostStays DEF c, d, Done
  <2>8. CASE pkt.type = "CompletionResponse" /\ Accepts(host, pkt)
    <3>1. host.state = "SendingCompletionRequest" /\ pkt.ack = Bit1If(host.piggy)
      BY <1>5, <2>1, <2>8, SMTT(30) DEF FromDevice, Accepts, HostEnd, Started
    <3>2. /\ Requested(host)
          /\ \/ d.state = "SendingCompletionResponse" /\ pkt.val = d.pairing
             \/ d.state = "Closed" /\ GaveUp(d)
      BY <2>1, <2>8, <3>1 DEF FromDevice, Together, DeviceEnd
    <3>3. pkt.val \in Pairing \cup {Unpaired}
      BY <2>1, <2>8 DEF FromDevice
    <3>4. /\ host' \in Channel(HostState) /\ host'.state = "Finished"
          /\ host'.pairing = pkt.val /\ host'.piggy = host.piggy /\ host'.sending = "Idle"
          /\ HostEnd(host')
      BY <1>2, <2>1, <2>3, <2>8, <3>1, <3>2, <3>3, HostReadsCompletion, ZenonT(30)
    <3>5. Forward(host, host') /\ Together(d, host')
      BY <3>1, <3>2, <3>4 DEF Forward, Together, Requested, Started, Done
    <3>6. \A q \in Range(link'["host"]) : ~(q.chan = c /\ q.type = "InitiationResponse")
      BY <1>2, <1>5, <2>1, <2>8 DEF Fewer, Peer
    <3>7. /\ Range(link'["device"]) \subseteq Range(link["device"]) /\ Fewer("host")
          /\ Ordered(link'["device"], c, "InitiationRequest", "CompletionRequest")
      BY <1>2, <1>5 DEF Inv, Talking, Fewer, Peer, c
    <3> QED
      BY <1>1, <1>3, <1>5, <3>4, <3>5, <3>6, <3>7, HostMoves DEF c, d
  <2> QED
    BY <2>2, <2>4, <2>5, <2>6, <2>7, <2>8
<1> QED
  BY <1>4, <1>5

-------------------------------------------------------------------------------
(***************************************************************************)
(* The device.                                                             *)
(***************************************************************************)

(* The device tells the host, or is about to, that a channel is closed.    *)
LEMMA AboutClosed ==
  ASSUME Inv, TypeOK', Fewer("device"), UNCHANGED <<mux, host, device, requests>>,
         \A c \in Range(outgoing') : Over(device[c]) /\ ~Withdrawn(c),
         \A pkt \in Range(link'["host"]) :
           \/ pkt \in Range(link["host"])
           \/ /\ pkt.type \in TransportError /\ pkt.chan \in Channels
              /\ Over(device[pkt.chan]) /\ ~Withdrawn(pkt.chan),
         Ordered(link["host"], mux.chan, "InitiationResponse", "CompletionResponse") =>
           Ordered(link'["host"], mux.chan, "InitiationResponse", "CompletionResponse")
  PROVE  Inv'
<1>1. Range(link'["device"]) \subseteq Range(link["device"])
  BY DEF Fewer
<1>2. \A c \in Channels : ~(Unused(c) /\ Over(device[c]))
  BY DEF Unused, New, Over
<1>3. \A c \in Channels : (Unused(c) => Unused(c)') /\ (Fresh(c) => Fresh(c)')
  <2>1. \A c \in Channels : Unused(c) => Unused(c)'
    BY <1>1, <1>2, Untouched DEF Peer
  <2>2. \A c \in Channels : Withdrawn(c) => Withdrawn(c)'
    <3> SUFFICES ASSUME NEW c \in Channels, Withdrawn(c)
                 PROVE  Withdrawn(c)'
      OBVIOUS
    <3>1. c \notin Range(outgoing') /\ device'[c] = device[c]
      OBVIOUS
    <3>2. \A pkt \in Range(link'["host"]) : pkt.chan = c => pkt \in Range(link["host"])
      OBVIOUS
    <3> QED
      BY <1>1, <3>1, <3>2 DEF Withdrawn, Under
  <2> QED
    BY <2>1, <2>2 DEF Fresh
<1>4. Routed'
  BY <1>1, ChannelFacts DEF Inv, Routed, Under
<1>5. Errors'
  BY DEF Inv, Errors, Under
<1>6. Allocation'
  <2>1. "ChannelAllocationResponse" \notin TransportError
    BY DEF TransportError
  <2>2. \A pkt \in Range(link["host"]) : pkt.chan \in Channels
    BY Flying DEF Inv
  <2>3. mux.chan \in Channels \cup {Broadcast}
    BY DEF Inv, TypeOK
  <2> QED
    BY <1>1, <1>3, <2>1, <2>2, <2>3
    DEF Inv, Allocation, Under, Awaiting, Awaited, AnswersLastRequest, OtherEnd
<1>7. Others'
  BY <1>3 DEF Inv, Others
<1>8. Talking'
  <2>1. \A pkt, d, h : pkt.type \in TransportError => FromDevice(pkt, d, h)
    BY DEF TransportError, FromDevice
  <2> QED
    BY <1>1, <2>1 DEF Inv, Talking, Under, Fewer
<1> QED
  BY <1>4, <1>5, <1>6, <1>7, <1>8 DEF Inv

(* The device offers a channel that it had not offered yet.                *)
Offers(c) ==
  Unused(c) /\ ~Offered(device[c]) /\ Unused(c)' /\ device'[c].nonce <= requests

(* It closes one for want of room or of an answer.                         *)
GivesUp(c) ==
  /\ Allocated(c) /\ Over(device'[c]) /\ GaveUp(device'[c])
  /\ device'[c].nonce = device[c].nonce

(* Channels are offered and given up, and no other one changes.            *)
LEMMA ChannelsMove ==
  ASSUME Inv, TypeOK',
         \A c \in Channels : device'[c] = device[c] \/ Offers(c) \/ GivesUp(c),
         UNCHANGED <<mux, host, outgoing, requests>>, Fewer("device"),
         \A pkt \in Range(link'["host"]) :
           \/ pkt \in Range(link["host"])
           \/ /\ pkt.chan \in Channels /\ Offers(pkt.chan)
              /\ pkt.type = "ChannelAllocationResponse" /\ pkt.val = device'[pkt.chan].nonce,
         Ordered(link["host"], mux.chan, "InitiationResponse", "CompletionResponse") =>
           Ordered(link'["host"], mux.chan, "InitiationResponse", "CompletionResponse")
  PROVE  Inv'
<1>1. Range(link'["device"]) \subseteq Range(link["device"])
  BY DEF Fewer
<1>2. ASSUME NEW c \in Channels, Offers(c)
      PROVE  /\ ~Over(device[c]) /\ device[c].state \in {"None", "SendingChannelResponse"}
             /\ \A pkt \in Range(link["host"]) : pkt.chan # c
  BY <1>2 DEF Offers, Unused, New, Over, Under
<1>3. ASSUME NEW c \in Channels, GivesUp(c)
      PROVE  /\ ~Over(device[c]) /\ c \notin Range(outgoing) /\ ~Offers(c)
             /\ device[c].state \notin {"None", "Closed"} /\ device'[c].state = "Closed"
  <2>1. /\ device[c].state \notin {"None", "Closed"} /\ ~Over(device[c])
        /\ device'[c].state = "Closed"
    BY <1>3 DEF GivesUp, Allocated, Over
  <2>2. ~Unused(c)'
    BY <2>1 DEF Unused, New
  <2> QED
    BY <2>1, <2>2 DEF Inv, Errors, Offers
<1>4. ASSUME NEW c \in Channels, ~Offers(c)
      PROVE  \A pkt \in Range(link'["host"]) : pkt.chan = c => pkt \in Range(link["host"])
  BY <1>4
<1>5. ASSUME NEW c \in Channels
      PROVE  /\ Over(device[c]) => device'[c] = device[c]
             /\ Unused(c) => Unused(c)' \/ Over(device'[c])
             /\ Fresh(c) => Fresh(c)'
             /\ device'[c].nonce <= requests
  <2>1. CASE Offers(c)
    <3>1. ~Withdrawn(c) /\ Unused(c)' /\ device'[c].nonce <= requests
      BY <1>2, <2>1 DEF Offers, Withdrawn
    <3> QED
      BY <1>2, <2>1, <3>1 DEF Fresh
  <2>2. CASE GivesUp(c)
    <3>1. Unused(c) => Withdrawn(c)'
      BY <1>1, <1>3, <1>4, <2>2 DEF GivesUp, Unused, Withdrawn, Under
    <3>2. ~Withdrawn(c)
      BY <1>3, <2>2 DEF Withdrawn
    <3>3. device'[c].nonce <= requests
      BY <2>2 DEF Inv, Allocation, GivesUp
    <3> QED
      BY <1>3, <2>2, <3>1, <3>2, <3>3 DEF Fresh, GivesUp
  <2>3. CASE device'[c] = device[c] /\ ~Offers(c)
    <3>1. \A p \in Peer : \A pkt \in Range(link'[p]) : pkt \in Range(link[p]) \/ pkt.chan # c
      BY <1>1, <1>4, <2>3 DEF Peer
    <3>2. device'[c].nonce <= requests
      BY <2>3 DEF Inv, Allocation
    <3> QED
      BY <2>3, <3>1, <3>2, Untouched
  <2> QED
    BY <2>1, <2>2, <2>3
<1>6. /\ \A pkt \in Range(link["host"]) : pkt.chan \in Channels
      /\ Range(outgoing) \subseteq Channels /\ mux.chan \in Channels \cup {Broadcast}
  BY Flying, SeqRange DEF Inv, TypeOK
<1>7. ASSUME mux.chan \in Channels, Offers(mux.chan)
      PROVE  host.state \notin Started \cup {"Initial", "Failed"} /\ mux.state # "ReceivedId"
  <2>1. host.state \notin Started
    BY <1>2, <1>7 DEF Inv, Talking, DeviceEnd, Together, Started, Offers
  <2>2. host.state \notin {"Initial", "Failed"} /\ mux.state # "ReceivedId"
    BY <1>2, <1>7 DEF Inv, Allocation, Errors, Offers
  <2> QED
    BY <2>1, <2>2
<1>8. Routed'
  BY <1>1, ChannelFacts DEF Inv, Routed, Under, ToHost
<1>9. Errors'
  <2>1. host.state = "Failed" => mux.chan # Broadcast /\ Over(device'[mux.chan])
    BY <1>5, <1>6 DEF Inv, Errors
  <2>2. \A c \in Range(outgoing) : Over(device'[c])
    BY <1>5, <1>6 DEF Inv, Errors
  <2>3. \A pkt \in Range(link'["host"]) : pkt.type \in TransportError => Over(device'[pkt.chan])
    BY <1>5, <1>6 DEF Inv, Errors, Under, TransportError
  <2> QED
    BY <2>1, <2>2, <2>3 DEF Errors, Under
<1>10. Allocation'
  <2>1. \A pkt \in Under("device")' : pkt.chan = Broadcast => pkt.val <= requests
    BY <1>1 DEF Inv, Allocation, Under
  <2>2. ASSUME NEW pkt \in Under("host")', pkt.type = "ChannelAllocationResponse"
        PROVE  pkt.val <= requests /\ (Awaiting /\ pkt.val = Awaited => Fresh(pkt.chan)')
    <3>1. CASE pkt \in Range(link["host"])
      BY <1>5, <1>6, <2>2, <3>1 DEF Inv, Allocation, Under
    <3>2. CASE pkt \notin Range(link["host"])
      BY <2>2, <3>2 DEF Under, Offers, Fresh
    <3> QED
      BY <3>1, <3>2
  <2>3. mux.state = "ReceivedId" \/ host.state = "Initial" =>
          /\ mux.chan # Broadcast /\ Fresh(mux.chan)'
          /\ Offered(device'[mux.chan]) \/ Over(device'[mux.chan])
    BY <1>5, <1>6, <1>7 DEF Inv, Allocation, GivesUp
  <2>4. AnswersLastRequest'
    BY <1>6, <1>7 DEF Inv, Allocation, AnswersLastRequest, OtherEnd, GivesUp
  <2> QED
    BY <1>5, <2>1, <2>2, <2>3, <2>4 DEF Inv, Allocation, Awaiting, Awaited
<1>11. Others'
  BY <1>5 DEF Inv, Others
<1>12. Talking'
  <2> SUFFICES ASSUME host.state \in Started
               PROVE  Talking'
    BY DEF Talking
  <2> DEFINE c == mux.chan
             d == device[c]
             e == device'[c]
  <2>1. /\ c \in Channels /\ DeviceEnd(d, host) /\ Together(d, host)
        /\ ~Offers(c)
        /\ \A pkt \in Range(link["device"]) : pkt.chan = c => FromHost(pkt, d, host)
        /\ \A pkt \in Range(link["host"]) : pkt.chan = c => FromDevice(pkt, d, host)
        /\ Ordered(link'["device"], c, "InitiationRequest", "CompletionRequest")
        /\ Ordered(link'["host"], c, "InitiationResponse", "CompletionResponse")
    BY <1>6, <1>7 DEF Inv, Talking, Under, Fewer
  <2>2. /\ DeviceEnd(e, host) /\ Together(e, host)
        /\ \A pkt : FromHost(pkt, d, host) => FromHost(pkt, e, host)
        /\ \A pkt : FromDevice(pkt, d, host) => FromDevice(pkt, e, host)
    <3>1. CASE e = d
      BY <2>1, <3>1
    <3>2. CASE GivesUp(c)
      <4>1. e.state = "Closed" /\ Over(e) /\ GaveUp(e) /\ d.state # "Closed"
        BY <1>3, <2>1, <3>2 DEF GivesUp
      <4> HIDE DEF c, d, e
      <4>2. DeviceEnd(e, host) /\ Together(e, host) /\ DeviceForward(d, e)
        BY <4>1 DEF DeviceEnd, Together, DeviceForward
      <4> QED
        BY <2>1, <4>1, <4>2, DeviceForwardFacts
    <3> QED
      BY <2>1, <3>1, <3>2
  <2>3. \A pkt \in Range(link'["host"]) : pkt.chan = c => FromDevice(pkt, e, host)
    BY <1>4, <2>1, <2>2
  <2>4. \A pkt \in Range(link'["device"]) : pkt.chan = c => FromHost(pkt, e, host)
    BY <1>1, <2>1, <2>2
  <2> QED
    BY <2>1, <2>2, <2>3, <2>4, ChannelFacts DEF Talking, Under
<1> QED
  BY <1>8, <1>9, <1>10, <1>11, <1>12 DEF Inv

(* A channel that is closed.                                               *)
LEMMA CloseFacts ==
  ASSUME NEW d \in Channel(DeviceState), NEW cause \in Cause
  PROVE  /\ Close(d, cause) \in Channel(DeviceState) /\ Close(d, cause).state = "Closed"
         /\ Close(d, cause).sending = "Idle" /\ Close(d, cause).cause = cause
         /\ Close(d, cause).nonce = d.nonce
<1>1. d.nonce \in Nonces
  BY DEF Channel
<1>2. Close(d, cause) \in Channel(DeviceState)
  BY <1>1, NoChannelFacts, ZenonT(60) DEF Channel, DeviceState, Close
<1> QED
  BY <1>2 DEF NoChannel, Close

(* A channel request opens a channel that was not in use.                  *)
LEMMA DeviceAllocInv ==
  ASSUME Inv, DeviceAlloc
  PROVE  Inv'
<1> DEFINE pkt == Head(link["device"])
           raw == RawIn(NoChannel, "ChannelAllocationResponse", FALSE)
           new == [raw EXCEPT !.state = "SendingChannelResponse", !.nonce = pkt.val]
<1>1. /\ link["device"] # <<>> /\ Receive("device") /\ pkt.type = "ChannelAllocationRequest"
      /\ UNCHANGED <<mux, host, outgoing, requests, faults>>
  BY DEF DeviceAlloc
<1>2. PICK c \in Channels :
        /\ device[c].state = "None"
        /\ device' = [d \in Channels |->
             CASE d = c -> new
               [] d # c /\ d \in NeedsClosing -> Close(device[d], "Evicted")
               [] d # c /\ d \notin NeedsClosing -> device[d]]
  BY DEF DeviceAlloc
<1>3. /\ link' \in [Peer -> Seq(Packet)] /\ \A p \in Peer : Fewer(p)
      /\ pkt \in Range(link["device"]) /\ pkt \in Packet /\ link'["host"] = link["host"]
  BY <1>1, ReceiveFacts DEF Inv, Peer
<1>4. pkt.val <= requests /\ pkt.val \in Nonces
  <2>1. pkt.chan = Broadcast
    BY <1>1, <1>3 DEF Inv, Routed, Under, ToDevice, AppMessage
  <2>2. pkt.val <= requests
    BY <1>3, <2>1 DEF Inv, Allocation, Under
  <2>3. pkt.val \in Nat
    <3>1. pkt.val \in Nonces \cup Pairing \cup {Unpaired}
      BY <1>3 DEF Packet
    <3>2. Nonces \subseteq Nat /\ Pairing \subseteq Nat /\ Unpaired \in Nat
      BY HandshakeAssumption, SMTT(30) DEF Nonces, Unpaired
    <3> QED
      BY <3>1, <3>2
  <2> QED
    BY <2>2, <2>3, NumberFacts, SMTT(30) DEF Inv, TypeOK, Nonces
<1>5. Unused(c) /\ ~Offered(device[c])
  <2>1. ~(c = mux.chan /\ host.state \in Started) /\ ~Over(device[c])
    BY <1>2 DEF Inv, Talking, Together, Started, Over
  <2> QED
    BY <1>2, <2>1 DEF Inv, Others, Offered
<1>6. /\ new \in Channel(DeviceState) /\ New(new) /\ new.nonce = pkt.val
  <2> DEFINE r == Raw(NoChannel, "ChannelAllocationResponse", 0)
  <2>1. NoChannel.piggy = FALSE
    BY DEF NoChannel
  <2>2. raw = r
    BY <2>1, RawInFacts
  <2>3. /\ r \in Channel(DeviceState) /\ r.canSend = NoChannel.canSend
        /\ r.sendBit = NoChannel.sendBit /\ r.recvBit = NoChannel.recvBit
        /\ r.sendAck = (IF NoChannel.piggy THEN NoAck ELSE NoChannel.sendAck)
        /\ r.piggy = NoChannel.piggy /\ r.sending = "ChannelAllocationResponse"
    BY RawFacts, NoChannelFacts, SMTT(30) DEF Bit
  <2> HIDE DEF r, raw
  <2>4. /\ r.canSend = TRUE /\ r.sendBit = 0 /\ r.recvBit = 0 /\ r.sendAck = NoAck
        /\ r.piggy = FALSE
    BY <2>1, <2>3 DEF NoChannel
  <2>5. new \in Channel(DeviceState)
    BY <1>4, <2>2, <2>3 DEF Channel, DeviceState
  <2>6. /\ new.canSend = r.canSend /\ new.sendBit = r.sendBit /\ new.recvBit = r.recvBit
        /\ new.sendAck = r.sendAck /\ new.piggy = r.piggy /\ new.sending = r.sending
        /\ new.state = "SendingChannelResponse" /\ new.nonce = pkt.val
    BY <2>2, <2>3 DEF Channel
  <2> HIDE DEF new
  <2> QED
    BY <2>3, <2>4, <2>5, <2>6 DEF New
<1> HIDE DEF new, pkt
<1>7. /\ device'[c] = new /\ device' \in [Channels -> Channel(DeviceState)]
      /\ \A x \in Channels : x # c => device'[x] = device[x] \/ GivesUp(x)
  <2>1. device'[c] = new
    BY <1>2
  <2>2. ASSUME NEW x \in Channels, x # c
        PROVE  device'[x] \in Channel(DeviceState) /\ (device'[x] = device[x] \/ GivesUp(x))
    <3>1. device[x] \in Channel(DeviceState) /\ "Evicted" \in Cause
      BY DEF Inv, TypeOK, Cause
    <3>2. CASE x \in NeedsClosing
      <4>1. device'[x] = Close(device[x], "Evicted") /\ Allocated(x)
        BY <1>2, <2>2, <3>2 DEF NeedsClosing, Opening
      <4>2. /\ device'[x] \in Channel(DeviceState) /\ device'[x].nonce = device[x].nonce
            /\ Over(device'[x]) /\ GaveUp(device'[x])
        <5> DEFINE e == Close(device[x], "Evicted")
        <5>1. /\ e \in Channel(DeviceState) /\ e.state = "Closed" /\ e.sending = "Idle"
              /\ e.cause = "Evicted" /\ e.nonce = device[x].nonce
          BY <3>1, CloseFacts
        <5>2. device'[x] = e
          BY <4>1
        <5> HIDE DEF e
        <5>3. Over(e) /\ GaveUp(e)
          BY <5>1 DEF Over, GaveUp
        <5> QED
          BY <5>1, <5>2, <5>3
      <4> QED
        BY <3>1, <4>1, <4>2 DEF GivesUp
    <3>3. CASE x \notin NeedsClosing
      <4>1. device'[x] = device[x]
        BY <1>2, <2>2, <3>3
      <4> QED
        BY <3>1, <4>1
    <3> QED
      BY <3>2, <3>3
  <2>3. device' = [x \in Channels |-> device'[x]]
    BY <1>2
  <2> QED
    BY <1>6, <2>1, <2>2, <2>3
<1>8. TypeOK'
  BY <1>1, <1>3, <1>7 DEF Inv, TypeOK
<1>9. /\ Range(link'["device"]) \subseteq Range(link["device"]) /\ Fewer("device")
  BY <1>3 DEF Fewer, Peer
<1>10. Unused(c)'
  BY <1>3, <1>5, <1>6, <1>7, <1>9 DEF Unused, Under
<1>11. \A x \in Channels : device'[x] = device[x] \/ Offers(x) \/ GivesUp(x)
  BY <1>4, <1>5, <1>6, <1>7, <1>10 DEF Offers
<1> QED
  BY <1>1, <1>3, <1>8, <1>9, <1>11, ChannelsMove

(* A packet for a closed channel.                                          *)
LEMMA DeviceUnallocatedInv ==
  ASSUME Inv, DeviceUnallocated
  PROVE  Inv'
<1> DEFINE pkt == Head(link["device"])
           c == pkt.chan
<1>1. /\ link["device"] # <<>> /\ Receive("device") /\ c # Broadcast /\ ~Allocated(c)
      /\ outgoing' = IF Len(outgoing) < QueueLen THEN Append(outgoing, c) ELSE outgoing
      /\ UNCHANGED <<mux, host, device, requests, faults>>
  BY DEF DeviceUnallocated
<1>2. /\ link' \in [Peer -> Seq(Packet)] /\ \A p \in Peer : Fewer(p)
      /\ pkt \in Range(link["device"]) /\ pkt \in Packet /\ link'["host"] = link["host"]
  BY <1>1, ReceiveFacts DEF Inv, Peer
<1>3. c \in Channels
  BY <1>1, <1>2 DEF Packet
<1>4. Over(device[c]) /\ ~Withdrawn(c)
  <2>1. ~Unused(c) /\ ~Withdrawn(c)
    BY <1>2 DEF Unused, Withdrawn, Under
  <2>2. device[c].state \in {"None", "Closed"}
    BY <1>1 DEF Allocated
  <2>3. c = mux.chan /\ host.state \in Started => Over(device[c])
    BY <2>2 DEF Inv, Talking, Together, DeviceEnd, Started
  <2> QED
    BY <1>3, <2>1, <2>3 DEF Inv, Others
<1> HIDE DEF c, pkt
<1>5. outgoing' \in Seq(Channels) /\ Len(outgoing') <= QueueLen
  <2>1. outgoing \in Seq(Channels) /\ Len(outgoing) \in Nat /\ Len(outgoing) <= QueueLen
    BY SMTT(30) DEF Inv, TypeOK
  <2> QED
    BY <1>1, <1>3, <2>1, SeqAppend, NumberFacts, SMTT(30)
<1>6. \A x \in Range(outgoing') : x \in Range(outgoing) \/ x = c
  <2>1. Append(outgoing, c) \in Seq(Channels) /\ Len(Append(outgoing, c)) = Len(outgoing) + 1
        /\ \A i \in 1..Len(outgoing) : Append(outgoing, c)[i] = outgoing[i]
        /\ Append(outgoing, c)[Len(outgoing) + 1] = c
        /\ outgoing \in Seq(Channels)
    BY <1>3, SeqAppend, SMTT(30) DEF Inv, TypeOK
  <2>2. \A x \in Range(Append(outgoing, c)) : x \in Range(outgoing) \/ x = c
    BY <2>1, SeqType, SMTT(30) DEF Range
  <2> QED
    BY <1>1, <2>2
<1>7. \A x \in Range(outgoing') : Over(device[x]) /\ ~Withdrawn(x)
  BY <1>4, <1>6 DEF Inv, Errors, Withdrawn
<1>8. TypeOK'
  BY <1>1, <1>2, <1>5 DEF Inv, TypeOK
<1> QED
  BY <1>1, <1>2, <1>7, <1>8, AboutClosed DEF Peer

(* The device says that a channel is not allocated.                        *)
LEMMA DeviceMuxOutInv ==
  ASSUME Inv, DeviceMuxOut
  PROVE  Inv'
<1> DEFINE pkt == [type |-> "UnallocatedChannel", chan |-> Head(outgoing),
                   seq |-> 0, ack |-> 0, val |-> 0]
<1>1. /\ outgoing # <<>> /\ Send("host", pkt) /\ outgoing' = Tail(outgoing)
      /\ UNCHANGED <<mux, host, device, requests, faults>>
  BY DEF DeviceMuxOut
<1>2. /\ Head(outgoing) \in Channels /\ Tail(outgoing) \in Seq(Channels)
      /\ Len(Tail(outgoing)) = Len(outgoing) - 1
      /\ Head(outgoing) = outgoing[1] /\ 1 \in DOMAIN outgoing
      /\ \A i \in 1..Len(Tail(outgoing)) : Tail(outgoing)[i] = outgoing[i + 1]
      /\ outgoing \in Seq(Channels) /\ Len(outgoing) \in Nat
  BY <1>1, SeqTail, SeqEmpty, SeqType, SMTT(30) DEF Inv, TypeOK
<1>3. Head(outgoing) \in Range(outgoing) /\ Range(outgoing') \subseteq Range(outgoing)
  BY <1>1, <1>2, SeqType, SMTT(30) DEF Range
<1>4. /\ Over(device[Head(outgoing)]) /\ ~Withdrawn(Head(outgoing))
      /\ \A x \in Range(outgoing') : Over(device[x]) /\ ~Withdrawn(x)
  BY <1>3 DEF Inv, Errors, Withdrawn
<1>5. pkt \in Packet /\ pkt.type = "UnallocatedChannel" /\ pkt.chan = Head(outgoing)
  BY <1>2, HandshakeAssumption, SMTT(30) DEF Packet, Bit, Nonces, TransportError
<1> HIDE DEF pkt
<1>6. /\ link' \in [Peer -> Seq(Packet)] /\ link'["device"] = link["device"]
      /\ Range(link'["host"]) = Range(link["host"]) \cup {pkt}
      /\ \A x, a, b : /\ Ordered(link["host"], x, a, b) /\ a # b
                      /\ pkt.chan = x /\ pkt.type = a =>
                           \A q \in Range(link["host"]) : ~(q.chan = x /\ q.type = b)
                      => Ordered(link'["host"], x, a, b)
  BY <1>1, <1>5, SendFacts DEF Inv, Peer
<1>7. Ordered(link["host"], mux.chan, "InitiationResponse", "CompletionResponse") =>
        Ordered(link'["host"], mux.chan, "InitiationResponse", "CompletionResponse")
  BY <1>5, <1>6
<1>8. TypeOK'
  BY <1>1, <1>2, <1>6, NumberFacts, SMTT(30) DEF Inv, TypeOK
<1> QED
  BY <1>1, <1>2, <1>4, <1>5, <1>6, <1>7, <1>8, SameLink, AboutClosed DEF TransportError

(* The device's end d of a handshake with h becomes e.                     *)
DeviceGoesOn(d, e, h) ==
  /\ e \in Channel(DeviceState) /\ e.nonce = d.nonce
  /\ DeviceForward(d, e) /\ DeviceEnd(e, h) /\ Together(e, h)

(* The device handles an acknowledgement.                                  *)
LEMMA DeviceAcked ==
  ASSUME NEW d \in Channel(DeviceState), NEW h, NEW pkt, h.state \in Started,
         d.state # "Closed", DeviceEnd(d, h), Together(d, h), FromHost(pkt, d, h),
         pkt.type = "ack"
  PROVE  /\ d.state = "Open" => HandleAck(d, pkt) = d
         /\ DeviceGoesOn(d, CompleteIfDone(HandleAck(d, pkt)), h)
         /\ CompleteIfDone(HandleAck(d, pkt)).state \in {"SendingCompletionResponse", "Open"} =>
              d.state \in {"SendingCompletionResponse", "Open"}
<1> DEFINE r == HandleAck(d, pkt)
<1>1. /\ r \in Channel(DeviceState)
      /\ \/ r = d
         \/ /\ Sending(d) /\ pkt.ack = d.sendBit /\ r.recvBit = d.recvBit
            /\ r.sendBit = 1 - d.sendBit /\ r.state = d.state /\ r.piggy = d.piggy /\ r.canSend
            /\ r.sending = "Idle" /\ r.pairing = d.pairing /\ r.nonce = d.nonce
  BY HandleAckFacts, DeliveredFacts, SMTT(30)
<1>2. /\ h.state # "SendingInitiationRequest" /\ (pkt.ack = 1 => h.state \in Done)
      /\ d.state \in {"SendingInitiationResponse", "SendingCompletionResponse", "Open"}
  BY DEF FromHost, Together, Started, Done
<1>3. d.state = "Open" => r = d
  BY <1>1 DEF DeviceEnd, Sending, Message, HandshakeMessage, AppMessage
<1> HIDE DEF r
<1>4. CASE r = d
  <2>1. CompleteIfDone(r) = d
    BY <1>4 DEF CompleteIfDone, HandshakeDone, DeviceEnd
  <2> QED
    BY <1>3, <2>1 DEF DeviceGoesOn, DeviceForward, r
<1>5. CASE r # d /\ d.state = "SendingInitiationResponse"
  <2>1. CompleteIfDone(r) = r /\ r.state = "SendingInitiationResponse"
    BY <1>1, <1>5 DEF CompleteIfDone, HandshakeDone
  <2>2. r.sendBit = 1
    BY <1>1, <1>5, SMTT(30) DEF DeviceEnd, Sending, Message, HandshakeMessage, AppMessage
  <2>3. DeviceForward(d, r) /\ DeviceEnd(r, h) /\ Together(r, h)
    BY <1>1, <1>2, <1>5, <2>1, <2>2 DEF DeviceForward, DeviceEnd, Together, Answered, Started
  <2> QED
    BY <1>1, <1>5, <2>1, <2>3 DEF DeviceGoesOn, r
<1>6. CASE r # d /\ d.state = "SendingCompletionResponse"
  <2> DEFINE e == [r EXCEPT !.state = "Open"]
  <2>1. CompleteIfDone(r) = e /\ h.state \in Done
    BY <1>1, <1>2, <1>6 DEF CompleteIfDone, HandshakeDone, DeviceEnd
  <2>2. /\ e \in Channel(DeviceState) /\ e.state = "Open" /\ e.sending = "Idle"
        /\ e.piggy = d.piggy /\ e.pairing = d.pairing /\ e.nonce = d.nonce
    BY <1>1, <1>6 DEF Channel, DeviceState
  <2> HIDE DEF e
  <2>3. DeviceForward(d, e) /\ DeviceEnd(e, h) /\ Together(e, h)
    BY <1>6, <2>1, <2>2 DEF DeviceForward, DeviceEnd, Together, Done
  <2> QED
    BY <1>6, <2>1, <2>2, <2>3 DEF DeviceGoesOn, r
<1> QED
  BY <1>2, <1>3, <1>4, <1>5, <1>6

(* The device repeats an acknowledgement.                                  *)
LEMMA DeviceRepeats ==
  ASSUME NEW d \in Channel(DeviceState), NEW h, NEW pkt \in Packet, h.state \in Started,
         d.state \notin {"Closed", "SendingChannelResponse"}, DeviceEnd(d, h), Together(d, h)
  PROVE  LET e == NotAccepted(d, pkt)
         IN  DeviceGoesOn(d, e, h) /\ e.state = d.state /\ CompleteIfDone(e) = e
<1> DEFINE e == NotAccepted(d, pkt)
<1>1. /\ e \in Channel(DeviceState)
      /\ \/ e = d
         \/ /\ e.state = d.state /\ e.piggy = d.piggy /\ e.canSend = d.canSend
            /\ e.sendBit = d.sendBit /\ e.recvBit = d.recvBit
            /\ e.sending = d.sending /\ e.seq = d.seq /\ e.ack = d.ack
            /\ e.nonce = d.nonce /\ e.pairing = d.pairing /\ e.cause = d.cause
  BY NotAcceptedFacts, SMTT(30)
<1> HIDE DEF e
<1>2. DeviceForward(d, e) /\ e.state = d.state /\ e.nonce = d.nonce
  BY <1>1 DEF DeviceForward, Answered
<1>3. DeviceEnd(e, h)
  BY <1>1 DEF DeviceEnd
<1>4. Together(e, h)
  BY <1>1 DEF Together, Answered
<1>5. CompleteIfDone(e) = e
  BY <1>3 DEF CompleteIfDone, HandshakeDone, DeviceEnd
<1> QED
  BY <1>1, <1>2, <1>3, <1>4, <1>5 DEF DeviceGoesOn, e

(* The device reads the initiation request.                                *)
LEMMA DeviceReadsInitiation ==
  ASSUME NEW d \in Channel(DeviceState), NEW h \in Channel(HostState), NEW pkt, NEW ps,
         h.state = "SendingInitiationRequest", d.state = "SendingChannelResponse", Offered(d),
         pkt.type = "InitiationRequest", pkt.ack = Bit1If(h.piggy)
  PROVE  LET e == DeviceIncoming(Accepted(d, pkt), pkt, ps)
         IN  DeviceGoesOn(d, e, h) /\ e.state = "StaticKeyRequired"
<1> DEFINE r == Accepted(d, pkt)
           e == [r EXCEPT !.state = "StaticKeyRequired", !.piggy = EnablePiggybacking(r, pkt)]
<1>1. ~Acked(d, pkt)
  BY DEF Acked, Sending, Offered, Message, HandshakeMessage, AppMessage
<1>2. /\ r \in Channel(DeviceState) /\ r.state = "SendingChannelResponse" /\ r.piggy = d.piggy
      /\ r.recvBit = 1 /\ r.sending = "Idle" /\ r.canSend = d.canSend /\ r.sendBit = 0
      /\ r.nonce = d.nonce
  <2>1. d.sending = "Idle" /\ d.sendBit = 0 /\ d.recvBit = 0
    BY DEF Offered, New
  <2> QED
    BY <1>1, <2>1, AcceptedFacts, SMTT(30)
<1>3. d.canSend /\ ~d.piggy /\ d.canSend \in BOOLEAN /\ d.piggy \in BOOLEAN /\ h.piggy \in BOOLEAN
  BY DEF Offered, New, Channel
<1> HIDE DEF r
<1>4. EnablePiggybacking(r, pkt) = h.piggy
  BY <1>2, <1>3, SMTT(30) DEF EnablePiggybacking, Bit1If
<1>5. DeviceIncoming(r, pkt, ps) = e
  BY <1>2 DEF DeviceIncoming
<1>6. e = [r EXCEPT !.state = "StaticKeyRequired", !.piggy = h.piggy]
  BY <1>4
<1> HIDE DEF e
<1>7. /\ e \in Channel(DeviceState) /\ e.state = "StaticKeyRequired" /\ e.piggy = h.piggy
      /\ e.recvBit = 1 /\ e.sending = "Idle" /\ e.canSend = d.canSend /\ e.sendBit = 0
      /\ e.nonce = d.nonce
  BY <1>2, <1>3, <1>6 DEF Channel, DeviceState
<1>8. DeviceForward(d, e) /\ DeviceEnd(e, h) /\ Together(e, h)
  BY <1>3, <1>7 DEF DeviceForward, DeviceEnd, Together
<1> QED
  BY <1>5, <1>7, <1>8 DEF DeviceGoesOn, r

(* The device reads the completion request.                                *)
LEMMA DeviceReadsCompletion ==
  ASSUME NEW d \in Channel(DeviceState), NEW h \in Channel(HostState), NEW pkt, NEW ps \in Pairing,
         h.state = "SendingCompletionRequest", d.state = "SendingInitiationResponse",
         DeviceEnd(d, h), Together(d, h), Requested(h), Accepts(d, pkt),
         pkt.type = "CompletionRequest", pkt.ack = 0
  PROVE  LET e == DeviceIncoming(Accepted(d, pkt), pkt, ps)
         IN  DeviceGoesOn(d, e, h) /\ e.state = "SendingCompletionResponse" /\ e.sending # "Idle"
<1> DEFINE r == Accepted(d, pkt)
           ack == IF r.piggy THEN 1 - r.recvBit ELSE 0
           raw == Raw(r, "CompletionResponse", ack)
           e == [raw EXCEPT !.state = "SendingCompletionResponse", !.pairing = ps]
<1>1. /\ Sending(d) => d.piggy
      /\ d.recvBit = 1 /\ d.piggy = h.piggy /\ Answered(d)
      /\ \/ d.sending = "InitiationResponse" /\ d.sendBit = 0
         \/ d.sending = "Idle" /\ d.sendBit = 1 /\ d.canSend
  BY DEF Accepts, DeviceEnd, Together
<1>2. /\ Sending(d) <=> d.sending = "InitiationResponse"
      /\ "CompletionResponse" \in Message
  BY <1>1 DEF Sending, Message, HandshakeMessage, AppMessage
<1>3. /\ r \in Channel(DeviceState) /\ r.state = "SendingInitiationResponse" /\ r.piggy = h.piggy
      /\ r.recvBit = 0 /\ r.sending = "Idle" /\ r.canSend /\ r.sendBit = 1 /\ r.nonce = d.nonce
  <2>1. Acked(d, pkt) \/ (d.sending = "Idle" /\ d.sendBit = 1 /\ d.canSend)
    BY <1>1, <1>2 DEF Acked, Answered
  <2>2. Acked(d, pkt) => d.sendBit = 0
    BY <1>1, <1>2 DEF Acked
  <2> QED
    BY <1>1, <2>1, <2>2, AcceptedFacts, SMTT(30)
<1> HIDE DEF r
<1>4. DeviceIncoming(r, pkt, ps) = e
  <2>1. DeviceIncoming(r, pkt, ps) =
          [RawIn(r, "CompletionResponse", FALSE) EXCEPT !.state = "SendingCompletionResponse",
                                                       !.pairing = ps]
    BY <1>3 DEF DeviceIncoming, CanStart
  <2> QED
    BY <2>1, RawInFacts, ZenonT(30)
<1>5. ack = Bit1If(h.piggy) /\ ack \in Bit
  BY <1>3, SMTT(30) DEF Bit, Bit1If
<1> HIDE DEF ack
<1>6. /\ raw \in Channel(DeviceState) /\ raw.piggy = h.piggy /\ raw.sendBit = 1
      /\ raw.recvBit = 0 /\ raw.sending = "CompletionResponse" /\ raw.seq = 1
      /\ raw.ack = ack /\ raw.nonce = d.nonce
  BY <1>2, <1>3, <1>5, RawFacts, SMTT(30)
<1> HIDE DEF raw
<1>7. /\ e \in Channel(DeviceState) /\ e.piggy = h.piggy /\ e.sendBit = 1 /\ e.recvBit = 0
      /\ e.sending = "CompletionResponse" /\ e.seq = 1 /\ e.ack = Bit1If(h.piggy)
      /\ e.nonce = d.nonce /\ e.state = "SendingCompletionResponse"
  BY <1>5, <1>6, ZenonT(30) DEF Channel, DeviceState
<1> HIDE DEF e
<1>8. DeviceForward(d, e) /\ DeviceEnd(e, h) /\ Together(e, h)
  BY <1>7 DEF DeviceForward, DeviceEnd, Together
<1> QED
  BY <1>4, <1>7, <1>8 DEF DeviceGoesOn, r

(* The device reads an application message before the handshake is over.   *)
LEMMA DeviceReadsEarly ==
  ASSUME NEW d \in Channel(DeviceState), NEW h, NEW pkt, NEW ps,
         h.state \in Done, d.state = "SendingCompletionResponse", DeviceEnd(d, h), Together(d, h),
         Accepts(d, pkt), pkt.type = "short", FromHost(pkt, d, h)
  PROVE  LET e == DeviceIncoming(Accepted(d, pkt), pkt, ps)
         IN  DeviceGoesOn(d, e, h) /\ e.state = "Closed"
<1> DEFINE r == Accepted(d, pkt)
           e == Fail(r)
<1>1. d.piggy /\ h.piggy = d.piggy
  BY DEF Accepts, DeviceEnd, Sending, Message, HandshakeMessage
<1>2. ~Polite
  BY <1>1 DEF FromHost, AppMessage
<1>3. r \in Channel(DeviceState) /\ r.state = "SendingCompletionResponse" /\ r.nonce = d.nonce
  BY AcceptedFacts, SMTT(30)
<1> HIDE DEF r
<1>4. DeviceIncoming(r, pkt, ps) = e
  BY <1>3 DEF DeviceIncoming
<1>5. /\ e \in Channel(DeviceState) /\ e.state = "Closed" /\ e.sending = "Idle"
      /\ e.nonce = d.nonce
  <2> DEFINE cause == IF r.cause = "Locked" THEN "Locked" ELSE "Failed"
  <2>1. cause \in Cause /\ e = Close(r, cause)
    BY DEF Fail, Cause
  <2> HIDE DEF cause, e
  <2> QED
    BY <1>3, <2>1, CloseFacts
<1> HIDE DEF e
<1>6. DeviceForward(d, e) /\ DeviceEnd(e, h) /\ Together(e, h)
  BY <1>2, <1>5 DEF DeviceForward, DeviceEnd, Together, Over, Done
<1> QED
  BY <1>4, <1>5, <1>6 DEF DeviceGoesOn, r

(* The device reads a message on a channel that the application has.       *)
LEMMA DeviceReadsOpen ==
  ASSUME NEW d \in Channel(DeviceState), NEW h, NEW pkt, h.state \in Started,
         d.state = "Open", DeviceEnd(d, h), Together(d, h)
  PROVE  LET e == [Accepted(d, pkt) EXCEPT !.got = TRUE]
         IN  DeviceGoesOn(d, e, h) /\ e.state = "Open"
<1> DEFINE r == Accepted(d, pkt)
           e == [r EXCEPT !.got = TRUE]
<1>1. d.sending = "Idle" /\ ~Acked(d, pkt)
  BY DEF DeviceEnd, Acked, Sending, Message, HandshakeMessage, AppMessage
<1>2. /\ r \in Channel(DeviceState) /\ r.state = "Open" /\ r.piggy = d.piggy
      /\ r.sending = "Idle" /\ r.pairing = d.pairing /\ r.nonce = d.nonce
  BY <1>1, AcceptedFacts, SMTT(30)
<1> HIDE DEF r
<1>3. /\ e \in Channel(DeviceState) /\ e.state = "Open" /\ e.piggy = d.piggy
      /\ e.sending = "Idle" /\ e.pairing = d.pairing /\ e.nonce = d.nonce
  BY <1>2 DEF Channel
<1> HIDE DEF e
<1>4. DeviceForward(d, e) /\ DeviceEnd(e, h) /\ Together(e, h)
  BY <1>3 DEF DeviceForward, DeviceEnd, Together
<1> QED
  BY <1>3, <1>4 DEF DeviceGoesOn, e, r

(* What the device makes of a packet of the host.                          *)
LEMMA DeviceReads ==
  ASSUME NEW d \in Channel(DeviceState), NEW h \in Channel(HostState), NEW pkt \in Packet,
         NEW ps \in Pairing, h.state \in Started, d.state # "Closed",
         DeviceEnd(d, h), Together(d, h), FromHost(pkt, d, h), pkt.type \in ToDevice
  PROVE  LET e == IF d.state # "Open" THEN CompleteIfDone(DeviceHandshakeIn(d, pkt, ps))
                  ELSE DeviceChannelIn(d, pkt)
         IN  /\ DeviceGoesOn(d, e, h)
             /\ e.state \in {"SendingCompletionResponse", "Open"} =>
                  \/ d.state \in {"SendingCompletionResponse", "Open"}
                  \/ pkt.type = "CompletionRequest"
<1>1. d.state \in {"SendingChannelResponse", "StaticKeyRequired", "SendingInitiationResponse",
                   "SendingCompletionResponse", "SendingDeviceLocked", "Open"}
  BY DEF Together, Started
<1>2. ~IsFailed(d)
  BY <1>1 DEF IsFailed, DeviceEnd, Offered
<1>3. CASE pkt.type = "ack"
  <2>1. /\ DeviceHandshakeIn(d, pkt, ps) = HandleAck(d, pkt)
        /\ DeviceChannelIn(d, pkt) = HandleAck(d, pkt)
    BY <1>2, <1>3 DEF DeviceHandshakeIn, DeviceChannelIn, Message, HandshakeMessage, AppMessage
  <2>2. d.state = "Open" => HandleAck(d, pkt) = CompleteIfDone(HandleAck(d, pkt))
    BY <1>3, DeviceAcked DEF CompleteIfDone, HandshakeDone
  <2> QED
    BY <1>3, <2>1, <2>2, DeviceAcked
<1>4. CASE pkt.type # "ack"
  <2>1. pkt.type \in Message /\ pkt.type \in {"InitiationRequest", "CompletionRequest", "short", "long"}
    BY <1>4 DEF ToDevice, Message, HandshakeMessage, AppMessage
  <2>2. /\ DeviceHandshakeIn(d, pkt, ps) =
             IF ~Accepts(d, pkt) THEN NotAccepted(d, pkt)
             ELSE IF pkt.type = "long" THEN d
             ELSE DeviceIncoming(Accepted(d, pkt), pkt, ps)
        /\ DeviceChannelIn(d, pkt) =
             IF Accepts(d, pkt) THEN [Accepted(d, pkt) EXCEPT !.got = TRUE]
             ELSE NotAccepted(d, pkt)
    BY <1>2, <1>4, <2>1 DEF DeviceHandshakeIn, DeviceChannelIn
  <2>3. CASE d.state = "SendingChannelResponse"
    <3>1. h.state = "SendingInitiationRequest" /\ Offered(d)
      BY <2>3 DEF Together, DeviceEnd, Started
    <3>2. pkt.type = "InitiationRequest" /\ pkt.seq = 0 /\ pkt.ack = Bit1If(h.piggy)
      BY <2>1, <3>1 DEF FromHost, AppMessage
    <3>3. Accepts(d, pkt)
      BY <3>1, <3>2 DEF Accepts, Offered, New, Sending, Message, HandshakeMessage, AppMessage
    <3> DEFINE e == DeviceIncoming(Accepted(d, pkt), pkt, ps)
    <3>4. DeviceGoesOn(d, e, h) /\ e.state = "StaticKeyRequired"
      BY <2>3, <3>1, <3>2, DeviceReadsInitiation
    <3>5. DeviceHandshakeIn(d, pkt, ps) = e
      BY <2>2, <3>2, <3>3
    <3>6. CompleteIfDone(e) = e
      BY <3>4 DEF CompleteIfDone, HandshakeDone
    <3> HIDE DEF e
    <3> QED
      BY <2>3, <3>4, <3>5, <3>6
  <2>4. CASE d.state # "SendingChannelResponse" /\ ~Accepts(d, pkt)
    BY <2>2, <2>4, DeviceRepeats, ZenonT(30)
  <2>5. CASE d.state = "Open" /\ Accepts(d, pkt)
    BY <2>2, <2>5, DeviceReadsOpen, SMTT(30)
  <2>6. CASE /\ d.state \in {"StaticKeyRequired", "SendingDeviceLocked"}
             /\ Accepts(d, pkt)
    <3>1. h.state = "SendingInitiationRequest" /\ d.recvBit = 1
      BY <2>6 DEF Together, DeviceEnd, Started
    <3>2. pkt.seq = 0
      BY <2>1, <3>1 DEF FromHost, AppMessage
    <3> QED
      BY <2>6, <3>1, <3>2, SMTT(30) DEF Accepts
  <2>7. CASE d.state = "SendingInitiationResponse" /\ Accepts(d, pkt)
    <3>1. d.recvBit = 1 /\ pkt.seq = 1 /\ h.state \notin Done
      BY <2>7 DEF DeviceEnd, Accepts, Together, Done
    <3>2. /\ pkt.type = "CompletionRequest" /\ h.state = "SendingCompletionRequest"
          /\ Requested(h) /\ pkt.ack = 0
      BY <2>1, <3>1, SMTT(30) DEF FromHost, AppMessage, Done, Started
    <3> DEFINE e == DeviceIncoming(Accepted(d, pkt), pkt, ps)
    <3>3. DeviceGoesOn(d, e, h) /\ e.state = "SendingCompletionResponse" /\ e.sending # "Idle"
      BY <2>7, <3>2, DeviceReadsCompletion
    <3>4. DeviceHandshakeIn(d, pkt, ps) = e
      BY <2>2, <2>7, <3>2
    <3>5. CompleteIfDone(e) = e
      BY <3>3 DEF CompleteIfDone, HandshakeDone
    <3> HIDE DEF e
    <3> QED
      BY <2>7, <3>2, <3>3, <3>4, <3>5
  <2>8. CASE d.state = "SendingCompletionResponse" /\ Accepts(d, pkt)
    <3>1. d.recvBit = 0 /\ pkt.seq = 0 /\ d.sending # "Idle"
      BY <2>8 DEF DeviceEnd, Accepts
    <3>2. pkt.type \in AppMessage /\ h.state \in Done
      BY <2>1, <2>8, <3>1, SMTT(30) DEF FromHost, AppMessage, Done
    <3>3. CASE pkt.type = "long"
      <4>1. DeviceHandshakeIn(d, pkt, ps) = d /\ CompleteIfDone(d) = d
        BY <2>2, <2>8, <3>1, <3>3 DEF CompleteIfDone, HandshakeDone
      <4> QED
        BY <2>8, <4>1 DEF DeviceGoesOn, DeviceForward
    <3>4. CASE pkt.type = "short"
      <4> DEFINE e == DeviceIncoming(Accepted(d, pkt), pkt, ps)
      <4>1. DeviceGoesOn(d, e, h) /\ e.state = "Closed"
        BY <2>8, <3>2, <3>4, DeviceReadsEarly
      <4>2. DeviceHandshakeIn(d, pkt, ps) = e /\ CompleteIfDone(e) = e
        BY <2>2, <2>8, <3>4, <4>1 DEF CompleteIfDone, HandshakeDone
      <4> HIDE DEF e
      <4> QED
        BY <2>8, <4>1, <4>2
    <3> QED
      BY <3>2, <3>3, <3>4 DEF AppMessage
  <2> QED
    BY <1>1, <2>3, <2>4, <2>5, <2>6, <2>7, <2>8
<1> QED
  BY <1>3, <1>4

(* A channel that is neither unused nor closed is the one being opened.    *)
LEMMA OnlyOne ==
  ASSUME Inv, NEW c \in Channels, ~Unused(c), device[c].state # "Closed"
  PROVE  c = mux.chan /\ host.state \in Started
BY DEF Inv, Others, Over

(* ChannelOpen::packet_in and Channel::packet_in of the device.            *)
LEMMA DevicePacketInInv ==
  ASSUME Inv, DevicePacketIn
  PROVE  Inv'
<1> DEFINE pkt == Head(link["device"])
           c == pkt.chan
           d == device[c]
<1>1. /\ link["device"] # <<>> /\ Receive("device") /\ c # Broadcast /\ Allocated(c)
      /\ UNCHANGED <<mux, host, outgoing, requests, faults>>
  BY DEF DevicePacketIn
<1>2. /\ link' \in [Peer -> Seq(Packet)] /\ \A p \in Peer : Fewer(p)
      /\ pkt \in Range(link["device"]) /\ pkt \in Packet /\ link'["host"] = link["host"]
      /\ \A x, a, b : Ordered(link["device"], x, a, b) /\ pkt.chan = x /\ pkt.type = b
                      => \A q \in Range(link["device"]) : ~(q.chan = x /\ q.type = a)
  BY <1>1, ReceiveFacts DEF Inv, Peer
<1>3. /\ c \in Channels /\ d.state # "Closed" /\ d.state # "None"
      /\ Opening(c) <=> d.state # "Open"
  BY <1>1, <1>2 DEF Packet, Allocated, Opening
<1>4. c = mux.chan /\ host.state \in Started
  <2>1. ~Unused(c)
    BY <1>2 DEF Unused, Under
  <2> QED
    BY <1>3, <2>1, OnlyOne
<1>5. /\ host \in Channel(HostState) /\ d \in Channel(DeviceState)
      /\ device \in [Channels -> Channel(DeviceState)]
      /\ DeviceEnd(d, host) /\ Together(d, host) /\ FromHost(pkt, d, host)
      /\ pkt.type \in ToDevice
      /\ Ordered(link["device"], c, "InitiationRequest", "CompletionRequest")
      /\ Ordered(link["host"], c, "InitiationResponse", "CompletionResponse")
      /\ \A q \in Range(link["device"]) : q.chan = c => FromHost(q, d, host)
      /\ d.nonce <= requests /\ requests \in Nat
  <2>1. /\ host \in Channel(HostState) /\ device \in [Channels -> Channel(DeviceState)]
        /\ requests \in Nat
    BY SMTT(30) DEF Inv, TypeOK
  <2>2. d \in Channel(DeviceState) /\ d.nonce <= requests
    BY <1>3, <2>1 DEF Inv, Allocation
  <2>3. /\ DeviceEnd(d, host) /\ Together(d, host)
        /\ Ordered(link["device"], c, "InitiationRequest", "CompletionRequest")
        /\ Ordered(link["host"], c, "InitiationResponse", "CompletionResponse")
        /\ \A q \in Range(link["device"]) : q.chan = c => FromHost(q, d, host)
    BY <1>3, <1>4 DEF Inv, Talking, Under
  <2>4. pkt.type \in ToDevice
    BY <1>1, <1>2 DEF Inv, Routed, Under
  <2> QED
    BY <1>2, <2>1, <2>2, <2>3, <2>4
<1>6. PICK ps \in Pairing :
        device' = [device EXCEPT ![c] =
          IF d.state # "Open" THEN CompleteIfDone(DeviceHandshakeIn(d, pkt, ps))
          ELSE DeviceChannelIn(d, pkt)]
  BY <1>3 DEF DevicePacketIn
<1> DEFINE e == IF d.state # "Open" THEN CompleteIfDone(DeviceHandshakeIn(d, pkt, ps))
                ELSE DeviceChannelIn(d, pkt)
<1>7. /\ DeviceGoesOn(d, e, host)
      /\ e.state \in {"SendingCompletionResponse", "Open"} =>
           \/ d.state \in {"SendingCompletionResponse", "Open"}
           \/ pkt.type = "CompletionRequest"
  BY <1>2, <1>3, <1>4, <1>5, DeviceReads
<1>8. device' = [device EXCEPT ![c] = e]
  BY <1>6
<1> HIDE DEF e, d, c, pkt
<1>9. /\ device'[c] = e /\ device' \in [Channels -> Channel(DeviceState)]
      /\ \A x \in Channels : x # c => device'[x] = device[x]
  BY <1>3, <1>5, <1>7, <1>8 DEF DeviceGoesOn
<1>10. TypeOK'
  BY <1>1, <1>2, <1>9 DEF Inv, TypeOK
<1>11. \A q \in Range(link'["device"]) :
         q.chan = c /\ q.type = "InitiationRequest" =>
           e.state \notin {"SendingCompletionResponse", "Open"}
  <2>1. ASSUME NEW q \in Range(link["device"]), q.chan = c, q.type = "InitiationRequest"
        PROVE  /\ d.state \notin {"SendingCompletionResponse", "Open"}
               /\ pkt.type # "CompletionRequest"
    BY <1>2, <1>5, <2>1 DEF FromHost, c
  <2> QED
    BY <1>2, <1>7, <2>1 DEF Fewer, Peer
<1>12. e.nonce <= requests
  BY <1>5, <1>7, SMTT(30) DEF DeviceGoesOn
<1> QED
  BY <1>1, <1>2, <1>3, <1>4, <1>5, <1>7, <1>9, <1>10, <1>11, <1>12, DeviceMoves
  DEF DeviceGoesOn, Peer, d

(* The device goes on with a handshake, and sends nothing.                 *)
LEMMA DeviceStays ==
  ASSUME Inv, host.state \in Started, device[mux.chan].state # "Closed",
         NEW e, DeviceGoesOn(device[mux.chan], e, host),
         device' = [device EXCEPT ![mux.chan] = e],
         UNCHANGED <<mux, host, outgoing, link, requests, faults>>,
         e.state \in {"SendingCompletionResponse", "Open"} =>
           device[mux.chan].state \in {"SendingCompletionResponse", "Open"}
  PROVE  Inv'
<1>1. /\ mux.chan \in Channels /\ device \in [Channels -> Channel(DeviceState)]
      /\ device[mux.chan].nonce <= requests /\ requests \in Nat
      /\ link'["device"] = link["device"] /\ link'["host"] = link["host"]
      /\ Ordered(link["host"], mux.chan, "InitiationResponse", "CompletionResponse")
  <2>1. mux.chan \in Channels /\ link' = link
    BY HasChannel
  <2>2. device \in [Channels -> Channel(DeviceState)] /\ requests \in Nat
    BY SMTT(30) DEF Inv, TypeOK
  <2>3. device[mux.chan].nonce <= requests
    BY <2>1 DEF Inv, Allocation
  <2>4. Ordered(link["host"], mux.chan, "InitiationResponse", "CompletionResponse")
    BY DEF Inv, Talking
  <2> QED
    BY <2>1, <2>2, <2>3, <2>4
<1>2. /\ device'[mux.chan] = e /\ device' \in [Channels -> Channel(DeviceState)]
      /\ \A x \in Channels : x # mux.chan => device'[x] = device[x]
  BY <1>1 DEF DeviceGoesOn
<1>3. TypeOK'
  BY <1>2 DEF Inv, TypeOK
<1>4. \A q \in Range(link'["device"]) :
        q.chan = mux.chan /\ q.type = "InitiationRequest" =>
          e.state \notin {"SendingCompletionResponse", "Open"}
  BY <1>1 DEF Inv, Talking, Under, FromHost
<1>5. e.nonce <= requests
  BY <1>1, SMTT(30) DEF DeviceGoesOn
<1> QED
  BY <1>1, <1>2, <1>3, <1>4, <1>5, SameLink, DeviceMoves DEF DeviceGoesOn

(* A timer of the device fires: it gives up, or sends the message again.   *)
LEMMA DeviceRetransmitInv ==
  ASSUME Inv, NEW c \in Channels, DeviceRetransmit(c)
  PROVE  Inv'
<1> DEFINE d == device[c]
           n == d.retry + 1
           e == IF n > MaxRetry THEN Close(d, "Exhausted") ELSE [d EXCEPT !.sent = FALSE, !.retry = n]
<1>1. /\ Sending(d) /\ UNCHANGED <<mux, host, outgoing, link, requests, faults>>
      /\ d \in Channel(DeviceState) /\ device \in [Channels -> Channel(DeviceState)]
      /\ link'["device"] = link["device"] /\ link'["host"] = link["host"]
  BY DEF DeviceRetransmit, Inv, TypeOK
<1>2. device' = [device EXCEPT ![c] = e]
  <2>1. [Retransmit(d) EXCEPT !.retry = n] = [d EXCEPT !.sent = FALSE, !.retry = n]
    BY <1>1, SMTT(30) DEF Retransmit, Channel
  <2>2. device' = [device EXCEPT ![c] =
          IF n > MaxRetry THEN Close(d, "Exhausted") ELSE [Retransmit(d) EXCEPT !.retry = n]]
    BY DEF DeviceRetransmit
  <2> QED
    BY <2>1, <2>2
<1>3. d.sending # "Idle" /\ d.state \notin {"None", "Closed"}
  <2>1. d.sending # "Idle"
    BY <1>1 DEF Sending, Message, HandshakeMessage, AppMessage
  <2>2. Unused(c) \/ Over(d) \/ (c = mux.chan /\ host.state \in Started)
    BY DEF Inv, Others
  <2> QED
    BY <2>1, <2>2 DEF Unused, New, Over, Inv, Talking, DeviceEnd, Together, Started
<1>4. CASE n > MaxRetry
  <2>1. /\ e \in Channel(DeviceState) /\ GaveUp(e) /\ Over(e) /\ e.nonce = d.nonce
    BY <1>1, <1>4, CloseFacts DEF GaveUp, Over, Cause
  <2> HIDE DEF e, n
  <2>2. /\ device'[c] = e /\ device' \in [Channels -> Channel(DeviceState)]
        /\ \A x \in Channels : x # c => device'[x] = device[x]
    BY <1>1, <1>2, <2>1
  <2>3. TypeOK'
    BY <1>1, <2>2 DEF Inv, TypeOK
  <2>4. \A x \in Channels : device'[x] = device[x] \/ Offers(x) \/ GivesUp(x)
    BY <1>3, <2>1, <2>2 DEF GivesUp, Allocated
  <2> QED
    BY <1>1, <2>3, <2>4, SameLink, ChannelsMove
<1>5. CASE ~(n > MaxRetry)
  <2>1. n \in 0..MaxRetry
    <3>1. d.retry \in 0..MaxRetry
      BY <1>1 DEF Channel
    <3> QED
      BY <1>5, <3>1, NoRetry, SMTT(30)
  <2>2. e = [d EXCEPT !.sent = FALSE, !.retry = n]
    BY <1>5
  <2> HIDE DEF e, n
  <2>3. /\ e \in Channel(DeviceState)
        /\ e.state = d.state /\ e.piggy = d.piggy /\ e.canSend = d.canSend
        /\ e.sendBit = d.sendBit /\ e.recvBit = d.recvBit /\ e.sendAck = d.sendAck
        /\ e.sending = d.sending /\ e.seq = d.seq /\ e.ack = d.ack
        /\ e.nonce = d.nonce /\ e.pairing = d.pairing /\ e.cause = d.cause
    BY <1>1, <2>1, <2>2 DEF Channel
  <2>4. /\ device'[c] = e /\ device' \in [Channels -> Channel(DeviceState)]
        /\ \A x \in Channels : x # c => device'[x] = device[x]
    BY <1>1, <1>2, <2>3
  <2>5. CASE Unused(c)
    <3>1. ~Offered(d)
      BY <1>3 DEF Offered
    <3>2. Unused(c)'
      BY <1>1, <2>3, <2>4, <2>5, <3>1 DEF Unused, New, Under
    <3>3. TypeOK'
      BY <1>1, <2>4 DEF Inv, TypeOK
    <3>4. e.nonce <= requests
      BY <2>3 DEF Inv, Allocation
    <3>5. \A x \in Channels : device'[x] = device[x] \/ Offers(x) \/ GivesUp(x)
      BY <2>4, <2>5, <3>1, <3>2, <3>4 DEF Offers
    <3> QED
      BY <1>1, <3>3, <3>5, SameLink, ChannelsMove
  <2>6. CASE ~Unused(c)
    <3>1. c = mux.chan /\ host.state \in Started
      BY <1>3, <2>6, OnlyOne
    <3>2. DeviceEnd(d, host) /\ Together(d, host)
      BY <3>1 DEF Inv, Talking
    <3>3. d.state # "SendingChannelResponse"
      BY <1>3, <3>2 DEF DeviceEnd, Offered
    <3> HIDE DEF d
    <3>4. DeviceForward(d, e)
      BY <2>3 DEF DeviceForward, Answered
    <3>5. DeviceEnd(e, host)
      BY <1>3, <2>3, <3>2, <3>3 DEF DeviceEnd
    <3>6. Together(e, host)
      BY <1>3, <2>3, <3>2 DEF Together, Answered
    <3> QED
      BY <1>1, <1>2, <1>3, <2>3, <3>1, <3>4, <3>5, <3>6, DeviceStays DEF DeviceGoesOn, d
  <2> QED
    BY <2>5, <2>6
<1> QED
  BY <1>4, <1>5

(* Only the channel that the host is opening waits for the static key.     *)
LEMMA WaitsForKey ==
  ASSUME Inv, KeyRequired # {}
  PROVE  /\ KeyRequired = {mux.chan} /\ mux.chan \in Channels
         /\ device[mux.chan].state = "StaticKeyRequired"
         /\ device[mux.chan] \in Channel(DeviceState)
         /\ host.state = "SendingInitiationRequest" /\ DeviceEnd(device[mux.chan], host)
<1>1. \A c \in KeyRequired : ~Unused(c) /\ device[c].state = "StaticKeyRequired"
  BY DEF KeyRequired, Unused, New
<1>2. \A c \in KeyRequired : c = mux.chan /\ host.state \in Started
  BY <1>1, OnlyOne DEF KeyRequired
<1>3. KeyRequired = {mux.chan} /\ mux.chan \in Channels
  BY <1>2 DEF KeyRequired
<1> QED
  BY <1>1, <1>2, <1>3 DEF Inv, TypeOK, Talking, Together, Started

(* handshake_static_key.                                                   *)
LEMMA HandshakeStaticKeyInv ==
  ASSUME Inv, HandshakeStaticKey
  PROVE  Inv'
<1> DEFINE c == mux.chan
           d == device[c]
           ack == IF d.piggy THEN 1 - d.recvBit ELSE 0
           raw == Raw(d, "InitiationResponse", ack)
           e == [raw EXCEPT !.state = "SendingInitiationResponse"]
<1>1. /\ KeyRequired = {c} /\ c \in Channels /\ d.state = "StaticKeyRequired"
      /\ d \in Channel(DeviceState) /\ host.state = "SendingInitiationRequest"
      /\ DeviceEnd(d, host)
      /\ UNCHANGED <<mux, host, outgoing, link, requests, faults>>
      /\ device' = [x \in Channels |->
                     IF x \in KeyRequired THEN SetStaticKey(device[x]) ELSE device[x]]
      /\ device \in [Channels -> Channel(DeviceState)]
  BY WaitsForKey DEF HandshakeStaticKey, Inv, TypeOK
<1>2. /\ d.sending = "Idle" /\ d.canSend /\ d.sendBit = 0 /\ d.recvBit = 1
      /\ d.piggy = host.piggy /\ "InitiationResponse" \in Message
  BY <1>1 DEF DeviceEnd, Message, HandshakeMessage
<1> HIDE DEF d
<1>3. SetStaticKey(d) = e
  <2>1. SetStaticKey(d) =
          [RawIn(d, "InitiationResponse", FALSE) EXCEPT !.state = "SendingInitiationResponse"]
    BY <1>2 DEF SetStaticKey, CanStart
  <2> QED
    BY <2>1, RawInFacts
<1>4. ack = 0 /\ ack \in Bit
  BY <1>2, SMTT(30) DEF Bit
<1> HIDE DEF ack
<1>5. /\ raw \in Channel(DeviceState) /\ raw.piggy = host.piggy /\ raw.sendBit = 0
      /\ raw.recvBit = 1 /\ raw.sending = "InitiationResponse" /\ raw.seq = 0
      /\ raw.ack = 0 /\ raw.nonce = d.nonce
  BY <1>1, <1>2, <1>4, RawFacts, SMTT(30)
<1> HIDE DEF raw
<1>6. /\ e \in Channel(DeviceState) /\ e.piggy = host.piggy /\ e.sendBit = 0 /\ e.recvBit = 1
      /\ e.sending = "InitiationResponse" /\ e.seq = 0 /\ e.ack = 0
      /\ e.nonce = d.nonce /\ e.state = "SendingInitiationResponse"
  BY <1>5 DEF Channel, DeviceState
<1> HIDE DEF e
<1>7. DeviceForward(d, e) /\ DeviceEnd(e, host) /\ Together(e, host)
  BY <1>1, <1>6 DEF DeviceForward, DeviceEnd, Together
<1>8. device' = [device EXCEPT ![c] = e]
  BY <1>1, <1>3 DEF d
<1> QED
  BY <1>1, <1>6, <1>7, <1>8, DeviceStays DEF DeviceGoesOn, d, Started

(* send_device_locked.                                                     *)
LEMMA SendDeviceLockedInv ==
  ASSUME Inv, SendDeviceLocked
  PROVE  Inv'
<1> DEFINE c == mux.chan
           d == device[c]
           e == [d EXCEPT !.state = "SendingDeviceLocked", !.sending = "DeviceLocked",
                          !.cause = "Locked"]
<1>1. /\ KeyRequired = {c} /\ c \in Channels /\ d.state = "StaticKeyRequired"
      /\ d \in Channel(DeviceState) /\ host.state = "SendingInitiationRequest"
      /\ DeviceEnd(d, host)
      /\ UNCHANGED <<mux, host, outgoing, link, requests, faults>>
      /\ device' = [x \in Channels |->
           IF x \in KeyRequired
           THEN [device[x] EXCEPT !.state = "SendingDeviceLocked", !.sending = "DeviceLocked",
                                  !.cause = "Locked"]
           ELSE device[x]]
      /\ device \in [Channels -> Channel(DeviceState)]
  BY WaitsForKey DEF SendDeviceLocked, Inv, TypeOK
<1>2. device' = [device EXCEPT ![c] = e]
  BY <1>1
<1> HIDE DEF d
<1>3. /\ e \in Channel(DeviceState) /\ e.recvBit = d.recvBit /\ e.sending = "DeviceLocked"
      /\ e.cause = "Locked" /\ e.nonce = d.nonce /\ e.state = "SendingDeviceLocked"
  BY <1>1 DEF Channel, DeviceState, Cause
<1> HIDE DEF e
<1>4. DeviceForward(d, e) /\ DeviceEnd(e, host) /\ Together(e, host)
  BY <1>1, <1>3 DEF DeviceForward, DeviceEnd, Together
<1> QED
  BY <1>1, <1>2, <1>3, <1>4, DeviceStays DEF DeviceGoesOn, d, Started

(* The device offers a channel it has just allocated.                      *)
LEMMA DeviceOffersInv ==
  ASSUME Inv, NEW c \in Channels, DevicePacketOut(c), Unused(c)
  PROVE  Inv'
<1> DEFINE d == device[c]
           e == AfterPacketOut(d)
           pkt == NextPacket(c, d)
<1>1. /\ Allocated(c) /\ PacketOutReady(d) /\ Send("host", pkt)
      /\ device' = [device EXCEPT ![c] = IF IsFailed(e) THEN Fail(d) ELSE e]
      /\ UNCHANGED <<mux, host, outgoing, requests, faults>>
      /\ d \in Channel(DeviceState) /\ device \in [Channels -> Channel(DeviceState)]
  BY DEF DevicePacketOut, Inv, TypeOK
<1>2. /\ New(d) /\ d.state = "SendingChannelResponse" /\ d.sendAck = NoAck
      /\ d.sending = "ChannelAllocationResponse"
  <2>1. New(d) /\ d.state # "None"
    BY <1>1 DEF Unused, Allocated
  <2>2. d.sending # "Idle"
    BY <1>1, <2>1 DEF PacketOutReady, Sending, New, Message, HandshakeMessage, AppMessage
  <2> QED
    BY <2>1, <2>2 DEF New
<1>3. /\ pkt \in Packet /\ pkt.chan = c /\ e \in Channel(DeviceState)
      /\ pkt.type = "ChannelAllocationResponse" /\ pkt.val = d.nonce
      /\ e.state = d.state /\ e.piggy = d.piggy /\ e.sendBit = d.sendBit
      /\ e.recvBit = d.recvBit /\ e.nonce = d.nonce /\ e.sendAck = NoAck
      /\ e.canSend = d.canSend /\ e.sending = "Idle"
  <2>1. PutsOut(DeviceState, c, d, pkt, e)
    BY <1>1, PacketOutFacts
  <2>2. d.sending \notin Message /\ d.sending # "DeviceLocked"
    BY <1>2 DEF Message, HandshakeMessage, AppMessage
  <2> HIDE DEF pkt, e, d
  <2> QED
    BY <1>2, <2>1, <2>2 DEF PutsOut
<1> HIDE DEF pkt, e
<1>4. /\ device'[c] = e /\ device' \in [Channels -> Channel(DeviceState)]
      /\ \A x \in Channels : x # c => device'[x] = device[x]
  BY <1>1, <1>3 DEF IsFailed
<1>5. /\ link' \in [Peer -> Seq(Packet)] /\ link'["device"] = link["device"]
      /\ Range(link'["host"]) = Range(link["host"]) \cup {pkt}
      /\ \A x, a, b : /\ Ordered(link["host"], x, a, b) /\ a # b
                      /\ pkt.chan = x /\ pkt.type = a =>
                           \A q \in Range(link["host"]) : ~(q.chan = x /\ q.type = b)
                      => Ordered(link'["host"], x, a, b)
  BY <1>1, <1>3, SendFacts DEF Inv, Peer
<1>6. TypeOK'
  BY <1>1, <1>4, <1>5 DEF Inv, TypeOK
<1>7. ~Offered(d)
  BY <1>2 DEF Offered
<1>8. Offered(e)
  BY <1>2, <1>3 DEF Offered, New
<1>9. Unused(c)'
  <2>1. \A q \in Range(link["host"]) : q.chan # c
    BY <1>7 DEF Unused, Under
  <2> QED
    BY <1>3, <1>4, <1>5, <1>8, <2>1 DEF Unused, Under, Offered
<1>10. e.nonce <= requests
  BY <1>3 DEF Inv, Allocation
<1>11. Ordered(link["host"], mux.chan, "InitiationResponse", "CompletionResponse") =>
         Ordered(link'["host"], mux.chan, "InitiationResponse", "CompletionResponse")
  BY <1>3, <1>5
<1>12. Offers(c)
  BY <1>4, <1>7, <1>9, <1>10 DEF Offers
<1>13. /\ Fewer("device") /\ \A x \in Channels : device'[x] = device[x] \/ Offers(x)
       /\ \A q \in Range(link'["host"]) :
            \/ q \in Range(link["host"])
            \/ /\ q.chan \in Channels /\ Offers(q.chan)
               /\ q.type = "ChannelAllocationResponse" /\ q.val = device'[q.chan].nonce
  BY <1>3, <1>4, <1>5, <1>12, SameLink
<1> QED
  BY <1>1, <1>6, <1>11, <1>13, ChannelsMove

(* The device's end d of a handshake with h sends a packet.                *)
LEMMA DeviceSends ==
  ASSUME NEW c \in Channels, NEW d \in Channel(DeviceState), NEW h, h.state \in Started,
         d.state # "Closed", DeviceEnd(d, h), Together(d, h), PacketOutReady(d)
  PROVE  LET pkt == NextPacket(c, d)
             e == IF IsFailed(AfterPacketOut(d)) THEN Fail(d) ELSE AfterPacketOut(d)
         IN  /\ pkt \in Packet /\ pkt.chan = c
             /\ pkt.type \in (ToHost \ {"ChannelAllocationResponse"}) \cup {"DeviceLocked"}
             /\ DeviceGoesOn(d, e, h) /\ FromDevice(pkt, e, h)
             /\ pkt.type = "DeviceLocked" => Over(e)
             /\ pkt.type = "InitiationResponse" => d.state = "SendingInitiationResponse"
             /\ e.state \in {"SendingCompletionResponse", "Open"} => d.state = e.state
<1> DEFINE pkt == NextPacket(c, d)
           r == AfterPacketOut(d)
           e == IF IsFailed(r) THEN Fail(d) ELSE r
<1>1. d.state \in {"SendingChannelResponse", "StaticKeyRequired", "SendingInitiationResponse",
                   "SendingCompletionResponse", "SendingDeviceLocked", "Open"}
  BY DEF Together, Started
<1>2. /\ d.sending \in {"Idle", "DeviceLocked", "InitiationResponse", "CompletionResponse"}
      /\ d.sending = "DeviceLocked" => d.state = "SendingDeviceLocked"
      /\ d.sending = "InitiationResponse" => d.state = "SendingInitiationResponse"
      /\ d.sending = "CompletionResponse" => d.state = "SendingCompletionResponse"
      /\ d.state = "SendingChannelResponse" => d.sending = "Idle" /\ d.sendAck = NoAck
  BY <1>1 DEF DeviceEnd, Offered, New
<1>3. /\ pkt \in Packet /\ pkt.chan = c /\ r \in Channel(DeviceState)
      /\ r.state = d.state /\ r.piggy = d.piggy /\ r.sendBit = d.sendBit
      /\ r.recvBit = d.recvBit /\ r.nonce = d.nonce /\ r.pairing = d.pairing
      /\ r.cause = d.cause
      /\ \/ /\ d.sendAck # NoAck /\ pkt.type = "ack"
            /\ r.sending = d.sending /\ r.canSend = d.canSend /\ r.seq = d.seq /\ r.ack = d.ack
         \/ pkt.type = "DeviceLocked" /\ d.sending = "DeviceLocked" /\ r.sending = "Failed"
         \/ /\ pkt.type \in Message /\ pkt.type = d.sending /\ pkt.seq = d.seq
            /\ pkt.ack = d.ack /\ pkt.val = d.pairing /\ r.sending = d.sending
            /\ r.seq = d.seq /\ r.ack = d.ack /\ ~r.canSend
  <2>1. PutsOut(DeviceState, c, d, pkt, r)
    BY PacketOutFacts
  <2>2. d.sending # "ChannelAllocationResponse"
    BY <1>2
  <2> HIDE DEF pkt, r
  <2> QED
    BY <2>1, <2>2 DEF PutsOut
<1> HIDE DEF pkt, r
<1>4. d.state # "SendingChannelResponse"
  BY <1>2, <1>3 DEF Message, HandshakeMessage, AppMessage
<1>5. CASE pkt.type = "DeviceLocked"
  <2>1. d.state = "SendingDeviceLocked" /\ r.sending = "Failed" /\ d.cause = "Locked"
    BY <1>2, <1>3, <1>5 DEF DeviceEnd, Message, HandshakeMessage, AppMessage
  <2>2. /\ e = Close(d, "Locked") /\ e \in Channel(DeviceState) /\ e.state = "Closed"
        /\ e.sending = "Idle" /\ e.cause = "Locked" /\ e.nonce = d.nonce
    BY <2>1, CloseFacts DEF IsFailed, Fail, Cause
  <2> HIDE DEF e
  <2>3. Over(e)
    BY <2>2 DEF Over
  <2>4. DeviceForward(d, e) /\ DeviceEnd(e, h) /\ Together(e, h)
    BY <2>1, <2>2, <2>3 DEF DeviceForward, DeviceEnd, Together
  <2> QED
    BY <1>3, <1>5, <2>2, <2>3, <2>4 DEF DeviceGoesOn, FromDevice, e, r, pkt
<1>6. CASE pkt.type # "DeviceLocked"
  <2>1. e = r
    BY <1>2, <1>3, <1>6 DEF IsFailed
  <2> HIDE DEF e
  <2>2. DeviceForward(d, r) /\ DeviceEnd(r, h) /\ Together(r, h)
    <3>1. Answered(d) => Answered(r)
      BY <1>3, <1>6 DEF Answered
    <3>2. DeviceForward(d, r) /\ Together(r, h)
      BY <1>3, <3>1 DEF DeviceForward, Together
    <3>3. d.sending = "Idle" => r.canSend = d.canSend
      BY <1>3, <1>6 DEF Message, HandshakeMessage, AppMessage
    <3>4. r.sending = d.sending /\ r.seq = d.seq /\ r.ack = d.ack
      BY <1>3, <1>6
    <3>5. DeviceEnd(r, h)
      BY <1>3, <1>4, <3>3, <3>4 DEF DeviceEnd
    <3> QED
      BY <3>2, <3>5
  <2>3. FromDevice(pkt, r, h)
    <3>1. CASE pkt.type = "InitiationResponse"
      <4>1. /\ d.sending = "InitiationResponse" /\ ~r.canSend /\ pkt.seq = d.seq /\ pkt.ack = d.ack
            /\ d.state = "SendingInitiationResponse"
        BY <1>2, <1>3, <3>1
      <4> QED
        BY <1>3, <3>1, <4>1 DEF FromDevice, DeviceEnd, Together, Answered
    <3>2. CASE pkt.type = "CompletionResponse"
      <4>1. /\ d.sending = "CompletionResponse" /\ pkt.seq = d.seq /\ pkt.ack = d.ack
            /\ d.state = "SendingCompletionResponse" /\ pkt.val = r.pairing
            /\ pkt.val \in Pairing \cup {Unpaired}
        BY <1>2, <1>3, <3>2 DEF Channel
      <4> QED
        BY <1>3, <3>2, <4>1 DEF FromDevice, DeviceEnd
    <3> QED
      BY <3>1, <3>2 DEF FromDevice
  <2>4. pkt.type \in ToHost \ {"ChannelAllocationResponse"}
    BY <1>2, <1>3, <1>6 DEF ToHost, Message, HandshakeMessage, AppMessage
  <2> QED
    BY <1>2, <1>3, <1>6, <2>1, <2>2, <2>3, <2>4 DEF DeviceGoesOn, e, r, pkt
<1> QED
  BY <1>5, <1>6

(* packet_out of a channel of the device.                                  *)
LEMMA DevicePacketOutInv ==
  ASSUME Inv, NEW c \in Channels, DevicePacketOut(c)
  PROVE  Inv'
<1>1. CASE Unused(c)
  BY <1>1, DeviceOffersInv
<1>2. CASE ~Unused(c)
  <2> DEFINE d == device[c]
             r == AfterPacketOut(d)
             e == IF IsFailed(r) THEN Fail(d) ELSE r
             pkt == NextPacket(c, d)
  <2>1. /\ PacketOutReady(d) /\ Send("host", pkt) /\ d.state # "Closed"
        /\ device' = [device EXCEPT ![c] = e]
        /\ UNCHANGED <<mux, host, outgoing, requests, faults>>
        /\ d \in Channel(DeviceState) /\ device \in [Channels -> Channel(DeviceState)]
    BY DEF DevicePacketOut, Allocated, Inv, TypeOK
  <2>2. c = mux.chan /\ host.state \in Started
    BY <1>2, <2>1, OnlyOne
  <2>3. /\ DeviceEnd(d, host) /\ Together(d, host)
        /\ \A q \in Range(link["host"]) : q.chan = c => FromDevice(q, d, host)
        /\ \A q \in Range(link["device"]) : q.chan = c => FromHost(q, d, host)
        /\ Ordered(link["host"], c, "InitiationResponse", "CompletionResponse")
        /\ d.nonce <= requests /\ requests \in Nat
    BY <2>2, SMTT(30) DEF Inv, Talking, Under, Allocation, TypeOK
  <2>4. /\ pkt \in Packet /\ pkt.chan = c
        /\ pkt.type \in (ToHost \ {"ChannelAllocationResponse"}) \cup {"DeviceLocked"}
        /\ DeviceGoesOn(d, e, host) /\ FromDevice(pkt, e, host)
        /\ pkt.type = "DeviceLocked" => Over(e)
        /\ pkt.type = "InitiationResponse" => d.state = "SendingInitiationResponse"
        /\ e.state \in {"SendingCompletionResponse", "Open"} => d.state = e.state
    BY <2>1, <2>2, <2>3, DeviceSends, ZenonT(30)
  <2> HIDE DEF pkt, e, d
  <2>5. /\ device'[c] = e /\ device' \in [Channels -> Channel(DeviceState)]
        /\ \A x \in Channels : x # c => device'[x] = device[x]
    BY <2>1, <2>4 DEF DeviceGoesOn
  <2>6. /\ link' \in [Peer -> Seq(Packet)] /\ link'["device"] = link["device"]
        /\ Range(link'["host"]) = Range(link["host"]) \cup {pkt}
        /\ \A x, a, b : /\ Ordered(link["host"], x, a, b) /\ a # b
                        /\ pkt.chan = x /\ pkt.type = a =>
                             \A q \in Range(link["host"]) : ~(q.chan = x /\ q.type = b)
                        => Ordered(link'["host"], x, a, b)
    BY <2>1, <2>4, SendFacts DEF Inv, Peer
  <2>7. TypeOK'
    BY <2>1, <2>5, <2>6 DEF Inv, TypeOK
  <2>8. Ordered(link'["host"], c, "InitiationResponse", "CompletionResponse")
    <3>1. d.state = "SendingInitiationResponse" =>
            \A q \in Range(link["host"]) : ~(q.chan = c /\ q.type = "CompletionResponse")
      BY <2>3 DEF FromDevice
    <3> QED
      BY <2>3, <2>4, <2>6, <3>1
  <2>9. \A q \in Range(link'["device"]) :
          q.chan = c /\ q.type = "InitiationRequest" =>
            e.state \notin {"SendingCompletionResponse", "Open"}
    BY <2>3, <2>4, <2>6 DEF FromHost
  <2>10. e.nonce <= requests
    BY <2>3, <2>4, SMTT(30) DEF DeviceGoesOn
  <2> QED
    BY <2>1, <2>2, <2>4, <2>5, <2>6, <2>7, <2>8, <2>9, <2>10, SameLink, DeviceMoves
    DEF DeviceGoesOn, d
<1> QED
  BY <1>1, <1>2

(* Every step keeps the invariant.                                         *)
LEMMA NextInv ==
  ASSUME Inv, [Next]_vars
  PROVE  Inv'
<1>1. CASE UNCHANGED vars
  <2>1. TypeOK' /\ \A p \in Peer : Fewer(p)
    BY <1>1, SameLink DEF vars, Inv, TypeOK
  <2> QED
    BY <1>1, <2>1, OnlyFewer DEF vars
<1>2. CASE RequestChannel
  BY <1>2, RequestChannelInv
<1>3. CASE HostNext
  BY <1>3, HostMuxOutInv, HostMuxInInv, ChannelAllocInv, HostPacketOutInv, HostLocalInv,
     HostPacketInInv, HostMessageInInv DEF HostNext
<1>4. CASE DeviceIn
  BY <1>4, DeviceAllocInv, DeviceUnallocatedInv, DevicePacketInInv DEF DeviceIn
<1>5. CASE DeviceMuxOut
  BY <1>5, DeviceMuxOutInv
<1>6. CASE AnswerKeyRequest
  BY <1>6, HandshakeStaticKeyInv, SendDeviceLockedInv DEF AnswerKeyRequest
<1>7. CASE \E c \in Channels : DevicePacketOut(c) \/ DeviceRetransmit(c)
  BY <1>7, DevicePacketOutInv, DeviceRetransmitInv
<1>8. CASE \E p \in Peer : Lose(p) \/ Duplicate(p)
  BY <1>8, FaultInv
<1> QED
  BY <1>1, <1>2, <1>3, <1>4, <1>5, <1>6, <1>7, <1>8 DEF Next

(* The invariant holds in every state of the handshake.                    *)
LEMMA Invariance == Spec => []Inv
BY InitInv, NextInv, PTL DEF Spec

-------------------------------------------------------------------------------
(***************************************************************************)
(* Theorems.                                                               *)
(***************************************************************************)

(* Every variable of both ends and of the links keeps its type; no sync    *)
(* bit, nonce or pairing state is one the code could not have stored.      *)
THEOREM HandshakeTyped == Spec => []TypeOK
<1>1. Inv => TypeOK
  BY DEF Inv
<1> QED
  BY <1>1, Invariance, PTL

(* The channel id a host takes answers its last request, however many      *)
(* requests were repeated, lost or abandoned (handle_allocation_response). *)
THEOREM LastRequestAnswered == Spec => []AnswersLastRequest
<1>1. Inv => AnswersLastRequest
  BY DEF Inv, Allocation
<1> QED
  BY <1>1, Invariance, PTL

(* The device hands a channel to the application only once the host has    *)
(* opened the same channel (handshake_done waits for the last ACK).        *)
THEOREM DeviceDoneAfterHost == Spec => []DoneAfterHost
<1>1. Inv => DoneAfterHost
  <2> SUFFICES ASSUME Inv, NEW c \in Channels, device[c].state = "Open"
               PROVE  HostDone /\ mux.chan = c
    BY DEF DoneAfterHost
  <2>1. ~Unused(c)
    BY DEF Unused, New
  <2>2. c = mux.chan /\ host.state \in Started
    BY <2>1, OnlyOne
  <2> QED
    BY <2>2 DEF Inv, Talking, Together, Started, HostDone
<1> QED
  BY <1>1, Invariance, PTL

(* If the host's first message cannot overtake the end of the handshake,   *)
(* the ends of a channel the host has opened agree on the pairing state    *)
(* and on ACK piggybacking, unless the device evicted the channel or its   *)
(* retransmissions ran out.                                                *)
THEOREM BothEndsAgree ==
  ASSUME Polite
  PROVE  Spec => []EndsAgree
<1>1. Inv => EndsAgree
  <2> SUFFICES ASSUME Inv, HostDone, ~GaveUp(OtherEnd)
               PROVE  /\ OtherEnd.state \in {"SendingCompletionResponse", "Open"}
                      /\ OtherEnd.pairing = host.pairing
                      /\ OtherEnd.piggy = host.piggy
    BY DEF EndsAgree
  <2>1. OtherEnd = device[mux.chan]
    BY DEF Inv, Talking, OtherEnd, HostDone, Started
  <2> QED
    BY <2>1 DEF Inv, Talking, Together, DeviceEnd, HostDone, Started
<1> QED
  BY <1>1, Invariance, PTL

(* Under the same condition no handshake fails, whatever packets are lost, *)
(* repeated or late and however small the table of channels and the number *)
(* of retransmissions: the device closes a channel because it was not      *)
(* unlocked, needed the place or heard nothing of the host.                *)
THEOREM NoHandshakeFails ==
  ASSUME Polite
  PROVE  Spec => []HandshakeNeverFails
<1>1. Inv => HandshakeNeverFails
  <2> SUFFICES ASSUME Inv, NEW c \in Channels, device[c].state = "Closed"
               PROVE  device[c].cause # "Failed"
    BY DEF HandshakeNeverFails
  <2>1. Over(device[c])
    BY DEF Inv, Others, Unused, New, Talking, DeviceEnd
  <2> QED
    BY <2>1 DEF Over
<1> QED
  BY <1>1, Invariance, PTL
===============================================================================
