--------------------------- MODULE ThpChannelProofs ---------------------------
(***************************************************************************)
(* Type correctness of ThpChannel, in every mode of the channel, and the   *)
(* theorems about a protocol 2.0 channel, for any number of fragments,     *)
(* messages, packets in flight and faults: first with headers that parse   *)
(* and no TRANSPORT_BUSY answer, then, for the requests of the host, with  *)
(* both.                                                                   *)
(***************************************************************************)
EXTENDS ThpChannel, TLAPS

(* Most leaves are first-order; the ones with arithmetic cite SMT.         *)
USE Zenon

-------------------------------------------------------------------------------
(* Packets and links.                                                      *)

(* The two ends of a channel are each other's peer.                        *)
LEMMA PeerLemma ==
  \A p \in Peer : /\ Other(p) \in Peer /\ Other(p) # p /\ Other(Other(p)) = p
                  /\ \A q \in Peer : q = p \/ q = Other(p)
BY DEF Peer, Other

(* What taking the first packet of a link leaves.                          *)
LEMMA TailLemma ==
  ASSUME NEW S, NEW s \in Seq(S), s # <<>>
  PROVE  /\ Tail(s) \in Seq(S) /\ Len(Tail(s)) = Len(s) - 1 /\ Len(s) \in Nat \ {0}
         /\ Head(s) = s[1] /\ Head(s) \in S
         /\ \A i \in 1..Len(Tail(s)) : Tail(s)[i] = s[i + 1] /\ i + 1 \in 1..Len(s)
BY SMT

(* What putting a packet on a link makes of it.                            *)
LEMMA AppendLemma ==
  ASSUME NEW S, NEW s \in Seq(S), NEW e \in S
  PROVE  /\ Append(s, e) \in Seq(S) /\ Len(Append(s, e)) = Len(s) + 1 /\ Len(s) \in Nat
         /\ \A i \in 1..Len(s) : Append(s, e)[i] = s[i]
         /\ Append(s, e)[Len(s) + 1] = e
BY SMT

(* What repeating the first packet of a link makes of it.                  *)
LEMMA RepeatLemma ==
  ASSUME NEW S, NEW s \in Seq(S), s # <<>>
  PROVE  LET t == <<Head(s)>> \o s IN
         /\ t \in Seq(S) /\ Len(t) = Len(s) + 1 /\ Len(s) \in Nat \ {0}
         /\ t[1] = s[1]
         /\ \A i \in 1..Len(s) : t[i + 1] = s[i]
<1>1. Head(s) = s[1] /\ s[1] \in S /\ Len(s) \in Nat \ {0}
  BY TailLemma
<1>2. <<Head(s)>> \in Seq(S) /\ Len(<<Head(s)>>) = 1
  BY <1>1, SMT
<1>3. /\ <<Head(s)>> \o s \in Seq(S)
      /\ Len(<<Head(s)>> \o s) = 1 + Len(s)
      /\ \A i \in 1..(1 + Len(s)) :
           (<<Head(s)>> \o s)[i] = IF i <= 1 THEN <<Head(s)>>[i] ELSE s[i - 1]
  BY <1>2, SMT
<1> QED
  BY <1>1, <1>3, SMT

(* What replacing the first packet of a link makes of it.                  *)
LEMMA ReplaceLemma ==
  ASSUME NEW S, NEW s \in Seq(S), s # <<>>, NEW e \in S
  PROVE  LET t == [s EXCEPT ![1] = e] IN
         /\ t \in Seq(S) /\ Len(t) = Len(s) /\ Len(s) \in Nat \ {0}
         /\ t[1] = e
         /\ \A i \in 1..Len(s) : i # 1 => t[i] = s[i]
<1>1. Len(s) \in Nat \ {0} /\ 1 \in 1..Len(s)
  BY TailLemma, SMT
<1> QED
  BY <1>1, SMT

(* Every packet the model builds is a packet.                              *)
LEMMA PacketLemma ==
  /\ \A b \in Bit : AckPacket(b) \in Packet
  /\ \A e \in ErrorType : ErrorPacket(e) \in Packet
  /\ \A f \in Fragmenter : Fragment(f) \in Packet
  /\ \A t \in PacketType, s, a \in Bit, m, n \in Nat : DamagedPacket(t, s, a, m, n) \in Packet
<1>1. \A b \in Bit : AckPacket(b) \in Packet
  BY DEF AckPacket, Packet, PacketType, Bit
<1>2. \A e \in ErrorType : ErrorPacket(e) \in Packet
  BY DEF ErrorPacket, Packet, PacketType, Bit, ErrorType
<1>3. \A f \in Fragmenter : Fragment(f) \in Packet
  BY BoundAssumption, SMT DEF Fragment, Fragmenter, Packet, PacketType, Bit
<1>4. \A t \in PacketType, s, a \in Bit, m, n \in Nat : DamagedPacket(t, s, a, m, n) \in Packet
  BY DEF DamagedPacket, Packet
<1> QED
  BY <1>1, <1>2, <1>3, <1>4

(* Fragmenters and reassemblers the model builds.                          *)
LEMMA BufferLemma ==
  /\ NoFragmenter \in Fragmenter /\ NoReassembler \in Reassembler
  /\ \A s, a \in Bit, m, o \in Nat :
       [seq |-> s, ack |-> a, msg |-> m, off |-> o] \in Fragmenter
  /\ \A f \in Fragmenter :
       /\ Reset(f) \in Fragmenter /\ [f EXCEPT !.off = @ + 1] \in Fragmenter
       /\ f.msg \in Nat /\ f.off \in Nat /\ f.seq \in Bit
  /\ \A pkt \in Packet : NewReassembler(pkt) \in Reassembler
  /\ \A r \in Reassembler, pkt \in Packet : Appended(r, pkt) \in Reassembler
  /\ \A r \in Reassembler : Zeroed(r) \in Reassembler
<1>1. NoFragmenter \in Fragmenter /\ NoReassembler \in Reassembler
  BY DEF NoFragmenter, NoReassembler, Fragmenter, Reassembler, Bit
<1>2. \A s, a \in Bit, m, o \in Nat :
        [seq |-> s, ack |-> a, msg |-> m, off |-> o] \in Fragmenter
  BY DEF Fragmenter
<1>3. \A f \in Fragmenter :
        /\ Reset(f) \in Fragmenter /\ [f EXCEPT !.off = @ + 1] \in Fragmenter
        /\ f.msg \in Nat /\ f.off \in Nat /\ f.seq \in Bit
  BY SMT DEF Fragmenter, Reset
<1>4. \A pkt \in Packet : NewReassembler(pkt) \in Reassembler
  BY DEF NewReassembler, Packet, Reassembler
<1>5. \A r \in Reassembler, pkt \in Packet : Appended(r, pkt) \in Reassembler
  <2> SUFFICES ASSUME NEW r \in Reassembler, NEW pkt \in Packet
               PROVE  Appended(r, pkt) \in Reassembler
    OBVIOUS
  <2>0. r.off + 1 \in Nat
    BY SMT DEF Reassembler
  <2>1. \A g \in BOOLEAN, x \in Nat : [r EXCEPT !.off = x, !.good = g] \in Reassembler
    BY DEF Reassembler
  <2>2. (r.good /\ pkt.ok /\ pkt.msg = r.msg /\ pkt.n = r.off + 1) \in BOOLEAN
    OBVIOUS
  <2> QED
    BY <2>0, <2>1, <2>2 DEF Appended
<1>6. \A r \in Reassembler : Zeroed(r) \in Reassembler
  BY DEF Zeroed, Reassembler
<1> QED
  BY <1>1, <1>2, <1>3, <1>4, <1>5, <1>6

-------------------------------------------------------------------------------
(* Type correctness.                                                       *)

(* Removing, repeating, replacing and appending packets keep links typed.  *)
LEMMA LinkTypeLemma ==
  ASSUME TypeOK, NEW p \in Peer
  PROVE  /\ link[p] # <<>> =>
              /\ Head(link[p]) \in Packet
              /\ [link EXCEPT ![p] = Tail(@)] \in [Peer -> Seq(Packet)]
              /\ [link EXCEPT ![p] = <<Head(@)>> \o @] \in [Peer -> Seq(Packet)]
              /\ \A e \in Packet :
                   [link EXCEPT ![p] = [@ EXCEPT ![1] = e]] \in [Peer -> Seq(Packet)]
         /\ \A e \in Packet : [link EXCEPT ![p] = Append(@, e)] \in [Peer -> Seq(Packet)]
<1>1. link \in [Peer -> Seq(Packet)] /\ link[p] \in Seq(Packet)
  BY DEF TypeOK
<1>2. \A e \in Packet : Append(link[p], e) \in Seq(Packet)
  BY <1>1, AppendLemma
<1>3. ASSUME link[p] # <<>>
      PROVE  /\ Head(link[p]) \in Packet /\ Tail(link[p]) \in Seq(Packet)
             /\ <<Head(link[p])>> \o link[p] \in Seq(Packet)
             /\ \A e \in Packet : [link[p] EXCEPT ![1] = e] \in Seq(Packet)
  BY <1>1, <1>3, TailLemma, RepeatLemma, ReplaceLemma
<1> QED
  BY <1>1, <1>2, <1>3

(* Each step of the channel keeps the state typed.                         *)
LEMMA TypeStep == TypeOK /\ [Next]_vars => TypeOK'
<1> SUFFICES ASSUME TypeOK, [Next]_vars PROVE TypeOK'
  OBVIOUS
<1>u. CASE UNCHANGED vars
  BY <1>u DEF TypeOK, vars
<1>b. CASE SendTransportBusy
  <2>1. "device" \in Peer
    BY DEF Peer
  <2>2. link' \in [Peer -> Seq(Packet)]
    BY <1>b, <2>1, LinkTypeLemma DEF SendTransportBusy, Receive
  <2>3. faults' \in Nat
    BY <1>b, SMT DEF SendTransportBusy, TypeOK
  <2> QED
    BY <1>b, <2>1, <2>2, <2>3, BufferLemma
    DEF TypeOK, SendTransportBusy, SendStates, ErrorType
<1>p. ASSUME NEW p \in Peer,
             \/ MessageIn(p) \/ MessageRetransmit(p) \/ MessageOut(p)
             \/ PacketOut(p) \/ PacketIn(p) \/ Lose(p) \/ Duplicate(p) \/ Damage(p)
      PROVE  TypeOK'
  <2>q. Other(p) \in Peer
    BY PeerLemma
  <2>i. ASSUME link[p] # <<>>
        PROVE  /\ Head(link[p]) \in Packet
               /\ Receive(p) => link' \in [Peer -> Seq(Packet)]
    BY <2>i, LinkTypeLemma DEF Receive
  <2>o. ASSUME NEW e \in Packet, Send(p, e)
        PROVE  link' \in [Peer -> Seq(Packet)]
    BY <2>o, <2>q, LinkTypeLemma DEF Send
  <2>t. /\ syncSend[p] \in Bit /\ 1 - syncSend[p] \in Bit
        /\ syncReceive[p] \in Bit /\ 1 - syncReceive[p] \in Bit
        /\ encNonce[p] \in Nat /\ decNonce[p] \in Nat /\ canSend[p] \in BOOLEAN
        /\ fragmenter[p] \in Fragmenter /\ reassembler[p] \in Reassembler
        /\ {"Idle", "Sending", "Failed", "DecryptionFailed"} \subseteq SendStates
        /\ {"Idle", "Receiving", "Failed"} \subseteq ReceiveStates
        /\ NoFragmenter \in Fragmenter /\ NoReassembler \in Reassembler
    <3>1. /\ syncSend[p] \in Bit /\ syncReceive[p] \in Bit
          /\ encNonce[p] \in Nat /\ decNonce[p] \in Nat /\ canSend[p] \in BOOLEAN
          /\ fragmenter[p] \in Fragmenter /\ reassembler[p] \in Reassembler
      BY DEF TypeOK
    <3> QED
      BY <3>1, BufferLemma, SMT DEF Bit, SendStates, ReceiveStates, ErrorType
  <2>m. ASSUME MarkDelivered(p) \/ UNCHANGED <<syncSend, canSend, sendState, fragmenter>>
        PROVE  /\ syncSend' \in [Peer -> Bit] /\ canSend' \in [Peer -> BOOLEAN]
               /\ sendState' \in [Peer -> SendStates]
               /\ fragmenter' \in [Peer -> Fragmenter]
    <3>1. CASE MarkDelivered(p)
      <4>1. /\ syncSend' = [syncSend EXCEPT ![p] = 1 - syncSend[p]]
            /\ canSend' = [canSend EXCEPT ![p] = TRUE]
            /\ sendState' = [sendState EXCEPT ![p] = "Idle"]
            /\ fragmenter' = [fragmenter EXCEPT ![p] = NoFragmenter]
        BY <3>1 DEF MarkDelivered
      <4> QED
        BY <2>t, <4>1 DEF TypeOK
    <3>2. CASE UNCHANGED <<syncSend, canSend, sendState, fragmenter>>
      BY <3>2 DEF TypeOK
    <3> QED
      BY <2>m, <3>1, <3>2
  <2>1. CASE MessageIn(p)
    <3>1. [seq |-> syncSend[p],
           ack |-> IF Piggybacking THEN 1 - syncReceive[p] ELSE 0,
           msg |-> encNonce[p],
           off |-> 0] \in Fragmenter
      BY <2>t, BufferLemma DEF Bit
    <3>2. sendAck' \in [Peer -> Bit \cup {NoAck}]
      BY <2>1 DEF TypeOK, MessageIn
    <3>3. sendState' \in {sendState, [sendState EXCEPT ![p] = "Sending"]}
      BY <2>1 DEF MessageIn
    <3>4. \E f \in Fragmenter : fragmenter' \in {fragmenter, [fragmenter EXCEPT ![p] = f]}
      BY <2>1, <3>1 DEF MessageIn
    <3>5. encNonce' \in [Peer -> Nat]
      BY <2>1, SMT DEF TypeOK, MessageIn
    <3>6. UNCHANGED <<canSend, syncSend, syncReceive, receiveState, reassembler,
                      decNonce, link, faults, missed>>
      BY <2>1 DEF MessageIn
    <3> QED
      BY <2>t, <3>2, <3>3, <3>4, <3>5, <3>6, ZenonT(60) DEF TypeOK
  <2>2. CASE MessageRetransmit(p)
    BY <2>2, <2>t, BufferLemma DEF TypeOK, MessageRetransmit
  <2>3. CASE MessageOut(p)
    <3>1. /\ \E x \in SendStates : sendState' \in {sendState, [sendState EXCEPT ![p] = x]}
          /\ \E x \in ReceiveStates : receiveState' = [receiveState EXCEPT ![p] = x]
      BY <2>3, <2>t DEF MessageOut
    <3>2. /\ decNonce' \in {decNonce, [decNonce EXCEPT ![p] = decNonce[p] + 1]}
          /\ fragmenter' \in {fragmenter, [fragmenter EXCEPT ![p] = NoFragmenter]}
          /\ reassembler' = [reassembler EXCEPT ![p] = NoReassembler]
      BY <2>3 DEF MessageOut
    <3>3. /\ sendAck' = [sendAck EXCEPT ![p] = syncReceive[p]]
          /\ syncReceive' = [syncReceive EXCEPT ![p] = 1 - syncReceive[p]]
          /\ UNCHANGED <<canSend, syncSend, encNonce, link, faults>>
          /\ missed' \in {missed, missed \cup {p}}
      BY <2>3 DEF MessageOut
    <3>4. sendState' \in [Peer -> SendStates] /\ receiveState' \in [Peer -> ReceiveStates]
      BY <3>1, ZenonT(60) DEF TypeOK
    <3>5. decNonce' \in [Peer -> Nat]
      <4>1. \E x \in Nat : decNonce' \in {decNonce, [decNonce EXCEPT ![p] = x]}
        BY <2>t, <3>2, SMT
      <4> QED
        BY <4>1 DEF TypeOK
    <3>6. /\ fragmenter' \in [Peer -> Fragmenter] /\ reassembler' \in [Peer -> Reassembler]
      BY <2>t, <3>2 DEF TypeOK
    <3> QED
      BY <2>t, <3>3, <3>4, <3>5, <3>6 DEF TypeOK
  <2>4. CASE SendPendingAck(p)
    <3>1. AckPacket(sendAck[p]) \in Packet
      BY <2>4, PacketLemma DEF SendPendingAck, TypeOK
    <3> QED
      BY <2>4, <2>o, <3>1 DEF TypeOK, SendPendingAck
  <2>5. CASE SendTransportError(p)
    <3>1. ErrorPacket(sendState[p]) \in Packet
      BY <2>5, PacketLemma DEF SendTransportError
    <3>2. link' \in [Peer -> Seq(Packet)]
      BY <2>5, <2>o, <3>1 DEF SendTransportError
    <3>3. /\ \E x \in SendStates : sendState' = [sendState EXCEPT ![p] = x]
          /\ receiveState' \in {receiveState, [receiveState EXCEPT ![p] = "Failed"]}
      BY <2>5, <2>t DEF SendTransportError
    <3>4. /\ reassembler' \in {reassembler, [reassembler EXCEPT ![p] = NoReassembler]}
          /\ UNCHANGED <<canSend, syncSend, syncReceive, sendAck, fragmenter, encNonce,
                         decNonce, faults, missed>>
      BY <2>5 DEF SendTransportError
    <3>5. sendState' \in [Peer -> SendStates] /\ receiveState' \in [Peer -> ReceiveStates]
      BY <2>t, <3>3, ZenonT(60) DEF TypeOK
    <3> QED
      BY <2>t, <3>2, <3>4, <3>5 DEF TypeOK
  <2>6. CASE SendFragment(p)
    <3>1. Fragment(fragmenter[p]) \in Packet
      BY PacketLemma DEF TypeOK
    <3>2. link' \in [Peer -> Seq(Packet)]
      BY <2>6, <2>o, <3>1 DEF SendFragment
    <3> QED
      BY <2>6, <2>t, <3>2, BufferLemma DEF TypeOK, SendFragment
  <2>7. CASE RejectFailed(p)
    BY <2>7, <2>i DEF TypeOK, RejectFailed
  <2>8. CASE HandleAck(p)
    <3>1. link' \in [Peer -> Seq(Packet)]
      BY <2>8, <2>i DEF HandleAck, Incoming
    <3> QED
      BY <2>8, <2>m, <3>1 DEF TypeOK, HandleAck
  <2>9. CASE HandleError(p)
    <3>1. link' \in [Peer -> Seq(Packet)]
      BY <2>9, <2>i DEF HandleError, Incoming
    <3>2. /\ sendState' \in {sendState, [sendState EXCEPT ![p] = "Failed"]}
          /\ receiveState' \in {receiveState, [receiveState EXCEPT ![p] = "Failed"]}
          /\ reassembler' \in {reassembler, [reassembler EXCEPT ![p] = NoReassembler]}
          /\ fragmenter' \in {fragmenter, [fragmenter EXCEPT ![p] = NoFragmenter]}
      BY <2>9 DEF HandleError
    <3>3. UNCHANGED <<canSend, syncSend, syncReceive, sendAck, encNonce, decNonce, faults, missed>>
      BY <2>9 DEF HandleError
    <3>4. sendState' \in [Peer -> SendStates]
      BY <2>t, <3>2 DEF TypeOK
    <3>5. receiveState' \in [Peer -> ReceiveStates]
      BY <2>t, <3>2 DEF TypeOK
    <3>6. reassembler' \in [Peer -> Reassembler]
      BY <2>t, <3>2, ZenonT(60) DEF TypeOK
    <3>7. fragmenter' \in [Peer -> Fragmenter]
      BY <2>t, <3>2, ZenonT(60) DEF TypeOK
    <3> QED
      BY <3>1, <3>3, <3>4, <3>5, <3>6, <3>7 DEF TypeOK
  <2>10. ASSUME NEW r \in Reassembler, HandleLastPacket(p, r)
         PROVE  /\ receiveState' \in [Peer -> ReceiveStates]
                /\ reassembler' \in [Peer -> Reassembler]
                /\ syncSend' \in [Peer -> Bit] /\ canSend' \in [Peer -> BOOLEAN]
                /\ sendState' \in [Peer -> SendStates]
                /\ fragmenter' \in [Peer -> Fragmenter]
    <3>1. /\ receiveState' \in [Peer -> ReceiveStates]
          /\ reassembler' \in [Peer -> Reassembler]
      <4>1. /\ receiveState \in [Peer -> ReceiveStates]
            /\ reassembler \in [Peer -> Reassembler]
            /\ NoReassembler \in Reassembler
        BY BufferLemma DEF TypeOK
      <4>2. CASE ReassemblerDone(r) /\ ~r.good
        BY <2>10, <2>t, <4>1, <4>2 DEF HandleLastPacket
      <4>3. CASE ~(ReassemblerDone(r) /\ ~r.good)
        BY <2>10, <2>t, <4>1, <4>3 DEF HandleLastPacket
      <4> QED
        BY <4>2, <4>3
    <3> QED
      BY <2>10, <2>m, <3>1 DEF HandleLastPacket
  <2>11. CASE HandleCont(p)
    <3>1. Head(link[p]) \in Packet /\ link' \in [Peer -> Seq(Packet)]
      BY <2>11, <2>i DEF HandleCont, Incoming
    <3>2. Appended(reassembler[p], Head(link[p])) \in Reassembler
      BY <2>t, <3>1, BufferLemma
    <3> QED
      BY <2>10, <2>11, <3>1, <3>2 DEF TypeOK, HandleCont
  <2>12. CASE HandleInit(p)
    <3>1. Head(link[p]) \in Packet /\ link' \in [Peer -> Seq(Packet)]
      BY <2>12, <2>i DEF HandleInit, Incoming
    <3>2. NewReassembler(Head(link[p])) \in Reassembler
      BY <3>1, BufferLemma
    <3>3. CASE HandleInvalidSeq(p, Head(link[p]))
      <4>1. Head(link[p]).seq \in Bit
        BY <3>1 DEF Packet
      <4> QED
        BY <2>12, <3>1, <3>3, <4>1 DEF TypeOK, HandleInit, HandleInvalidSeq
    <3>4. CASE HandleBadHeader(p)
      <4>1. Zeroed(reassembler[p]) \in Reassembler
        BY <2>t, BufferLemma
      <4> QED
        BY <2>12, <3>1, <3>4, <4>1 DEF TypeOK, HandleInit, HandleBadHeader
    <3>5. CASE /\ HandleLastPacket(p, NewReassembler(Head(link[p])))
               /\ UNCHANGED sendAck
      BY <2>10, <2>12, <3>1, <3>2, <3>5 DEF TypeOK, HandleInit
    <3>6. CASE UNCHANGED <<sendAck, receiveState, reassembler, syncSend, canSend,
                           sendState, fragmenter>>
      BY <2>12, <3>1, <3>6 DEF TypeOK, HandleInit
    <3> QED
      BY <2>12, <3>3, <3>4, <3>5, <3>6 DEF HandleInit
  <2>13. CASE Lose(p)
    BY <2>13, <2>i, SMT DEF TypeOK, Lose, Fault
  <2>14. CASE Duplicate(p)
    <3>1. link' \in [Peer -> Seq(Packet)]
      BY <2>14, LinkTypeLemma DEF Duplicate, Fault
    <3> QED
      BY <2>14, <3>1, SMT DEF TypeOK, Duplicate, Fault
  <2>15. CASE Damage(p)
    <3>1. link[p] # <<>> /\ link[p] \in Seq(Packet)
      BY <2>15 DEF Damage, Fault, TypeOK
    <3>2. Head(link[p]).msg \in Nat
      BY <2>i, <3>1 DEF Packet
    <3>n. 0..(FragCount + 1) \subseteq Nat
      BY BoundAssumption, SMT
    <3>3. PICK t \in PacketType, s \in Bit, a \in Bit, n \in 0..(FragCount + 1) :
            link' = [link EXCEPT ![p] =
                       [@ EXCEPT ![1] = DamagedPacket(t, s, a, Head(link[p]).msg, n)]]
      BY <2>15 DEF Damage
    <3>4. DamagedPacket(t, s, a, Head(link[p]).msg, n) \in Packet
      BY <3>2, <3>n, PacketLemma
    <3>5. link' \in [Peer -> Seq(Packet)]
      BY <3>1, <3>3, <3>4, LinkTypeLemma
    <3> QED
      BY <2>15, <3>5, SMT DEF TypeOK, Damage, Fault
  <2> QED
    BY <1>p, <2>1, <2>2, <2>3, <2>4, <2>5, <2>6, <2>7, <2>8, <2>9, <2>11, <2>12,
       <2>13, <2>14, <2>15 DEF PacketOut, PacketIn
<1> QED
  BY <1>u, <1>b, <1>p DEF Next

-------------------------------------------------------------------------------
(* What is under way on a link, as packets are taken from it or added.     *)

(* t holds packets of s in the order of s, some repeated or missing, and   *)
(* damaged packets with a length.                                          *)
Thinned(t, s) ==
  \E f \in [1..Len(t) -> 1..Len(s)] :
    /\ \A i, j \in 1..Len(t) : i < j => f[i] <= f[j]
    /\ \A i \in 1..Len(t) :
         t[i] = s[f[i]] \/ (~t[i].ok /\ (t[i].type = "init" => t[i].n >= 1))

(* Delivering or losing a packet thins a link.                             *)
LEMMA ThinTail ==
  ASSUME NEW s \in Seq(Packet), s # <<>>
  PROVE  Thinned(Tail(s), s)
<1> DEFINE f == [i \in 1..Len(Tail(s)) |-> i + 1]
<1>1. /\ Len(Tail(s)) = Len(s) - 1 /\ Len(s) \in Nat \ {0}
      /\ \A i \in 1..Len(Tail(s)) : Tail(s)[i] = s[i + 1] /\ i + 1 \in 1..Len(s)
  BY TailLemma
<1>2. f \in [1..Len(Tail(s)) -> 1..Len(s)]
  BY <1>1
<1>3. \A i, j \in 1..Len(Tail(s)) : i < j => f[i] <= f[j]
  BY <1>1, SMT
<1>4. \A i \in 1..Len(Tail(s)) : Tail(s)[i] = s[f[i]]
  BY <1>1
<1> HIDE DEF f
<1> QED
  BY <1>2, <1>3, <1>4 DEF Thinned

(* Duplicating a packet thins a link.                                      *)
LEMMA ThinRepeat ==
  ASSUME NEW s \in Seq(Packet), s # <<>>
  PROVE  Thinned(<<Head(s)>> \o s, s)
<1> DEFINE t == <<Head(s)>> \o s
           f == [i \in 1..Len(t) |-> IF i = 1 THEN 1 ELSE i - 1]
<1>1. /\ Len(t) = Len(s) + 1 /\ Len(s) \in Nat \ {0}
      /\ t[1] = s[1] /\ \A i \in 1..Len(s) : t[i + 1] = s[i]
  BY RepeatLemma
<1> HIDE DEF t
<1>2. f \in [1..Len(t) -> 1..Len(s)]
  BY <1>1, SMT
<1>3. \A i, j \in 1..Len(t) : i < j => f[i] <= f[j]
  BY <1>1, SMT
<1>4. ASSUME NEW i \in 1..Len(t) PROVE t[i] = s[f[i]]
  <2>1. i = 1 \/ (i - 1 \in 1..Len(s) /\ (i - 1) + 1 = i)
    BY <1>1, SMT
  <2> QED
    BY <1>1, <2>1
<1> HIDE DEF f
<1>5. Thinned(t, s)
  BY <1>2, <1>3, <1>4 DEF Thinned
<1> QED
  BY <1>5 DEF t

(* Damaging a packet thins a link, if initiation headers still parse.      *)
LEMMA ThinDamage ==
  ASSUME NEW s \in Seq(Packet), s # <<>>, NEW e \in Packet,
         ~e.ok, e.type = "init" => e.n >= 1
  PROVE  Thinned([s EXCEPT ![1] = e], s)
<1> DEFINE t == [s EXCEPT ![1] = e]
           f == [i \in 1..Len(t) |-> i]
<1>1. /\ Len(t) = Len(s) /\ Len(s) \in Nat \ {0}
      /\ t[1] = e /\ \A i \in 1..Len(s) : i # 1 => t[i] = s[i]
  BY ReplaceLemma, SMT
<1> HIDE DEF t
<1>2. f \in [1..Len(t) -> 1..Len(s)]
  BY <1>1
<1>3. \A i, j \in 1..Len(t) : i < j => f[i] <= f[j]
  BY <1>1, SMT
<1>4. ASSUME NEW i \in 1..Len(t)
      PROVE  t[i] = s[f[i]] \/ (~t[i].ok /\ (t[i].type = "init" => t[i].n >= 1))
  <2>1. CASE i = 1
    BY <1>1, <2>1
  <2>2. CASE i # 1
    BY <1>1, <2>2
  <2> QED
    BY <2>1, <2>2
<1> HIDE DEF f
<1>5. Thinned(t, s)
  BY <1>2, <1>3, <1>4 DEF Thinned
<1> QED
  BY <1>5 DEF t

(* What the invariant says of a link survives thinning it.                 *)
LEMMA ThinLemma ==
  ASSUME NEW s \in Seq(Packet), NEW t \in Seq(Packet), Thinned(t, s)
  PROVE  /\ \A d, b, e \in Int : DataInv(s, d, b, e) => DataInv(t, d, b, e)
         /\ OrderInv(s) => OrderInv(t)
         /\ \A m \in Int : OnlyInits(s, m) => OnlyInits(t, m)
         /\ \A b \in Int : NoAckOf(s, b) => NoAckOf(t, b)
         /\ \A b \in Int : AckOrderInv(s, b) => AckOrderInv(t, b)
<1>1. PICK f \in [1..Len(t) -> 1..Len(s)] :
        /\ \A i, j \in 1..Len(t) : i < j => f[i] <= f[j]
        /\ \A i \in 1..Len(t) :
             t[i] = s[f[i]] \/ (~t[i].ok /\ (t[i].type = "init" => t[i].n >= 1))
  BY DEF Thinned
<1>2. \A i \in 1..Len(t) : f[i] \in 1..Len(s)
  OBVIOUS
<1>3. \A i \in 1..Len(s) : s[i].msg \in Nat
  <2>1. \A i \in 1..Len(s) : s[i] \in Packet
    BY SMT
  <2> QED
    BY <2>1 DEF Packet
<1>4. ASSUME NEW d \in Int, NEW b \in Int, NEW e \in Int, DataInv(s, d, b, e)
      PROVE  DataInv(t, d, b, e)
  BY <1>1, <1>2, <1>4 DEF DataInv, IntactInit
<1>5. ASSUME OrderInv(s) PROVE OrderInv(t)
  <2> SUFFICES ASSUME NEW i \in 1..Len(t), NEW j \in 1..Len(t), i < j,
                      IntactInit(t[i]), IntactInit(t[j])
               PROVE  t[i].msg <= t[j].msg
    BY DEF OrderInv
  <2>1. t[i] = s[f[i]] /\ t[j] = s[f[j]] /\ f[i] <= f[j]
    BY <1>1 DEF IntactInit
  <2>2. f[i] = f[j] \/ f[i] < f[j]
    BY <1>2, <2>1, SMT
  <2>3. CASE f[i] = f[j]
    BY <1>2, <1>3, <2>1, <2>3, SMT
  <2>4. CASE f[i] < f[j]
    BY <1>2, <1>5, <2>1, <2>4 DEF OrderInv
  <2> QED
    BY <2>2, <2>3, <2>4
<1>6. ASSUME NEW m \in Int, OnlyInits(s, m) PROVE OnlyInits(t, m)
  BY <1>1, <1>2, <1>6 DEF OnlyInits, IntactInit
<1>7. ASSUME NEW b \in Int, NoAckOf(s, b) PROVE NoAckOf(t, b)
  BY <1>1, <1>2, <1>7 DEF NoAckOf, IntactAck
<1>8. ASSUME NEW b \in Int, AckOrderInv(s, b) PROVE AckOrderInv(t, b)
  <2> SUFFICES ASSUME NEW i \in 1..Len(t), NEW j \in 1..Len(t), i < j,
                      IntactAck(t[i]), IntactAck(t[j]), t[i].ack = b
               PROVE  t[j].ack = b
    BY DEF AckOrderInv
  <2>1. t[i] = s[f[i]] /\ t[j] = s[f[j]] /\ f[i] <= f[j]
    BY <1>1 DEF IntactAck
  <2>2. f[i] = f[j] \/ f[i] < f[j]
    BY <1>2, <2>1, SMT
  <2> QED
    BY <1>2, <1>8, <2>1, <2>2 DEF AckOrderInv
<1> QED
  BY <1>4, <1>5, <1>6, <1>7, <1>8

(* What the invariant says of the messages on a link when a packet that    *)
(* fits is added at its end.                                               *)
LEMMA AddData ==
  ASSUME NEW s \in Seq(Packet), NEW e \in Packet,
         NEW d \in Int, NEW b \in Int, NEW n \in Int, DataInv(s, d, b, n),
         e.type = "init" => e.n >= 1, e.type \notin ErrorType,
         e.type = "init" => /\ e.msg <= d /\ e.msg >= d - 1 /\ e.msg < n
                            /\ e.msg = d <=> e.seq = b
  PROVE  DataInv(Append(s, e), d, b, n)
<1> DEFINE t == Append(s, e)
<1>1. /\ Len(t) = Len(s) + 1 /\ Len(s) \in Nat
      /\ \A i \in 1..Len(s) : t[i] = s[i]
      /\ t[Len(s) + 1] = e
  BY AppendLemma, SMT
<1> HIDE DEF t
<1>2. \A i \in 1..Len(t) : i \in 1..Len(s) \/ (i = Len(s) + 1 /\ t[i] = e)
  BY <1>1, SMT
<1>3. DataInv(t, d, b, n)
  <2> SUFFICES ASSUME NEW i \in 1..Len(t)
               PROVE  /\ t[i].type = "init" => t[i].n >= 1
                      /\ t[i].type \in ErrorType => ~t[i].ok
                      /\ IntactInit(t[i]) => /\ t[i].msg <= d /\ t[i].msg >= d - 1
                                             /\ t[i].msg < n
                                             /\ t[i].msg = d <=> t[i].seq = b
    BY DEF DataInv
  <2>1. CASE i \in 1..Len(s)
    BY <1>1, <2>1 DEF DataInv
  <2>2. CASE i = Len(s) + 1
    BY <1>1, <2>2 DEF IntactInit
  <2> QED
    BY <1>2, <2>1, <2>2
<1> QED
  BY <1>3 DEF t

(* The same for the order of the messages.                                 *)
LEMMA AddOrder ==
  ASSUME NEW s \in Seq(Packet), NEW e \in Packet, OrderInv(s),
         e.type = "init" => \A i \in 1..Len(s) : IntactInit(s[i]) => s[i].msg <= e.msg
  PROVE  OrderInv(Append(s, e))
<1> DEFINE t == Append(s, e)
<1>1. /\ Len(t) = Len(s) + 1 /\ Len(s) \in Nat
      /\ \A i \in 1..Len(s) : t[i] = s[i]
      /\ t[Len(s) + 1] = e
  BY AppendLemma, SMT
<1> HIDE DEF t
<1>2. \A i \in 1..Len(t) : i \in 1..Len(s) \/ (i = Len(s) + 1 /\ t[i] = e)
  BY <1>1, SMT
<1>3. OrderInv(t)
  <2> SUFFICES ASSUME NEW i \in 1..Len(t), NEW j \in 1..Len(t), i < j,
                      IntactInit(t[i]), IntactInit(t[j])
               PROVE  t[i].msg <= t[j].msg
    BY DEF OrderInv
  <2>1. i \in 1..Len(s)
    BY <1>1, SMT
  <2>2. CASE j \in 1..Len(s)
    BY <1>1, <2>1, <2>2 DEF OrderInv
  <2>3. CASE j = Len(s) + 1
    BY <1>1, <2>1, <2>3 DEF IntactInit
  <2> QED
    BY <1>2, <2>2, <2>3
<1> QED
  BY <1>3 DEF t

(* The same for the only message a link holds.                             *)
LEMMA AddInits ==
  ASSUME NEW s \in Seq(Packet), NEW e \in Packet, NEW m \in Int,
         OnlyInits(s, m), e.type = "init" => e.msg = m
  PROVE  OnlyInits(Append(s, e), m)
<1> DEFINE t == Append(s, e)
<1>1. /\ Len(t) = Len(s) + 1 /\ Len(s) \in Nat
      /\ \A i \in 1..Len(s) : t[i] = s[i]
      /\ t[Len(s) + 1] = e
  BY AppendLemma, SMT
<1> HIDE DEF t
<1>2. \A i \in 1..Len(t) : i \in 1..Len(s) \/ (i = Len(s) + 1 /\ t[i] = e)
  BY <1>1, SMT
<1>3. OnlyInits(t, m)
  BY <1>1, <1>2 DEF OnlyInits, IntactInit
<1> QED
  BY <1>3 DEF t

(* The same for the acknowledgements.                                      *)
LEMMA AddAcks ==
  ASSUME NEW s \in Seq(Packet), NEW e \in Packet, NEW b \in Int
  PROVE  /\ NoAckOf(s, b) /\ (e.type = "ack" => e.ack # b) => NoAckOf(Append(s, e), b)
         /\ AckOrderInv(s, b) /\ (e.type = "ack" => e.ack = b \/ NoAckOf(s, b))
              => AckOrderInv(Append(s, e), b)
<1> DEFINE t == Append(s, e)
<1>1. /\ Len(t) = Len(s) + 1 /\ Len(s) \in Nat
      /\ \A i \in 1..Len(s) : t[i] = s[i]
      /\ t[Len(s) + 1] = e
  BY AppendLemma, SMT
<1> HIDE DEF t
<1>2. \A i \in 1..Len(t) : i \in 1..Len(s) \/ (i = Len(s) + 1 /\ t[i] = e)
  BY <1>1, SMT
<1>3. ASSUME NoAckOf(s, b), e.type = "ack" => e.ack # b
      PROVE  NoAckOf(t, b)
  BY <1>1, <1>2, <1>3 DEF NoAckOf, IntactAck
<1>4. ASSUME AckOrderInv(s, b), e.type = "ack" => e.ack = b \/ NoAckOf(s, b)
      PROVE  AckOrderInv(t, b)
  <2> SUFFICES ASSUME NEW i \in 1..Len(t), NEW j \in 1..Len(t), i < j,
                      IntactAck(t[i]), IntactAck(t[j]), t[i].ack = b
               PROVE  t[j].ack = b
    BY DEF AckOrderInv
  <2>1. i \in 1..Len(s)
    BY <1>1, SMT
  <2>2. CASE j \in 1..Len(s)
    BY <1>1, <1>4, <2>1, <2>2 DEF AckOrderInv
  <2>3. CASE j = Len(s) + 1
    BY <1>1, <1>4, <2>1, <2>3 DEF NoAckOf, IntactAck
  <2> QED
    BY <1>2, <2>2, <2>3
<1> QED
  BY <1>3, <1>4 DEF t

-------------------------------------------------------------------------------
(* The inductive step, one lemma per group of actions.                     *)

(* The types of one end's state, for arithmetic on bits and nonces.        *)
LEMMA StateLemma ==
  ASSUME TypeOK, NEW p \in Peer
  PROVE  /\ syncSend[p] \in {0, 1} /\ syncReceive[p] \in {0, 1}
         /\ sendAck[p] \in {0, 1, -1}
         /\ encNonce[p] \in Nat /\ decNonce[p] \in Nat /\ Confirmed(p) \in Int
         /\ link[p] \in Seq(Packet)
         /\ fragmenter[p] \in Fragmenter /\ reassembler[p] \in Reassembler
         /\ canSend[p] \in BOOLEAN
<1>1. /\ syncSend[p] \in Bit /\ syncReceive[p] \in Bit
      /\ sendAck[p] \in Bit \cup {NoAck}
      /\ encNonce[p] \in Nat /\ decNonce[p] \in Nat
      /\ link[p] \in Seq(Packet) /\ canSend[p] \in BOOLEAN
      /\ fragmenter[p] \in Fragmenter /\ reassembler[p] \in Reassembler
  BY DEF TypeOK
<1> QED
  BY <1>1, SMT DEF Bit, NoAck, Confirmed

(* The parts of the invariant for the messages from p, and back.           *)
LEMMA Parts ==
  ASSUME NEW p \in Peer, DirectionInv(p)
  PROVE  /\ SendInv(p) /\ SyncInv(p) /\ ReassemblyInv(p)
         /\ DataInv(link[Other(p)], decNonce[Other(p)], syncReceive[Other(p)], encNonce[p])
         /\ OrderInv(link[Other(p)])
         /\ AckInv(link[p], sendAck[Other(p)], syncSend[p], decNonce[Other(p)] = Confirmed(p))
BY DEF DirectionInv

LEMMA Whole ==
  ASSUME NEW p \in Peer, SendInv(p)', SyncInv(p)', ReassemblyInv(p)',
         DataInv(link'[Other(p)], decNonce'[Other(p)], syncReceive'[Other(p)], encNonce'[p]),
         OrderInv(link'[Other(p)]),
         AckInv(link'[p], sendAck'[Other(p)], syncSend'[p],
                decNonce'[Other(p)] = Confirmed(p)')
  PROVE  DirectionInv(p)'
BY DEF DirectionInv

(* A step that changes neither what p is sending nor what its peer expects *)
(* keeps what the invariant says of the two.                               *)
LEMMA Frame ==
  ASSUME NEW p \in Peer, SendInv(p), SyncInv(p),
         sendState'[p] = sendState[p], receiveState'[p] \in {"Idle", "Receiving"},
         canSend'[p] = canSend[p], encNonce'[p] = encNonce[p], syncSend'[p] = syncSend[p],
         fragmenter'[p].msg = fragmenter[p].msg, fragmenter'[p].seq = fragmenter[p].seq,
         decNonce'[Other(p)] = decNonce[Other(p)],
         syncReceive'[Other(p)] = syncReceive[Other(p)]
  PROVE  SendInv(p)' /\ SyncInv(p)' /\ Confirmed(p)' = Confirmed(p)
<1>1. Confirmed(p)' = Confirmed(p)
  BY DEF Confirmed
<1>2. SendInv(p)'
  BY DEF SendInv
<1>3. SyncInv(p)'
  BY <1>1 DEF SyncInv
<1> QED
  BY <1>1, <1>2, <1>3

(* The same for what the peer is receiving, if the packets on their way to *)
(* it still fit.                                                           *)
LEMMA ReassemblyFrame ==
  ASSUME NEW p \in Peer, ReassemblyInv(p),
         receiveState'[Other(p)] = receiveState[Other(p)],
         reassembler'[Other(p)] = reassembler[Other(p)],
         decNonce'[Other(p)] = decNonce[Other(p)], encNonce'[p] = encNonce[p],
         OnlyInits(link[Other(p)], decNonce[Other(p)])
           => OnlyInits(link'[Other(p)], decNonce[Other(p)])
  PROVE  ReassemblyInv(p)'
BY DEF ReassemblyInv

(* What the invariant says of the packets on their way to p when they are  *)
(* thinned.                                                                *)
LEMMA ThinState ==
  ASSUME TypeOK, TypeOK', IndInv, NEW p \in Peer, Thinned(link'[p], link[p])
  PROVE  LET q == Other(p) IN
         /\ DataInv(link'[p], decNonce[p], syncReceive[p], encNonce[q])
         /\ OrderInv(link'[p])
         /\ OnlyInits(link[p], decNonce[p]) => OnlyInits(link'[p], decNonce[p])
         /\ AckInv(link'[p], sendAck[q], syncSend[p], decNonce[q] = Confirmed(p))
<1> DEFINE q == Other(p)
<1>q. q \in Peer /\ Other(q) = p
  BY PeerLemma
<1>t. link[p] \in Seq(Packet) /\ link'[p] \in Seq(Packet)
  BY DEF TypeOK
<1>i. decNonce[p] \in Int /\ syncReceive[p] \in Int /\ encNonce[q] \in Int /\ syncSend[p] \in Int
  BY <1>q, StateLemma, SMT
<1>1. /\ DataInv(link[p], decNonce[p], syncReceive[p], encNonce[q]) /\ OrderInv(link[p])
      /\ AckInv(link[p], sendAck[q], syncSend[p], decNonce[q] = Confirmed(p))
  BY <1>q DEF IndInv, DirectionInv
<1>2. /\ DataInv(link'[p], decNonce[p], syncReceive[p], encNonce[q]) /\ OrderInv(link'[p])
      /\ OnlyInits(link[p], decNonce[p]) => OnlyInits(link'[p], decNonce[p])
  BY <1>t, <1>i, <1>1, ThinLemma
<1>3. /\ NoAckOf(link[p], syncSend[p]) => NoAckOf(link'[p], syncSend[p])
      /\ AckOrderInv(link[p], syncSend[p]) => AckOrderInv(link'[p], syncSend[p])
  BY <1>t, <1>i, ThinLemma
<1>4. AckInv(link'[p], sendAck[q], syncSend[p], decNonce[q] = Confirmed(p))
  BY <1>1, <1>3 DEF AckInv
<1> QED
  BY <1>2, <1>4

(* A link that loses, repeats or damages packets keeps the invariant.      *)
LEMMA FaultStep ==
  ASSUME TypeOK, TypeOK', IndInv, NEW p \in Peer,
         Thinned(link'[p], link[p]), link'[Other(p)] = link[Other(p)],
         UNCHANGED <<canSend, syncSend, syncReceive, sendAck, sendState, fragmenter,
                     receiveState, reassembler, encNonce, decNonce>>
  PROVE  IndInv'
<1> DEFINE q == Other(p)
<1>q. q \in Peer /\ q # p /\ Other(q) = p
  BY PeerLemma
<1>d. DirectionInv(p) /\ DirectionInv(q)
  BY <1>q DEF IndInv
<1>l. /\ DataInv(link'[p], decNonce[p], syncReceive[p], encNonce[q]) /\ OrderInv(link'[p])
      /\ OnlyInits(link[p], decNonce[p]) => OnlyInits(link'[p], decNonce[p])
      /\ AckInv(link'[p], sendAck[q], syncSend[p], decNonce[q] = Confirmed(p))
  BY ThinState
<1>1. DirectionInv(p)'
  <2>1. SendInv(p)' /\ SyncInv(p)' /\ Confirmed(p)' = Confirmed(p)
    BY <1>d, Parts, Frame DEF SendInv
  <2>2. ReassemblyInv(p)'
    BY <1>d, Parts, ReassemblyFrame
  <2> QED
    BY <1>d, <1>l, <2>1, <2>2, Parts, Whole
<1>2. DirectionInv(q)'
  <2>1. SendInv(q)' /\ SyncInv(q)' /\ Confirmed(q)' = Confirmed(q)
    BY <1>d, <1>q, Parts, Frame DEF SendInv
  <2>2. ReassemblyInv(q)'
    BY <1>d, <1>q, <1>l, Parts, ReassemblyFrame
  <2> QED
    BY <1>d, <1>q, <1>l, <2>1, <2>2, Parts, Whole
<1> QED
  BY <1>1, <1>2, PeerLemma DEF IndInv

-------------------------------------------------------------------------------
-------------------------------------------------------------------------------
(***************************************************************************)
(* Sending keeps the inductive invariant: one lemma per action.            *)
(***************************************************************************)

(* Submitting a message keeps the invariant.                               *)
LEMMA MessageInStep ==
  ASSUME TypeOK, IndInv, Protocol20, NEW p \in Peer, MessageIn(p)
  PROVE  IndInv'
<1> DEFINE q == Other(p)
<1>q. q \in Peer /\ q # p /\ Other(q) = p
  BY PeerLemma
<1>d. DirectionInv(p) /\ DirectionInv(q)
  BY <1>q DEF IndInv
<1>t. /\ encNonce[p] \in Nat /\ decNonce[q] \in Nat /\ syncReceive[q] \in {0, 1}
      /\ link[q] \in Seq(Packet)
  BY <1>q, StateLemma
<1>1. sendState[p] = "Idle" /\ canSend[p]
  BY <1>d DEF MessageIn, MessageInReady, DirectionInv, SendInv
<1>2. /\ encNonce'[p] = encNonce[p] + 1 /\ encNonce'[q] = encNonce[q]
      /\ sendState'[p] = "Sending" /\ sendState'[q] = sendState[q]
      /\ fragmenter'[p].msg = encNonce[p] /\ fragmenter'[p].seq = syncSend[p]
      /\ fragmenter'[q] = fragmenter[q]
  BY <1>1, <1>q, SMT DEF MessageIn, TypeOK
<1>3. UNCHANGED <<sendAck, canSend, syncSend, syncReceive, receiveState, reassembler,
                  decNonce, link>>
  BY <1>1 DEF MessageIn, Protocol20, TypeOK
<1>4. DirectionInv(p)'
  <2>0. Confirmed(p) = encNonce[p] /\ Confirmed(p)' = encNonce[p]
    BY <1>t, <1>1, <1>2, SMT DEF Confirmed
  <2>1. SendInv(p)' /\ SyncInv(p)'
    <3>1. SendInv(p) /\ SyncInv(p)
      BY <1>d, Parts
    <3>2. SendInv(p)'
      BY <1>t, <1>2, <1>3, <3>1, SMT DEF SendInv
    <3>3. SyncInv(p)'
      BY <1>1, <1>3, <2>0, <3>1 DEF SyncInv
    <3> QED
      BY <3>2, <3>3
  <2>2. DataInv(link[q], decNonce[q], syncReceive[q], encNonce[p] + 1)
    <3>1. \A i \in 1..Len(link[q]) : link[q][i].msg \in Int
      <4>1. \A i \in 1..Len(link[q]) : link[q][i] \in Packet
        BY <1>t, SMT
      <4> QED
        BY <4>1, SMT DEF Packet
    <3> QED
      BY <1>d, <1>t, <3>1, Parts, SMT DEF DataInv
  <2>3. ReassemblyInv(p)'
    BY <1>d, <1>t, <1>2, <1>3, Parts, SMT DEF ReassemblyInv
  <2>4. (decNonce'[q] = Confirmed(p)') = (decNonce[q] = Confirmed(p))
    BY <1>3, <2>0
  <2> QED
    BY <1>d, <1>2, <1>3, <2>1, <2>2, <2>3, <2>4, Parts, Whole
<1>5. DirectionInv(q)'
  BY <1>d, <1>q, <1>2, <1>3 DEF DirectionInv, SendInv, SyncInv, ReassemblyInv, Confirmed
<1> QED
  BY <1>4, <1>5, PeerLemma DEF IndInv

(* Starting to repeat the message being sent keeps the invariant.          *)
LEMMA MessageRetransmitStep ==
  ASSUME TypeOK, IndInv, NEW p \in Peer, MessageRetransmit(p)
  PROVE  IndInv'
<1> DEFINE q == Other(p)
<1>q. q \in Peer /\ q # p /\ Other(q) = p
  BY PeerLemma
<1>d. DirectionInv(p) /\ DirectionInv(q)
  BY <1>q DEF IndInv
<1>1. /\ fragmenter'[p].msg = fragmenter[p].msg /\ fragmenter'[p].seq = fragmenter[p].seq
      /\ fragmenter'[q] = fragmenter[q]
  <2>1. fragmenter[p] \in Fragmenter
    BY StateLemma
  <2>2. fragmenter'[p] = Reset(fragmenter[p]) /\ fragmenter'[q] = fragmenter[q]
    BY <1>q DEF MessageRetransmit, TypeOK
  <2> QED
    BY <2>1, <2>2 DEF Reset, Fragmenter
<1>2. UNCHANGED <<canSend, syncSend, syncReceive, sendAck, sendState, receiveState,
                  reassembler, encNonce, decNonce, link>>
  BY DEF MessageRetransmit
<1>3. DirectionInv(p)'
  BY <1>d, <1>q, <1>1, <1>2 DEF DirectionInv, SendInv, SyncInv, ReassemblyInv, Confirmed
<1>4. DirectionInv(q)'
  BY <1>d, <1>q, <1>1, <1>2 DEF DirectionInv, SendInv, SyncInv, ReassemblyInv, Confirmed
<1> QED
  BY <1>3, <1>4, PeerLemma DEF IndInv

(* Picking a message up keeps the invariant: it was decrypted with the     *)
(* right nonce, and no packet on the way belongs to an earlier message.    *)
LEMMA MessageOutStep ==
  ASSUME TypeOK, IndInv, NEW q \in Peer, MessageOut(q)
  PROVE  IndInv'
<1> DEFINE p == Other(q)
<1>q. p \in Peer /\ q # p /\ Other(p) = q
  BY PeerLemma
<1>d. DirectionInv(p) /\ DirectionInv(q)
  BY <1>q DEF IndInv
<1>t. /\ encNonce[p] \in Nat /\ decNonce[q] \in Nat /\ Confirmed(p) \in Int
      /\ syncReceive[q] \in {0, 1} /\ syncSend[p] \in {0, 1} /\ link[q] \in Seq(Packet)
  BY <1>q, StateLemma
<1>1. /\ reassembler[q].msg = decNonce[q] /\ decNonce[q] < encNonce[p]
      /\ OnlyInits(link[q], decNonce[q]) /\ Decrypts(q)
  BY <1>d, <1>q DEF MessageOut, DirectionInv, ReassemblyInv, Decrypts
<1>2. decNonce[q] = Confirmed(p) /\ syncReceive[q] = syncSend[p] /\ sendState[p] = "Sending"
  BY <1>d, <1>q, <1>t, <1>1, SMTT(60) DEF DirectionInv, SyncInv, SendInv, Confirmed
<1>3. /\ decNonce'[q] = decNonce[q] + 1 /\ decNonce'[p] = decNonce[p]
      /\ syncReceive'[q] = 1 - syncReceive[q] /\ syncReceive'[p] = syncReceive[p]
      /\ sendAck'[q] = syncReceive[q] /\ sendAck'[p] = sendAck[p]
  BY <1>q, <1>1 DEF MessageOut, TypeOK
<1>4. /\ receiveState'[q] = "Idle" /\ receiveState'[p] = receiveState[p]
      /\ reassembler'[p] = reassembler[p]
      /\ UNCHANGED <<sendState, fragmenter, canSend, syncSend, encNonce, link>>
  BY <1>q, <1>1 DEF MessageOut, TypeOK
<1>5. DirectionInv(p)'
  <2>0. Confirmed(p)' = Confirmed(p)
    BY <1>4 DEF Confirmed
  <2>1. SendInv(p)' /\ ReassemblyInv(p)'
    BY <1>d, <1>q, <1>4, Parts DEF SendInv, ReassemblyInv
  <2>s. SyncInv(p)'
    <3>1. decNonce'[q] = Confirmed(p)' + 1 /\ syncReceive'[q] # syncSend'[p]
      BY <1>t, <1>2, <1>3, <1>4, <2>0, SMT
    <3> QED
      BY <1>q, <1>2, <1>4, <3>1 DEF SyncInv
  <2>2. DataInv(link[q], decNonce[q] + 1, 1 - syncReceive[q], encNonce[p])
    <3>1. \A i \in 1..Len(link[q]) : link[q][i].seq \in {0, 1} /\ link[q][i].msg \in Nat
      <4>1. \A i \in 1..Len(link[q]) : link[q][i] \in Packet
        BY <1>t, SMT
      <4> QED
        BY <4>1 DEF Packet, Bit
    <3>2. DataInv(link[q], decNonce[q], syncReceive[q], encNonce[p])
      BY <1>d, <1>q DEF DirectionInv
    <3> QED
      BY <1>t, <1>1, <3>1, <3>2, SMT DEF DataInv, OnlyInits
  <2>3. AckInv(link[p], syncReceive[q], syncSend[p], FALSE)
    <3>1. AckInv(link[p], sendAck[q], syncSend[p], decNonce[q] = Confirmed(p))
      BY <1>d, <1>q, Parts
    <3> QED
      BY <1>2, <3>1 DEF AckInv
  <2>4. (decNonce'[q] = Confirmed(p)') = FALSE
    BY <1>t, <1>2, <1>3, <2>0, SMT
  <2> QED
    BY <1>d, <1>q, <1>3, <1>4, <2>1, <2>s, <2>2, <2>3, <2>4, Parts, Whole
<1>6. DirectionInv(q)'
  BY <1>d, <1>q, <1>3, <1>4, ZenonT(60) DEF DirectionInv, SendInv, SyncInv, ReassemblyInv, Confirmed
<1> QED
  BY <1>5, <1>6, PeerLemma DEF IndInv

(* Sending the pending acknowledgement keeps the invariant.                *)
LEMMA SendPendingAckStep ==
  ASSUME TypeOK, IndInv, NEW q \in Peer, SendPendingAck(q)
  PROVE  IndInv'
<1> DEFINE p == Other(q)
           e == AckPacket(sendAck[q])
<1>q. p \in Peer /\ q # p /\ Other(p) = q
  BY PeerLemma
<1>d. DirectionInv(p) /\ DirectionInv(q)
  BY <1>q DEF IndInv
<1>t. /\ sendAck[q] \in {0, 1} /\ syncSend[p] \in {0, 1} /\ link[p] \in Seq(Packet)
      /\ decNonce[p] \in Int /\ syncReceive[p] \in Int /\ encNonce[q] \in Int
  BY <1>q, StateLemma, SMT DEF SendPendingAck, NoAck
<1>e. e \in Packet /\ e.type = "ack" /\ e.ack = sendAck[q] /\ e.type \notin ErrorType
  <2>1. sendAck[q] \in Bit
    BY <1>t DEF Bit
  <2>2. e.type = "ack" /\ e.ack = sendAck[q]
    BY DEF AckPacket
  <2> QED
    BY <2>1, <2>2, PacketLemma DEF ErrorType
<1> HIDE DEF e
<1>1. /\ link'[p] = Append(link[p], e) /\ link'[q] = link[q]
      /\ sendAck'[q] = -1 /\ sendAck'[p] = sendAck[p]
  BY <1>q DEF SendPendingAck, Send, TypeOK, NoAck, e
<1>2. UNCHANGED <<canSend, syncSend, syncReceive, sendState, fragmenter, receiveState,
                  reassembler, encNonce, decNonce>>
  BY DEF SendPendingAck
<1>3. DirectionInv(p)'
  <2>1. AckInv(link'[p], -1, syncSend[p], decNonce[q] = Confirmed(p))
    <3>1. AckInv(link[p], sendAck[q], syncSend[p], decNonce[q] = Confirmed(p))
      BY <1>d, <1>q DEF DirectionInv
    <3>2. AckOrderInv(link'[p], syncSend[p])
      BY <1>t, <1>e, <1>1, <3>1, AddAcks, SMT DEF AckInv
    <3>3. decNonce[q] = Confirmed(p) => NoAckOf(link'[p], syncSend[p])
      BY <1>t, <1>e, <1>1, <3>1, AddAcks, SMT DEF AckInv
    <3> QED
      BY <1>t, <3>2, <3>3, SMT DEF AckInv
  <2> QED
    BY <1>d, <1>q, <1>1, <1>2, <2>1
    DEF DirectionInv, SendInv, SyncInv, ReassemblyInv, Confirmed
<1>4. DirectionInv(q)'
  <2>0. DataInv(link[p], decNonce[p], syncReceive[p], encNonce[q]) /\ OrderInv(link[p])
    BY <1>d, <1>q DEF DirectionInv
  <2>1. DataInv(link'[p], decNonce[p], syncReceive[p], encNonce[q])
    BY <1>t, <1>e, <1>1, <2>0, AddData
  <2>2. OrderInv(link'[p])
    BY <1>t, <1>e, <1>1, <2>0, AddOrder
  <2>3. OnlyInits(link[p], decNonce[p]) => OnlyInits(link'[p], decNonce[p])
    BY <1>t, <1>e, <1>1, AddInits
  <2> QED
    BY <1>d, <1>q, <1>1, <1>2, <2>1, <2>2, <2>3
    DEF DirectionInv, SendInv, SyncInv, ReassemblyInv, Confirmed
<1> QED
  BY <1>3, <1>4, PeerLemma DEF IndInv

(* Sending the next fragment keeps the invariant.                          *)
LEMMA SendFragmentStep ==
  ASSUME TypeOK, IndInv, NEW p \in Peer, SendFragment(p)
  PROVE  IndInv'
<1> DEFINE q == Other(p)
           e == Fragment(fragmenter[p])
<1>q. q \in Peer /\ q # p /\ Other(q) = p
  BY PeerLemma
<1>d. DirectionInv(p) /\ DirectionInv(q)
  BY <1>q DEF IndInv
<1>t. /\ fragmenter[p] \in Fragmenter /\ link[q] \in Seq(Packet)
      /\ decNonce[q] \in Nat /\ syncReceive[q] \in {0, 1} /\ encNonce[p] \in Nat
      /\ syncSend[p] \in {0, 1} /\ syncSend[q] \in {0, 1} /\ Confirmed(p) \in Int
  BY <1>q, StateLemma
<1>s. /\ sendState[p] = "Sending" /\ fragmenter[p].msg = encNonce[p] - 1
      /\ Confirmed(p) = encNonce[p] - 1 /\ fragmenter[p].seq = syncSend[p]
  BY <1>d DEF SendFragment, DirectionInv, SendInv, Confirmed
<1>e. /\ e \in Packet /\ e.type # "ack" /\ e.type \notin ErrorType
      /\ e.msg = encNonce[p] - 1
      /\ e.type = "init" => e.n >= 1 /\ e.seq = syncSend[p]
  <2>1. e \in Packet
    BY <1>t, PacketLemma
  <2>2. /\ e.type \in {"init", "cont"} /\ e.msg = fragmenter[p].msg
        /\ e.type = "init" => e.n = FragCount /\ e.seq = fragmenter[p].seq
    BY DEF Fragment
  <2> QED
    BY <1>s, <2>1, <2>2, BoundAssumption, SMT DEF ErrorType
<1> HIDE DEF e
<1>1. /\ link'[q] = Append(link[q], e) /\ link'[p] = link[p]
  BY <1>q DEF SendFragment, Send, TypeOK, e
<1>2. /\ fragmenter'[p].msg = fragmenter[p].msg /\ fragmenter'[p].seq = fragmenter[p].seq
      /\ fragmenter'[q] = fragmenter[q] /\ canSend'[q] = canSend[q]
  <2>1. /\ fragmenter'[p] = [fragmenter[p] EXCEPT !.off = @ + 1]
        /\ fragmenter'[q] = fragmenter[q] /\ canSend'[q] = canSend[q]
    BY <1>q DEF SendFragment, TypeOK
  <2> QED
    BY <1>t, <2>1 DEF Fragmenter
<1>3. UNCHANGED <<syncSend, syncReceive, sendAck, sendState, receiveState,
                  reassembler, encNonce, decNonce>>
  BY DEF SendFragment
<1>4. DirectionInv(p)'
  <2>0. /\ DataInv(link[q], decNonce[q], syncReceive[q], encNonce[p]) /\ OrderInv(link[q])
        /\ SyncInv(p)
    BY <1>d DEF DirectionInv
  <2>1. DataInv(link'[q], decNonce[q], syncReceive[q], encNonce[p])
    <3>1. e.type = "init" => /\ e.msg <= decNonce[q] /\ e.msg >= decNonce[q] - 1
                             /\ e.msg < encNonce[p]
                             /\ e.msg = decNonce[q] <=> e.seq = syncReceive[q]
      BY <1>s, <1>t, <1>e, <2>0, SMT DEF SyncInv
    <3> QED
      BY <1>t, <1>e, <1>1, <2>0, <3>1, AddData, SMT
  <2>2. OrderInv(link'[q])
    <3>1. \A i \in 1..Len(link[q]) : IntactInit(link[q][i]) => link[q][i].msg <= e.msg
      <4>1. \A i \in 1..Len(link[q]) : link[q][i] \in Packet
        BY <1>t, SMT
      <4>2. \A i \in 1..Len(link[q]) : link[q][i].msg \in Nat
        BY <4>1 DEF Packet
      <4> QED
        BY <1>t, <1>e, <2>0, <4>2, SMT DEF DataInv
    <3> QED
      BY <1>t, <1>e, <1>1, <2>0, <3>1, AddOrder
  <2>3. ReassemblyInv(p)'
    <3>1. decNonce[q] < encNonce[p] => e.msg = decNonce[q]
      BY <1>s, <1>t, <1>e, <2>0, SMT DEF SyncInv
    <3>2. OnlyInits(link[q], decNonce[q]) /\ decNonce[q] < encNonce[p]
            => OnlyInits(link'[q], decNonce[q])
      BY <1>t, <1>e, <1>1, <3>1, AddInits, SMT
    <3> QED
      BY <1>d, <1>3, <3>2 DEF DirectionInv, ReassemblyInv
  <2>4. SendInv(p)' /\ SyncInv(p)' /\ Confirmed(p)' = Confirmed(p)
    BY <1>d, <1>s, <1>2, <1>3 DEF DirectionInv, SendInv, SyncInv, Confirmed
  <2> QED
    BY <1>d, <1>1, <1>3, <2>1, <2>2, <2>3, <2>4 DEF DirectionInv
<1>5. DirectionInv(q)'
  <2>1. AckInv(link'[q], sendAck[p], syncSend[q], decNonce[p] = Confirmed(q))
    <3>1. AckInv(link[q], sendAck[p], syncSend[q], decNonce[p] = Confirmed(q))
      BY <1>d, <1>q DEF DirectionInv
    <3>2. /\ NoAckOf(link[q], syncSend[q]) => NoAckOf(link'[q], syncSend[q])
          /\ AckOrderInv(link[q], syncSend[q]) => AckOrderInv(link'[q], syncSend[q])
      BY <1>t, <1>e, <1>1, AddAcks, SMT
    <3> QED
      BY <3>1, <3>2 DEF AckInv
  <2> QED
    BY <1>d, <1>q, <1>1, <1>2, <1>3, <2>1
    DEF DirectionInv, SendInv, SyncInv, ReassemblyInv, Confirmed
<1> QED
  BY <1>4, <1>5, PeerLemma DEF IndInv

-------------------------------------------------------------------------------
(***************************************************************************)
(* Receiving keeps the inductive invariant: one lemma per kind of packet.  *)
(***************************************************************************)

(* Receiving an acknowledgement keeps the invariant: it confirms only a    *)
(* message that was picked up, and none of those behind it the next one.   *)
LEMMA HandleAckStep ==
  ASSUME TypeOK, TypeOK', IndInv, NEW p \in Peer, HandleAck(p)
  PROVE  IndInv'
<1> DEFINE q == Other(p)
<1>q. q \in Peer /\ q # p /\ Other(q) = p
  BY PeerLemma
<1>d. DirectionInv(p) /\ DirectionInv(q)
  BY <1>q DEF IndInv
<1>t. /\ link[p] \in Seq(Packet) /\ link[p] # <<>> /\ Tail(link[p]) \in Seq(Packet)
      /\ Head(link[p]) = link[p][1] /\ Len(link[p]) \in Nat \ {0}
      /\ syncSend[p] \in {0, 1} /\ sendAck[q] \in {0, 1, -1}
      /\ encNonce[p] \in Nat /\ decNonce[q] \in Nat /\ syncReceive[q] \in {0, 1}
      /\ decNonce[p] \in Nat /\ syncReceive[p] \in {0, 1} /\ encNonce[q] \in Nat
  BY <1>q, StateLemma, TailLemma DEF HandleAck, Incoming
<1>1. link'[p] = Tail(link[p]) /\ link'[q] = link[q] /\ Thinned(link'[p], link[p])
  <2>1. link'[p] = Tail(link[p]) /\ link'[q] = link[q]
    BY <1>q DEF HandleAck, Incoming, Receive, TypeOK
  <2> QED
    BY <1>t, <2>1, ThinTail
<1>2. UNCHANGED <<syncReceive, sendAck, receiveState, reassembler, encNonce, decNonce>>
  BY DEF HandleAck
<1>3. CASE ~AckAccepted(p, Head(link[p]))
  <2>1. UNCHANGED <<syncSend, canSend, sendState, fragmenter>>
    BY <1>3 DEF HandleAck
  <2> QED
    BY <1>1, <1>2, <2>1, FaultStep
<1>4. CASE AckAccepted(p, Head(link[p]))
  <2>1. /\ sendState[p] = "Sending" /\ link[p][1].ack = syncSend[p]
        /\ IntactAck(link[p][1])
    BY <1>4, <1>t DEF AckAccepted, HandleAck, Incoming, IntactAck
  <2>2. /\ syncSend'[p] = 1 - syncSend[p] /\ syncSend'[q] = syncSend[q]
        /\ canSend'[p] = TRUE /\ canSend'[q] = canSend[q]
        /\ sendState'[p] = "Idle" /\ sendState'[q] = sendState[q]
        /\ fragmenter'[q] = fragmenter[q]
    BY <1>4, <1>q, SMT DEF HandleAck, MarkDelivered, TypeOK
  <2>a. AckInv(link[p], sendAck[q], syncSend[p], decNonce[q] = Confirmed(p))
    BY <1>d DEF DirectionInv
  <2>3. ~NoAckOf(link[p], syncSend[p])
    BY <1>t, <2>1, SMT DEF NoAckOf
  <2>4. /\ decNonce[q] = Confirmed(p) + 1 /\ syncReceive[q] # syncSend[p]
        /\ sendAck[q] # 1 - syncSend[p]
    BY <1>d, <2>3, <2>a DEF DirectionInv, SyncInv, AckInv
  <2>5. NoAckOf(Tail(link[p]), 1 - syncSend[p]) /\ AckOrderInv(Tail(link[p]), 1 - syncSend[p])
    <3>1. \A i \in 1..Len(Tail(link[p])) :
            /\ Tail(link[p])[i] = link[p][i + 1] /\ i + 1 \in 1..Len(link[p])
      BY <1>t, TailLemma
    <3>2. \A j \in 1..Len(link[p]) :
            1 < j /\ IntactAck(link[p][j]) => link[p][j].ack = syncSend[p]
      BY <1>t, <2>1, <2>a, SMT DEF AckInv, AckOrderInv
    <3>3. NoAckOf(Tail(link[p]), 1 - syncSend[p])
      BY <1>t, <3>1, <3>2, SMT DEF NoAckOf
    <3> QED
      BY <3>3 DEF NoAckOf, AckOrderInv
  <2>6. DirectionInv(p)'
    <3>1. Confirmed(p)' = encNonce[p] /\ Confirmed(p) = encNonce[p] - 1
      BY <1>2, <2>1, <2>2 DEF Confirmed
    <3>2. /\ sendAck'[q] # syncSend'[p] /\ NoAckOf(link'[p], syncSend'[p])
          /\ AckOrderInv(link'[p], syncSend'[p])
      BY <1>1, <1>2, <2>2, <2>4, <2>5
    <3>3. SendInv(p)'
      BY <1>d, <1>2, <2>2 DEF DirectionInv, SendInv
    <3>4. SyncInv(p)'
      <4>1. decNonce'[q] = encNonce[p] /\ syncReceive'[q] = syncSend'[p]
        BY <1>t, <1>2, <2>2, <2>4, <3>1, SMT
      <4> QED
        BY <3>1, <4>1 DEF SyncInv
    <3>d. /\ DataInv(link[q], decNonce[q], syncReceive[q], encNonce[p])
          /\ OrderInv(link[q]) /\ ReassemblyInv(p)
      BY <1>d DEF DirectionInv
    <3>5. ReassemblyInv(p)'
      BY <1>1, <1>2, <3>d DEF ReassemblyInv
    <3>6. /\ DataInv(link'[q], decNonce'[q], syncReceive'[q], encNonce'[p])
          /\ OrderInv(link'[q])
      BY <1>1, <1>2, <3>d
    <3>7. AckInv(link[p], sendAck[q], syncSend[p], decNonce[q] = Confirmed(p))'
      BY <3>2 DEF AckInv
    <3> QED
      BY <3>3, <3>4, <3>5, <3>6, <3>7 DEF DirectionInv
  <2>7. DirectionInv(q)'
    <3>1. /\ DataInv(link'[p], decNonce[p], syncReceive[p], encNonce[q]) /\ OrderInv(link'[p])
          /\ OnlyInits(link[p], decNonce[p]) => OnlyInits(link'[p], decNonce[p])
      BY <1>1, ThinState
    <3> QED
      BY <1>d, <1>q, <1>1, <1>2, <2>2, <3>1
      DEF DirectionInv, SendInv, SyncInv, ReassemblyInv, Confirmed
  <2> QED
    BY <2>6, <2>7, PeerLemma DEF IndInv
<1> QED
  BY <1>3, <1>4

(* Taking a packet keeps the invariant if what the reassembler holds then  *)
(* is good only for the message being sent.                                *)
LEMMA ReassembleStep ==
  ASSUME TypeOK, TypeOK', IndInv, NEW p \in Peer,
         Thinned(link'[p], link[p]), link'[Other(p)] = link[Other(p)],
         UNCHANGED <<canSend, syncSend, syncReceive, sendAck, sendState, fragmenter,
                     encNonce, decNonce>>,
         receiveState'[Other(p)] = receiveState[Other(p)],
         reassembler'[Other(p)] = reassembler[Other(p)],
         receiveState'[p] \in {"Idle", "Receiving"},
         receiveState'[p] = "Receiving" => ~reassembler'[p].zeroed,
         receiveState'[p] = "Receiving" /\ reassembler'[p].good
           => /\ reassembler'[p].msg = decNonce[p] /\ decNonce[p] < encNonce[Other(p)]
              /\ OnlyInits(link'[p], decNonce[p])
  PROVE  IndInv'
<1> DEFINE q == Other(p)
<1>q. q \in Peer /\ q # p /\ Other(q) = p
  BY PeerLemma
<1>d. DirectionInv(p) /\ DirectionInv(q)
  BY <1>q DEF IndInv
<1>1. DirectionInv(p)'
  <2>1. AckInv(link'[p], sendAck[q], syncSend[p], decNonce[q] = Confirmed(p))
    BY ThinState
  <2> QED
    BY <1>d, <2>1 DEF DirectionInv, SendInv, SyncInv, ReassemblyInv, Confirmed
<1>2. DirectionInv(q)'
  <2>1. DataInv(link'[p], decNonce[p], syncReceive[p], encNonce[q]) /\ OrderInv(link'[p])
    BY ThinState
  <2>2. ReassemblyInv(q)'
    BY <1>q DEF ReassemblyInv
  <2> QED
    BY <1>d, <1>q, <2>1, <2>2 DEF DirectionInv, SendInv, SyncInv, Confirmed
<1> QED
  BY <1>1, <1>2, PeerLemma DEF IndInv

(* Without piggybacking the last packet of a message changes only the      *)
(* receiving state.                                                        *)
LEMMA LastPacketLemma ==
  ASSUME TypeOK, Protocol20, NEW p \in Peer, NEW r, HandleLastPacket(p, r)
  PROVE  /\ UNCHANGED <<syncSend, canSend, sendState, fragmenter>>
         /\ receiveState'[Other(p)] = receiveState[Other(p)]
         /\ reassembler'[Other(p)] = reassembler[Other(p)]
         /\ \/ receiveState'[p] = "Idle"
            \/ receiveState'[p] = "Receiving" /\ reassembler'[p] = r
<1>1. Other(p) \in Peer /\ Other(p) # p
  BY PeerLemma
<1>2. UNCHANGED <<syncSend, canSend, sendState, fragmenter>>
  BY DEF HandleLastPacket, Protocol20
<1>3. \/ /\ receiveState' = [receiveState EXCEPT ![p] = "Idle"]
         /\ reassembler' = [reassembler EXCEPT ![p] = NoReassembler]
      \/ /\ receiveState' = [receiveState EXCEPT ![p] = "Receiving"]
         /\ reassembler' = [reassembler EXCEPT ![p] = r]
  BY DEF HandleLastPacket
<1> QED
  BY <1>1, <1>2, <1>3 DEF TypeOK

(* Receiving a continuation keeps the invariant.                           *)
LEMMA HandleContStep ==
  ASSUME TypeOK, TypeOK', IndInv, Protocol20, NEW p \in Peer, HandleCont(p)
  PROVE  IndInv'
<1> DEFINE q == Other(p)
           r == reassembler[p]
           a == Appended(r, Head(link[p]))
<1>q. q \in Peer /\ q # p /\ Other(q) = p
  BY PeerLemma
<1>t. link[p] \in Seq(Packet) /\ link[p] # <<>> /\ r \in Reassembler
  BY StateLemma DEF HandleCont, Incoming
<1>1. /\ link'[p] = Tail(link[p]) /\ link'[q] = link[q]
      /\ UNCHANGED <<syncReceive, sendAck, encNonce, decNonce>>
  BY <1>q DEF HandleCont, Incoming, Receive, TypeOK
<1>2. Thinned(link'[p], link[p])
  BY <1>t, <1>1, ThinTail
<1>3. CASE receiveState[p] # "Receiving"
  <2>1. UNCHANGED <<receiveState, reassembler, syncSend, canSend, sendState, fragmenter>>
    BY <1>3 DEF HandleCont
  <2> QED
    BY <1>1, <1>2, <2>1, FaultStep
<1>4. CASE receiveState[p] = "Receiving"
  <2>1. HandleLastPacket(p, a)
    BY <1>4 DEF HandleCont
  <2>2. /\ UNCHANGED <<syncSend, canSend, sendState, fragmenter>>
        /\ receiveState'[q] = receiveState[q] /\ reassembler'[q] = reassembler[q]
        /\ \/ receiveState'[p] = "Idle"
           \/ receiveState'[p] = "Receiving" /\ reassembler'[p] = a
    <3> HIDE DEF a
    <3> QED
      BY <2>1, LastPacketLemma
  <2>3. a.zeroed = r.zeroed /\ a.msg = r.msg /\ (a.good => r.good)
    BY <1>t DEF Appended, Reassembler
  <2> HIDE DEF a
  <2>4. ReassemblyInv(q)
    BY <1>q DEF IndInv, DirectionInv
  <2>5. /\ ~r.zeroed
        /\ r.good => /\ r.msg = decNonce[p] /\ decNonce[p] < encNonce[q]
                     /\ OnlyInits(link[p], decNonce[p])
    BY <1>4, <1>q, <2>4 DEF ReassemblyInv
  <2>6. OnlyInits(link[p], decNonce[p]) => OnlyInits(link'[p], decNonce[p])
    BY <1>2, ThinState
  <2>7. receiveState'[p] = "Receiving" => ~reassembler'[p].zeroed
    BY <2>2, <2>3, <2>5
  <2>8. receiveState'[p] = "Receiving" /\ reassembler'[p].good
          => /\ reassembler'[p].msg = decNonce[p] /\ decNonce[p] < encNonce[q]
             /\ OnlyInits(link'[p], decNonce[p])
    BY <2>2, <2>3, <2>5, <2>6
  <2> QED
    BY <1>1, <1>2, <2>2, <2>7, <2>8, ReassembleStep
<1> QED
  BY <1>3, <1>4

(* Receiving an initiation packet keeps the invariant: if it is intact and *)
(* its bit is the expected one it starts the message being sent, and       *)
(* otherwise it asks for the acknowledgement of the last one delivered.    *)
LEMMA HandleInitStep ==
  ASSUME TypeOK, TypeOK', IndInv, Protocol20, NEW p \in Peer, HandleInit(p)
  PROVE  IndInv'
<1> DEFINE q == Other(p)
           pkt == Head(link[p])
           r == NewReassembler(pkt)
<1>q. q \in Peer /\ q # p /\ Other(q) = p
  BY PeerLemma
<1>d. DirectionInv(p) /\ DirectionInv(q)
  BY <1>q DEF IndInv
<1>t. /\ link[p] \in Seq(Packet) /\ link[p] # <<>> /\ Len(link[p]) \in Nat \ {0}
      /\ pkt \in Packet /\ pkt = link[p][1]
      /\ \A i \in 1..Len(Tail(link[p])) : Tail(link[p])[i] = link[p][i + 1]
                                           /\ i + 1 \in 1..Len(link[p])
  BY StateLemma, TailLemma DEF HandleInit, Incoming
<1>i. /\ decNonce[p] \in Nat /\ encNonce[q] \in Nat /\ syncReceive[p] \in {0, 1}
      /\ syncSend[q] \in {0, 1} /\ sendAck[p] \in {0, 1, -1}
  BY <1>q, StateLemma
<1>1. /\ link'[p] = Tail(link[p]) /\ link'[q] = link[q] /\ pkt.type = "init"
      /\ UNCHANGED <<syncReceive, encNonce, decNonce>>
  BY <1>q DEF HandleInit, Incoming, Receive, TypeOK
<1>2. Thinned(link'[p], link[p])
  BY <1>t, <1>1, ThinTail
<1>3. /\ DataInv(link[p], decNonce[p], syncReceive[p], encNonce[q])
      /\ OrderInv(link[p])
  BY <1>d, <1>q DEF DirectionInv
<1>4. CASE /\ ~ReceiveStart(p, pkt)
           /\ HandleInvalidSeq(p, pkt)
  <2>1. /\ UNCHANGED <<receiveState, reassembler, syncSend, canSend, sendState, fragmenter>>
        /\ sendAck'[q] = sendAck[q]
        /\ \/ sendAck'[p] = sendAck[p]
           \/ sendAck'[p] = 1 - syncReceive[p]
    <3>1. pkt.seq = 1 - syncReceive[p]
      <4>1. pkt.seq \in {0, 1}
        BY <1>t DEF Packet, Bit
      <4> QED
        BY <1>4, <1>i, <4>1, SMT DEF ReceiveStart
    <3> QED
      BY <1>4, <1>q, <3>1 DEF HandleInvalidSeq, TypeOK
  <2>2. DirectionInv(p)'
    <3>1. AckInv(link'[p], sendAck[q], syncSend[p], decNonce[q] = Confirmed(p))
      BY <1>2, ThinState
    <3> QED
      BY <1>d, <1>1, <2>1, <3>1 DEF DirectionInv, SendInv, SyncInv, ReassemblyInv, Confirmed
  <2>3. DirectionInv(q)'
    <3>1. /\ DataInv(link'[p], decNonce[p], syncReceive[p], encNonce[q]) /\ OrderInv(link'[p])
          /\ OnlyInits(link[p], decNonce[p]) => OnlyInits(link'[p], decNonce[p])
      BY <1>2, ThinState
    <3>2. AckInv(link[q], sendAck[p], syncSend[q], decNonce[p] = Confirmed(q)) /\ SyncInv(q)
      BY <1>d, <1>q DEF DirectionInv
    <3>3. AckInv(link[q], sendAck'[p], syncSend[q], decNonce[p] = Confirmed(q))
      BY <1>i, <1>q, <2>1, <3>2, SMT DEF AckInv, SyncInv
    <3>4. SendInv(q)' /\ SyncInv(q)' /\ Confirmed(q)' = Confirmed(q)
      BY <1>d, <1>q, <1>1, <2>1 DEF DirectionInv, SendInv, SyncInv, Confirmed
    <3>5. ReassemblyInv(q)'
      BY <1>d, <1>q, <1>1, <2>1, <3>1 DEF DirectionInv, ReassemblyInv
    <3> QED
      BY <1>q, <1>1, <2>1, <3>1, <3>3, <3>4, <3>5 DEF DirectionInv
  <2> QED
    BY <2>2, <2>3, PeerLemma DEF IndInv
<1>5. CASE UNCHANGED <<sendAck, receiveState, reassembler, syncSend, canSend,
                       sendState, fragmenter>>
  BY <1>1, <1>2, <1>5, FaultStep
<1>6. CASE ReceiveStart(p, pkt) /\ HandleLastPacket(p, r) /\ UNCHANGED sendAck
  <2>1. /\ UNCHANGED <<syncSend, canSend, sendState, fragmenter>>
        /\ receiveState'[q] = receiveState[q] /\ reassembler'[q] = reassembler[q]
        /\ \/ receiveState'[p] = "Idle"
           \/ receiveState'[p] = "Receiving" /\ reassembler'[p] = r
    BY <1>6, LastPacketLemma
  <2>2. ~r.zeroed /\ r.msg = pkt.msg /\ r.good = pkt.ok
    BY DEF NewReassembler
  <2>3. ASSUME pkt.ok
        PROVE  /\ pkt.msg = decNonce[p] /\ decNonce[p] < encNonce[q]
               /\ OnlyInits(Tail(link[p]), decNonce[p])
    <3>1. IntactInit(link[p][1]) /\ link[p][1].seq = syncReceive[p]
      BY <1>1, <1>6, <1>t, <2>3 DEF IntactInit, ReceiveStart
    <3>2. link[p][1].msg = decNonce[p] /\ decNonce[p] < encNonce[q]
      BY <1>3, <1>t, <3>1, SMT DEF DataInv
    <3>3. \A j \in 1..Len(link[p]) :
            1 < j /\ IntactInit(link[p][j]) => link[p][j].msg = decNonce[p]
      <4>1. \A j \in 1..Len(link[p]) : link[p][j] \in Packet
        BY <1>t, SMT
      <4>2. \A j \in 1..Len(link[p]) : link[p][j].msg \in Nat
        BY <4>1 DEF Packet
      <4>3. \A j \in 1..Len(link[p]) :
              1 < j /\ IntactInit(link[p][j]) => decNonce[p] <= link[p][j].msg
        BY <1>3, <1>t, <3>1, <3>2, SMT DEF OrderInv
      <4>4. \A j \in 1..Len(link[p]) : IntactInit(link[p][j]) => link[p][j].msg <= decNonce[p]
        BY <1>3 DEF DataInv
      <4> QED
        BY <1>i, <4>2, <4>3, <4>4, SMT
    <3>4. OnlyInits(Tail(link[p]), decNonce[p])
      <4> SUFFICES ASSUME NEW i \in 1..Len(Tail(link[p])), IntactInit(Tail(link[p])[i])
                   PROVE  Tail(link[p])[i].msg = decNonce[p]
        BY DEF OnlyInits
      <4>1. Tail(link[p])[i] = link[p][i + 1] /\ i + 1 \in 1..Len(link[p]) /\ 1 < i + 1
        BY <1>t, SMT
      <4> QED
        BY <3>3, <4>1
    <3> QED
      BY <1>t, <3>2, <3>4
  <2> HIDE DEF r, pkt
  <2>4. receiveState'[p] = "Receiving" => ~reassembler'[p].zeroed
    BY <2>1, <2>2
  <2>5. receiveState'[p] = "Receiving" /\ reassembler'[p].good
          => /\ reassembler'[p].msg = decNonce[p] /\ decNonce[p] < encNonce[q]
             /\ OnlyInits(link'[p], decNonce[p])
    BY <1>1, <2>1, <2>2, <2>3
  <2> QED
    BY <1>1, <1>2, <1>6, <2>1, <2>4, <2>5, ReassembleStep
<1>7. pkt.n # 0
  <2>1. link[p][1].n >= 1
    BY <1>1, <1>3, <1>t, SMT DEF DataInv
  <2> QED
    BY <1>t, <2>1, SMT
<1> QED
  BY <1>4, <1>5, <1>6, <1>7 DEF HandleInit

-------------------------------------------------------------------------------
(***************************************************************************)
(* The theorems.                                                           *)
(***************************************************************************)

(* Every variable of both ends and of the links keeps its type, in every   *)
(* mode of the channel.                                                    *)
THEOREM TypeInvariant == Spec => []TypeOK
<1>1. Init => TypeOK
  BY SMT DEF Init, TypeOK, SendStates, ReceiveStates, Fragmenter, Reassembler,
         NoFragmenter, NoReassembler, Bit, NoAck
<1> QED
  BY <1>1, TypeStep, PTL DEF Spec

(* Every step of a protocol 2.0 channel keeps the invariant.               *)
LEMMA IndStep ==
  ASSUME Protocol20, TypeOK, TypeOK', IndInv, [Next]_vars
  PROVE  IndInv'
<1>u. CASE UNCHANGED vars
  BY <1>u, ZenonT(60) DEF vars, IndInv, DirectionInv, SendInv, SyncInv, ReassemblyInv, Confirmed
<1>b. ~SendTransportBusy
  BY DEF Protocol20, SendTransportBusy
<1>p. ASSUME NEW p \in Peer,
             \/ MessageIn(p) \/ MessageRetransmit(p) \/ MessageOut(p)
             \/ PacketOut(p) \/ PacketIn(p) \/ Lose(p) \/ Duplicate(p) \/ Damage(p)
      PROVE  IndInv'
  <2>q. Other(p) \in Peer /\ Other(p) # p /\ Other(Other(p)) = p
    BY PeerLemma
  <2>s. sendState[p] \in {"Idle", "Sending"} /\ receiveState[p] \in {"Idle", "Receiving"}
    BY DEF IndInv, DirectionInv, SendInv
  <2>l. link[p] \in Seq(Packet)
    BY DEF TypeOK
  <2>r. ASSUME link[p] # <<>>, Receive(p)
        PROVE  Thinned(link'[p], link[p]) /\ link'[Other(p)] = link[Other(p)]
    BY <2>l, <2>q, <2>r, ThinTail DEF Receive, TypeOK
  <2>1. ~SendTransportError(p)
    BY <2>s DEF SendTransportError, ErrorType
  <2>2. ~RejectFailed(p)
    BY <2>s DEF RejectFailed, IsFailed
  <2>3. CASE HandleError(p)
    <3>1. link[p] # <<>> /\ Receive(p) /\ Head(link[p]).type \in ErrorType
      BY <2>3 DEF HandleError, Incoming
    <3>2. Head(link[p]) = link[p][1] /\ 1 \in 1..Len(link[p])
      BY <2>l, <3>1, TailLemma, SMT
    <3>3. ~Head(link[p]).ok
      BY <2>q, <3>1, <3>2 DEF IndInv, DirectionInv, DataInv
    <3>4. UNCHANGED <<canSend, syncSend, syncReceive, sendAck, sendState, fragmenter,
                      receiveState, reassembler, encNonce, decNonce>>
      BY <2>3, <3>3 DEF HandleError
    <3> QED
      BY <2>r, <3>1, <3>4, FaultStep
  <2>4. CASE Lose(p)
    <3>1. UNCHANGED <<canSend, syncSend, syncReceive, sendAck, sendState, fragmenter,
                      receiveState, reassembler, encNonce, decNonce>>
      BY <2>4 DEF Lose, Fault
    <3>2. link[p] # <<>> /\ Receive(p)
      BY <2>4 DEF Lose, Fault
    <3> QED
      BY <2>r, <3>1, <3>2, FaultStep
  <2>5. CASE Duplicate(p)
    <3>1. UNCHANGED <<canSend, syncSend, syncReceive, sendAck, sendState, fragmenter,
                      receiveState, reassembler, encNonce, decNonce>>
      BY <2>5 DEF Duplicate, Fault
    <3>2. /\ link[p] # <<>> /\ link'[p] = <<Head(link[p])>> \o link[p]
          /\ link'[Other(p)] = link[Other(p)]
      BY <2>5, <2>q DEF Duplicate, Fault, TypeOK
    <3>3. Thinned(link'[p], link[p])
      BY <2>l, <3>2, ThinRepeat
    <3> QED
      BY <3>1, <3>2, <3>3, FaultStep
  <2>6. CASE Damage(p)
    <3>1. UNCHANGED <<canSend, syncSend, syncReceive, sendAck, sendState, fragmenter,
                      receiveState, reassembler, encNonce, decNonce>>
      BY <2>6 DEF Damage, Fault
    <3>2. PICK t \in PacketType, s \in Bit, a \in Bit, n \in 0..(FragCount + 1) :
            /\ t = "init" /\ n = 0 => BadHeaders
            /\ link' = [link EXCEPT ![p] =
                          [@ EXCEPT ![1] = DamagedPacket(t, s, a, Head(link[p]).msg, n)]]
      BY <2>6 DEF Damage
    <3> DEFINE e == DamagedPacket(t, s, a, Head(link[p]).msg, n)
    <3>3. link[p] # <<>> /\ link'[p] = [link[p] EXCEPT ![1] = e]
          /\ link'[Other(p)] = link[Other(p)]
      BY <2>6, <2>q, <3>2 DEF Damage, Fault, TypeOK
    <3>4. ~e.ok /\ (e.type = "init" => e.n >= 1)
      BY <3>2, BoundAssumption, SMT DEF DamagedPacket, Protocol20
    <3>5. e \in Packet
      <4>1. Head(link[p]).msg \in Nat
        <5>1. Head(link[p]) \in Packet
          BY <2>l, <3>3, TailLemma
        <5> QED
          BY <5>1 DEF Packet
      <4>2. n \in Nat
        BY BoundAssumption, SMT
      <4> QED
        BY <4>1, <4>2, PacketLemma
    <3> HIDE DEF e
    <3>6. Thinned(link'[p], link[p])
      BY <2>l, <3>3, <3>4, <3>5, ThinDamage
    <3> QED
      BY <3>1, <3>3, <3>6, FaultStep
  <2> QED
    BY <1>p, <2>1, <2>2, <2>3, <2>4, <2>5, <2>6, MessageInStep, MessageRetransmitStep,
       MessageOutStep, SendPendingAckStep, SendFragmentStep, HandleAckStep,
       HandleContStep, HandleInitStep DEF PacketOut, PacketIn
<1> QED
  BY <1>u, <1>b, <1>p DEF Next

-------------------------------------------------------------------------------
(* The theorems about a protocol 2.0 channel.                              *)

(* The invariant holds throughout: each end always knows of each message   *)
(* whether the other one has it, up to the one being sent.                 *)
THEOREM IndInvariant == ASSUME Protocol20 PROVE Spec => []IndInv
<1>1. Init => IndInv
  <2> SUFFICES ASSUME Init, NEW p \in Peer PROVE DirectionInv(p)
    BY DEF IndInv
  <2>q. Other(p) \in Peer
    BY PeerLemma
  <2>1. link[p] = <<>> /\ link[Other(p)] = <<>>
    BY <2>q DEF Init
  <2>2. /\ DataInv(link[Other(p)], decNonce[Other(p)], syncReceive[Other(p)], encNonce[p])
        /\ OrderInv(link[Other(p)])
        /\ NoAckOf(link[p], syncSend[p]) /\ AckOrderInv(link[p], syncSend[p])
    BY <2>1, SMT DEF DataInv, OrderInv, NoAckOf, AckOrderInv
  <2>3. SendInv(p) /\ SyncInv(p) /\ ReassemblyInv(p) /\ sendAck[Other(p)] = -1
    BY <2>q DEF Init, SendInv, SyncInv, ReassemblyInv, Confirmed, NoAck
  <2>4. syncSend[p] = 0
    BY DEF Init
  <2>5. AckInv(link[p], sendAck[Other(p)], syncSend[p], decNonce[Other(p)] = Confirmed(p))
    BY <2>2, <2>3, <2>4, SMT DEF AckInv
  <2> QED
    BY <2>2, <2>3, <2>5 DEF DirectionInv
<1>2. TypeOK /\ TypeOK' /\ IndInv /\ [Next]_vars => IndInv'
  BY IndStep
<1> QED
  BY <1>1, <1>2, TypeInvariant, PTL DEF Spec

(* A message that the sender counts as delivered was picked up by the      *)
(* application of the peer, whatever packets were lost, repeated or        *)
(* damaged (send_mark_delivered is reached by no stale or forged ACK).     *)
THEOREM ConfirmedInvariant == ASSUME Protocol20 PROVE Spec => []ConfirmedWasDelivered
<1>1. TypeOK /\ IndInv => ConfirmedWasDelivered
  <2> SUFFICES ASSUME TypeOK, IndInv, NEW p \in Peer
               PROVE  Confirmed(p) <= decNonce[Other(p)]
    BY DEF ConfirmedWasDelivered
  <2>1. SyncInv(p) /\ Confirmed(p) \in Int
    BY StateLemma DEF IndInv, DirectionInv
  <2> QED
    BY <2>1, SMT DEF SyncInv
<1> QED
  BY <1>1, TypeInvariant, IndInvariant, PTL

(* Faults of the link never make a channel inoperable.                     *)
THEOREM NeverFailsInvariant == ASSUME Protocol20 PROVE Spec => []NeverFails
<1>1. IndInv => NeverFails
  BY DEF IndInv, DirectionInv, SendInv, NeverFails, IsFailed
<1> QED
  BY <1>1, IndInvariant, PTL

(* message_in_ready answers true only if message_in can start a            *)
(* transmission.                                                           *)
THEOREM ReadyInvariant == ASSUME Protocol20 PROVE Spec => []ReadyMeansSendable
<1>1. IndInv => ReadyMeansSendable
  BY DEF IndInv, DirectionInv, SendInv, ReadyMeansSendable, MessageInReady
<1> QED
  BY <1>1, IndInvariant, PTL

(* Every message that passes the checksum is the one the peer is sending.  *)
THEOREM CorruptionInvariant == ASSUME Protocol20 PROVE Spec => []CorruptionDetected
<1>1. IndInv => CorruptionDetected
  <2> SUFFICES ASSUME IndInv, NEW p \in Peer, receiveState[p] = "Receiving",
                      reassembler[p].good
               PROVE  Decrypts(p)
    BY DEF CorruptionDetected
  <2>1. Other(p) \in Peer /\ Other(Other(p)) = p
    BY PeerLemma
  <2>2. ReassemblyInv(Other(p))
    BY <2>1 DEF IndInv, DirectionInv
  <2> QED
    BY <2>1, <2>2 DEF ReassemblyInv, Decrypts
<1> QED
  BY <1>1, IndInvariant, PTL

(* The counters of the abstract exchange.                                  *)
Delivered == [p \in Peer |-> decNonce[Other(p)]]
ConfirmedCount == [p \in Peer |-> Confirmed(p)]

(* Each step of a protocol 2.0 channel submits, delivers or confirms one   *)
(* message, or changes nothing the applications see.                       *)
LEMMA ExchangeStep ==
  ASSUME Protocol20, TypeOK, IndInv, [Next]_vars
  PROVE  [Exchange!Next]_(Exchange!vars)
<1> USE DEF Delivered, ConfirmedCount
<1>s. ASSUME UNCHANGED <<encNonce, decNonce, sendState>>
      PROVE  UNCHANGED Exchange!vars
  BY <1>s DEF Exchange!vars, Confirmed
<1>u. CASE UNCHANGED vars
  BY <1>u, <1>s DEF vars
<1>p. ASSUME NEW p \in Peer,
             \/ MessageIn(p) \/ MessageRetransmit(p) \/ MessageOut(p)
             \/ PacketOut(p) \/ PacketIn(p) \/ Lose(p) \/ Duplicate(p) \/ Damage(p)
      PROVE  [Exchange!Next]_(Exchange!vars)
  <2>q. Other(p) \in Peer /\ Other(p) # p /\ Other(Other(p)) = p
    BY PeerLemma
  <2>d. DirectionInv(p) /\ DirectionInv(Other(p))
    BY <2>q DEF IndInv
  <2>t. /\ encNonce[p] \in Nat /\ decNonce[p] \in Nat /\ Confirmed(p) \in Int
        /\ encNonce[Other(p)] \in Nat /\ Confirmed(Other(p)) \in Int
    BY <2>q, StateLemma
  <2>1. CASE MessageIn(p)
    <3>1. sendState[p] = "Idle" /\ canSend[p]
      BY <2>1, <2>d DEF MessageIn, MessageInReady, DirectionInv, SendInv
    <3>2. /\ encNonce' = [encNonce EXCEPT ![p] = encNonce[p] + 1]
          /\ sendState' = [sendState EXCEPT ![p] = "Sending"] /\ decNonce' = decNonce
      BY <2>1, <3>1 DEF MessageIn
    <3>3. Confirmed(p) = encNonce[p] /\ Confirmed(p)' = Confirmed(p)
      BY <2>t, <3>1, <3>2, SMT DEF Confirmed, TypeOK
    <3>4. \A r \in Peer : r # p => Confirmed(r)' = Confirmed(r)
      BY <3>2 DEF Confirmed, TypeOK
    <3>5. ConfirmedCount' = ConfirmedCount /\ Delivered' = Delivered
      BY <3>2, <3>3, <3>4
    <3>6. Exchange!Submit(p)
      BY <3>2, <3>3, <3>5 DEF Exchange!Submit
    <3> QED
      BY <3>6 DEF Exchange!Next
  <2>2. CASE MessageOut(p)
    <3> DEFINE q == Other(p)
    <3>1. Decrypts(p) /\ decNonce[p] < encNonce[q]
      BY <2>2, <2>d, <2>q DEF MessageOut, DirectionInv, ReassemblyInv, Decrypts
    <3>2. /\ decNonce' = [decNonce EXCEPT ![p] = decNonce[p] + 1]
          /\ UNCHANGED <<encNonce, sendState>>
      BY <2>2, <3>1 DEF MessageOut
    <3>3. ConfirmedCount' = ConfirmedCount
      BY <3>2 DEF Confirmed
    <3>4. \A r \in Peer : decNonce'[Other(r)] = IF r = q THEN decNonce[p] + 1
                                                          ELSE decNonce[Other(r)]
      BY <2>q, <3>2, PeerLemma DEF TypeOK
    <3>5. Delivered' = [Delivered EXCEPT ![q] = Delivered[q] + 1]
      BY <2>q, <3>4
    <3>6. Exchange!Deliver(q)
      BY <2>q, <3>1, <3>2, <3>3, <3>5 DEF Exchange!Deliver
    <3> QED
      BY <2>q, <3>6 DEF Exchange!Next
  <2>3. CASE HandleAck(p) /\ AckAccepted(p, Head(link[p]))
    <3>1. link[p] # <<>> /\ IntactAck(Head(link[p])) /\ Head(link[p]).ack = syncSend[p]
          /\ sendState[p] = "Sending"
      BY <2>3 DEF HandleAck, Incoming, AckAccepted, IntactAck
    <3>2. Head(link[p]) = link[p][1] /\ 1 \in 1..Len(link[p])
      <4>1. link[p] \in Seq(Packet)
        BY DEF TypeOK
      <4> QED
        BY <3>1, <4>1, TailLemma, SMT
    <3>3. decNonce[Other(p)] = Confirmed(p) + 1
      <4>1. ~NoAckOf(link[p], syncSend[p])
        BY <3>1, <3>2 DEF NoAckOf
      <4> QED
        BY <2>d, <4>1 DEF DirectionInv, SyncInv, AckInv
    <3>4. /\ sendState' = [sendState EXCEPT ![p] = "Idle"]
          /\ UNCHANGED <<encNonce, decNonce>>
      BY <2>3 DEF HandleAck, MarkDelivered
    <3>5. Confirmed(p)' = Confirmed(p) + 1
      BY <2>t, <3>1, <3>4, SMT DEF Confirmed, TypeOK
    <3>6. \A r \in Peer : r # p => Confirmed(r)' = Confirmed(r)
      BY <3>4 DEF Confirmed, TypeOK
    <3>7. /\ ConfirmedCount' = [ConfirmedCount EXCEPT ![p] = ConfirmedCount[p] + 1]
          /\ Delivered' = Delivered
      BY <3>4, <3>5, <3>6
    <3>8. Exchange!Confirm(p)
      BY <2>t, <3>3, <3>4, <3>7, SMT DEF Exchange!Confirm
    <3> QED
      BY <3>8 DEF Exchange!Next
  <2>4. CASE \/ MessageRetransmit(p) \/ SendPendingAck(p) \/ SendFragment(p)
             \/ HandleAck(p) /\ ~AckAccepted(p, Head(link[p]))
             \/ Lose(p) \/ Duplicate(p) \/ Damage(p)
    BY <2>4, <1>s DEF MessageRetransmit, SendPendingAck, SendFragment, HandleAck,
                      Lose, Duplicate, Damage, Fault
  <2>5. ~SendTransportError(p) /\ ~RejectFailed(p)
    BY <2>d DEF DirectionInv, SendInv, SendTransportError, ErrorType, RejectFailed, IsFailed
  <2>6. CASE HandleError(p)
    <3>1. link[p] # <<>> /\ Head(link[p]).type \in ErrorType
      BY <2>6 DEF HandleError, Incoming
    <3>2. Head(link[p]) = link[p][1] /\ 1 \in 1..Len(link[p])
      <4>1. link[p] \in Seq(Packet)
        BY DEF TypeOK
      <4> QED
        BY <3>1, <4>1, TailLemma, SMT
    <3>3. ~Head(link[p]).ok
      BY <2>d, <2>q, <3>1, <3>2 DEF DirectionInv, DataInv
    <3> QED
      BY <2>6, <3>3, <1>s DEF HandleError
  <2>7. CASE HandleCont(p) \/ HandleInit(p)
    <3>1. \A r : HandleLastPacket(p, r) => UNCHANGED sendState
      BY DEF HandleLastPacket, Protocol20
    <3>2. UNCHANGED <<encNonce, decNonce, sendState>>
      BY <2>7, <3>1 DEF HandleCont, HandleInit, HandleBadHeader, HandleInvalidSeq
    <3> QED
      BY <3>2, <1>s
  <2> QED
    BY <1>p, <2>1, <2>2, <2>3, <2>4, <2>5, <2>6, <2>7 DEF PacketOut, PacketIn
<1> QED
  BY <1>u, <1>p DEF Next, SendTransportBusy, Protocol20

(* A protocol 2.0 channel implements the reliable exchange: whatever the   *)
(* link does to packets, the messages of each direction are delivered once *)
(* each, in order, and confirmed only afterwards.                          *)
THEOREM ExchangeRefinement == ASSUME Protocol20 PROVE Spec => ImplementsExchange
<1>1. Init => Exchange!Init
  <2> SUFFICES ASSUME Init PROVE Exchange!Init
    OBVIOUS
  <2>1. \A p \in Peer : decNonce[Other(p)] = 0 /\ Confirmed(p) = 0
    BY PeerLemma DEF Init, Confirmed
  <2> QED
    BY <2>1 DEF Init, Exchange!Init
<1>2. TypeOK /\ IndInv /\ [Next]_vars => [Exchange!Next]_(Exchange!vars)
  BY ExchangeStep
<1> QED
  BY <1>1, <1>2, TypeInvariant, IndInvariant, PTL DEF Spec, ImplementsExchange, Exchange!Spec

-------------------------------------------------------------------------------
(***************************************************************************)
(* Requests of the host without piggybacking, with TRANSPORT_BUSY answers  *)
(* and headers that may not parse.                                         *)
(***************************************************************************)

(* Initiation packets on a link s: none has the given bit; those that have *)
(* it belong to message m; none without it follows one that has it.        *)
NoInitOf(s, bit) == \A i \in 1..Len(s) : IntactInit(s[i]) => s[i].seq # bit
InitsOf(s, bit, m) == \A i \in 1..Len(s) : IntactInit(s[i]) /\ s[i].seq = bit => s[i].msg = m
InitOrder(s, bit) ==
  \A i, j \in 1..Len(s) :
    i < j /\ IntactInit(s[i]) /\ IntactInit(s[j]) /\ s[i].seq = bit => s[j].seq = bit

(* The message m of the host that has the current send bit: the next one   *)
(* or the one it is sending.  When it is received, no packet of the one    *)
(* before is left, which has the bit that the device then expects.         *)
Sent(m) ==
  LET b == syncSend["host"]
      r == syncReceive["device"]
      s == link["device"]
  IN  /\ sendState["host"] = "Idle" => m = encNonce["host"] /\ r = b /\ NoInitOf(s, b)
      /\ sendState["host"] = "Sending" =>
           encNonce["host"] = m + 1 /\ fragmenter["host"].msg = m /\ fragmenter["host"].seq = b
      /\ InitsOf(s, b, m) /\ InitOrder(s, b)
      /\ r # b => NoInitOf(s, 1 - b)

(* What the device has received of it.  Messages that it failed to decrypt *)
(* leave its nonce behind for good.                                        *)
Received(m) ==
  LET b == syncSend["host"]
      r == syncReceive["device"]
  IN  /\ receiveState["device"] = "Receiving" /\ reassembler["device"].good =>
           /\ sendState["host"] # "Idle" /\ r = b
           /\ reassembler["device"].msg = m /\ NoInitOf(link["device"], 1 - b)
      /\ r = b => decNonce["device"] <= m
      /\ r # b => decNonce["device"] <= m + 1
      /\ "device" \in missed =>
           (r = b => decNonce["device"] < m) /\ (r # b => decNonce["device"] < m + 1)

(* The device acknowledges it only then.                                   *)
Acknowledged ==
  LET b == syncSend["host"]
      r == syncReceive["device"]
  IN  /\ sendAck["device"] # r
      /\ r = b => NoAckOf(link["host"], b)
      /\ AckOrderInv(link["host"], b)

RequestInv ==
  /\ sendState["host"] \in {"Idle", "Sending", "Failed"}
  /\ \A p \in Peer : sendState[p] = "Failed" => receiveState[p] = "Failed"
  /\ "host" \in missed => sendState["host"] = "Failed"
  /\ \E m \in Nat : Sent(m) /\ Received(m)
  /\ Acknowledged

(* Steps that leave a link t of s with no more than it had.                *)
KeptInits(t, s) ==
  \A b \in Bit : /\ NoInitOf(s, b) => NoInitOf(t, b)
                 /\ InitOrder(s, b) => InitOrder(t, b)
                 /\ \A m \in Nat : InitsOf(s, b, m) => InitsOf(t, b, m)
KeptAcks(t, s) ==
  \A b \in Bit : (NoAckOf(s, b) => NoAckOf(t, b)) /\ (AckOrderInv(s, b) => AckOrderInv(t, b))

(* t holds packets of s in the order of s, some repeated or missing, and   *)
(* damaged packets.                                                        *)
Sparse(t, s) ==
  \E f \in [1..Len(t) -> 1..Len(s)] :
    /\ \A i, j \in 1..Len(t) : i < j => f[i] <= f[j]
    /\ \A i \in 1..Len(t) : t[i] = s[f[i]] \/ ~t[i].ok

(* A link that delivers, loses, repeats or damages its first packet.       *)
LEMMA SparseLink ==
  ASSUME NEW s \in Seq(Packet), s # <<>>
  PROVE  /\ Sparse(Tail(s), s) /\ Sparse(<<Head(s)>> \o s, s)
         /\ \A e \in Packet : ~e.ok => Sparse([s EXCEPT ![1] = e], s)
<1>1. Sparse(Tail(s), s) /\ Sparse(<<Head(s)>> \o s, s)
  BY ThinTail, ThinRepeat DEF Thinned, Sparse
<1>2. ASSUME NEW e \in Packet, ~e.ok
      PROVE  Sparse([s EXCEPT ![1] = e], s)
  <2> DEFINE t == [s EXCEPT ![1] = e]
             f == [i \in 1..Len(t) |-> i]
  <2>1. /\ Len(t) = Len(s) /\ Len(s) \in Nat \ {0}
        /\ t[1] = e /\ \A i \in 1..Len(s) : i # 1 => t[i] = s[i]
    BY ReplaceLemma, SMT
  <2> HIDE DEF t
  <2>2. f \in [1..Len(t) -> 1..Len(s)]
    BY <2>1
  <2>3. \A i, j \in 1..Len(t) : i < j => f[i] <= f[j]
    BY <2>1, SMT
  <2>4. \A i \in 1..Len(t) : t[i] = s[f[i]] \/ ~t[i].ok
    BY <1>2, <2>1
  <2> HIDE DEF f
  <2>5. Sparse(t, s)
    BY <2>2, <2>3, <2>4 DEF Sparse
  <2> QED
    BY <2>5 DEF t
<1> QED
  BY <1>1, <1>2

(* Such a link satisfies what the one it is made of satisfies.             *)
LEMMA SparseKept ==
  ASSUME NEW s, NEW t, Sparse(t, s)
  PROVE  KeptInits(t, s) /\ KeptAcks(t, s)
<1>1. PICK f \in [1..Len(t) -> 1..Len(s)] :
        /\ \A i, j \in 1..Len(t) : i < j => f[i] <= f[j]
        /\ \A i \in 1..Len(t) : t[i] = s[f[i]] \/ ~t[i].ok
  BY DEF Sparse
<1>2. \A i \in 1..Len(t) : f[i] \in 1..Len(s)
  OBVIOUS
<1>3. ASSUME NEW i \in 1..Len(t), NEW j \in 1..Len(t), i < j
      PROVE  f[i] = f[j] \/ f[i] < f[j]
  BY <1>1, <1>2, <1>3, SMT
<1>4. ASSUME NEW b \in Bit
      PROVE  /\ NoInitOf(s, b) => NoInitOf(t, b)
             /\ \A m \in Nat : InitsOf(s, b, m) => InitsOf(t, b, m)
             /\ NoAckOf(s, b) => NoAckOf(t, b)
  BY <1>1, <1>2 DEF NoInitOf, InitsOf, NoAckOf, IntactInit, IntactAck
<1>5. ASSUME NEW b \in Bit, InitOrder(s, b)
      PROVE  InitOrder(t, b)
  <2> SUFFICES ASSUME NEW i \in 1..Len(t), NEW j \in 1..Len(t), i < j,
                      IntactInit(t[i]), IntactInit(t[j]), t[i].seq = b
               PROVE  t[j].seq = b
    BY DEF InitOrder
  <2>1. t[i] = s[f[i]] /\ t[j] = s[f[j]]
    BY <1>1 DEF IntactInit
  <2> QED
    BY <1>2, <1>3, <1>5, <2>1 DEF InitOrder
<1>6. ASSUME NEW b \in Bit, AckOrderInv(s, b)
      PROVE  AckOrderInv(t, b)
  <2> SUFFICES ASSUME NEW i \in 1..Len(t), NEW j \in 1..Len(t), i < j,
                      IntactAck(t[i]), IntactAck(t[j]), t[i].ack = b
               PROVE  t[j].ack = b
    BY DEF AckOrderInv
  <2>1. t[i] = s[f[i]] /\ t[j] = s[f[j]]
    BY <1>1 DEF IntactAck
  <2> QED
    BY <1>2, <1>3, <1>6, <2>1 DEF AckOrderInv
<1> QED
  BY <1>4, <1>5, <1>6 DEF KeptInits, KeptAcks

(* So does one that no packet is put on or taken from.                     *)
LEMMA SameKept == \A s : KeptInits(s, s) /\ KeptAcks(s, s)
BY DEF KeptInits, KeptAcks

(* A packet is added: one of another kind, or one that fits.               *)
LEMMA AppendKept ==
  ASSUME NEW s \in Seq(Packet), NEW e \in Packet
  PROVE  /\ e.type # "init" => KeptInits(Append(s, e), s)
         /\ e.type # "ack" => KeptAcks(Append(s, e), s)
         /\ \A b \in Bit : e.seq = b =>
              /\ \A m \in Nat : InitsOf(s, b, m) /\ e.msg = m => InitsOf(Append(s, e), b, m)
              /\ InitOrder(s, b) => InitOrder(Append(s, e), b)
              /\ NoInitOf(s, 1 - b) => NoInitOf(Append(s, e), 1 - b)
<1> DEFINE t == Append(s, e)
<1>1. /\ Len(t) = Len(s) + 1 /\ Len(s) \in Nat
      /\ \A i \in 1..Len(s) : t[i] = s[i]
      /\ t[Len(s) + 1] = e
  BY AppendLemma, SMT
<1> HIDE DEF t
<1>2. \A i \in 1..Len(t) : i \in 1..Len(s) \/ (i = Len(s) + 1 /\ t[i] = e)
  BY <1>1, SMT
<1>3. ASSUME NEW i \in 1..Len(t), NEW j \in 1..Len(t), i < j
      PROVE  i \in 1..Len(s)
  BY <1>1, <1>3, SMT
<1>4. ASSUME e.type # "init" PROVE KeptInits(t, s)
  <2>1. ASSUME NEW b \in Bit
        PROVE  /\ NoInitOf(s, b) => NoInitOf(t, b)
               /\ \A m \in Nat : InitsOf(s, b, m) => InitsOf(t, b, m)
    BY <1>1, <1>2, <1>4 DEF NoInitOf, InitsOf, IntactInit
  <2>2. ASSUME NEW b \in Bit, InitOrder(s, b)
        PROVE  InitOrder(t, b)
    BY <1>1, <1>2, <1>4, <2>2 DEF InitOrder, IntactInit
  <2> QED
    BY <2>1, <2>2 DEF KeptInits
<1>5. ASSUME e.type # "ack" PROVE KeptAcks(t, s)
  <2>1. ASSUME NEW b \in Bit
        PROVE  NoAckOf(s, b) => NoAckOf(t, b)
    BY <1>1, <1>2, <1>5 DEF NoAckOf, IntactAck
  <2>2. ASSUME NEW b \in Bit, AckOrderInv(s, b)
        PROVE  AckOrderInv(t, b)
    BY <1>1, <1>2, <1>5, <2>2 DEF AckOrderInv, IntactAck
  <2> QED
    BY <2>1, <2>2 DEF KeptAcks
<1>6. ASSUME NEW b \in Bit, e.seq = b
      PROVE  /\ \A m \in Nat : InitsOf(s, b, m) /\ e.msg = m => InitsOf(t, b, m)
             /\ InitOrder(s, b) => InitOrder(t, b)
             /\ NoInitOf(s, 1 - b) => NoInitOf(t, 1 - b)
  <2>1. \A m \in Nat : InitsOf(s, b, m) /\ e.msg = m => InitsOf(t, b, m)
    BY <1>1, <1>2 DEF InitsOf
  <2>2. InitOrder(s, b) => InitOrder(t, b)
    BY <1>1, <1>2, <1>3, <1>6 DEF InitOrder
  <2>3. b # 1 - b
    BY SMT DEF Bit
  <2> QED
    BY <1>1, <1>2, <1>6, <2>1, <2>2, <2>3 DEF NoInitOf
<1> QED
  BY <1>4, <1>5, <1>6 DEF t

(* A step that leaves requests alone, but for the links: the host may      *)
(* fail, and the device drop what it has received.                         *)
Aside ==
  /\ syncSend'["host"] = syncSend["host"] /\ encNonce'["host"] = encNonce["host"]
  /\ syncReceive'["device"] = syncReceive["device"]
  /\ decNonce'["device"] = decNonce["device"]
  /\ sendState'["host"] \in {sendState["host"], "Failed"}
  /\ sendState'["host"] = "Sending" => /\ fragmenter'["host"].msg = fragmenter["host"].msg
                                       /\ fragmenter'["host"].seq = fragmenter["host"].seq
  /\ \A p \in Peer : sendState'[p] = "Failed" => receiveState'[p] = "Failed"
  /\ sendAck'["device"] # syncReceive["device"]
  /\ "device" \in missed' => "device" \in missed
  /\ "host" \in missed' => "host" \in missed \/ sendState'["host"] = "Failed"
  /\ receiveState'["device"] = "Receiving" /\ reassembler'["device"].good =>
       /\ receiveState["device"] = "Receiving" /\ reassembler["device"].good
       /\ reassembler'["device"].msg = reassembler["device"].msg

(* Such a step keeps the invariant when it adds nothing to the links.      *)
LEMMA RequestFrame ==
  ASSUME TypeOK, RequestInv, Aside,
         KeptInits(link'["device"], link["device"]), KeptAcks(link'["host"], link["host"])
  PROVE  RequestInv'
<1>1. syncSend["host"] \in Bit /\ 1 - syncSend["host"] \in Bit
  <2>1. syncSend["host"] \in Bit
    BY DEF TypeOK, Peer
  <2> QED
    BY <2>1, SMT DEF Bit
<1>2. PICK m \in Nat : Sent(m) /\ Received(m)
  BY DEF RequestInv
<1>3. Sent(m)'
  BY <1>1, <1>2 DEF Sent, KeptInits, Aside
<1>4. Received(m)'
  BY <1>1, <1>2 DEF Received, KeptInits, Aside
<1>5. Acknowledged'
  BY <1>1 DEF RequestInv, Acknowledged, KeptAcks, Aside
<1> QED
  BY <1>3, <1>4, <1>5 DEF RequestInv, Aside

(* The links lose, repeat and damage packets.                              *)
LEMMA RequestFault ==
  ASSUME TypeOK, RequestInv, NEW p \in Peer, Lose(p) \/ Duplicate(p) \/ Damage(p)
  PROVE  RequestInv'
<1>1. link[p] # <<>> /\ link[p] \in Seq(Packet) /\ Head(link[p]) \in Packet
  BY LinkTypeLemma DEF Lose, Duplicate, Damage, Fault, TypeOK
<1>2. \E t : Sparse(t, link[p]) /\ link' = [link EXCEPT ![p] = t]
  <2>1. CASE Lose(p) \/ Duplicate(p)
    BY <1>1, <2>1, SparseLink DEF Lose, Duplicate, Receive
  <2>2. CASE Damage(p)
    <3>1. PICK t \in PacketType, s \in Bit, a \in Bit, n \in 0..(FragCount + 1) :
            link' = [link EXCEPT ![p] =
                       [@ EXCEPT ![1] = DamagedPacket(t, s, a, Head(link[p]).msg, n)]]
      BY <2>2 DEF Damage
    <3>2. Head(link[p]).msg \in Nat /\ n \in Nat
      BY <1>1, BoundAssumption, SMT DEF Packet
    <3>3. /\ DamagedPacket(t, s, a, Head(link[p]).msg, n) \in Packet
          /\ ~DamagedPacket(t, s, a, Head(link[p]).msg, n).ok
      BY <3>2, PacketLemma DEF DamagedPacket
    <3> QED
      BY <1>1, <3>1, <3>3, SparseLink
  <2> QED
    BY <2>1, <2>2
<1>3. KeptInits(link'["device"], link["device"]) /\ KeptAcks(link'["host"], link["host"])
  BY <1>2, SparseKept, SameKept DEF TypeOK, Peer
<1>4. UNCHANGED <<canSend, syncSend, syncReceive, sendAck, sendState, fragmenter,
                  receiveState, reassembler, encNonce, decNonce, missed>>
  BY DEF Lose, Duplicate, Damage, Fault
<1> QED
  BY <1>3, <1>4, RequestFrame DEF RequestInv, Acknowledged, Aside

(* A packet is taken from a link.                                          *)
LEMMA RequestTaken ==
  ASSUME TypeOK, NEW p \in Peer, link[p] # <<>>, Receive(p)
  PROVE  /\ KeptInits(link'["device"], link["device"]) /\ KeptAcks(link'["host"], link["host"])
         /\ link[p] \in Seq(Packet) /\ Head(link[p]) \in Packet
<1>1. link[p] \in Seq(Packet) /\ Head(link[p]) \in Packet
  BY LinkTypeLemma DEF TypeOK
<1>2. Sparse(Tail(link[p]), link[p])
  BY <1>1, SparseLink
<1> QED
  BY <1>1, <1>2, SparseKept, SameKept DEF TypeOK, Peer, Receive

(* The host submits a request.                                             *)
LEMMA RequestSubmitted ==
  ASSUME TypeOK, RequestInv, ~Piggybacking, MessageIn("host")
  PROVE  RequestInv'
<1>1. PICK m \in Nat : Sent(m) /\ Received(m)
  BY DEF RequestInv
<1>2. /\ sendState["host"] = "Idle" /\ encNonce'["host"] = encNonce["host"] + 1
      /\ UNCHANGED <<canSend, syncSend, syncReceive, sendAck, receiveState, reassembler,
                     decNonce, link, missed>>
      /\ sendState'["device"] = sendState["device"]
  BY DEF MessageIn, MessageInReady, TypeOK, Peer
<1>3. /\ m = encNonce["host"] /\ syncReceive["device"] = syncSend["host"]
      /\ NoInitOf(link["device"], syncSend["host"])
  BY <1>1, <1>2 DEF Sent
<1>4. /\ sendState'["host"] \in {"Idle", "Sending"} /\ "host" \notin missed'
      /\ \A p \in Peer : sendState'[p] = "Failed" => receiveState'[p] = "Failed"
  BY <1>2 DEF MessageIn, TypeOK, Peer, RequestInv
<1>5. Acknowledged'
  BY <1>2 DEF RequestInv, Acknowledged
<1>6. CASE canSend["host"]
  <2>1. /\ sendState'["host"] = "Sending" /\ fragmenter'["host"].msg = encNonce["host"]
        /\ fragmenter'["host"].seq = syncSend["host"]
    BY <1>6, SMTT(30) DEF MessageIn, TypeOK, Peer
  <2>2. Sent(m)'
    BY <1>1, <1>2, <1>3, <2>1 DEF Sent
  <2>3. Received(m)'
    BY <1>1, <1>2, <2>1 DEF Received
  <2> QED
    BY <1>4, <1>5, <2>2, <2>3 DEF RequestInv
<1>7. CASE ~canSend["host"]
  <2>1. sendState'["host"] = "Idle"
    BY <1>2, <1>7 DEF MessageIn
  <2>2. m + 1 \in Nat
    BY SMT
  <2>3. Sent(m + 1)'
    BY <1>1, <1>2, <1>3, <2>1 DEF Sent, NoInitOf, InitsOf
  <2>4. decNonce["device"] \in Nat
    BY DEF TypeOK, Peer
  <2>5. \A d \in Nat : (d <= m => d <= m + 1) /\ (d < m => d < m + 1)
    BY SMT
  <2>6. Received(m + 1)'
    BY <1>1, <1>2, <1>3, <2>1, <2>4, <2>5 DEF Received
  <2> QED
    BY <1>4, <1>5, <2>2, <2>3, <2>6 DEF RequestInv
<1> QED
  BY <1>6, <1>7

(* The host sends a fragment of a request.                                 *)
LEMMA RequestSent ==
  ASSUME TypeOK, RequestInv, SendFragment("host")
  PROVE  RequestInv'
<1> DEFINE f == fragmenter["host"]
           e == Fragment(f)
<1>1. /\ sendState["host"] = "Sending" /\ f \in Fragmenter
      /\ link'["device"] = Append(link["device"], e) /\ link'["host"] = link["host"]
      /\ fragmenter'["host"].msg = f.msg /\ fragmenter'["host"].seq = f.seq
      /\ UNCHANGED <<syncSend, syncReceive, sendAck, sendState, receiveState,
                     reassembler, encNonce, decNonce, missed>>
  <2>1. /\ sendState["host"] = "Sending" /\ f \in Fragmenter
        /\ link'["device"] = Append(link["device"], e) /\ link'["host"] = link["host"]
        /\ fragmenter'["host"] = [f EXCEPT !.off = @ + 1]
        /\ UNCHANGED <<syncSend, syncReceive, sendAck, sendState, receiveState,
                       reassembler, encNonce, decNonce, missed>>
    BY DEF SendFragment, Send, Other, TypeOK, Peer
  <2>2. /\ [f EXCEPT !.off = @ + 1].msg = f.msg
        /\ [f EXCEPT !.off = @ + 1].seq = f.seq
    BY <2>1 DEF Fragmenter
  <2> QED
    BY <2>1, <2>2
<1>2. link["device"] \in Seq(Packet) /\ e \in Packet /\ syncSend["host"] \in Bit
  BY <1>1, PacketLemma DEF TypeOK, Peer
<1>3. /\ e.type # "init" \/ (e.seq = f.seq /\ e.msg = f.msg)
  BY DEF Fragment
<1> HIDE DEF e, f
<1>4. CASE e.type # "init"
  <2>1. KeptInits(link'["device"], link["device"])
    BY <1>1, <1>2, <1>4, AppendKept
  <2> QED
    BY <1>1, <2>1, SameKept, RequestFrame DEF RequestInv, Acknowledged, Aside, f
<1>5. CASE e.seq = f.seq /\ e.msg = f.msg
  <2>1. PICK m \in Nat : Sent(m) /\ Received(m)
    BY DEF RequestInv
  <2>2. e.seq = syncSend["host"] /\ e.msg = m
    BY <1>1, <1>5, <2>1 DEF Sent, f
  <2>3. LET s == link["device"]
            t == link'["device"]
            b == syncSend["host"]
        IN  /\ InitsOf(s, b, m) => InitsOf(t, b, m)
            /\ InitOrder(s, b) => InitOrder(t, b)
            /\ NoInitOf(s, 1 - b) => NoInitOf(t, 1 - b)
    BY <1>1, <1>2, <2>2, AppendKept
  <2>4. Sent(m)'
    BY <1>1, <2>1, <2>3 DEF Sent, f
  <2>5. Received(m)'
    BY <1>1, <2>1, <2>3 DEF Received
  <2>6. Acknowledged'
    BY <1>1 DEF RequestInv, Acknowledged
  <2> QED
    BY <1>1, <2>4, <2>5, <2>6 DEF RequestInv
<1> QED
  BY <1>3, <1>4, <1>5

(* The device sends an acknowledgement.                                    *)
LEMMA RequestAcknowledged ==
  ASSUME TypeOK, RequestInv, SendPendingAck("device")
  PROVE  RequestInv'
<1> DEFINE s == link["host"]
           t == link'["host"]
           a == sendAck["device"]
           b == syncSend["host"]
           r == syncReceive["device"]
<1>1. /\ a # NoAck /\ t = Append(s, AckPacket(a)) /\ link'["device"] = link["device"]
      /\ sendAck'["device"] = NoAck
      /\ UNCHANGED <<syncSend, syncReceive, sendState, fragmenter, receiveState,
                     reassembler, encNonce, decNonce, missed>>
  BY DEF SendPendingAck, Send, Other, TypeOK, Peer
<1>2. s \in Seq(Packet) /\ a \in Bit /\ b \in Bit /\ r \in Bit /\ NoAck # r
  <2>1. s \in Seq(Packet) /\ a \in Bit /\ b \in Bit /\ r \in Bit
    BY <1>1 DEF TypeOK, Peer
  <2> QED
    BY <2>1, SMT DEF NoAck, Bit
<1>3. /\ AckPacket(a) \in Packet /\ AckPacket(a).ack = a
      /\ a # r /\ (r = b => NoAckOf(s, b)) /\ AckOrderInv(s, b)
  BY <1>2, PacketLemma DEF AckPacket, RequestInv, Acknowledged
<1> HIDE DEF s, t, a
<1>4. /\ Len(t) = Len(s) + 1 /\ Len(s) \in Nat
      /\ \A i \in 1..Len(s) : t[i] = s[i]
      /\ t[Len(s) + 1] = AckPacket(a)
  BY <1>1, <1>2, <1>3, AppendLemma, SMTT(30)
<1>5. \A i \in 1..Len(t) : i \in 1..Len(s) \/ (i = Len(s) + 1 /\ t[i] = AckPacket(a))
  BY <1>4, SMT
<1>6. ASSUME NEW i \in 1..Len(t), NEW j \in 1..Len(t), i < j
      PROVE  i \in 1..Len(s)
  BY <1>4, <1>6, SMT
<1>7. r = b => NoAckOf(t, b)
  BY <1>3, <1>4, <1>5 DEF NoAckOf
<1>8. r # b => a = b
  BY <1>2, <1>3 DEF Bit
<1>9. AckOrderInv(t, b)
  <2>1. CASE r = b
    BY <1>7, <2>1 DEF NoAckOf, AckOrderInv
  <2>2. CASE r # b
    BY <1>3, <1>4, <1>5, <1>6, <1>8, <2>2 DEF AckOrderInv
  <2> QED
    BY <2>1, <2>2
<1>10. Acknowledged'
  BY <1>1, <1>2, <1>7, <1>9 DEF Acknowledged, t
<1>11. PICK m \in Nat : Sent(m) /\ Received(m)
  BY DEF RequestInv
<1>12. Sent(m)' /\ Received(m)'
  BY <1>1, <1>11 DEF Sent, Received
<1> QED
  BY <1>1, <1>10, <1>12 DEF RequestInv

(* The host accepts an acknowledgement: the device received the request.   *)
LEMMA RequestConfirmed ==
  ASSUME TypeOK, RequestInv, HandleAck("host"), AckAccepted("host", Head(link["host"]))
  PROVE  RequestInv'
<1> DEFINE s == link["host"]
           t == link'["host"]
           b == syncSend["host"]
           r == syncReceive["device"]
<1>1. /\ s # <<>> /\ t = Tail(s) /\ link'["device"] = link["device"]
      /\ sendState["host"] = "Sending" /\ sendState'["host"] = "Idle"
      /\ sendState'["device"] = sendState["device"] /\ syncSend'["host"] = 1 - b
      /\ UNCHANGED <<syncReceive, sendAck, receiveState, reassembler, encNonce, decNonce, missed>>
  BY DEF HandleAck, Incoming, Receive, AckAccepted, MarkDelivered, TypeOK, Peer
<1>2. /\ s \in Seq(Packet) /\ b \in Bit /\ r \in Bit /\ IntactAck(Head(s)) /\ Head(s).ack = b
      /\ ~IsFailed("host")
  BY DEF TypeOK, Peer, HandleAck, Incoming, AckAccepted, IntactAck
<1> HIDE DEF s, t
<1>3. /\ Len(t) = Len(s) - 1 /\ Len(s) \in Nat \ {0} /\ Head(s) = s[1]
      /\ \A i \in 1..Len(t) : t[i] = s[i + 1] /\ i + 1 \in 1..Len(s)
  BY <1>1, <1>2, TailLemma
<1>4. 1 \in 1..Len(s) /\ \A i \in 1..Len(t) : 1 < i + 1
  BY <1>3, SMT
<1>5. (r = b => NoAckOf(s, b)) /\ AckOrderInv(s, b) /\ sendAck["device"] # r
  BY DEF RequestInv, Acknowledged, s
<1>6. r # b
  BY <1>2, <1>3, <1>4, <1>5 DEF NoAckOf
<1>7. r = 1 - b /\ b # 1 - b
  BY <1>2, <1>6, SMT DEF Bit
<1>8. NoAckOf(t, 1 - b)
  BY <1>2, <1>3, <1>4, <1>5, <1>7 DEF NoAckOf, AckOrderInv
<1>9. Acknowledged'
  BY <1>1, <1>5, <1>7, <1>8 DEF Acknowledged, NoAckOf, AckOrderInv, t
<1>10. PICK m \in Nat : Sent(m) /\ Received(m)
  BY DEF RequestInv
<1>11. /\ encNonce["host"] = m + 1 /\ NoInitOf(link["device"], 1 - b)
       /\ ~(receiveState["device"] = "Receiving" /\ reassembler["device"].good)
       /\ decNonce["device"] <= m + 1
       /\ "device" \in missed => decNonce["device"] < m + 1
  BY <1>1, <1>6, <1>10 DEF Sent, Received
<1>12. Sent(m + 1)'
  BY <1>1, <1>7, <1>11 DEF Sent, NoInitOf, InitsOf, InitOrder
<1>13. Received(m + 1)'
  BY <1>1, <1>7, <1>11 DEF Received
<1>14. m + 1 \in Nat
  BY SMT
<1> QED
  BY <1>1, <1>9, <1>12, <1>13, <1>14 DEF RequestInv, Peer

(* The device starts to reassemble a request.                              *)
LEMMA RequestStarted ==
  ASSUME TypeOK, RequestInv, ~Piggybacking, HandleInit("device"),
         LET pkt == Head(link["device"])
         IN  ReceiveStart("device", pkt) /\ HandleLastPacket("device", NewReassembler(pkt)),
         UNCHANGED sendAck
  PROVE  RequestInv'
<1> DEFINE s == link["device"]
           t == link'["device"]
           pkt == Head(s)
           b == syncSend["host"]
<1>1. /\ s # <<>> /\ s \in Seq(Packet) /\ t = Tail(s) /\ link'["host"] = link["host"]
      /\ pkt.type = "init" /\ pkt.seq = syncReceive["device"] /\ Receive("device")
      /\ b \in Bit /\ syncReceive["device"] \in Bit
  BY DEF HandleInit, Incoming, Receive, ReceiveStart, TypeOK, Peer
<1>2. /\ UNCHANGED <<syncSend, sendState, fragmenter, syncReceive, encNonce, decNonce, missed>>
      /\ receiveState'["host"] = receiveState["host"]
      /\ receiveState'["device"] \in {"Idle", "Receiving"} /\ ~IsFailed("device")
      /\ receiveState'["device"] = "Receiving" =>
           reassembler'["device"] = NewReassembler(pkt)
  <2>1. /\ UNCHANGED <<syncReceive, encNonce, decNonce, missed>> /\ ~IsFailed("device")
    BY DEF HandleInit, Incoming
  <2> DEFINE new == NewReassembler(pkt)
  <2>2. HandleLastPacket("device", new)
    OBVIOUS
  <2> HIDE DEF new
  <2>3. UNCHANGED <<syncSend, sendState, fragmenter>>
    BY <2>2 DEF HandleLastPacket
  <2>4. /\ receiveState'["host"] = receiveState["host"]
        /\ receiveState'["device"] \in {"Idle", "Receiving"}
        /\ receiveState'["device"] = "Receiving" => reassembler'["device"] = new
    BY <2>2 DEF HandleLastPacket, TypeOK, Peer
  <2> QED
    BY <2>1, <2>3, <2>4 DEF new
<1>3. NewReassembler(pkt).good = pkt.ok /\ NewReassembler(pkt).msg = pkt.msg
  BY DEF NewReassembler
<1>4. /\ KeptInits(t, s) /\ KeptAcks(link'["host"], link["host"])
  BY <1>1, RequestTaken DEF Peer
<1>5. \A p \in Peer : sendState'[p] = "Failed" => receiveState'[p] = "Failed"
  BY <1>2 DEF RequestInv, Peer, IsFailed
<1>6. CASE ~pkt.ok
  BY <1>2, <1>3, <1>4, <1>5, <1>6, RequestFrame DEF RequestInv, Acknowledged, Aside
<1>7. CASE pkt.ok
  <2>1. PICK m \in Nat : Sent(m) /\ Received(m)
    BY DEF RequestInv
  <2> HIDE DEF s, t
  <2>2. /\ Len(s) \in Nat \ {0} /\ pkt = s[1] /\ IntactInit(pkt)
        /\ \A i \in 1..Len(t) : t[i] = s[i + 1] /\ i + 1 \in 1..Len(s)
    BY <1>1, <1>7, TailLemma DEF IntactInit
  <2>3. 1 \in 1..Len(s) /\ \A i \in 1..Len(t) : 1 < i + 1
    BY <2>2, SMT
  <2> HIDE DEF pkt
  <2>4. b # 1 - b /\ \A x \in Bit : x = b \/ x = 1 - b
    BY <1>1, SMT DEF Bit
  <2>5. syncReceive["device"] = b
    <3>1. syncReceive["device"] # b => NoInitOf(s, 1 - b)
      BY <2>1 DEF Sent, s
    <3> QED
      BY <1>1, <2>2, <2>3, <2>4, <3>1 DEF NoInitOf
  <2>6. pkt.msg = m /\ sendState["host"] # "Idle" /\ NoInitOf(t, 1 - b)
    <3>1. /\ InitsOf(s, b, m) /\ InitOrder(s, b)
          /\ sendState["host"] = "Idle" => NoInitOf(s, b)
      BY <2>1 DEF Sent, s
    <3>2. pkt.seq = b
      BY <1>1, <2>5
    <3>3. pkt.msg = m /\ sendState["host"] # "Idle"
      BY <2>2, <2>3, <3>1, <3>2 DEF InitsOf, NoInitOf
    <3>4. NoInitOf(t, 1 - b)
      <4>1. \A i \in 1..Len(t) : IntactInit(s[i + 1]) => s[i + 1].seq = b
        BY <2>2, <2>3, <3>1, <3>2 DEF InitOrder
      <4> QED
        BY <2>2, <2>4, <4>1 DEF NoInitOf
    <3> QED
      BY <3>3, <3>4
  <2>7. 1 - b \in Bit
    BY <1>1, SMT DEF Bit
  <2>8. Sent(m)'
    BY <1>1, <1>2, <1>4, <2>1, <2>7 DEF Sent, KeptInits, s, t
  <2>9. Received(m)'
    BY <1>2, <1>3, <2>1, <2>5, <2>6 DEF Received, t
  <2>10. Acknowledged'
    BY <1>1, <1>2 DEF RequestInv, Acknowledged
  <2> QED
    BY <1>2, <1>5, <2>8, <2>9, <2>10 DEF RequestInv
<1> QED
  BY <1>6, <1>7

(* The application of the device picks up a request.                       *)
LEMMA RequestPickedUp ==
  ASSUME TypeOK, RequestInv, MessageOut("device")
  PROVE  RequestInv'
<1> DEFINE b == syncSend["host"]
           r == syncReceive["device"]
           d == decNonce["device"]
<1>1. /\ receiveState["device"] = "Receiving" /\ reassembler["device"].good
      /\ sendAck'["device"] = r /\ syncReceive'["device"] = 1 - r
      /\ receiveState'["device"] = "Idle" /\ sendState'["host"] = sendState["host"]
      /\ receiveState'["host"] = receiveState["host"]
      /\ fragmenter'["host"] = fragmenter["host"]
      /\ UNCHANGED <<canSend, syncSend, encNonce, link>>
      /\ b \in Bit /\ d \in Nat
  BY DEF MessageOut, TypeOK, Peer
<1>2. /\ "host" \in missed' => "host" \in missed
      /\ \/ /\ Decrypts("device") /\ decNonce'["device"] = d + 1
            /\ sendState'["device"] = sendState["device"] /\ missed' = missed
         \/ decNonce'["device"] = d /\ sendState'["device"] = "DecryptionFailed"
  BY DEF MessageOut, TypeOK, Peer
<1>3. PICK m \in Nat : Sent(m) /\ Received(m)
  BY DEF RequestInv
<1>4. /\ sendState["host"] # "Idle" /\ r = b /\ reassembler["device"].msg = m
      /\ NoInitOf(link["device"], 1 - b) /\ d <= m
      /\ "device" \in missed => d < m
  BY <1>1, <1>3 DEF Received
<1>5. 1 - r # b /\ b # 1 - r
  BY <1>1, <1>4, SMT DEF Bit
<1>6. Sent(m)'
  BY <1>1, <1>3, <1>4, <1>5 DEF Sent
<1>7. /\ decNonce'["device"] <= m + 1
      /\ "device" \in missed' => decNonce'["device"] < m + 1
  <2>1. d + 1 <= m + 1 /\ d <= m + 1 /\ d < m + 1 /\ ~(m < m)
    BY <1>1, <1>4, SMT
  <2> QED
    BY <1>2, <1>4, <2>1 DEF Decrypts
<1>8. Received(m)'
  BY <1>1, <1>5, <1>7 DEF Received
<1>9. Acknowledged'
  BY <1>1, <1>4, <1>5 DEF RequestInv, Acknowledged
<1>10. /\ \A p \in Peer : sendState'[p] = "Failed" => receiveState'[p] = "Failed"
       /\ "host" \in missed' => sendState'["host"] = "Failed"
  BY <1>1, <1>2 DEF RequestInv, Peer
<1> QED
  BY <1>1, <1>6, <1>8, <1>9, <1>10 DEF RequestInv

(* Other steps of the applications and timers.                             *)
LEMMA RequestAside ==
  ASSUME TypeOK, RequestInv, ~Piggybacking,
         \/ MessageIn("device") \/ MessageOut("host")
         \/ \E p \in Peer : MessageRetransmit(p)
  PROVE  RequestInv'
<1>1. link' = link
  BY DEF MessageIn, MessageOut, MessageRetransmit
<1>2. CASE MessageIn("device")
  <2>1. /\ sendState["device"] = "Idle" /\ sendState'["device"] \in {"Idle", "Sending"}
        /\ sendState'["host"] = sendState["host"] /\ fragmenter'["host"] = fragmenter["host"]
        /\ encNonce'["host"] = encNonce["host"] /\ sendAck'["device"] = sendAck["device"]
        /\ UNCHANGED <<syncSend, syncReceive, receiveState, reassembler, decNonce, missed>>
    BY <1>2 DEF MessageIn, MessageInReady, TypeOK, Peer
  <2>2. Aside
    BY <2>1 DEF Aside, RequestInv, Acknowledged, Peer
  <2> QED
    BY <1>1, <2>2, SameKept, RequestFrame
<1>3. CASE MessageOut("host")
  <2>1. /\ sendAck'["device"] = sendAck["device"]
        /\ syncReceive'["device"] = syncReceive["device"]
        /\ reassembler'["device"] = reassembler["device"]
        /\ decNonce'["device"] = decNonce["device"]
        /\ receiveState'["device"] = receiveState["device"]
        /\ sendState'["device"] = sendState["device"]
        /\ "device" \in missed' => "device" \in missed
        /\ UNCHANGED <<syncSend, encNonce>>
    BY <1>3 DEF MessageOut, TypeOK, Peer
  <2>2. \/ UNCHANGED <<sendState, fragmenter, missed>>
        \/ sendState'["host"] = "Failed" /\ receiveState'["host"] = "Failed"
    BY <1>3 DEF MessageOut, TypeOK, Peer
  <2>3. receiveState["host"] = "Receiving"
    BY <1>3 DEF MessageOut
  <2>4. Aside
    BY <2>1, <2>2, <2>3 DEF Aside, RequestInv, Acknowledged, Peer
  <2> QED
    BY <1>1, <2>4, SameKept, RequestFrame
<1>4. ASSUME NEW p \in Peer, MessageRetransmit(p)
      PROVE  RequestInv'
  <2>1. /\ UNCHANGED <<syncSend, syncReceive, sendAck, sendState, receiveState,
                       reassembler, encNonce, decNonce, missed>>
        /\ fragmenter'["host"].msg = fragmenter["host"].msg
        /\ fragmenter'["host"].seq = fragmenter["host"].seq
    BY <1>4, SMTT(30) DEF MessageRetransmit, Reset, TypeOK, Peer, Fragmenter
  <2>2. Aside
    BY <2>1 DEF Aside, RequestInv, Acknowledged, Peer
  <2> QED
    BY <1>1, <2>2, SameKept, RequestFrame
<1> QED
  BY <1>2, <1>3, <1>4

(* Packets that carry no request and acknowledge none.                     *)
LEMMA RequestPut ==
  ASSUME TypeOK, RequestInv,
         \/ SendPendingAck("host") \/ SendFragment("device")
         \/ \E p \in Peer : SendTransportError(p)
  PROVE  RequestInv'
<1>1. link["host"] \in Seq(Packet) /\ link["device"] \in Seq(Packet)
  BY DEF TypeOK, Peer
<1>2. CASE SendPendingAck("host")
  <2>1. /\ link'["device"] = Append(link["device"], AckPacket(sendAck["host"]))
        /\ link'["host"] = link["host"] /\ sendAck["host"] \in Bit
        /\ sendAck'["device"] = sendAck["device"]
        /\ UNCHANGED <<syncSend, syncReceive, sendState, fragmenter, receiveState,
                       reassembler, encNonce, decNonce, missed>>
    BY <1>2 DEF SendPendingAck, Send, Other, TypeOK, Peer
  <2>2. AckPacket(sendAck["host"]) \in Packet /\ AckPacket(sendAck["host"]).type # "init"
    BY <2>1, PacketLemma DEF AckPacket
  <2>3. KeptInits(link'["device"], link["device"]) /\ KeptAcks(link'["host"], link["host"])
    BY <1>1, <2>1, <2>2, AppendKept, SameKept
  <2>4. Aside
    BY <2>1 DEF Aside, RequestInv, Acknowledged, Peer
  <2> QED
    BY <2>3, <2>4, RequestFrame
<1>3. CASE SendFragment("device")
  <2>1. /\ link'["host"] = Append(link["host"], Fragment(fragmenter["device"]))
        /\ link'["device"] = link["device"] /\ fragmenter["device"] \in Fragmenter
        /\ fragmenter'["host"] = fragmenter["host"]
        /\ UNCHANGED <<syncSend, syncReceive, sendAck, sendState, receiveState,
                       reassembler, encNonce, decNonce, missed>>
    BY <1>3 DEF SendFragment, Send, Other, TypeOK, Peer
  <2>2. /\ Fragment(fragmenter["device"]) \in Packet
        /\ Fragment(fragmenter["device"]).type # "ack"
    BY <2>1, PacketLemma DEF Fragment
  <2>3. KeptInits(link'["device"], link["device"]) /\ KeptAcks(link'["host"], link["host"])
    BY <1>1, <2>1, <2>2, AppendKept, SameKept
  <2>4. Aside
    BY <2>1 DEF Aside, RequestInv, Acknowledged, Peer
  <2> QED
    BY <2>3, <2>4, RequestFrame
<1>4. ASSUME NEW p \in Peer, SendTransportError(p)
      PROVE  RequestInv'
  <2>1. p = "device"
    BY <1>4 DEF SendTransportError, RequestInv, ErrorType, Peer
  <2> DEFINE e == sendState["device"]
  <2>2. /\ e \in ErrorType /\ link'["host"] = Append(link["host"], ErrorPacket(e))
        /\ link'["device"] = link["device"] /\ sendState'["host"] = sendState["host"]
        /\ receiveState'["host"] = receiveState["host"]
        /\ UNCHANGED <<syncSend, syncReceive, sendAck, fragmenter, encNonce, decNonce, missed>>
    BY <1>4, <2>1 DEF SendTransportError, Send, Other, TypeOK, Peer
  <2>3. \/ sendState'["device"] = "Idle" /\ UNCHANGED <<receiveState, reassembler>>
        \/ sendState'["device"] = "Failed" /\ receiveState'["device"] = "Failed"
    BY <1>4, <2>1 DEF SendTransportError, TypeOK, Peer
  <2>4. ErrorPacket(e) \in Packet /\ ErrorPacket(e).type # "ack"
    BY <2>2, PacketLemma DEF ErrorPacket, ErrorType
  <2>5. KeptInits(link'["device"], link["device"]) /\ KeptAcks(link'["host"], link["host"])
    BY <1>1, <2>2, <2>4, AppendKept, SameKept
  <2>6. Aside
    BY <2>2, <2>3 DEF Aside, RequestInv, Acknowledged, Peer
  <2> QED
    BY <2>5, <2>6, RequestFrame
<1> QED
  BY <1>2, <1>3, <1>4

(* A reassembler takes a continuation, or is erased.                       *)
LEMMA RequestReassembled ==
  ASSUME NEW r \in Reassembler, NEW pkt \in Packet
  PROVE  /\ Appended(r, pkt).msg = r.msg /\ (Appended(r, pkt).good => r.good)
         /\ Zeroed(r).msg = r.msg /\ (Zeroed(r).good => r.good)
BY DEF Appended, Zeroed, Reassembler

(* Packets that are read and that start no request and confirm none.       *)
LEMMA RequestRead ==
  ASSUME TypeOK, RequestInv, ~Piggybacking, NEW p \in Peer,
         \/ RejectFailed(p) \/ HandleError(p) \/ HandleCont(p)
         \/ HandleAck(p) /\ (p = "host" => ~AckAccepted(p, Head(link[p])))
  PROVE  RequestInv'
<1>1. link[p] # <<>> /\ Receive(p)
  BY DEF RejectFailed, HandleError, HandleCont, HandleAck, Incoming
<1>2. KeptInits(link'["device"], link["device"]) /\ KeptAcks(link'["host"], link["host"])
  BY <1>1, RequestTaken
<1>3. UNCHANGED <<syncReceive, sendAck, encNonce, decNonce, missed>>
  BY DEF RejectFailed, HandleError, HandleCont, HandleAck
<1>4. CASE RejectFailed(p)
  BY <1>2, <1>3, <1>4, RequestFrame DEF Aside, RequestInv, Acknowledged, RejectFailed
<1>5. CASE HandleError(p)
  <2>1. \A q \in Peer :
          \/ /\ sendState'[q] = sendState[q] /\ receiveState'[q] = receiveState[q]
             /\ reassembler'[q] = reassembler[q] /\ fragmenter'[q] = fragmenter[q]
          \/ sendState'[q] = "Failed" /\ receiveState'[q] = "Failed"
    BY <1>5 DEF HandleError, TypeOK, Peer
  <2>2. syncSend' = syncSend
    BY <1>5 DEF HandleError
  <2>3. Aside
    BY <1>3, <2>1, <2>2 DEF Aside, RequestInv, Acknowledged, Peer
  <2> QED
    BY <1>2, <2>3, RequestFrame
<1>6. CASE HandleCont(p)
  <2>1. UNCHANGED <<syncSend, sendState, fragmenter>>
    BY <1>6 DEF HandleCont, HandleLastPacket
  <2>2. Head(link[p]) \in Packet /\ reassembler[p] \in Reassembler
    BY <1>1, RequestTaken DEF TypeOK
  <2> DEFINE new == Appended(reassembler[p], Head(link[p]))
  <2>3. new.msg = reassembler[p].msg /\ (new.good => reassembler[p].good)
    BY <2>2, RequestReassembled
  <2> HIDE DEF new
  <2>4. /\ \A q \in Peer : q # p => /\ receiveState'[q] = receiveState[q]
                                   /\ reassembler'[q] = reassembler[q]
        /\ \/ UNCHANGED <<receiveState, reassembler>>
           \/ receiveState[p] = "Receiving" /\ receiveState'[p] = "Idle"
           \/ /\ receiveState[p] = "Receiving" /\ receiveState'[p] = "Receiving"
              /\ reassembler'[p] = new
    <3>1. \/ UNCHANGED <<receiveState, reassembler>>
          \/ receiveState[p] = "Receiving" /\ HandleLastPacket(p, new)
      BY <1>6 DEF HandleCont, new
    <3>2. \A q \in Peer : q # p => /\ receiveState'[q] = receiveState[q]
                                 /\ reassembler'[q] = reassembler[q]
      BY <3>1 DEF HandleLastPacket, TypeOK
    <3>3. HandleLastPacket(p, new) =>
            \/ receiveState'[p] = "Idle"
            \/ receiveState'[p] = "Receiving" /\ reassembler'[p] = new
      BY DEF HandleLastPacket, TypeOK
    <3> QED
      BY <3>1, <3>2, <3>3
  <2>5. /\ \A q \in Peer : sendState'[q] = "Failed" => receiveState'[q] = "Failed"
        /\ receiveState'["device"] = "Receiving" /\ reassembler'["device"].good =>
             /\ receiveState["device"] = "Receiving" /\ reassembler["device"].good
             /\ reassembler'["device"].msg = reassembler["device"].msg
    <3>1. CASE p = "device"
      BY <2>1, <2>3, <2>4, <3>1 DEF RequestInv, Peer
    <3>2. CASE p = "host"
      BY <2>1, <2>4, <3>2 DEF RequestInv, Peer
    <3> QED
      BY <3>1, <3>2 DEF Peer
  <2>6. Aside
    BY <1>3, <2>1, <2>5 DEF Aside, RequestInv, Acknowledged
  <2> QED
    BY <1>2, <2>6, RequestFrame
<1>7. CASE HandleAck(p) /\ (p = "host" => ~AckAccepted(p, Head(link[p])))
  <2>1. UNCHANGED <<receiveState, reassembler>>
    BY <1>7 DEF HandleAck
  <2>2. /\ sendState'["host"] = sendState["host"] /\ fragmenter'["host"] = fragmenter["host"]
        /\ syncSend'["host"] = syncSend["host"]
        /\ sendState'["device"] \in {sendState["device"], "Idle"}
    BY <1>7 DEF HandleAck, MarkDelivered, TypeOK, Peer
  <2>3. Aside
    BY <1>3, <2>1, <2>2 DEF Aside, RequestInv, Acknowledged, Peer
  <2> QED
    BY <1>2, <2>3, RequestFrame
<1> QED
  BY <1>4, <1>5, <1>6, <1>7

(* The device is busy: the packet is not read.                             *)
LEMMA RequestRefused ==
  ASSUME TypeOK, RequestInv, SendTransportBusy
  PROVE  RequestInv'
<1>1. link["device"] # <<>> /\ Receive("device")
  BY DEF SendTransportBusy
<1>2. KeptInits(link'["device"], link["device"]) /\ KeptAcks(link'["host"], link["host"])
  BY <1>1, RequestTaken DEF Peer
<1>3. /\ sendState'["device"] = "TransportBusy" /\ sendState'["host"] = sendState["host"]
      /\ fragmenter'["host"] = fragmenter["host"]
      /\ UNCHANGED <<syncSend, syncReceive, sendAck, receiveState, reassembler,
                     encNonce, decNonce, missed>>
  BY DEF SendTransportBusy, TypeOK, Peer
<1>4. Aside
  BY <1>3 DEF Aside, RequestInv, Acknowledged, Peer
<1> QED
  BY <1>2, <1>4, RequestFrame

(* An initiation packet is read.                                           *)
LEMMA RequestInit ==
  ASSUME TypeOK, RequestInv, ~Piggybacking, NEW p \in Peer, HandleInit(p)
  PROVE  RequestInv'
<1> DEFINE pkt == Head(link[p])
<1>1. link[p] # <<>> /\ Receive(p)
  BY DEF HandleInit, Incoming
<1>2. KeptInits(link'["device"], link["device"]) /\ KeptAcks(link'["host"], link["host"])
  BY <1>1, RequestTaken
<1>3. UNCHANGED <<syncReceive, encNonce, decNonce, missed>>
  BY DEF HandleInit
<1>4. CASE ~ReceiveStart(p, pkt) /\ HandleInvalidSeq(p, pkt)
  <2>1. UNCHANGED <<receiveState, reassembler, syncSend, sendState, fragmenter>>
    BY <1>4 DEF HandleInvalidSeq
  <2>2. sendAck' \in {sendAck, [sendAck EXCEPT ![p] = pkt.seq]}
    BY <1>4 DEF HandleInvalidSeq
  <2>3. p = "device" => pkt.seq # syncReceive["device"]
    BY <1>4 DEF ReceiveStart
  <2>4. sendAck["device"] # syncReceive["device"] /\ sendAck \in [Peer -> Bit \cup {NoAck}]
    BY DEF RequestInv, Acknowledged, TypeOK
  <2> HIDE DEF pkt
  <2>5. sendAck'["device"] # syncReceive["device"]
    BY <2>2, <2>3, <2>4 DEF Peer
  <2>6. Aside
    BY <1>3, <2>1, <2>5 DEF Aside, RequestInv
  <2> QED
    BY <1>2, <2>6, RequestFrame
<1>5. CASE UNCHANGED <<sendAck, receiveState, reassembler, syncSend, sendState, fragmenter>>
  BY <1>2, <1>3, <1>5, RequestFrame DEF Aside, RequestInv, Acknowledged
<1>6. CASE HandleBadHeader(p)
  <2>1. UNCHANGED <<sendAck, receiveState, syncSend, sendState, fragmenter>>
    BY <1>6 DEF HandleBadHeader
  <2>2. reassembler' \in {reassembler, [reassembler EXCEPT ![p] = Zeroed(@)]}
    BY <1>6 DEF HandleBadHeader
  <2>3. /\ Zeroed(reassembler[p]).msg = reassembler[p].msg
        /\ Zeroed(reassembler[p]).good => reassembler[p].good
    BY <1>1, RequestTaken, RequestReassembled DEF TypeOK
  <2>4. reassembler'["device"].good => /\ reassembler["device"].good
                                       /\ reassembler'["device"].msg = reassembler["device"].msg
    BY <2>2, <2>3 DEF TypeOK, Peer
  <2>5. Aside
    BY <1>3, <2>1, <2>4 DEF Aside, RequestInv, Acknowledged
  <2> QED
    BY <1>2, <2>5, RequestFrame
<1>7. CASE /\ ReceiveStart(p, pkt) /\ HandleLastPacket(p, NewReassembler(pkt))
           /\ UNCHANGED sendAck
  <2>1. CASE p = "device"
    BY <1>7, <2>1, RequestStarted
  <2>2. CASE p = "host"
    <3> DEFINE new == NewReassembler(pkt)
    <3>1. HandleLastPacket("host", new)
      BY <1>7, <2>2
    <3> HIDE DEF new
    <3>2. UNCHANGED <<syncSend, sendState, fragmenter>>
      BY <3>1 DEF HandleLastPacket
    <3>3. /\ receiveState'["device"] = receiveState["device"]
          /\ reassembler'["device"] = reassembler["device"]
      BY <3>1 DEF HandleLastPacket, TypeOK, Peer
    <3>4. sendState["host"] # "Failed"
      BY <2>2 DEF HandleInit, Incoming, IsFailed
    <3>5. Aside
      BY <1>3, <1>7, <3>2, <3>3, <3>4 DEF Aside, RequestInv, Acknowledged, Peer
    <3> QED
      BY <1>2, <3>5, RequestFrame
  <2> QED
    BY <2>1, <2>2 DEF Peer
<1> QED
  BY <1>4, <1>5, <1>6, <1>7 DEF HandleInit

(* Every step of a channel without piggybacking keeps the invariant.       *)
LEMMA RequestStep ==
  ASSUME ~Piggybacking, TypeOK, RequestInv, [Next]_vars
  PROVE  RequestInv'
<1>1. CASE UNCHANGED vars
  BY <1>1 DEF vars, RequestInv, Sent, Received, Acknowledged
<1>2. CASE SendTransportBusy
  BY <1>2, RequestRefused
<1>3. ASSUME NEW p \in Peer,
             \/ MessageIn(p) \/ MessageRetransmit(p) \/ MessageOut(p)
             \/ PacketOut(p) \/ PacketIn(p) \/ Lose(p) \/ Duplicate(p) \/ Damage(p)
      PROVE  RequestInv'
  <2>1. p = "host" \/ p = "device"
    BY DEF Peer
  <2>2. CASE MessageIn(p) \/ MessageRetransmit(p) \/ MessageOut(p)
    BY <2>1, <2>2, RequestSubmitted, RequestPickedUp, RequestAside
  <2>3. CASE PacketOut(p)
    BY <2>1, <2>3, RequestAcknowledged, RequestSent, RequestPut DEF PacketOut
  <2>4. CASE PacketIn(p)
    <3>1. CASE RejectFailed(p) \/ HandleError(p) \/ HandleCont(p)
      BY <3>1, RequestRead
    <3>2. CASE HandleAck(p)
      BY <2>1, <3>2, RequestRead, RequestConfirmed
    <3>3. CASE HandleInit(p)
      BY <3>3, RequestInit
    <3> QED
      BY <2>4, <3>1, <3>2, <3>3 DEF PacketIn
  <2>5. CASE Lose(p) \/ Duplicate(p) \/ Damage(p)
    BY <2>5, RequestFault
  <2> QED
    BY <1>3, <2>2, <2>3, <2>4, <2>5
<1> QED
  BY <1>1, <1>2, <1>3 DEF Next

(* The invariant holds of every behaviour of a channel without             *)
(* piggybacking, with TRANSPORT_BUSY answers and damaged headers or not.   *)
THEOREM RequestInvariant == ASSUME ~Piggybacking PROVE Spec => []RequestInv
<1>1. Init => RequestInv
  <2> SUFFICES ASSUME Init PROVE RequestInv
    OBVIOUS
  <2>1. /\ link["device"] = <<>> /\ link["host"] = <<>> /\ encNonce["host"] = 0
        /\ decNonce["device"] = 0 /\ syncSend["host"] = 0 /\ syncReceive["device"] = 0
        /\ sendAck["device"] = -1 /\ \A p \in Peer : sendState[p] = "Idle"
        /\ receiveState["device"] = "Idle" /\ missed = {}
    BY DEF Init, Peer, NoAck
  <2>2. /\ NoInitOf(<<>>, 0) /\ InitsOf(<<>>, 0, 0) /\ InitOrder(<<>>, 0)
        /\ NoAckOf(<<>>, 0) /\ AckOrderInv(<<>>, 0) /\ -1 # 0 /\ 0 <= 0 /\ 0 \in Nat
    BY SMT DEF NoInitOf, InitsOf, InitOrder, NoAckOf, AckOrderInv
  <2>3. Sent(0) /\ Received(0)
    BY <2>1, <2>2 DEF Sent, Received, Peer
  <2>4. Acknowledged
    BY <2>1, <2>2 DEF Acknowledged
  <2> QED
    BY <2>1, <2>2, <2>3, <2>4 DEF RequestInv, Peer
<1>2. TypeOK /\ RequestInv /\ [Next]_vars => RequestInv'
  BY RequestStep
<1> QED
  BY <1>1, <1>2, TypeInvariant, PTL DEF Spec

(* While the host is operable and ready for the next message, the device   *)
(* has taken all earlier ones, whatever TRANSPORT_BUSY answers it gave.    *)
THEOREM BusyInvariant == ASSUME ~Piggybacking PROVE Spec => []BusyLosesNoRequest
<1>1. RequestInv => BusyLosesNoRequest
  BY DEF RequestInv, Sent, BusyLosesNoRequest, MessageInReady
<1> QED
  BY <1>1, RequestInvariant, PTL

(* Only message_out advances a nonce of decryption.                        *)
LEMMA OnlyMessageOut ==
  ASSUME TypeOK, [Next]_vars, NEW p \in Peer, decNonce'[p] # decNonce[p]
  PROVE  MessageOut(p) /\ Decrypts(p)
<1>1. ASSUME NEW q \in Peer, MessageOut(q)
      PROVE  MessageOut(p) /\ Decrypts(p)
  <2>1. q = p
    BY <1>1 DEF MessageOut, TypeOK
  <2> QED
    BY <1>1, <2>1 DEF MessageOut
<1>2. ASSUME NEW q \in Peer,
             \/ MessageIn(q) \/ MessageRetransmit(q) \/ PacketOut(q) \/ PacketIn(q)
             \/ Lose(q) \/ Duplicate(q) \/ Damage(q)
      PROVE  decNonce' = decNonce
  <2>1. CASE MessageIn(q) \/ MessageRetransmit(q) \/ PacketOut(q)
    BY <2>1 DEF MessageIn, MessageRetransmit, PacketOut, SendPendingAck,
                SendTransportError, SendFragment
  <2>2. CASE PacketIn(q)
    BY <2>2 DEF PacketIn, RejectFailed, HandleAck, HandleError, HandleCont, HandleInit
  <2>3. CASE Lose(q) \/ Duplicate(q) \/ Damage(q)
    BY <2>3 DEF Lose, Duplicate, Damage, Fault
  <2> QED
    BY <1>2, <2>1, <2>2, <2>3
<1>3. SendTransportBusy \/ UNCHANGED vars => decNonce' = decNonce
  BY DEF SendTransportBusy, vars
<1> QED
  BY <1>1, <1>2, <1>3 DEF Next

(* Once a side failed to decrypt a message, or learned that the other one  *)
(* did, message_out never delivers one to its application again, even if   *)
(* TRANSPORT_BUSY replaced the error that the device was to send.          *)
THEOREM FailureIsFinal == ASSUME ~Piggybacking PROVE Spec => NoDeliveryAfterFailure
<1>1. TypeOK /\ RequestInv /\ [Next]_vars =>
        [\A p \in Peer : p \in missed \/ IsFailed(p) => decNonce'[p] = decNonce[p]]_vars
  <2> SUFFICES ASSUME TypeOK, RequestInv, [Next]_vars, NEW p \in Peer,
                      p \in missed \/ IsFailed(p), decNonce'[p] # decNonce[p]
               PROVE  FALSE
    OBVIOUS
  <2>1. MessageOut(p) /\ Decrypts(p)
    BY OnlyMessageOut
  <2>2. receiveState[p] = "Receiving" /\ reassembler[p].good
    BY <2>1 DEF MessageOut
  <2>3. ~IsFailed(p)
    BY <2>2 DEF RequestInv, IsFailed
  <2>4. p = "device" /\ "device" \in missed
    BY <2>3 DEF RequestInv, IsFailed, Peer
  <2>5. PICK m \in Nat : Received(m)
    BY DEF RequestInv
  <2>6. reassembler[p].msg = m /\ decNonce[p] < m
    BY <2>2, <2>4, <2>5 DEF Received
  <2>7. reassembler[p].msg = decNonce[p]
    BY <2>1 DEF Decrypts
  <2> QED
    BY <2>6, <2>7, SMT
<1> QED
  BY <1>1, TypeInvariant, RequestInvariant, PTL DEF Spec, NoDeliveryAfterFailure
===============================================================================
