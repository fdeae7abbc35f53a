--------------------------- MODULE ThpContextProofs ---------------------------
(***************************************************************************)
(* For any number of hosts, interfaces, channel ids and sessions, and for  *)
(* tables of any capacity: insert_channel never panics, a host has at most *)
(* one channel in encrypted transport on an interface, and no session is   *)
(* left with the wrong host or forgotten.                                  *)
(*                                                                         *)
(* SessionsOwned is not inductive: channel_paired could open a channel to  *)
(* which a stale session refers.  SessionsFresh excludes that.             *)
(***************************************************************************)
EXTENDS ThpContext, FiniteSetTheorems, TLAPS

(* Most leaves are first-order; the others cite SMT.                       *)
USE Zenon

Typed ==
  /\ DOMAIN opening \subseteq Cids /\ \A c \in DOMAIN opening : opening[c] \in Opening
  /\ DOMAIN appdata \subseteq Cids /\ \A c \in DOMAIN appdata : appdata[c] \in Appdata
  /\ sessions \in [Slots -> Session \cup {NoSession}]
  /\ channelClosed \in BOOLEAN

(* A session that refers to a channel in one of the tables refers to one   *)
(* in encrypted transport.                                                 *)
SessionsFresh ==
  \A n \in Slots :
    sessions[n].cid \in DOMAIN opening \cup DOMAIN appdata => IsOpen(sessions[n].cid)

Inv == Typed /\ NoPanic /\ OneEncrypted /\ SessionsOwned /\ SessionsFresh

-------------------------------------------------------------------------------
(* The tables of channels are finite: there are finitely many ids.         *)
LEMMA TableFinite ==
  ASSUME NEW S, S \subseteq Cids
  PROVE  IsFiniteSet(S) /\ Cardinality(S) \in Nat
<1>1. MaxCid \in Nat
  BY ContextAssumption
<1>2. IsFiniteSet(Cids)
  BY <1>1, FS_Interval, SMTT(30) DEF Cids
<1>3. IsFiniteSet(S)
  BY <1>2, FS_Subset
<1> QED
  BY <1>3, FS_CardinalityType

(* lru_needs_closing frees a slot: without the channel it names the table  *)
(* is not full.                                                            *)
LEMMA SlotFreed ==
  ASSUME NEW table, DOMAIN table \subseteq Cids, NEW max \in Nat \ {0},
         Cardinality(DOMAIN table) <= max,
         NEW closed \in LruNeedsClosing(table, max)
  PROVE  /\ closed \subseteq DOMAIN table
         /\ DOMAIN Without(table, closed) = DOMAIN table \ closed
         /\ Cardinality(DOMAIN table \ closed) < max
<1>1. IsFiniteSet(DOMAIN table) /\ Cardinality(DOMAIN table) \in Nat
  BY TableFinite
<1>2. DOMAIN Without(table, closed) = DOMAIN table \ closed
  BY DEF Without
<1>3. CASE closed = {}
  <2>1. Cardinality(DOMAIN table) < max
    BY <1>3 DEF LruNeedsClosing
  <2> QED
    BY <1>2, <1>3, <2>1
<1>4. CASE closed # {}
  <2>1. PICK c \in DOMAIN table : closed = {c}
    BY <1>4 DEF LruNeedsClosing
  <2>2. Cardinality(DOMAIN table \ {c}) = Cardinality(DOMAIN table) - 1
    BY <1>1, FS_RemoveElement
  <2> QED
    BY <1>1, <1>2, <2>1, <2>2, SMTT(30)
<1> QED
  BY <1>3, <1>4

(* Inserting a channel into a table with a free slot.                      *)
LEMMA Inserted ==
  ASSUME NEW S, S \subseteq Cids, NEW cid, NEW max \in Nat, Cardinality(S) < max
  PROVE  Cardinality(S \cup {cid}) <= max
<1>1. IsFiniteSet(S) /\ Cardinality(S) \in Nat
  BY TableFinite
<1>2. Cardinality(S \cup {cid}) = IF cid \in S THEN Cardinality(S) ELSE Cardinality(S) + 1
  BY <1>1, FS_AddElement
<1> QED
  BY <1>1, <1>2, SMTT(30)

(* Closing channels keeps a table within its capacity.                     *)
LEMMA Removed ==
  ASSUME NEW S, S \subseteq Cids, NEW T, T \subseteq S, NEW max \in Nat, Cardinality(S) <= max
  PROVE  Cardinality(T) <= max
<1>1. IsFiniteSet(S) /\ Cardinality(S) \in Nat
  BY TableFinite
<1>2. Cardinality(T) <= Cardinality(S) /\ Cardinality(T) \in Nat
  BY <1>1, TableFinite, FS_Subset
<1> QED
  BY <1>1, <1>2, SMTT(30)

-------------------------------------------------------------------------------
(* The device starts without channels and sessions.                        *)
LEMMA InitInv == Init => Inv
<1> SUFFICES ASSUME Init PROVE Inv
  OBVIOUS
<1>1. DOMAIN opening = {} /\ DOMAIN appdata = {}
  BY SMTT(30) DEF Init
<1>2. Typed
  BY <1>1 DEF Init, Typed
<1>3. NoPanic
  BY <1>1, FS_EmptySet, ContextAssumption, SMTT(30) DEF Init, NoPanic
<1>4. OneEncrypted /\ SessionsFresh
  BY <1>1 DEF OneEncrypted, SessionsFresh
<1>5. SessionsOwned
  BY DEF Init, SessionsOwned
<1> QED
  BY <1>2, <1>3, <1>4, <1>5 DEF Inv

-------------------------------------------------------------------------------
(* packet_in_alloc: the new id is in neither table, and no session refers  *)
(* to it.                                                                  *)
LEMMA AllocInv ==
  ASSUME Inv, NEW iface \in Ifaces, NEW cid \in Cids, PacketInAlloc(iface, cid)
  PROVE  Inv'
<1>1. PICK closed \in LruNeedsClosing(opening, MaxOpening) :
        LET left == Without(opening, closed)
        IN  /\ GetChannelId(cid)
            /\ Forgotten(cid)
            /\ panicked' = (panicked \/ InsertPanics(left, MaxOpening, cid))
            /\ opening' = With(left, cid, [iface |-> iface, key |-> NoKey, paired |-> FALSE])
            /\ UNCHANGED <<appdata, channelClosed, cache>>
  BY DEF PacketInAlloc
<1>2. UNCHANGED <<appdata, channelClosed, sessions>>
  BY <1>1 DEF cache
<1>3. /\ closed \subseteq DOMAIN opening
      /\ DOMAIN Without(opening, closed) = DOMAIN opening \ closed
      /\ Cardinality(DOMAIN opening \ closed) < MaxOpening
  BY SlotFreed, ContextAssumption DEF Inv, Typed, NoPanic
<1>4. DOMAIN opening' = (DOMAIN opening \ closed) \cup {cid}
  BY <1>1, <1>3 DEF With
<1>5. cid \notin DOMAIN opening /\ cid \notin DOMAIN appdata
  BY <1>1 DEF GetChannelId, Unique
<1>6. Typed'
  <2>1. \A c \in DOMAIN opening' : opening'[c] \in Opening
    BY <1>1, <1>3, <1>4 DEF With, Without, Opening, Inv, Typed
  <2> QED
    BY <1>2, <1>4, <2>1 DEF Inv, Typed
<1>7. NoPanic'
  <2>1. DOMAIN opening \ closed \subseteq Cids
    BY DEF Inv, Typed
  <2>2. Cardinality(DOMAIN opening \ closed) \in Nat
    BY <2>1, TableFinite
  <2>3. ~InsertPanics(Without(opening, closed), MaxOpening, cid)
    BY <1>3, <1>5, <2>2, ContextAssumption, SMTT(30) DEF InsertPanics
  <2>4. Cardinality(DOMAIN opening') <= MaxOpening
    BY <1>3, <1>4, <2>1, Inserted, ContextAssumption
  <2> QED
    BY <1>1, <1>2, <1>4, <1>5, <2>3, <2>4 DEF Inv, NoPanic
<1>8. OneEncrypted' /\ SessionsOwned'
  BY <1>2 DEF Inv, OneEncrypted, SessionsOwned, IsOpen
<1>9. SessionsFresh'
  BY <1>1, <1>2, <1>4 DEF Inv, SessionsFresh, Forgotten, IsOpen
<1> QED
  BY <1>6, <1>7, <1>8, <1>9 DEF Inv

(* A completion request changes an entry of channel_opening.               *)
LEMMA CompletionRequestInv ==
  ASSUME Inv, NEW cid \in Cids, NEW key \in Keys, NEW paired \in BOOLEAN,
         CompletionRequest(cid, key, paired)
  PROVE  Inv'
<1>1. DOMAIN opening' = DOMAIN opening
  BY DEF CompletionRequest, With
<1>2. UNCHANGED <<appdata, channelClosed, panicked, sessions>>
  BY DEF CompletionRequest, cache
<1>3. Typed'
  <2>1. [opening[cid] EXCEPT !.key = key, !.paired = paired] \in Opening
    BY DEF CompletionRequest, Opening, Inv, Typed
  <2>2. \A c \in DOMAIN opening' : opening'[c] \in Opening
    BY <1>1, <2>1 DEF CompletionRequest, With, Inv, Typed
  <2> QED
    BY <1>1, <1>2, <2>2 DEF Inv, Typed
<1> QED
  BY <1>1, <1>2, <1>3 DEF Inv, NoPanic, OneEncrypted, SessionsOwned, SessionsFresh, IsOpen

(* The end of a handshake moves the channel, which may evict another one   *)
(* and then sets channel_closed.                                           *)
LEMMA HandshakeDoneInv ==
  ASSUME Inv, NEW cid \in Cids, HandshakeDone(cid)
  PROVE  Inv'
<1>1. PICK closed \in LruNeedsClosing(appdata, MaxAppdata) :
        LET left == Without(appdata, closed)
            che == opening[cid]
        IN  /\ panicked' = (panicked \/ InsertPanics(left, MaxAppdata, cid))
            /\ opening' = Without(opening, {cid})
            /\ appdata' = With(left, cid, [iface |-> che.iface, key |-> che.key,
                                           phase |-> IF che.paired THEN "paired" ELSE "unpaired"])
            /\ channelClosed' = CloseEncrypted(closed)
  BY DEF HandshakeDone
<1>2. cid \in DOMAIN opening /\ opening[cid].key # NoKey /\ sessions' = sessions
  BY DEF HandshakeDone, cache
<1>3. /\ closed \subseteq DOMAIN appdata
      /\ DOMAIN Without(appdata, closed) = DOMAIN appdata \ closed
      /\ Cardinality(DOMAIN appdata \ closed) < MaxAppdata
  BY SlotFreed, ContextAssumption DEF Inv, Typed, NoPanic
<1>4. DOMAIN appdata' = (DOMAIN appdata \ closed) \cup {cid}
  BY <1>1, <1>3 DEF With
<1>5. DOMAIN opening' = DOMAIN opening \ {cid}
  BY <1>1 DEF Without
<1>6. cid \notin DOMAIN appdata
  BY <1>2 DEF Inv, NoPanic
<1>7. /\ \A c \in DOMAIN appdata \ closed : appdata'[c] = appdata[c]
      /\ appdata'[cid].phase # "encrypted"
  BY <1>1, <1>3, <1>6 DEF With, Without
<1>8. Encrypted(appdata') = Encrypted(appdata) \ closed
  BY <1>4, <1>6, <1>7 DEF Encrypted
<1>9. Typed'
  <2>1. opening[cid] \in Opening
    BY <1>2 DEF Inv, Typed
  <2>2. appdata'[cid] \in Appdata
    BY <1>1, <1>2, <2>1 DEF With, Opening, Appdata
  <2>3. \A c \in DOMAIN appdata' : appdata'[c] \in Appdata
    BY <1>4, <1>7, <2>2 DEF Inv, Typed
  <2>4. \A c \in DOMAIN opening' : opening'[c] \in Opening
    BY <1>1, <1>5 DEF Without, Inv, Typed
  <2> QED
    BY <1>1, <1>2, <1>4, <1>5, <2>3, <2>4 DEF Inv, Typed, CloseEncrypted
<1>10. NoPanic'
  <2>1. DOMAIN appdata \ closed \subseteq Cids
    BY DEF Inv, Typed
  <2>2. Cardinality(DOMAIN appdata \ closed) \in Nat
    BY <2>1, TableFinite
  <2>3. ~InsertPanics(Without(appdata, closed), MaxAppdata, cid)
    BY <1>3, <1>6, <2>2, ContextAssumption, SMTT(30) DEF InsertPanics
  <2>4. Cardinality(DOMAIN appdata') <= MaxAppdata
    BY <1>3, <1>4, <2>1, Inserted, ContextAssumption
  <2>5. Cardinality(DOMAIN opening') <= MaxOpening
    BY <1>5, Removed, ContextAssumption DEF Inv, Typed, NoPanic
  <2> QED
    BY <1>1, <1>4, <1>5, <2>3, <2>4, <2>5 DEF Inv, NoPanic
<1>11. OneEncrypted'
  <2> SUFFICES ASSUME NEW c \in DOMAIN appdata', NEW d \in DOMAIN appdata',
                      c \in Encrypted(appdata'), d \in Encrypted(appdata'),
                      appdata'[c].iface = appdata'[d].iface, appdata'[c].key = appdata'[d].key
               PROVE  c = d
    BY DEF OneEncrypted, IsOpen
  <2>1. c \in DOMAIN appdata \ closed /\ d \in DOMAIN appdata \ closed
    BY <1>8 DEF Encrypted
  <2> QED
    BY <1>7, <1>8, <2>1 DEF Inv, OneEncrypted, IsOpen
<1>12. SessionsOwned'
  <2> SUFFICES ASSUME NEW n \in Slots, sessions[n] # NoSession
               PROVE  IF sessions[n].cid \in Encrypted(appdata')
                      THEN sessions[n].key = appdata'[sessions[n].cid].key
                      ELSE channelClosed'
    BY <1>2 DEF SessionsOwned, IsOpen
  <2>1. CASE sessions[n].cid \in Encrypted(appdata) \ closed
    <3>1. sessions[n].key = appdata[sessions[n].cid].key
      BY <2>1 DEF Inv, SessionsOwned, IsOpen
    <3> QED
      BY <1>7, <1>8, <2>1, <3>1 DEF Encrypted
  <2>2. CASE sessions[n].cid \in Encrypted(appdata) /\ sessions[n].cid \in closed
    BY <1>1, <1>8, <2>2 DEF CloseEncrypted, IsOpen
  <2>3. CASE sessions[n].cid \notin Encrypted(appdata)
    BY <1>1, <1>8, <2>3 DEF Inv, SessionsOwned, CloseEncrypted, IsOpen
  <2> QED
    BY <2>1, <2>2, <2>3
<1>13. \A n \in Slots : sessions[n].cid # cid
  BY <1>2, <1>6 DEF Inv, SessionsFresh, IsOpen, Encrypted
<1>14. SessionsFresh'
  <2> SUFFICES ASSUME NEW n \in Slots,
                      sessions[n].cid \in DOMAIN opening' \cup DOMAIN appdata'
               PROVE  sessions[n].cid \in Encrypted(appdata')
    BY <1>2 DEF SessionsFresh, IsOpen
  <2>1. sessions[n].cid \in Encrypted(appdata)
    BY <1>4, <1>5, <1>13 DEF Inv, SessionsFresh, IsOpen
  <2>2. sessions[n].cid \notin closed
    BY <1>4, <1>5, <1>13, <2>1 DEF Inv, NoPanic, Encrypted
  <2> QED
    BY <1>8, <2>1, <2>2
<1> QED
  BY <1>9, <1>10, <1>11, <1>12, <1>14 DEF Inv

(* A failed handshake only removes a channel.                              *)
LEMMA HandshakeFailedInv ==
  ASSUME Inv, NEW cid \in Cids, HandshakeFailed(cid)
  PROVE  Inv'
<1>1. DOMAIN opening' = DOMAIN opening \ {cid}
  BY DEF HandshakeFailed, Without
<1>2. UNCHANGED <<appdata, channelClosed, panicked, sessions>>
  BY DEF HandshakeFailed, cache
<1>3. Cardinality(DOMAIN opening') <= MaxOpening
  BY <1>1, Removed, ContextAssumption DEF Inv, Typed, NoPanic
<1>4. Typed'
  BY <1>1, <1>2 DEF HandshakeFailed, Without, Inv, Typed
<1> QED
  BY <1>1, <1>2, <1>3, <1>4
  DEF Inv, NoPanic, OneEncrypted, SessionsOwned, SessionsFresh, IsOpen

-------------------------------------------------------------------------------
(* Closing a channel past the handshake: the other channels stay as they   *)
(* are.                                                                    *)
LEMMA RemoveFacts ==
  ASSUME Inv, NEW cid \in DOMAIN appdata, Remove(cid)
  PROVE  /\ DOMAIN appdata' = DOMAIN appdata \ {cid}
         /\ \A c \in DOMAIN appdata' : appdata'[c] = appdata[c]
         /\ Encrypted(appdata') = Encrypted(appdata) \ {cid}
         /\ NoPanic'
         /\ OneEncrypted'
         /\ UNCHANGED <<opening, panicked>>
<1>1. /\ DOMAIN appdata' = DOMAIN appdata \ {cid}
      /\ \A c \in DOMAIN appdata' : appdata'[c] = appdata[c]
  BY DEF Remove, Without
<1>2. Encrypted(appdata') = Encrypted(appdata) \ {cid}
  BY <1>1 DEF Encrypted
<1>3. UNCHANGED <<opening, panicked>>
  BY DEF Remove
<1>4. Cardinality(DOMAIN appdata') <= MaxAppdata
  BY <1>1, Removed, ContextAssumption DEF Inv, Typed, NoPanic
<1>5. NoPanic'
  BY <1>1, <1>3, <1>4 DEF Inv, NoPanic
<1>6. OneEncrypted'
  BY <1>1, <1>2 DEF Inv, OneEncrypted, IsOpen
<1> QED
  BY <1>1, <1>2, <1>3, <1>5, <1>6

(* Clearing slots of the session cache.                                    *)
LEMMA ClearFacts ==
  ASSUME NEW S, Clear(S)
  PROVE  \A n \in Slots : sessions'[n] = IF n \in S THEN NoSession ELSE sessions[n]
BY DEF Clear

(* clear_closed_sessions leaves no session of a closed channel.            *)
LEMMA ClearClosedFacts ==
  ASSUME Inv, NEW closed, ClearClosedSessions(closed),
         Encrypted(appdata') = Encrypted(appdata) \ closed
  PROVE  /\ channelClosed' = FALSE
         /\ sessions' \in [Slots -> Session \cup {NoSession}]
         /\ \A n \in Slots :
              \/ sessions'[n] = NoSession
              \/ /\ sessions'[n] = sessions[n]
                 /\ sessions[n].cid \in Encrypted(appdata')
<1>1. channelClosed' = FALSE
  BY DEF ClearClosedSessions
<1>2. CASE CloseEncrypted(closed)
  <2>1. Clear({n \in Slots : ~IsOpen(sessions[n].cid) \/ sessions[n].cid \in closed})
    BY <1>2 DEF ClearClosedSessions
  <2>2. sessions' \in [Slots -> Session \cup {NoSession}]
    BY <2>1 DEF Clear, Inv, Typed
  <2> QED
    BY <1>1, <2>1, <2>2, ClearFacts, SMTT(30) DEF IsOpen
<1>3. CASE ~CloseEncrypted(closed)
  <2>1. sessions' = sessions
    BY <1>3 DEF ClearClosedSessions, cache
  <2>2. ~channelClosed /\ \A c \in closed : c \notin Encrypted(appdata)
    BY <1>3 DEF CloseEncrypted, IsOpen
  <2>3. \A n \in Slots : sessions[n] # NoSession => sessions[n].cid \in Encrypted(appdata)
    BY <2>2 DEF Inv, SessionsOwned, IsOpen
  <2> QED
    BY <1>1, <2>1, <2>2, <2>3 DEF Inv, Typed
<1> QED
  BY <1>2, <1>3

(* No cleared slot refers to a channel.                                    *)
LEMMA NoSessionFacts ==
  /\ NoSession.cid \notin Cids
  /\ \A s \in Session : s # NoSession /\ s.cid \in Cids
<1>1. 0 \notin Cids
  BY SMTT(30) DEF Cids
<1> QED
  BY <1>1, SMTT(30) DEF NoSession, Session

(* What clear_closed_sessions leaves is in order.                          *)
LEMMA ClearedInv ==
  ASSUME Inv, NEW closed, ClearClosedSessions(closed),
         Encrypted(appdata') = Encrypted(appdata) \ closed,
         DOMAIN appdata' \subseteq DOMAIN appdata, opening' = opening,
         \A c \in DOMAIN appdata' : appdata'[c] = appdata[c]
  PROVE  Typed' /\ SessionsOwned' /\ SessionsFresh'
<1>1. Typed'
  BY ClearClosedFacts DEF Inv, Typed
<1>2. SessionsOwned'
  <2> SUFFICES ASSUME NEW n \in Slots, sessions'[n] # NoSession
               PROVE  IF sessions'[n].cid \in Encrypted(appdata')
                      THEN sessions'[n].key = appdata'[sessions'[n].cid].key
                      ELSE channelClosed'
    BY DEF SessionsOwned, IsOpen, NoSession
  <2>1. sessions'[n] = sessions[n] /\ sessions[n].cid \in Encrypted(appdata')
    BY ClearClosedFacts
  <2>2. sessions[n].key = appdata[sessions[n].cid].key
    BY <2>1 DEF Inv, SessionsOwned, IsOpen
  <2>3. appdata'[sessions[n].cid] = appdata[sessions[n].cid]
    BY <2>1 DEF Encrypted
  <2> QED
    BY <2>1, <2>2, <2>3
<1>3. SessionsFresh'
  <2> SUFFICES ASSUME NEW n \in Slots,
                      sessions'[n].cid \in DOMAIN opening' \cup DOMAIN appdata'
               PROVE  sessions'[n].cid \in Encrypted(appdata')
    BY DEF SessionsFresh, IsOpen
  <2>1. sessions'[n] # NoSession
    BY <1>1, NoSessionFacts DEF Typed
  <2> QED
    BY <2>1, ClearClosedFacts
<1> QED
  BY <1>1, <1>2, <1>3

(* A channel fails, and the sessions of closed channels are cleared.       *)
LEMMA ChannelFailedInv ==
  ASSUME Inv, NEW cid \in Cids, ChannelFailed(cid)
  PROVE  Inv'
<1>1. cid \in DOMAIN appdata /\ Remove(cid) /\ ClearClosedSessions({cid})
  BY DEF ChannelFailed
<1> QED
  BY <1>1, RemoveFacts, ClearedInv DEF Inv

(* The write loop clears the sessions of channels closed before.           *)
LEMMA WriteLoopInv ==
  ASSUME Inv, WriteLoop
  PROVE  Inv'
<1>1. ClearClosedSessions({}) /\ UNCHANGED <<opening, appdata, panicked>>
  BY DEF WriteLoop
<1>2. Typed' /\ SessionsOwned' /\ SessionsFresh'
  BY <1>1, ClearedInv
<1>3. NoPanic' /\ OneEncrypted'
  BY <1>1 DEF Inv, NoPanic, OneEncrypted, IsOpen
<1> QED
  BY <1>2, <1>3 DEF Inv

(* packet_out_channel closes a channel and leaves its sessions flagged.    *)
LEMMA PacketOutFailedInv ==
  ASSUME Inv, NEW cid \in Cids, PacketOutFailed(cid)
  PROVE  Inv'
<1>1. /\ cid \in DOMAIN appdata /\ Remove(cid)
      /\ channelClosed' = CloseEncrypted({cid}) /\ sessions' = sessions
  BY DEF PacketOutFailed, cache
<1>2. Typed'
  BY <1>1, RemoveFacts DEF Inv, Typed, CloseEncrypted, IsOpen
<1>3. SessionsOwned'
  <2> SUFFICES ASSUME NEW n \in Slots, sessions[n] # NoSession
               PROVE  IF sessions[n].cid \in Encrypted(appdata')
                      THEN sessions[n].key = appdata'[sessions[n].cid].key
                      ELSE channelClosed'
    BY <1>1 DEF SessionsOwned, IsOpen
  <2>1. CASE sessions[n].cid \in Encrypted(appdata')
    <3>1. sessions[n].key = appdata[sessions[n].cid].key
      BY <1>1, <2>1, RemoveFacts DEF Inv, SessionsOwned, IsOpen
    <3> QED
      BY <1>1, <2>1, <3>1, RemoveFacts DEF Encrypted
  <2>2. CASE sessions[n].cid \notin Encrypted(appdata')
    BY <1>1, <2>2, RemoveFacts DEF Inv, SessionsOwned, CloseEncrypted, IsOpen
  <2> QED
    BY <2>1, <2>2
<1>4. SessionsFresh'
  <2> SUFFICES ASSUME NEW n \in Slots,
                      sessions[n].cid \in DOMAIN opening' \cup DOMAIN appdata'
               PROVE  sessions[n].cid \in Encrypted(appdata')
    BY <1>1 DEF SessionsFresh, IsOpen
  <2>1. sessions[n].cid \in Encrypted(appdata)
    BY <1>1, RemoveFacts DEF Inv, SessionsFresh, IsOpen
  <2>2. sessions[n].cid # cid
    BY <1>1, <2>1, RemoveFacts DEF Inv, NoPanic, Encrypted
  <2> QED
    BY <1>1, <2>1, <2>2, RemoveFacts
<1> QED
  BY <1>1, <1>2, <1>3, <1>4, RemoveFacts DEF Inv

(* A cancelled pairing closes a channel that has no sessions.              *)
LEMMA PairingCancelledInv ==
  ASSUME Inv, NEW cid \in Cids, PairingCancelled(cid)
  PROVE  Inv'
<1>1. /\ cid \in DOMAIN appdata /\ cid \notin Encrypted(appdata)
      /\ Remove(cid) /\ channelClosed' = CloseEncrypted({cid})
      /\ Clear(OfChannel(cid))
  BY DEF PairingCancelled, IsOpen
<1>2. channelClosed' = channelClosed
  BY <1>1 DEF CloseEncrypted, IsOpen, Inv, Typed
<1>3. OfChannel(cid) = {}
  BY <1>1 DEF OfChannel, Inv, SessionsFresh, IsOpen
<1>4. sessions' = sessions
  BY <1>1, <1>3 DEF Clear, Inv, Typed
<1>5. Encrypted(appdata') = Encrypted(appdata)
  BY <1>1, RemoveFacts
<1>6. Typed' /\ SessionsFresh'
  BY <1>1, <1>2, <1>4, <1>5, RemoveFacts DEF Inv, Typed, SessionsFresh, IsOpen
<1>7. SessionsOwned'
  <2> SUFFICES ASSUME NEW n \in Slots, sessions[n] # NoSession
               PROVE  IF sessions[n].cid \in Encrypted(appdata')
                      THEN sessions[n].key = appdata'[sessions[n].cid].key
                      ELSE channelClosed'
    BY <1>4 DEF SessionsOwned, IsOpen
  <2>1. IF sessions[n].cid \in Encrypted(appdata)
        THEN sessions[n].key = appdata[sessions[n].cid].key
        ELSE channelClosed
    BY DEF Inv, SessionsOwned, IsOpen
  <2>2. sessions[n].cid \in Encrypted(appdata) =>
          appdata'[sessions[n].cid] = appdata[sessions[n].cid]
    BY <1>1, <1>5, RemoveFacts DEF Encrypted
  <2> QED
    BY <1>2, <1>5, <2>1, <2>2
<1> QED
  BY <1>1, <1>6, <1>7, RemoveFacts DEF Inv

(* channel_paired: the one channel with the same host is replaced, and its *)
(* sessions move to the new channel.                                       *)
LEMMA EndPairingInv ==
  ASSUME Inv, NEW cid \in Cids, EndPairing(cid)
  PROVE  Inv'
<1> DEFINE olds == {c \in DOMAIN appdata : Replaces(cid, c)}
<1>1. cid \in DOMAIN appdata /\ cid \notin Encrypted(appdata)
  BY DEF EndPairing, IsOpen
<1>2. PICK closed \in IF olds = {} THEN {{}} ELSE {{c} : c \in olds} :
        /\ appdata' = [Without(appdata, closed) EXCEPT ![cid].phase = "encrypted"]
        /\ channelClosed' = CloseEncrypted(closed)
        /\ sessions' = [n \in Slots |-> IF sessions[n].cid \in closed
                                        THEN [sessions[n] EXCEPT !.cid = cid]
                                        ELSE sessions[n]]
  BY DEF EndPairing
<1>3. UNCHANGED <<opening, panicked>>
  BY DEF EndPairing
<1>4. closed = olds
  <2>1. \A c, d \in olds : c = d
    BY DEF Replaces, Inv, OneEncrypted
  <2> QED
    BY <1>2, <2>1
<1>5. closed \subseteq Encrypted(appdata) /\ cid \notin closed
  BY <1>1, <1>4 DEF Replaces, IsOpen
<1>6. DOMAIN appdata' = DOMAIN appdata \ closed
  BY <1>2 DEF Without
<1>7. \A c \in DOMAIN appdata' \ {cid} : appdata'[c] = appdata[c]
  BY <1>2, <1>6 DEF Without
<1>8. /\ appdata'[cid].phase = "encrypted" /\ appdata'[cid] \in Appdata
      /\ appdata'[cid].iface = appdata[cid].iface /\ appdata'[cid].key = appdata[cid].key
  <2>1. appdata[cid] \in Appdata
    BY <1>1 DEF Inv, Typed
  <2>2. appdata'[cid] = [appdata[cid] EXCEPT !.phase = "encrypted"]
    BY <1>1, <1>2, <1>5 DEF Without
  <2> QED
    BY <2>1, <2>2 DEF Appdata
<1>9. Encrypted(appdata') = (Encrypted(appdata) \ closed) \cup {cid}
  BY <1>1, <1>5, <1>6, <1>7, <1>8 DEF Encrypted
<1>10. NoPanic'
  <2>1. Cardinality(DOMAIN appdata') <= MaxAppdata
    BY <1>6, Removed, ContextAssumption DEF Inv, Typed, NoPanic
  <2> QED
    BY <1>3, <1>6, <2>1 DEF Inv, NoPanic
<1>11. \A n \in Slots :
         /\ sessions[n].cid \in closed =>
              /\ sessions[n] \in Session
              /\ sessions'[n] \in Session
              /\ sessions'[n].cid = cid /\ sessions'[n].key = sessions[n].key
         /\ sessions[n].cid \notin closed => sessions'[n] = sessions[n]
  <2> SUFFICES ASSUME NEW n \in Slots, sessions[n].cid \in closed
               PROVE  /\ sessions[n] \in Session
                      /\ sessions'[n] \in Session
                      /\ sessions'[n].cid = cid /\ sessions'[n].key = sessions[n].key
    BY <1>2
  <2>1. sessions[n] \in Session
    BY <1>5, NoSessionFacts DEF Inv, Typed, Encrypted
  <2>2. sessions'[n] = [sessions[n] EXCEPT !.cid = cid]
    BY <1>2
  <2> QED
    BY <2>1, <2>2 DEF Session
<1>12. Typed'
  <2>1. sessions' \in [Slots -> Session \cup {NoSession}]
    BY <1>2, <1>11 DEF Inv, Typed
  <2>2. \A c \in DOMAIN appdata' : appdata'[c] \in Appdata
    BY <1>6, <1>7, <1>8 DEF Inv, Typed
  <2> QED
    BY <1>2, <1>3, <1>6, <2>1, <2>2 DEF Inv, Typed, CloseEncrypted
<1>13. OneEncrypted'
  <2> SUFFICES ASSUME NEW c \in DOMAIN appdata', NEW d \in DOMAIN appdata',
                      c \in Encrypted(appdata'), d \in Encrypted(appdata'),
                      appdata'[c].iface = appdata'[d].iface, appdata'[c].key = appdata'[d].key
               PROVE  c = d
    BY DEF OneEncrypted, IsOpen
  <2>1. CASE c # cid /\ d # cid
    BY <1>6, <1>7, <1>9, <2>1 DEF Inv, OneEncrypted, IsOpen
  <2>2. CASE c = cid /\ d # cid
    BY <1>4, <1>6, <1>7, <1>8, <1>9, <2>2 DEF Replaces, IsOpen
  <2>3. CASE c # cid /\ d = cid
    BY <1>4, <1>6, <1>7, <1>8, <1>9, <2>3 DEF Replaces, IsOpen
  <2> QED
    BY <2>1, <2>2, <2>3
<1>14. SessionsOwned'
  <2> SUFFICES ASSUME NEW n \in Slots, sessions'[n] # NoSession
               PROVE  IF sessions'[n].cid \in Encrypted(appdata')
                      THEN sessions'[n].key = appdata'[sessions'[n].cid].key
                      ELSE channelClosed'
    BY DEF SessionsOwned, IsOpen, NoSession
  <2>1. CASE sessions[n].cid \in closed
    <3>1. sessions[n] # NoSession /\ sessions[n].cid \in Encrypted(appdata)
      BY <1>5, <1>11, <2>1, NoSessionFacts
    <3>2. sessions[n].key = appdata[sessions[n].cid].key
      BY <3>1 DEF Inv, SessionsOwned, IsOpen
    <3>3. appdata[sessions[n].cid].key = appdata[cid].key
      BY <1>4, <2>1 DEF Replaces
    <3> QED
      BY <1>8, <1>9, <1>11, <2>1, <3>2, <3>3
  <2>2. CASE sessions[n].cid \notin closed
    <3>1. sessions'[n] = sessions[n]
      BY <1>11, <2>2
    <3>2. sessions[n].cid # cid
      BY <1>1 DEF Inv, SessionsFresh, IsOpen
    <3>3. IF sessions[n].cid \in Encrypted(appdata)
          THEN sessions[n].key = appdata[sessions[n].cid].key
          ELSE channelClosed
      BY <3>1 DEF Inv, SessionsOwned, IsOpen
    <3>4. sessions[n].cid \in Encrypted(appdata) =>
            appdata'[sessions[n].cid] = appdata[sessions[n].cid]
      BY <1>6, <1>7, <2>2, <3>2 DEF Encrypted
    <3> QED
      BY <1>2, <1>9, <2>2, <3>1, <3>2, <3>3, <3>4 DEF CloseEncrypted
  <2> QED
    BY <2>1, <2>2
<1>15. SessionsFresh'
  <2> SUFFICES ASSUME NEW n \in Slots,
                      sessions'[n].cid \in DOMAIN opening' \cup DOMAIN appdata'
               PROVE  sessions'[n].cid \in Encrypted(appdata')
    BY DEF SessionsFresh, IsOpen
  <2>1. CASE sessions[n].cid \in closed
    BY <1>9, <1>11, <2>1
  <2>2. CASE sessions[n].cid \notin closed
    BY <1>3, <1>6, <1>9, <1>11, <2>2 DEF Inv, SessionsFresh, IsOpen
  <2> QED
    BY <2>1, <2>2
<1> QED
  BY <1>10, <1>12, <1>13, <1>14, <1>15 DEF Inv

-------------------------------------------------------------------------------
(* create_or_replace_session puts the session of an open channel into a    *)
(* slot, whatever was there.                                               *)
LEMMA CreateSessionInv ==
  ASSUME Inv, NEW cid \in Cids, NEW sid \in SessionIds, NEW slot \in Slots,
         CreateSession(cid, sid, slot)
  PROVE  Inv'
<1> DEFINE session == [cid |-> cid, sid |-> sid, key |-> appdata[cid].key]
<1>1. /\ cid \in Encrypted(appdata)
      /\ sessions' = [sessions EXCEPT ![slot] = session]
      /\ UNCHANGED <<opening, appdata, channelClosed, panicked>>
  BY DEF CreateSession, Handled, IsOpen
<1>2. session \in Session
  <2>1. appdata[cid] \in Appdata
    BY <1>1 DEF Inv, Typed, Encrypted
  <2> QED
    BY <2>1 DEF Session, Appdata
<1>3. \A n \in Slots : sessions'[n] = IF n = slot THEN session ELSE sessions[n]
  BY <1>1 DEF Inv, Typed
<1>4. session.cid = cid /\ session.key = appdata[cid].key
  OBVIOUS
<1> HIDE DEF session
<1>5. Typed'
  BY <1>1, <1>2 DEF Inv, Typed
<1>6. SessionsOwned' /\ SessionsFresh'
  BY <1>1, <1>3, <1>4, SMTT(30) DEF Inv, SessionsOwned, SessionsFresh, IsOpen
<1> QED
  BY <1>1, <1>5, <1>6 DEF Inv, NoPanic, OneEncrypted, IsOpen

(* A message in a session changes what was used last, and nothing else.    *)
LEMMA UseSessionInv ==
  ASSUME Inv, NEW cid \in Cids, NEW sid \in SessionIds, UseSession(cid, sid)
  PROVE  Inv'
BY DEF UseSession, Inv, Typed, NoPanic, OneEncrypted, SessionsOwned, SessionsFresh, IsOpen

(* Clearing slots alone leaves the other sessions where they are.          *)
LEMMA ClearInv ==
  ASSUME Inv, NEW S, Clear(S), UNCHANGED <<opening, appdata, channelClosed, panicked>>
  PROVE  Inv'
<1>1. \A n \in Slots : sessions'[n] = NoSession \/ sessions'[n] = sessions[n]
  BY ClearFacts
<1>2. Typed'
  BY DEF Clear, Inv, Typed
<1>3. SessionsOwned'
  BY <1>1 DEF Inv, SessionsOwned, IsOpen
<1>4. SessionsFresh'
  BY <1>1, NoSessionFacts DEF Inv, Typed, SessionsFresh, IsOpen
<1> QED
  BY <1>2, <1>3, <1>4 DEF Inv, NoPanic, OneEncrypted, IsOpen

(* clear_session.                                                          *)
LEMMA EndSessionInv ==
  ASSUME Inv, NEW cid \in Cids, NEW sid \in SessionIds, EndSession(cid, sid)
  PROVE  Inv'
<1>1. Clear(Same(cid, sid)) /\ UNCHANGED <<opening, appdata, channelClosed, panicked>>
  BY DEF EndSession, channels
<1> QED
  BY <1>1, ClearInv

(* clear_all drops the channels and all sessions.                          *)
LEMMA ClearAllInv ==
  ASSUME Inv, NEW exclude, ClearAll(exclude)
  PROVE  Inv'
<1>1. /\ appdata' = Without(appdata, DOMAIN appdata \ exclude)
      /\ opening' = <<>> /\ channelClosed' = FALSE /\ panicked' = panicked
      /\ Clear(Slots)
  BY DEF ClearAll
<1>2. /\ DOMAIN appdata' \subseteq DOMAIN appdata
      /\ \A c \in DOMAIN appdata' : appdata'[c] = appdata[c]
  BY <1>1 DEF Without
<1>3. DOMAIN opening' = {}
  BY <1>1, SMTT(30)
<1>4. \A n \in Slots : sessions'[n] = NoSession
  BY <1>1, ClearFacts
<1>5. Typed'
  BY <1>1, <1>2, <1>3 DEF Clear, Inv, Typed
<1>6. NoPanic'
  <2>1. IsFiniteSet(DOMAIN appdata) /\ Cardinality(DOMAIN appdata) \in Nat
    BY TableFinite DEF Inv, Typed
  <2>2. Cardinality(DOMAIN appdata') <= Cardinality(DOMAIN appdata)
    BY <1>2, <2>1, FS_Subset
  <2>3. Cardinality(DOMAIN appdata') \in Nat
    BY <1>5, TableFinite DEF Typed
  <2>4. Cardinality(DOMAIN opening') = 0
    BY <1>3, FS_EmptySet
  <2> QED
    BY <1>1, <1>3, <2>1, <2>2, <2>3, <2>4, ContextAssumption, SMTT(30) DEF Inv, NoPanic
<1>7. OneEncrypted'
  BY <1>2, ZenonT(30) DEF Inv, OneEncrypted, IsOpen, Encrypted
<1>8. SessionsOwned'
  BY <1>4 DEF SessionsOwned, NoSession
<1>9. SessionsFresh'
  BY <1>3, <1>4, <1>5, NoSessionFacts DEF SessionsFresh, Typed
<1> QED
  BY <1>5, <1>6, <1>7, <1>8, <1>9 DEF Inv

-------------------------------------------------------------------------------
(* Every step of the context and of the cache preserves the invariant.     *)
LEMMA NextInv == Inv /\ [Next]_vars => Inv'
<1> SUFFICES ASSUME Inv, [Next]_vars
             PROVE  Inv'
  OBVIOUS
<1>1. ASSUME NEW i \in Ifaces, NEW c \in Cids, PacketInAlloc(i, c)
      PROVE  Inv'
  BY <1>1, AllocInv
<1>2. ASSUME NEW c \in Cids, NEW k \in Keys, NEW p \in BOOLEAN, CompletionRequest(c, k, p)
      PROVE  Inv'
  BY <1>2, CompletionRequestInv
<1>3. ASSUME NEW c \in Cids, \/ HandshakeDone(c) \/ HandshakeFailed(c)
                             \/ ChannelFailed(c) \/ PacketOutFailed(c)
                             \/ PairingCancelled(c) \/ EndPairing(c)
      PROVE  Inv'
  BY <1>3, HandshakeDoneInv, HandshakeFailedInv, ChannelFailedInv, PacketOutFailedInv,
     PairingCancelledInv, EndPairingInv
<1>4. CASE WriteLoop
  BY <1>4, WriteLoopInv
<1>5. ASSUME NEW c \in Cids, NEW s \in SessionIds, UseSession(c, s) \/ EndSession(c, s)
      PROVE  Inv'
  BY <1>5, UseSessionInv, EndSessionInv
<1>6. ASSUME NEW c \in Cids, NEW s \in SessionIds, NEW n \in Slots, CreateSession(c, s, n)
      PROVE  Inv'
  BY <1>6, CreateSessionInv
<1>7. ASSUME NEW exclude, ClearAll(exclude)
      PROVE  Inv'
  BY <1>7, ClearAllInv
<1>8. CASE UNCHANGED vars
  BY <1>8 DEF vars, channels, cache, Inv, Typed, NoPanic, OneEncrypted, SessionsOwned,
              SessionsFresh, IsOpen
<1> QED
  BY <1>1, <1>2, <1>3, <1>4, <1>5, <1>6, <1>7, <1>8 DEF Next

(* Inv is an invariant of the context.                                     *)
LEMMA Invariance == Spec => []Inv
  BY InitInv, NextInv, PTL DEF Spec

-------------------------------------------------------------------------------
(***************************************************************************)
(* Queues: what Dropped, Append and Tail leave of a sequence.              *)
(***************************************************************************)

(* A sequence is a function on its positions.                              *)
LEMMA SeqType ==
  ASSUME NEW T, NEW s \in Seq(T)
  PROVE  Len(s) \in Nat /\ DOMAIN s = 1..Len(s) /\ \A n \in 1..Len(s) : s[n] \in T
BY SMT

(* A property of 0 that passes from each number to the next holds up to N: *)
(* otherwise it fails for a least number.                                  *)
LEMMA UpTo ==
  ASSUME NEW N \in Nat, NEW P, 0 \in P, \A n \in 1..N : n - 1 \in P => n \in P
  PROVE  0..N \subseteq P
<1> DEFINE T == {n \in 0..N : n \notin P}
<1>1. SUFFICES ASSUME T # {} PROVE FALSE
  BY DEF T
<1>2. T \subseteq Nat
  BY SMT
<1>3. PICK x \in T : \A y \in T : ~(<<y, x>> \in OpToRel(<, Nat))
  BY <1>1, <1>2, WFMin, NatLessThanWellFounded
<1>4. x \in 1..N
  <2>1. x \in 0..N /\ x # 0
    BY <1>3
  <2> QED
    BY <2>1, SMT
<1>5. x - 1 \notin T
  <2>1. x - 1 \in Nat /\ x \in Nat /\ x - 1 < x
    BY <1>4, SMT
  <2> QED
    BY <1>3, <2>1 DEF OpToRel
<1>6. x - 1 \in 0..N
  BY <1>4, SMT
<1> QED
  BY <1>3, <1>4, <1>5, <1>6

(* The recursion of Dropped, as an equation about the function f.          *)
Sieve(s, S, f) ==
  f = [n \in 0..Len(s) |-> IF n = 0 THEN <<>>
                           ELSE IF s[n] \in S THEN f[n - 1] ELSE Append(f[n - 1], s[n])]

(* There is such a function.                                               *)
LEMMA SieveExists ==
  ASSUME NEW T, NEW s \in Seq(T), NEW S
  PROVE  \E f : Sieve(s, S, f)
<1> DEFINE N == Len(s)
           After(n, q) == IF s[n] \in S THEN q ELSE Append(q, s[n])
           P == {k \in 0..N : \E f : /\ f = [n \in 0..k |-> f[n]]
                                     /\ f[0] = <<>> /\ \A n \in 1..k : f[n] = After(n, f[n - 1])}
<1>1. N \in Nat
  BY SeqType
<1> HIDE DEF After, N
<1>2. 0 \in P
  <2> DEFINE g == [n \in 0..0 |-> <<>>]
  <2>1. g = [n \in 0..0 |-> g[n]] /\ g[0] = <<>>
    BY SMT
  <2>2. 0 \in 0..N /\ 1..0 = {}
    BY <1>1, SMT
  <2> HIDE DEF g
  <2> QED
    BY <2>1, <2>2
<1>3. ASSUME NEW k \in 1..N, k - 1 \in P PROVE k \in P
  <2>1. PICK f : /\ f = [n \in 0..(k - 1) |-> f[n]]
                 /\ f[0] = <<>> /\ \A n \in 1..(k - 1) : f[n] = After(n, f[n - 1])
    BY <1>3
  <2> DEFINE g == [n \in 0..k |-> IF n = k THEN After(k, f[k - 1]) ELSE f[n]]
  <2>2. g = [n \in 0..k |-> g[n]] /\ g[0] = <<>>
    BY <1>1, <2>1, SMT
  <2>3. \A n \in 1..k : g[n] = After(n, g[n - 1])
    <3>1. g[k] = After(k, f[k - 1]) /\ g[k - 1] = f[k - 1]
      BY <1>1, SMT
    <3>2. \A n \in 1..(k - 1) : g[n] = f[n] /\ g[n - 1] = f[n - 1]
      BY <1>1, SMT
    <3>3. \A n \in 1..k : n = k \/ n \in 1..(k - 1)
      BY <1>1, SMT
    <3> HIDE DEF g
    <3> QED
      BY <2>1, <3>1, <3>2, <3>3
  <2>4. k \in 0..N
    BY <1>1, SMT
  <2> HIDE DEF g
  <2> QED
    BY <2>2, <2>3, <2>4
<1>4. N \in P
  <2> HIDE DEF P
  <2>1. 0..N \subseteq P
    BY <1>1, <1>2, <1>3, UpTo
  <2> QED
    BY <1>1, <2>1, SMT
<1>5. PICK f : /\ f = [n \in 0..N |-> f[n]]
               /\ f[0] = <<>> /\ \A n \in 1..N : f[n] = After(n, f[n - 1])
  BY <1>4
<1>6. \A n \in 0..N : f[n] = IF n = 0 THEN <<>>
                             ELSE IF s[n] \in S THEN f[n - 1] ELSE Append(f[n - 1], s[n])
  <2>1. \A n \in 0..N : n = 0 \/ n \in 1..N
    BY <1>1, SMT
  <2> QED
    BY <1>5, <2>1 DEF After
<1>7. Sieve(s, S, f)
  BY <1>5, <1>6 DEF Sieve, N
<1> QED
  BY <1>7

(* No element twice.                                                       *)
Once(s) == \A i, j \in DOMAIN s : s[i] = s[j] => i = j

(* One element more at the end.                                            *)
LEMMA Appended ==
  ASSUME NEW T, NEW s \in Seq(T), NEW x \in T
  PROVE  /\ Append(s, x) \in Seq(T) /\ Len(Append(s, x)) = Len(s) + 1
         /\ \A i \in DOMAIN Append(s, x) : \/ i \in DOMAIN s /\ Append(s, x)[i] = s[i]
                                           \/ i = Len(s) + 1 /\ Append(s, x)[i] = x
         /\ Once(s) /\ (\A i \in DOMAIN s : s[i] # x) => Once(Append(s, x))
<1> DEFINE t == Append(s, x)
<1>1. t \in Seq(T) /\ Len(t) = Len(s) + 1
  BY SMT
<1>2. /\ DOMAIN t = 1..(Len(s) + 1) /\ DOMAIN s = 1..Len(s) /\ Len(s) \in Nat
      /\ t[Len(s) + 1] = x /\ \A i \in 1..Len(s) : t[i] = s[i]
  BY SMT
<1> HIDE DEF t
<1>3. \A i \in DOMAIN t : \/ i \in DOMAIN s /\ t[i] = s[i]
                          \/ i = Len(s) + 1 /\ t[i] = x
  BY <1>2, SMT
<1>4. Once(s) /\ (\A i \in DOMAIN s : s[i] # x) => Once(t)
  BY <1>3 DEF Once
<1> QED
  BY <1>1, <1>3, <1>4 DEF t

(* All elements but the first.                                             *)
LEMMA Shortened ==
  ASSUME NEW T, NEW s \in Seq(T), s # <<>>
  PROVE  /\ Tail(s) \in Seq(T) /\ Len(Tail(s)) = Len(s) - 1
         /\ \A i \in DOMAIN Tail(s) : i + 1 \in DOMAIN s /\ Tail(s)[i] = s[i + 1]
         /\ Once(s) => Once(Tail(s))
<1> DEFINE t == Tail(s)
<1>1. t \in Seq(T) /\ Len(t) = Len(s) - 1
  BY SMT
<1>2. /\ DOMAIN t = 1..(Len(s) - 1) /\ DOMAIN s = 1..Len(s) /\ Len(s) \in Nat
      /\ \A i \in 1..(Len(s) - 1) : t[i] = s[i + 1]
  BY SMT
<1> HIDE DEF t
<1>3. \A i \in DOMAIN t : i + 1 \in DOMAIN s /\ t[i] = s[i + 1]
  BY <1>2, SMT
<1>4. \A i, j \in DOMAIN t : i + 1 = j + 1 => i = j
  BY <1>2, SMT
<1>5. Once(s) => Once(t)
  BY <1>3, <1>4 DEF Once
<1> QED
  BY <1>1, <1>3, <1>5 DEF t

(* What Dropped has kept of the first n elements of s.                     *)
Kept(T, s, S, n, q) ==
  /\ q \in Seq(T) /\ Len(q) <= n
  /\ \A i \in DOMAIN q : \E j \in 1..n : q[i] = s[j] /\ s[j] \notin S
  /\ Once(s) => Once(q)

(* Dropped keeps elements of the sequence, and none of S.                  *)
LEMMA DroppedFacts ==
  ASSUME NEW T, NEW s \in Seq(T), NEW S
  PROVE  Kept(T, s, S, Len(s), Dropped(s, S))
<1> DEFINE f == CHOOSE g : Sieve(s, S, g)
           N == Len(s)
           P == {n \in 0..N : Kept(T, s, S, n, f[n])}
<1>1. N \in Nat /\ N \in 0..N /\ DOMAIN s = 1..N /\ \A n \in 1..N : s[n] \in T
  BY SeqType, SMT
<1>2. Sieve(s, S, f)
  BY SieveExists
<1>3. Dropped(s, S) = f[N]
  BY DEF Dropped, Sieve
<1> HIDE DEF f
<1>4. /\ f[0] = <<>>
      /\ \A n \in 1..N : f[n] = IF s[n] \in S THEN f[n - 1] ELSE Append(f[n - 1], s[n])
  <2>1. \A n \in 0..N : f[n] = IF n = 0 THEN <<>>
                               ELSE IF s[n] \in S THEN f[n - 1] ELSE Append(f[n - 1], s[n])
    BY <1>2 DEF Sieve
  <2>2. 0 \in 0..N /\ \A n \in 1..N : n \in 0..N /\ n # 0
    BY <1>1, SMT
  <2> QED
    BY <2>1, <2>2
<1> HIDE DEF N
<1>5. 0 \in P
  <2>1. <<>> \in Seq(T) /\ Len(<<>>) <= 0 /\ DOMAIN <<>> = {} /\ 0 \in 0..N
    BY <1>1, SMT
  <2> QED
    BY <1>4, <2>1 DEF Kept, Once
<1>6. ASSUME NEW n \in 1..N, n - 1 \in P PROVE n \in P
  <2> DEFINE q == f[n - 1]
  <2>1. /\ q \in Seq(T) /\ Len(q) <= n - 1 /\ (Once(s) => Once(q))
        /\ \A i \in DOMAIN q : \E j \in 1..(n - 1) : q[i] = s[j] /\ s[j] \notin S
    BY <1>6 DEF Kept
  <2>2. n \in 0..N /\ n \in 1..n /\ \A j \in 1..(n - 1) : j \in 1..n /\ j # n /\ j \in 1..N
    BY <1>1, SMT
  <2>3. Len(q) \in Nat /\ Len(q) <= n
    <3>1. Len(q) \in Nat
      BY <2>1, SeqType
    <3> QED
      BY <1>1, <2>1, <3>1, SMT
  <2>4. f[n] = IF s[n] \in S THEN q ELSE Append(q, s[n])
    BY <1>4
  <2> HIDE DEF q
  <2>5. CASE s[n] \in S
    BY <2>1, <2>2, <2>3, <2>4, <2>5 DEF Kept
  <2>6. CASE s[n] \notin S
    <3> DEFINE t == Append(q, s[n])
    <3>1. /\ t \in Seq(T) /\ Len(t) = Len(q) + 1
          /\ \A i \in DOMAIN t : \/ i \in DOMAIN q /\ t[i] = q[i]
                                 \/ i = Len(q) + 1 /\ t[i] = s[n]
          /\ Once(q) /\ (\A i \in DOMAIN q : q[i] # s[n]) => Once(t)
      BY <1>1, <2>1, Appended
    <3>2. Len(t) <= n
      BY <1>1, <2>1, <2>3, <3>1, SMT
    <3>3. ASSUME NEW i \in DOMAIN t
          PROVE  \E j \in 1..n : t[i] = s[j] /\ s[j] \notin S
      <4> HIDE DEF t
      <4>1. CASE i \in DOMAIN q /\ t[i] = q[i]
        BY <2>1, <2>2, <4>1
      <4>2. CASE t[i] = s[n]
        BY <2>2, <2>6, <4>2
      <4> QED
        BY <3>1, <3>3, <4>1, <4>2
    <3>4. Once(s) => \A i \in DOMAIN q : q[i] # s[n]
      <4> SUFFICES ASSUME Once(s), NEW i \in DOMAIN q, q[i] = s[n] PROVE FALSE
        OBVIOUS
      <4>1. PICK j \in 1..(n - 1) : q[i] = s[j]
        BY <2>1
      <4> QED
        BY <1>1, <2>2, <4>1 DEF Once
    <3>5. f[n] = t
      BY <2>4, <2>6
    <3> HIDE DEF t
    <3> QED
      BY <2>1, <2>2, <3>1, <3>2, <3>3, <3>4, <3>5 DEF Kept
  <2> QED
    BY <2>5, <2>6
<1>7. N \in P
  <2> HIDE DEF P
  <2>1. 0..N \subseteq P
    BY <1>1, <1>5, <1>6, UpTo
  <2> QED
    BY <1>1, <2>1
<1> QED
  BY <1>3, <1>7 DEF N

-------------------------------------------------------------------------------
(***************************************************************************)
(* The queue of credentials, and the types of all variables.               *)
(***************************************************************************)

(* A credential of channel c is waiting for the end of the handshake o is  *)
(* in, or for the pairing in a.                                            *)
Awaited(o, a, c) ==
  \/ c \in DOMAIN o /\ o[c].paired
  \/ c \in DOMAIN a /\ a[c].phase = "paired"

(* A valid credential comes with the key of the host.                      *)
PairedHasKey == \A c \in DOMAIN opening : opening[c].paired => opening[c].key # NoKey

Queue(q) ==
  /\ q \in Seq(Cids) /\ Len(q) <= MaxAppdata /\ Once(q)
  /\ \A i \in DOMAIN q : Awaited(opening, appdata, q[i])

Orders == recency \in Seq(Cids) /\ usage \in Seq(Slots) /\ counter \in Cids /\ panicked \in BOOLEAN

QueueInv == Queue(credentials) /\ PairedHasKey /\ Orders

(* What is left of a queue is one, if the channels that were not dropped   *)
(* still wait for their credentials.                                       *)
LEMMA QueueDropped ==
  ASSUME Queue(credentials), NEW S, credentials' = Dropped(credentials, S),
         \A c \in Cids \ S : Awaited(opening, appdata, c) => Awaited(opening', appdata', c)
  PROVE  Queue(credentials)'
<1>1. /\ credentials \in Seq(Cids) /\ Len(credentials) <= MaxAppdata /\ Once(credentials)
      /\ \A i \in DOMAIN credentials : Awaited(opening, appdata, credentials[i])
  BY DEF Queue
<1>2. Kept(Cids, credentials, S, Len(credentials), credentials')
  BY <1>1, DroppedFacts
<1>3. /\ Len(credentials) \in Nat /\ DOMAIN credentials = 1..Len(credentials)
      /\ \A n \in 1..Len(credentials) : credentials[n] \in Cids
  BY <1>1, SeqType
<1>4. credentials' \in Seq(Cids) /\ Len(credentials') <= Len(credentials) /\ Once(credentials')
  BY <1>1, <1>2 DEF Kept
<1>5. Len(credentials') <= MaxAppdata
  <2>1. Len(credentials') \in Nat
    BY <1>4, SeqType
  <2> QED
    BY <1>1, <1>3, <1>4, <2>1, ContextAssumption, SMT
<1>6. ASSUME NEW i \in DOMAIN credentials'
      PROVE  Awaited(opening', appdata', credentials'[i])
  <2>1. PICK j \in 1..Len(credentials) : credentials'[i] = credentials[j] /\ credentials[j] \notin S
    BY <1>2, <1>6 DEF Kept
  <2> QED
    BY <1>1, <1>3, <2>1
<1> QED
  BY <1>4, <1>5, <1>6 DEF Queue, Once, Awaited

(* Nothing dropped, nothing added.                                         *)
LEMMA QueueStays ==
  ASSUME Queue(credentials), credentials' = credentials,
         \A c \in Cids : Awaited(opening, appdata, c) => Awaited(opening', appdata', c)
  PROVE  Queue(credentials)'
<1>1. \A n \in DOMAIN credentials : credentials[n] \in Cids
  BY SeqType DEF Queue
<1> QED
  BY <1>1 DEF Queue, Once, Awaited

(* Orders of use are sequences of ids and of slots.                        *)
LEMMA OrderType ==
  ASSUME NEW T, NEW s \in Seq(T), NEW S
  PROVE  Dropped(s, S) \in Seq(T) /\ \A x \in T : Touched(s, x) \in Seq(T)
<1>1. Dropped(s, S) \in Seq(T)
  BY DroppedFacts DEF Kept
<1>2. ASSUME NEW x \in T PROVE Touched(s, x) \in Seq(T)
  <2>1. Dropped(s, {x}) \in Seq(T)
    BY DroppedFacts DEF Kept
  <2> QED
    BY <2>1, Appended DEF Touched
<1> QED
  BY <1>1, <1>2

(* packet_in_alloc: nothing is queued for the new channel yet.             *)
LEMMA AllocQueue ==
  ASSUME Inv, QueueInv, NEW iface \in Ifaces, NEW cid \in Cids, PacketInAlloc(iface, cid)
  PROVE  QueueInv'
<1> DEFINE entry == [iface |-> iface, key |-> NoKey, paired |-> FALSE]
<1>1. PICK closed \in LruNeedsClosing(opening, MaxOpening) :
        /\ GetChannelId(cid)
        /\ panicked' = (panicked \/ InsertPanics(Without(opening, closed), MaxOpening, cid))
        /\ opening' = With(Without(opening, closed), cid, entry)
        /\ recency' = Append(Dropped(recency, closed \cup DOMAIN appdata), cid)
                        \o Dropped(recency, DOMAIN opening)
        /\ credentials' = Dropped(credentials, closed)
        /\ UNCHANGED <<appdata, usage>>
  BY DEF PacketInAlloc, DeleteCredentials, cache
<1>2. DOMAIN opening' = (DOMAIN opening \ closed) \cup {cid}
  BY <1>1 DEF With, Without
<1>3. /\ \A c \in DOMAIN opening \ closed : c # cid => opening'[c] = opening[c]
      /\ opening'[cid] = entry
  BY <1>1 DEF With, Without
<1>4. cid \notin DOMAIN opening /\ cid \notin DOMAIN appdata
  BY <1>1 DEF GetChannelId, Unique
<1>5. entry.paired = FALSE
  OBVIOUS
<1> HIDE DEF entry
<1>6. Queue(credentials)'
  <2>1. \A c \in Cids \ closed : Awaited(opening, appdata, c) => Awaited(opening', appdata', c)
    BY <1>1, <1>2, <1>3, <1>4 DEF Awaited
  <2> QED
    BY <1>1, <2>1, QueueDropped DEF QueueInv
<1>7. PairedHasKey'
  <2> SUFFICES ASSUME NEW c \in DOMAIN opening', opening'[c].paired PROVE opening'[c].key # NoKey
    BY DEF PairedHasKey
  <2>1. c # cid
    BY <1>3, <1>5
  <2> QED
    BY <1>2, <1>3, <2>1 DEF QueueInv, PairedHasKey
<1>8. Orders'
  <2> DEFINE front == Append(Dropped(recency, closed \cup DOMAIN appdata), cid)
             back == Dropped(recency, DOMAIN opening)
  <2>1. front \in Seq(Cids) /\ back \in Seq(Cids)
    BY OrderType, Appended DEF QueueInv, Orders
  <2> HIDE DEF front, back
  <2>2. front \o back \in Seq(Cids)
    BY <2>1, SMT
  <2>3. counter' \in Cids
    <3>1. counter' = IF cid = MaxCid THEN 1 ELSE cid + 1
      BY <1>1 DEF GetChannelId
    <3> QED
      BY <3>1, ContextAssumption, SMT DEF Cids
  <2>4. panicked' \in BOOLEAN
    BY <1>1 DEF QueueInv, Orders
  <2> QED
    BY <1>1, <2>2, <2>3, <2>4 DEF QueueInv, Orders, front, back
<1> QED
  BY <1>6, <1>7, <1>8 DEF QueueInv

(* A completion request is the first of its channel, so that its           *)
(* credential is not in the queue; the queue makes room for it.            *)
LEMMA CompletionRequestQueue ==
  ASSUME Inv, QueueInv, NEW cid \in Cids, NEW key \in Keys, NEW paired \in BOOLEAN,
         CompletionRequest(cid, key, paired)
  PROVE  QueueInv'
<1> DEFINE entry == [opening[cid] EXCEPT !.key = key, !.paired = paired]
           room == IF Len(credentials) = MaxAppdata THEN Tail(credentials) ELSE credentials
<1>1. /\ cid \in DOMAIN opening /\ opening[cid].key = NoKey /\ opening' = With(opening, cid, entry)
      /\ credentials' = IF paired THEN InsertReplaceQueue(credentials, cid) ELSE credentials
      /\ UNCHANGED <<counter, appdata, recency, panicked, usage>>
  BY DEF CompletionRequest, cache
<1>2. /\ DOMAIN opening' = DOMAIN opening /\ opening'[cid] = entry
      /\ \A c \in DOMAIN opening : c # cid => opening'[c] = opening[c]
  BY <1>1 DEF With
<1>3. entry.paired = paired /\ entry.key = key
  <2>1. opening[cid] \in Opening
    BY <1>1 DEF Inv, Typed
  <2> QED
    BY <2>1 DEF Opening
<1> HIDE DEF entry
<1>4. ~Awaited(opening, appdata, cid)
  BY <1>1 DEF Awaited, QueueInv, PairedHasKey, Inv, NoPanic
<1>5. \A c \in Cids : Awaited(opening, appdata, c) => Awaited(opening', appdata', c)
  BY <1>1, <1>2, <1>4 DEF Awaited
<1>6. Queue(credentials)'
  <2>1. CASE ~paired
    BY <1>1, <1>5, <2>1, QueueStays DEF QueueInv
  <2>2. CASE paired
    <3>1. credentials' = Append(room, cid)
      BY <1>1, <2>2 DEF InsertReplaceQueue
    <3>2. /\ credentials \in Seq(Cids) /\ Len(credentials) <= MaxAppdata /\ Once(credentials)
          /\ \A i \in DOMAIN credentials : Awaited(opening, appdata, credentials[i])
      BY DEF QueueInv, Queue
    <3>3. MaxAppdata \in Nat \ {0} /\ Len(credentials) \in Nat
      BY <3>2, SeqType, ContextAssumption
    <3>4. /\ room \in Seq(Cids) /\ Len(room) \in Nat /\ Len(room) < MaxAppdata /\ Once(room)
          /\ \A i \in DOMAIN room : Awaited(opening, appdata, room[i])
      <4>1. CASE Len(credentials) = MaxAppdata
        <5>1. credentials # <<>>
          BY <3>3, <4>1, SMT
        <5>2. /\ Tail(credentials) \in Seq(Cids) /\ Len(Tail(credentials)) = Len(credentials) - 1
              /\ \A i \in DOMAIN Tail(credentials) :
                   i + 1 \in DOMAIN credentials /\ Tail(credentials)[i] = credentials[i + 1]
              /\ Once(Tail(credentials))
          BY <3>2, <5>1, Shortened
        <5>3. Len(Tail(credentials)) \in Nat /\ Len(Tail(credentials)) < MaxAppdata
          BY <3>3, <4>1, <5>2, SMT
        <5> QED
          BY <3>2, <4>1, <5>2, <5>3
      <4>2. CASE Len(credentials) # MaxAppdata
        <5>1. Len(credentials) < MaxAppdata
          BY <3>2, <3>3, <4>2, SMT
        <5> QED
          BY <3>2, <3>3, <4>2, <5>1
      <4> QED
        BY <4>1, <4>2
    <3> HIDE DEF room
    <3>5. /\ credentials' \in Seq(Cids) /\ Len(credentials') = Len(room) + 1
          /\ \A i \in DOMAIN credentials' : \/ i \in DOMAIN room /\ credentials'[i] = room[i]
                                            \/ i = Len(room) + 1 /\ credentials'[i] = cid
          /\ Once(room) /\ (\A i \in DOMAIN room : room[i] # cid) => Once(credentials')
      BY <3>1, <3>4, Appended
    <3>6. Len(credentials') <= MaxAppdata
      BY <3>3, <3>4, <3>5, SMT
    <3>7. Once(credentials')
      BY <1>4, <3>4, <3>5
    <3>8. Awaited(opening', appdata', cid)
      BY <1>1, <1>2, <1>3, <2>2 DEF Awaited
    <3>9. \A i \in DOMAIN room : room[i] \in Cids
      BY <3>4, SeqType
    <3>10. \A i \in DOMAIN credentials' : Awaited(opening', appdata', credentials'[i])
      BY <1>5, <3>4, <3>5, <3>8, <3>9
    <3> QED
      BY <3>5, <3>6, <3>7, <3>10 DEF Queue, Once, Awaited
  <2> QED
    BY <2>1, <2>2
<1>7. PairedHasKey'
  <2>1. key # NoKey
    BY HostsAssumption
  <2> QED
    BY <1>2, <1>3, <2>1 DEF QueueInv, PairedHasKey
<1>8. Orders'
  BY <1>1 DEF QueueInv, Orders
<1> QED
  BY <1>6, <1>7, <1>8 DEF QueueInv

(* The end of a handshake: the credential now waits for the pairing.       *)
LEMMA HandshakeDoneQueue ==
  ASSUME Inv, QueueInv, NEW cid \in Cids, HandshakeDone(cid)
  PROVE  QueueInv'
<1> DEFINE che == opening[cid]
           entry == [iface |-> che.iface, key |-> che.key,
                     phase |-> IF che.paired THEN "paired" ELSE "unpaired"]
<1>1. PICK closed \in LruNeedsClosing(appdata, MaxAppdata) :
        /\ panicked' = (panicked \/ InsertPanics(Without(appdata, closed), MaxAppdata, cid))
        /\ opening' = Without(opening, {cid})
        /\ appdata' = With(Without(appdata, closed), cid, entry)
        /\ recency' = Touched(Dropped(recency, closed), cid)
        /\ credentials' = Dropped(credentials, closed)
  BY DEF HandshakeDone, DeleteCredentials
<1>2. cid \in DOMAIN opening /\ usage' = usage /\ counter' = counter
  BY DEF HandshakeDone, cache
<1>3. closed \subseteq DOMAIN appdata
  BY SlotFreed, ContextAssumption DEF Inv, Typed, NoPanic
<1>4. cid \notin DOMAIN appdata
  BY <1>2 DEF Inv, NoPanic
<1>5. /\ DOMAIN opening' = DOMAIN opening \ {cid}
      /\ \A c \in DOMAIN opening' : opening'[c] = opening[c]
  BY <1>1 DEF Without
<1>6. /\ DOMAIN appdata' = (DOMAIN appdata \ closed) \cup {cid}
      /\ \A c \in DOMAIN appdata \ closed : c # cid => appdata'[c] = appdata[c]
      /\ appdata'[cid] = entry
  BY <1>1 DEF With, Without
<1>7. opening[cid].paired => entry.phase = "paired"
  OBVIOUS
<1> HIDE DEF entry
<1>8. Queue(credentials)'
  <2>1. ASSUME NEW c \in Cids \ closed, Awaited(opening, appdata, c)
        PROVE  Awaited(opening', appdata', c)
    <3>1. CASE c = cid
      BY <1>4, <1>6, <1>7, <2>1, <3>1 DEF Awaited
    <3>2. CASE c # cid
      BY <1>5, <1>6, <2>1, <3>2 DEF Awaited
    <3> QED
      BY <3>1, <3>2
  <2> QED
    BY <1>1, <2>1, QueueDropped DEF QueueInv
<1>9. PairedHasKey'
  BY <1>5 DEF QueueInv, PairedHasKey
<1>10. Orders'
  <2>1. recency' \in Seq(Cids)
    BY <1>1, OrderType DEF QueueInv, Orders
  <2> QED
    BY <1>1, <1>2, <2>1 DEF QueueInv, Orders
<1> QED
  BY <1>8, <1>9, <1>10 DEF QueueInv

(* A channel is closed: the credential that waited on it is dropped.       *)
LEMMA ClosedQueue ==
  ASSUME QueueInv, NEW cid, credentials' = Dropped(credentials, {cid}),
         recency' = Dropped(recency, {cid}), usage' \in Seq(Slots),
         UNCHANGED <<counter, panicked>>,
         DOMAIN opening \ {cid} \subseteq DOMAIN opening', DOMAIN opening' \subseteq DOMAIN opening,
         DOMAIN appdata \ {cid} \subseteq DOMAIN appdata',
         \A c \in DOMAIN opening' : opening'[c] = opening[c],
         \A c \in DOMAIN appdata' : appdata'[c] = appdata[c]
  PROVE  QueueInv'
<1>1. \A c \in Cids \ {cid} : Awaited(opening, appdata, c) => Awaited(opening', appdata', c)
  BY DEF Awaited
<1>2. Queue(credentials)'
  BY <1>1, QueueDropped DEF QueueInv
<1>3. PairedHasKey'
  BY DEF QueueInv, PairedHasKey
<1>4. Orders'
  BY OrderType DEF QueueInv, Orders
<1> QED
  BY <1>2, <1>3, <1>4 DEF QueueInv

(* The handshake fails.                                                    *)
LEMMA HandshakeFailedQueue ==
  ASSUME QueueInv, NEW cid \in Cids, HandshakeFailed(cid)
  PROVE  QueueInv'
<1>1. /\ credentials' = Dropped(credentials, {cid}) /\ recency' = Dropped(recency, {cid})
      /\ UNCHANGED <<counter, panicked, appdata, usage>>
  BY DEF HandshakeFailed, DeleteCredentials, cache
<1>2. /\ DOMAIN opening' = DOMAIN opening \ {cid}
      /\ \A c \in DOMAIN opening' : opening'[c] = opening[c]
  BY DEF HandshakeFailed, Without
<1>3. usage' \in Seq(Slots)
  BY <1>1 DEF QueueInv, Orders
<1> QED
  BY <1>1, <1>2, <1>3, ClosedQueue

(* A channel past the handshake is closed.                                 *)
LEMMA RemoveQueue ==
  ASSUME QueueInv, NEW cid, Remove(cid), usage' \in Seq(Slots)
  PROVE  QueueInv'
<1>1. /\ credentials' = Dropped(credentials, {cid}) /\ recency' = Dropped(recency, {cid})
      /\ UNCHANGED <<counter, opening, panicked>>
  BY DEF Remove, DeleteCredentials
<1>2. /\ DOMAIN appdata' = DOMAIN appdata \ {cid}
      /\ \A c \in DOMAIN appdata' : appdata'[c] = appdata[c]
  BY DEF Remove, Without
<1> QED
  BY <1>1, <1>2, ClosedQueue

(* Clearing sessions takes their slots out of the order of use.            *)
LEMMA ClearUsage ==
  ASSUME Orders, NEW S, Clear(S)
  PROVE  usage' \in Seq(Slots)
BY OrderType DEF Clear, Orders

LEMMA ClearClosedUsage ==
  ASSUME Orders, NEW closed, ClearClosedSessions(closed)
  PROVE  usage' \in Seq(Slots)
<1>1. CASE CloseEncrypted(closed)
  BY <1>1, ClearUsage DEF ClearClosedSessions
<1>2. CASE ~CloseEncrypted(closed)
  BY <1>2 DEF ClearClosedSessions, cache, Orders
<1> QED
  BY <1>1, <1>2

(* The tables, the queue and the order of the channels stay.               *)
LEMMA SameQueue ==
  ASSUME QueueInv, UNCHANGED <<counter, opening, appdata, credentials, panicked>>,
         recency' \in Seq(Cids), usage' \in Seq(Slots)
  PROVE  QueueInv'
BY DEF QueueInv, Queue, Once, Awaited, PairedHasKey, Orders

(* channel_paired uses the credential up, and drops that of the channel it *)
(* replaces.                                                               *)
LEMMA EndPairingQueue ==
  ASSUME QueueInv, NEW cid \in Cids, EndPairing(cid)
  PROVE  QueueInv'
<1> DEFINE olds == {c \in DOMAIN appdata : Replaces(cid, c)}
<1>1. PICK closed \in IF olds = {} THEN {{}} ELSE {{c} : c \in olds} :
        /\ appdata' = [Without(appdata, closed) EXCEPT ![cid].phase = "encrypted"]
        /\ recency' = Dropped(recency, closed)
        /\ credentials' = Dropped(credentials, closed \cup {cid})
  BY DEF EndPairing, DeleteCredentials
<1>2. UNCHANGED <<counter, opening, panicked, usage>>
  BY DEF EndPairing
<1>3. /\ DOMAIN appdata' = DOMAIN appdata \ closed
      /\ \A c \in DOMAIN appdata' \ {cid} : appdata'[c] = appdata[c]
  BY <1>1 DEF Without
<1>4. Queue(credentials)'
  <2>1. \A c \in Cids \ (closed \cup {cid}) :
          Awaited(opening, appdata, c) => Awaited(opening', appdata', c)
    BY <1>2, <1>3 DEF Awaited
  <2> QED
    BY <1>1, <2>1, QueueDropped DEF QueueInv
<1>5. PairedHasKey'
  BY <1>2 DEF QueueInv, PairedHasKey
<1>6. Orders'
  BY <1>1, <1>2, OrderType DEF QueueInv, Orders
<1> QED
  BY <1>4, <1>5, <1>6 DEF QueueInv

(* Sessions change the orders of use only.                                 *)
LEMMA SessionQueue ==
  ASSUME QueueInv, NEW cid \in Cids, NEW sid \in SessionIds,
         \/ UseSession(cid, sid) \/ EndSession(cid, sid)
         \/ \E n \in Slots : CreateSession(cid, sid, n)
  PROVE  QueueInv'
<1>1. Orders
  BY DEF QueueInv
<1>2. CASE UseSession(cid, sid)
  <2>1. /\ UNCHANGED <<counter, opening, appdata, credentials, panicked>>
        /\ recency' = Touched(recency, cid)
        /\ usage' = usage \/ \E n \in Same(cid, sid) : usage' = Touched(usage, n)
    BY <1>2 DEF UseSession
  <2>2. Same(cid, sid) \subseteq Slots
    BY DEF Same
  <2>3. recency' \in Seq(Cids) /\ usage' \in Seq(Slots)
    BY <1>1, <2>1, <2>2, OrderType DEF Orders
  <2> QED
    BY <2>1, <2>3, SameQueue
<1>3. CASE EndSession(cid, sid)
  <2>1. Clear(Same(cid, sid)) /\ UNCHANGED <<counter, opening, appdata, credentials, panicked, recency>>
    BY <1>3 DEF EndSession, channels
  <2>2. recency' \in Seq(Cids) /\ usage' \in Seq(Slots)
    BY <1>1, <2>1, ClearUsage DEF Orders
  <2> QED
    BY <2>1, <2>2, SameQueue
<1>4. ASSUME NEW n \in Slots, CreateSession(cid, sid, n)
      PROVE  QueueInv'
  <2>1. /\ UNCHANGED <<counter, opening, appdata, credentials, panicked>>
        /\ recency' = Touched(recency, cid) /\ usage' = Touched(usage, n)
    BY <1>4 DEF CreateSession
  <2>2. recency' \in Seq(Cids) /\ usage' \in Seq(Slots)
    BY <1>1, <2>1, OrderType DEF Orders
  <2> QED
    BY <2>1, <2>2, SameQueue
<1> QED
  BY <1>2, <1>3, <1>4

(* clear_all empties the queue.                                            *)
LEMMA ClearAllQueue ==
  ASSUME QueueInv, NEW exclude, ClearAll(exclude)
  PROVE  QueueInv'
<1>1. /\ opening' = <<>> /\ credentials' = <<>> /\ Clear(Slots)
      /\ recency' = Dropped(recency, Cids \ (DOMAIN appdata \cap exclude))
      /\ UNCHANGED <<counter, panicked>>
  BY DEF ClearAll
<1>2. <<>> \in Seq(Cids) /\ Len(<<>>) <= MaxAppdata /\ DOMAIN <<>> = {}
  BY ContextAssumption, SMT
<1>3. Queue(credentials)' /\ PairedHasKey'
  BY <1>1, <1>2 DEF Queue, Once, PairedHasKey
<1>4. Orders'
  BY <1>1, OrderType, ClearUsage DEF QueueInv, Orders
<1> QED
  BY <1>3, <1>4 DEF QueueInv

(* Every step keeps the queue and the orders right.                        *)
LEMMA NextQueue == Inv /\ QueueInv /\ [Next]_vars => QueueInv'
<1> SUFFICES ASSUME Inv, QueueInv, [Next]_vars
             PROVE  QueueInv'
  OBVIOUS
<1>1. Orders
  BY DEF QueueInv
<1>2. ASSUME NEW c \in Cids, ChannelFailed(c) \/ PacketOutFailed(c) \/ PairingCancelled(c)
      PROVE  QueueInv'
  <2>1. Remove(c) /\ (ClearClosedSessions({c}) \/ usage' = usage \/ Clear(OfChannel(c)))
    BY <1>2 DEF ChannelFailed, PacketOutFailed, PairingCancelled, cache
  <2>2. usage' \in Seq(Slots)
    BY <1>1, <2>1, ClearUsage, ClearClosedUsage DEF Orders
  <2> QED
    BY <2>1, <2>2, RemoveQueue
<1>3. CASE WriteLoop
  <2>1. /\ ClearClosedSessions({})
        /\ UNCHANGED <<counter, opening, appdata, recency, credentials, panicked>>
    BY <1>3 DEF WriteLoop
  <2>2. recency' \in Seq(Cids) /\ usage' \in Seq(Slots)
    BY <1>1, <2>1, ClearClosedUsage DEF Orders
  <2> QED
    BY <2>1, <2>2, SameQueue
<1>4. CASE UNCHANGED vars
  <2>1. UNCHANGED <<counter, opening, appdata, recency, credentials, panicked, usage>>
    BY <1>4 DEF vars, channels, cache
  <2> QED
    BY <1>1, <2>1, SameQueue DEF Orders
<1>5. ASSUME NEW c \in Cids, HandshakeDone(c) \/ HandshakeFailed(c) \/ EndPairing(c)
      PROVE  QueueInv'
  BY <1>5, HandshakeDoneQueue, HandshakeFailedQueue, EndPairingQueue
<1>6. ASSUME NEW i \in Ifaces, NEW c \in Cids, PacketInAlloc(i, c)
      PROVE  QueueInv'
  BY <1>6, AllocQueue
<1>7. ASSUME NEW c \in Cids, NEW k \in Keys, NEW p \in BOOLEAN, CompletionRequest(c, k, p)
      PROVE  QueueInv'
  BY <1>7, CompletionRequestQueue
<1>8. ASSUME NEW c \in Cids, NEW s \in SessionIds,
             \/ UseSession(c, s) \/ EndSession(c, s)
             \/ \E n \in Slots : CreateSession(c, s, n)
      PROVE  QueueInv'
  BY <1>8, SessionQueue
<1>9. ASSUME NEW exclude, ClearAll(exclude)
      PROVE  QueueInv'
  BY <1>9, ClearAllQueue
<1> QED
  BY <1>2, <1>3, <1>4, <1>5, <1>6, <1>7, <1>8, <1>9 DEF Next

(* The device starts with empty queues.                                    *)
LEMMA InitQueue == Init => QueueInv
<1> SUFFICES ASSUME Init PROVE QueueInv
  OBVIOUS
<1>1. <<>> \in Seq(Cids) /\ <<>> \in Seq(Slots) /\ Len(<<>>) <= MaxAppdata /\ DOMAIN <<>> = {}
  BY ContextAssumption, SMT
<1> QED
  BY <1>1 DEF Init, QueueInv, Queue, Once, PairedHasKey, Orders

(* Both invariants hold of the context.                                    *)
LEMMA QueueInvariance == Spec => [](Inv /\ QueueInv)
  BY InitInv, NextInv, InitQueue, NextQueue, PTL DEF Spec

(* insert_channel never panics, whatever the capacities of the tables, as  *)
(* long as there are more ids than channels.                               *)
THEOREM NeverPanics == Spec => []NoPanic
<1>1. Inv => NoPanic
  BY DEF Inv
<1> QED
  BY <1>1, Invariance, PTL

(* A host never has two channels in encrypted transport on an interface,   *)
(* so that channel_paired need look for one only.                          *)
THEOREM Replacement == Spec => []OneEncrypted
<1>1. Inv => OneEncrypted
  BY DEF Inv
<1> QED
  BY <1>1, Invariance, PTL

(* No session passes to another host, and none is forgotten when its       *)
(* channel is closed.                                                      *)
THEOREM SessionOwnership == Spec => []SessionsOwned
<1>1. Inv => SessionsOwned
  BY DEF Inv
<1> QED
  BY <1>1, Invariance, PTL

(* A queued credential always belongs to a channel that has yet to use it, *)
(* and there is at most one for a channel, however many handshakes start,  *)
(* fail, are evicted or replaced while it waits.                           *)
THEOREM CredentialsStayLive == Spec => []CredentialsLive
<1>1. QueueInv => CredentialsLive
  BY DEF QueueInv, Queue, Once, Awaited, CredentialsLive
<1> QED
  BY <1>1, QueueInvariance, PTL

(* No table, queue or order of use leaves its type, and the queue of       *)
(* credentials stays within its capacity.                                  *)
THEOREM TypesHold == Spec => []TypeOK
<1>1. Inv /\ QueueInv => TypeOK
  BY DEF Inv, Typed, QueueInv, Queue, Orders, TypeOK
<1> QED
  BY <1>1, QueueInvariance, PTL
===============================================================================
