------------------------------ MODULE ThpContext ------------------------------
(***************************************************************************)
(* The channels of the device: ThpContext and ThpAuxiliaryInfo             *)
(* (core/embed/rust/src/thp/mod.rs), and the sessions that the Python side *)
(* keeps on them (core/src/storage/cache_thp.py).                          *)
(*                                                                         *)
(* What a channel does with its packets is left to ThpHandshake and        *)
(* ThpChannel: here a handshake may get on, end or fail, and a channel may *)
(* fail, whenever its state allows.                                        *)
(*                                                                         *)
(* last_usage is only ever compared, so that the order of its values is    *)
(* kept instead of the values: the wrapping of the 32-bit counter is left  *)
(* out.                                                                    *)
(***************************************************************************)
EXTENDS Integers, Sequences, FiniteSets

CONSTANTS
  Hosts,       \* pairs of an interface and the static public key of a host on it
  MaxCid,      \* channel ids are 1..MaxCid
  MaxOpening,  \* MAX_CHANNELS_OPENING
  MaxAppdata,  \* MAX_CHANNELS_APPDATA
  SessionIds,
  MaxSessions  \* _MAX_SESSIONS_COUNT

ASSUME ContextAssumption ==
  /\ {MaxOpening, MaxAppdata, MaxSessions, MaxCid} \subseteq Nat \ {0}
  /\ MaxCid > MaxOpening + MaxAppdata

VARIABLES
  counter,       \* CHANNEL_ID_COUNTER
  opening,       \* channel_opening: channels in the handshake
  appdata,       \* channel_appdata: channels past the handshake
  recency,       \* ids of opening, then of appdata, the least recently used first
  credentials,   \* ids of the channels with a queued credential
  channelClosed, \* channel_closed
  panicked,      \* an assertion of insert_channel failed
  sessions,      \* _SESSIONS
  usage          \* indices of the allocated ones, the least recently used first

channels == <<opening, appdata, recency, credentials, channelClosed, panicked>>
cache == <<sessions, usage>>
vars == <<counter, channels, cache>>

Ifaces == {h[1] : h \in Hosts}
Keys == {h[2] : h \in Hosts}
Cids == 1..MaxCid
Slots == 1..MaxSessions
NoKey == "none"
NoSession == [cid |-> 0, sid |-> 0, key |-> NoKey]

ASSUME HostsAssumption == NoKey \notin Keys

Opening == [iface : Ifaces, key : Keys \cup {NoKey}, paired : BOOLEAN]
Appdata == [iface : Ifaces, key : Keys, phase : {"unpaired", "paired", "encrypted"}]

(* A session has a ghost: the key of the host that created it.             *)
Session == [cid : Cids, sid : SessionIds, key : Keys]

(* Every variable keeps its type.                                          *)
TypeOK ==
  /\ counter \in Cids
  /\ DOMAIN opening \subseteq Cids /\ \A c \in DOMAIN opening : opening[c] \in Opening
  /\ DOMAIN appdata \subseteq Cids /\ \A c \in DOMAIN appdata : appdata[c] \in Appdata
  /\ recency \in Seq(Cids) /\ credentials \in Seq(Cids) /\ Len(credentials) <= MaxAppdata
  /\ channelClosed \in BOOLEAN /\ panicked \in BOOLEAN
  /\ sessions \in [Slots -> Session \cup {NoSession}]
  /\ usage \in Seq(Slots)

-------------------------------------------------------------------------------
(***************************************************************************)
(* Tables of channels.                                                     *)
(***************************************************************************)
Without(table, S) == [c \in DOMAIN table \ S |-> table[c]]
With(table, cid, entry) ==
  [c \in DOMAIN table \cup {cid} |-> IF c = cid THEN entry ELSE table[c]]

(* The elements of a queue that are not in S, in their order.  A recursive *)
(* function: the provers know nothing of SelectSeq.                        *)
Dropped(order, S) ==
  LET upTo[n \in 0..Len(order)] ==
        IF n = 0 THEN <<>>
        ELSE IF order[n] \in S THEN upTo[n - 1] ELSE Append(upTo[n - 1], order[n])
  IN  upTo[Len(order)]

Touched(order, x) == Append(Dropped(order, {x}), x)
Precedes(order, x, y) ==
  \E i, j \in DOMAIN order : i < j /\ order[i] = x /\ order[j] = y

(* lru_needs_closing: nothing, or the least recently used channel.         *)
MutantLruNeedsClosing(table, max) ==
  IF Cardinality(DOMAIN table) <= max
  THEN {{}}
  ELSE {{c} : c \in {c \in DOMAIN table : \A d \in DOMAIN table : ~Precedes(recency, d, c)}}

LruNeedsClosing(table, max) ==
  IF Cardinality(DOMAIN table) < max
  THEN {{}}
  ELSE {{c} : c \in {c \in DOMAIN table : \A d \in DOMAIN table : ~Precedes(recency, d, c)}}

(* insert_channel: "should not panic since a slot was freed up", "should   *)
(* not panic as we don't expect duplicate ids".                            *)
InsertPanics(table, max, cid) == Cardinality(DOMAIN table) >= max \/ cid \in DOMAIN table

(* channel_is_open *)
Encrypted(table) == {c \in DOMAIN table : table[c].phase = "encrypted"}
IsOpen(cid) == cid \in Encrypted(appdata)

(* get_channel_id: the first id from the counter on that is in neither     *)
(* table.                                                                  *)
Unique(cid) == cid \notin DOMAIN appdata /\ cid \notin DOMAIN opening

Skipped(cid) == (cid - counter) % MaxCid
GetChannelId(cid) ==
  /\ Unique(cid)
  /\ \A c \in Cids : Unique(c) => Skipped(cid) <= Skipped(c)
  /\ counter' = IF cid = MaxCid THEN 1 ELSE cid + 1

(* What channel_close does besides removing the channels from their table. *)
MutantCloseEncrypted(closed) == channelClosed
CloseEncrypted(closed) == channelClosed \/ \E c \in closed : IsOpen(c)

MutantDeleteCredentials(closed) ==
  IF closed \subseteq DOMAIN appdata THEN Dropped(credentials, closed) ELSE credentials
DeleteCredentials(closed) == Dropped(credentials, closed)

-------------------------------------------------------------------------------
(***************************************************************************)
(* The handshake.                                                          *)
(***************************************************************************)

(* An id is given out again after all the others, which takes far longer   *)
(* than the write loop needs to come by and clear the sessions of a closed *)
(* channel: a model with a few ids has to say so.                          *)
Forgotten(cid) == \A n \in Slots : sessions[n].cid # cid

(* packet_in_alloc.  Usage is compared within a table only.                *)
PacketInAlloc(iface, cid) ==
  \E closed \in LruNeedsClosing(opening, MaxOpening) :
    LET left == Without(opening, closed)
    IN  /\ GetChannelId(cid)
        /\ Forgotten(cid)
        /\ panicked' = (panicked \/ InsertPanics(left, MaxOpening, cid))
        /\ opening' = With(left, cid, [iface |-> iface, key |-> NoKey, paired |-> FALSE])
        /\ recency' = Append(Dropped(recency, closed \cup DOMAIN appdata), cid)
                        \o Dropped(recency, DOMAIN opening)
        /\ credentials' = DeleteCredentials(closed)
        /\ UNCHANGED <<appdata, channelClosed, cache>>

(* insert_replace_queue *)
MutantInsertReplaceQueue(queue, cid) == Append(queue, cid)

InsertReplaceQueue(queue, cid) ==
  Append(IF Len(queue) = MaxAppdata THEN Tail(queue) ELSE queue, cid)

(* packet_in_handshake with a completion request: TrezorCredentialVerifier *)
(* learns the key of the host, and queues a valid credential.              *)
CompletionRequest(cid, key, paired) ==
  /\ cid \in DOMAIN opening /\ opening[cid].key = NoKey
  /\ <<opening[cid].iface, key>> \in Hosts
  /\ opening' = With(opening, cid, [opening[cid] EXCEPT !.key = key, !.paired = paired])
  /\ credentials' = IF paired THEN InsertReplaceQueue(credentials, cid) ELSE credentials
  /\ UNCHANGED <<counter, appdata, recency, channelClosed, panicked, cache>>

(* packet_in_handshake with the acknowledgment that ends the handshake.    *)
HandshakeDone(cid) ==
  /\ cid \in DOMAIN opening /\ opening[cid].key # NoKey
  /\ \E closed \in LruNeedsClosing(appdata, MaxAppdata) :
       LET left == Without(appdata, closed)
           che == opening[cid]
       IN  /\ panicked' = (panicked \/ InsertPanics(left, MaxAppdata, cid))
           /\ opening' = Without(opening, {cid})
           /\ appdata' = With(left, cid, [iface |-> che.iface, key |-> che.key,
                                          phase |-> IF che.paired THEN "paired" ELSE "unpaired"])
           /\ recency' = Touched(Dropped(recency, closed), cid)
           /\ credentials' = DeleteCredentials(closed)
           /\ channelClosed' = CloseEncrypted(closed)
  /\ UNCHANGED <<counter, cache>>

(* channel_close of a channel in the handshake: it failed, was answered    *)
(* with an error, or was not acknowledged (packet_in_handshake,            *)
(* packet_out, handshake_static_key, message_retransmit).                  *)
HandshakeFailed(cid) ==
  /\ cid \in DOMAIN opening
  /\ opening' = Without(opening, {cid})
  /\ recency' = Dropped(recency, {cid})
  /\ credentials' = DeleteCredentials({cid})
  /\ UNCHANGED <<counter, appdata, channelClosed, panicked, cache>>

-------------------------------------------------------------------------------
(***************************************************************************)
(* Channels past the handshake, and their sessions.                        *)
(***************************************************************************)
Clear(S) ==
  /\ sessions' = [n \in Slots |-> IF n \in S THEN NoSession ELSE sessions[n]]
  /\ usage' = Dropped(usage, S)

OfChannel(cid) == {n \in Slots : sessions[n].cid = cid}

(* channel_close of a channel in channel_appdata.                          *)
Remove(cid) ==
  /\ appdata' = Without(appdata, {cid})
  /\ recency' = Dropped(recency, {cid})
  /\ credentials' = DeleteCredentials({cid})
  /\ UNCHANGED <<counter, opening, panicked>>

(* clear_closed_sessions, clear_sessions_without_channel, after the        *)
(* channels in closed are gone.                                            *)
ClearClosedSessions(closed) ==
  /\ channelClosed' = FALSE
  /\ IF CloseEncrypted(closed)
     THEN Clear({n \in Slots : ~IsOpen(sessions[n].cid) \/ sessions[n].cid \in closed})
     ELSE UNCHANGED cache

(* packet_in_channel and message_retransmit, whose callers then clear the  *)
(* sessions of closed channels at once.                                    *)
ChannelFailed(cid) ==
  /\ cid \in DOMAIN appdata
  /\ Remove(cid)
  /\ ClearClosedSessions({cid})

(* packet_out_channel, whose caller first sends what it has to send.       *)
PacketOutFailed(cid) ==
  /\ cid \in DOMAIN appdata
  /\ Remove(cid)
  /\ channelClosed' = CloseEncrypted({cid})
  /\ UNCHANGED cache

(* write_loop, when all packets are written.                               *)
MutantWriteLoop ==
  /\ channelClosed /\ opening = <<>>
  /\ ClearClosedSessions({})
  /\ UNCHANGED <<counter, opening, appdata, recency, credentials, panicked>>

WriteLoop ==
  /\ channelClosed
  /\ ClearClosedSessions({})
  /\ UNCHANGED <<counter, opening, appdata, recency, credentials, panicked>>

(* Channel.clear, when the host cancels the pairing.                       *)
PairingCancelled(cid) ==
  /\ cid \in DOMAIN appdata /\ ~IsOpen(cid)
  /\ Remove(cid)
  /\ channelClosed' = CloseEncrypted({cid})
  /\ Clear(OfChannel(cid))

(* channel_paired finds a channel to be replaced.                          *)
MutantReplaces(cid, old) ==
  /\ old < cid /\ IsOpen(old)
  /\ appdata[old].iface = appdata[cid].iface /\ appdata[old].key = appdata[cid].key

Replaces(cid, old) ==
  /\ old # cid /\ IsOpen(old)
  /\ appdata[old].iface = appdata[cid].iface /\ appdata[old].key = appdata[cid].key

(* end_pairing_and_replace, with channel_paired and migrate_sessions.      *)
EndPairing(cid) ==
  /\ cid \in DOMAIN appdata /\ ~IsOpen(cid)
  /\ LET olds == {c \in DOMAIN appdata : Replaces(cid, c)}
     IN  \E closed \in IF olds = {} THEN {{}} ELSE {{c} : c \in olds} :
           /\ appdata' = [Without(appdata, closed) EXCEPT ![cid].phase = "encrypted"]
           /\ recency' = Dropped(recency, closed)
           /\ channelClosed' = CloseEncrypted(closed)
           /\ credentials' = DeleteCredentials(closed \cup {cid})
           /\ sessions' = [n \in Slots |-> IF sessions[n].cid \in closed
                                           THEN [sessions[n] EXCEPT !.cid = cid]
                                           ELSE sessions[n]]
  /\ UNCHANGED <<counter, opening, panicked, usage>>

(* A handler runs for a message that message_out took from an open channel *)
(* (_handle_state_ENCRYPTED_TRANSPORT), now the most recently used one.    *)
(* The read loops pause until it reads or writes again (should_read), so   *)
(* its channel is still open when it creates or ends a session.            *)
Handled(cid) == IsOpen(cid)

(* create_or_replace_session: the slot of this session, else a free one,   *)
(* else the least recently used one.                                       *)
Same(cid, sid) == {n \in Slots : sessions[n].cid = cid /\ sessions[n].sid = sid}
Free == {n \in Slots : sessions[n] = NoSession}
NextIndex(n) ==
  IF Free # {}
  THEN n \in Free /\ \A m \in Free : n <= m
  ELSE \A m \in Slots : ~Precedes(usage, m, n)

CreateSession(cid, sid, n) ==
  /\ Handled(cid)
  /\ IF Same(cid, sid) # {} THEN n \in Same(cid, sid) ELSE NextIndex(n)
  /\ sessions' = [sessions EXCEPT ![n] = [cid |-> cid, sid |-> sid, key |-> appdata[cid].key]]
  /\ usage' = Touched(usage, n)
  /\ recency' = Touched(recency, cid)
  /\ UNCHANGED <<counter, opening, appdata, credentials, channelClosed, panicked>>

(* update_session_last_used, for a message in a session that need not be   *)
(* in the cache.                                                           *)
UseSession(cid, sid) ==
  /\ Handled(cid)
  /\ recency' = Touched(recency, cid)
  /\ \/ Same(cid, sid) = {} /\ UNCHANGED usage
     \/ \E n \in Same(cid, sid) : usage' = Touched(usage, n)
  /\ UNCHANGED <<counter, opening, appdata, credentials, channelClosed, panicked, sessions>>

(* clear_session, when a session ends.                                     *)
EndSession(cid, sid) ==
  /\ Handled(cid) /\ Same(cid, sid) # {}
  /\ Clear(Same(cid, sid))
  /\ UNCHANGED <<counter, channels>>

(* clear_all and clear_all_except_one_session_keys, with                   *)
(* channel_close_all: "Please note that the channel_closed flag is         *)
(* cleared".                                                               *)
ClearAll(exclude) ==
  /\ appdata' = Without(appdata, DOMAIN appdata \ exclude)
  /\ opening' = <<>>
  /\ recency' = Dropped(recency, Cids \ (DOMAIN appdata \cap exclude))
  /\ credentials' = <<>>
  /\ channelClosed' = FALSE
  /\ Clear(Slots)
  /\ UNCHANGED <<counter, panicked>>

-------------------------------------------------------------------------------
Init ==
  /\ counter \in Cids
  /\ opening = <<>> /\ appdata = <<>> /\ recency = <<>>
  /\ credentials = <<>>
  /\ channelClosed = FALSE /\ panicked = FALSE
  /\ sessions = [n \in Slots |-> NoSession]
  /\ usage = <<>>

Next ==
  \/ \E i \in Ifaces, c \in Cids : PacketInAlloc(i, c)
  \/ \E c \in Cids, k \in Keys, paired \in BOOLEAN : CompletionRequest(c, k, paired)
  \/ \E c \in Cids :
       \/ HandshakeDone(c) \/ HandshakeFailed(c)
       \/ ChannelFailed(c) \/ PacketOutFailed(c)
       \/ PairingCancelled(c) \/ EndPairing(c)
  \/ WriteLoop
  \/ \E c \in Cids, s \in SessionIds :
       \/ UseSession(c, s) \/ EndSession(c, s)
       \/ \E n \in Slots : CreateSession(c, s, n)
  \/ ClearAll({})
  \/ \E c \in Cids : IsOpen(c) /\ ClearAll({c})

Spec == Init /\ [][Next]_vars

(* Every change of a channel is followed by request_write, and a write     *)
(* that blocks is given up after _WRITE_TIMEOUT_MS.                        *)
FairSpec == Spec /\ WF_vars(WriteLoop)

-------------------------------------------------------------------------------
(***************************************************************************)
(* Properties.                                                             *)
(***************************************************************************)

(* insert_channel never panics, as its comments say, in any order of       *)
(* allocations, evictions, failures and id wrap-arounds: the tables stay   *)
(* within their capacity, and an id is never in both.                      *)
NoPanic ==
  /\ ~panicked
  /\ DOMAIN opening \cap DOMAIN appdata = {}
  /\ Cardinality(DOMAIN opening) <= MaxOpening
  /\ Cardinality(DOMAIN appdata) <= MaxAppdata

(* Channel replacement: channel_paired looks for one channel to replace,   *)
(* which is enough because a host has at most one channel in encrypted     *)
(* transport on an interface.                                              *)
OneEncrypted ==
  \A c, d \in DOMAIN appdata :
    /\ IsOpen(c) /\ IsOpen(d)
    /\ appdata[c].iface = appdata[d].iface /\ appdata[c].key = appdata[d].key
    => c = d

(* A session stays with the host that created it, through migration and    *)
(* reuse of ids; and when its channel is gone, channel_closed tells the    *)
(* Python side to clear it.                                                *)
SessionsOwned ==
  \A n \in Slots : sessions[n] # NoSession =>
    IF IsOpen(sessions[n].cid)
    THEN sessions[n].key = appdata[sessions[n].cid].key
    ELSE channelClosed

(* ThpAuxiliaryInfo: a queued credential is that of a channel which has    *)
(* yet to use it, and there is one for a channel: no dead entry can push a *)
(* live one out of the queue.                                              *)
CredentialsLive ==
  /\ \A i \in DOMAIN credentials :
       LET c == credentials[i]
       IN  \/ c \in DOMAIN opening /\ opening[c].paired
           \/ c \in DOMAIN appdata /\ appdata[c].phase = "paired"
  /\ \A i, j \in DOMAIN credentials : credentials[i] = credentials[j] => i = j

(* Sessions whose channel was closed are cleared in the end, all of them   *)
(* at once (clear_sessions_without_channel).                               *)
StaleCleared ==
  []<>(\A n \in Slots : sessions[n] = NoSession \/ IsOpen(sessions[n].cid))
===============================================================================
