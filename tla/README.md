# TLA+ models of the Trezor firmware

The modules here model parts of the repository whose correctness depends on orders of events that are hard to test: the
THP protocol between host and device (opening a channel, exchanging messages on it, and the tables of channels and
sessions that the device keeps), the key-value layer on flash (norcow), and the protected storage on top of it. TLC checks
them on small instances; the main safety results about the handshake, the exchange of messages, the tables of channels,
norcow and the protected storage are also proved with TLAPS for every value of the constants. Paths below are relative to
the repository's root.

## 1. The system

| Part | Where | State | Operations | What is hard about it |
|---|---|---|---|---|
| THP channel | `rust/trezor-thp/src/channel`, `alternating_bit.rs`, `fragment.rs` | sync bits, send and receive state, fragmenter, reassembler, nonces | `message_in`, `packet_out`, `packet_in`, `message_out`, `message_retransmit`, `send_error` | packets lost, repeated, damaged; timers against late ACKs; crossing messages |
| THP handshake, multiplexer | `channel/host.rs`, `device.rs`, `noise.rs` | handshake phase, channel ids, allocation nonce | allocate, open, complete, ping | repeated handshake messages, late allocation responses, a locked device |
| THP in the firmware | `core/embed/rust/src/thp`, `core/src/trezor/wire/thp`, `core/src/storage/cache_thp.py` | channel tables, credentials, sessions, timers, loops | insert, evict, replace and close channels; create, migrate and clear sessions; the read, write and retransmission loops | full tables, reused ids, sessions of closed channels, state read before an await |
| norcow | `storage/norcow*.{c,h}` | two flash sectors, active and write sector, free offset | init, get, set, delete, wipe, compact, upgrade | power loss between any two writes, full sectors |
| protected storage | `storage/storage.c`, `pinlogs_*.h` | entries, PIN failure log, cached keys, authentication sum | init, wipe, unlock, lock, change PIN or wipe code, set, get, delete, fault handler | power loss between the writes of one operation; faults within faults |
| secure elements | `core/embed/sec/optiga`, `tropic` | counters, slots | PIN set and verify | two devices and one flash that must agree |
| event loop, workflows | `core/src/trezor/loop.py`, `workflow.py` | queue, paused tasks, running workflows | schedule, close, race, mailbox | tasks closed while scheduled |
| queues, IPC, events, power, arena | `core/embed/io`, `core/embed/sys` | rings, message queues, power state | enqueue, abort, poll, suspend | interrupts against threads, full queues |
| bootloaders, radio, UI, coin apps, crypto, legacy, host tools | `core`, `crypto`, `legacy`, `nordic`, `python` | various | various | mostly sequential, hardware or arithmetic |

The storage calls norcow for every entry; the firmware's wire loops drive a THP channel and call the applications, which
call the storage. `PROJECT.json` lists every part with its status, and the hazards with the line where each one bites.

## 2. Modules

| Module | Models | Correspondence |
|---|---|---|
| `ReliableExchange` | what a channel promises | messages submitted, delivered, confirmed, per direction |
| `ThpChannel` | both ends of an open channel and the links between them | one action per `ChannelIO` method and kind of packet; `Lose`, `Duplicate`, `Damage` are the transfer layer |
| `ThpChannelProofs` | the proofs about it | facts about packets on a link; steps that send, steps that receive, the theorems |
| `ThpHandshake` | `Mux` and `ChannelOpen` of both sides, `ThpContext` where it drives them, the first application message | one action per packet written or read by a multiplexer or a channel, per timer, and per answer to the request for the static key |
| `ThpHandshakeProofs` | the proofs about it | the inductive invariant, the links, the host, the device, the theorems |
| `ThpContext` | the tables of channels, the credential queue and `channel_closed` of the device, and the session cache | one action per call that changes them; what its channels do is left to the two modules above |
| `ThpContextProofs` | the proofs about it | |
| `KeyValueStore` | what norcow promises | a map, the keys at stake, power losses |
| `Norcow` | `norcow.c` with either flash variant, and the copy loop of `storage_upgrade` | each flash write is one step; `pc` is the next write; RAM variables keep their names; `model` selects one of the constant's `Devices` |
| `NorcowInvariant`, `NorcowMaintenance`, `NorcowOperations`, `NorcowProofs` | the proofs about it | the inductive invariant and lemmas about items; compaction, wipe, upgrade, start and power loss; set and delete; the theorems and the refinement |
| `Storage` | `storage.c` without secure elements | an operation is a chain of steps; `todo` holds the `norcow_set` calls that are due, `pc` where the operation goes on; `flash` is the sector in use and `other` what the other one still holds; `build` is one of `Builds` |
| `StorageProofs` | the proofs about it | PIN counter and keys; what the writes that are due leave, and the consistency of the entries |
| `MC*` | values of the constants | |

What the data is reduced to:

* In `ThpChannel` a payload is the nonce it was encrypted with, so decryption succeeds exactly when the nonces agree.
  CRC-32 is ideal: it accepts the bytes that were sent and no others. A damaged packet can turn into any kind of packet.
  `missed` is a history variable: the ends at which a decryption failed. The code keeps no such flag once TRANSPORT_BUSY
  has replaced the error.
* In `ThpHandshake` a message is one packet and is lost or repeated as a whole. A Noise message is its type with what the
  receiver learns from it, the pairing state. Ids are consecutive, as `ChannelIdAllocator` gives them out. The device closes
  a channel because it stays locked, because newer channels need its place, because its retransmissions ran out or
  because the handshake failed; the history field `cause` says which.
* In `ThpContext` a host is an interface and a static key. `last_usage` is only compared, and only within a table, so the
  order of its values there is kept. A session has a ghost, the key of the host that created it. `Forgotten` assumes that
  an id does not come up again while sessions of its former channel wait to be cleared: there are 65 thousand ids, and the
  write loop clears them at its next turn, but a model has four ids. `Handled` says when a message handler runs: for a
  message that `message_out` has just taken from an open channel, while the read loops are paused (`should_read`), so that
  the channel is open when the handler creates or ends a session.
* A norcow value is a short sequence of elements, a byte or a block, that are 1 when erased. A single element is never
  torn. Sector sizes count elements.
* Keys and tags of the storage are compared, never computed: an entry names the secret it was encrypted with. An entry
  whose writing was interrupted has its old value, none, a torn one or the new one; which of these are possible depends on
  the flash (`Interrupted`) and follows from what `Norcow` does. A write that does not happen in place may find the sector
  full and compact it; `LossInWrite`, `LossInUpgrade` and `LossInWipe` say which of two sectors `norcow_init` uses after an
  interrupted compaction, upgrade or wipe, and what remains in the other one. A left-over sector is erased by the next
  compaction or wipe, and comes back if a wipe loses power after the erasure of the sector in use (`norcow.c:286`).
  `Copies` are the entries that an interrupted copy may have reached. Keys locked by version 5 and 6 differ only in builds
  with a hardware key (`HwKey`).
* `norcow_active_version` may be that of the other sector after a start (`Scanned`), because `norcow_init` reads it once
  per sector. `norcow_get_next` looks at it, but only to find repeated keys, and `UniqueKeys` says that there are none.

## 3. Runs

`tlc -config <cfg> <module>` in this directory. Passing runs:

| Run | Shows |
|---|---|
| `thp_protocol20` | both sides submit at will on protocol 2.0, one fault: types, the inductive invariant (of which `NeverFails` is a part), nothing lost, repeated or corrupted; the channel implements `ReliableExchange` |
| `thp_piggyback` | ACK piggybacking with alternating requests and responses: the same refinement, and every message is delivered |
| `thp_errors` | with TRANSPORT_BUSY answers and headers that may not parse: the host never counts a request as received that was not, and an end that failed to decrypt a message delivers no later one, even if TRANSPORT_BUSY took the place of the error it was to report |
| `thp_handshake` | up to two requests for a channel, a packet lost or repeated, a device that may stay locked, evicts channels and gives up retransmitting: the ends agree on channel, pairing state and ACK piggybacking, no handshake fails, each one ends or the device closes it for one of the other reasons, and the first message arrives if there is no piggybacking and the device has not given the channel up |
| `thp_context` | tables that are full most of the time and ids that wrap around: `insert_channel` never panics, a host has one encrypted channel on an interface, sessions stay with their host and go with their channel, no dead credential is queued |
| `norcow` | bit access with two power losses at any write, and block access with two firmware versions in any order and room for the upgrade mark: one item per key, the cached offset is right, no entry lost, an upgrade finds its room (the hypothesis of the theorems), `KeyValueStore` is implemented |
| `norcow_live` | sectors that fill up, on both kinds of flash: types, and every operation, upgrade and failed upgrade ends |
| `storage` | a power loss in any write, compaction, upgrade or wipe, on bit access with an upgrade from version 4 and on block access with one from version 5, with or without a sector that an earlier copy left: wrong PINs are counted, and bounded until a wipe begins, keys in RAM match the lock, every operation ends; until the loss no sequence of calls trips a consistency check |

`ImplementsStore` has a deliberate limit. While an upgrade fills the new sector, and while sector 1 is filled from
sector 0, a power loss puts all entries at stake, because `norcow_init` then picks the incomplete sector (`AtRisk`).
Outside these windows at most the entry being written changes.

Runs in which what a comment or the documentation says does not hold; `findings` in `PROJECT.json` has the quotations:

| Run | Behaviour |
|---|---|
| `thp_busy_not_sendable` | TRANSPORT_BUSY over an unacknowledged message leaves a channel that says it is ready and cannot send |
| `thp_handshake_overtaken` | with piggybacking the host's first message takes the place of the ACK that the device's `ChannelOpen` waits for; the message is never delivered |
| `norcow_upgrade_full` | without room for the mark, the upgrade erases the only copy |
| `storage_upgrade_bypassed` | power lost after the mark is cleared and before the version is raised looks like a bypassed upgrade |

Further behaviours that TLC found in these models while they were written, and that set the limits of the properties
above. No run is kept for them:

* Piggybacking with both sides submitting at will: an ACK bit fixed when a message was submitted can confirm a message
  that was not delivered (`alternating_bit.rs:103`). Hence alternating applications in `thp_piggyback`.
* Protocol 2.0: two messages that cross are dropped and repeated for ever (`channel/mod.rs:331`).
* An initiation packet whose header does not parse erases the receive buffer but not the reassembler, whose checksum still
  matches (`channel/mod.rs:425`). Hence `Protocol20` excludes such headers.
* `message_in` accepts a message while another is being received, which its documentation excludes (`channel/mod.rs:836`).
* A TRANSPORT_BUSY answer replaces a pending DECRYPTION_FAILED, so that the host is not told of that failure
  (`channel/mod.rs:256`).
* A locked device has acknowledged the initiation request before it sends its error, once. If the error is lost, the host
  waits for a response and has nothing left to repeat (`device.rs:463`). Hence the second alternative of `HandshakeEnds`.
* An interrupted write leaves a partly written entry (`norcow_bitwise.h:45`), where `docs/storage/index.md:140` asks for
  an atomic one.
* After an interrupted compaction `norcow_init` takes the last sector with the magic, the Python reference the first.
* A power loss between two writes that belong together: keys and lock version after an upgrade (`storage.c:2121`), keys
  and the flag of an empty PIN (`storage.c:873`), an entry and the tag (`storage.c:278`, `1573`), and the failure counter
  on block access, which is then missing and makes the fault handler wipe (`pinlogs_blockwise.h:72`). Hence `NoLoss` in
  four properties of `Storage`: they are about sequences of calls and restarts, not about these windows.
* A wipe that loses power between its two erasures (`norcow.c:286`) leaves the sector of an earlier interrupted copy as
  the storage, if there is one, with the failure counter that it had. Hence `GuessesBounded` counts until a wipe begins.

All of these are statements about the models. None was reproduced on a device or an emulator.

### Bounds

* `ThpChannel`: up to three messages in a direction, two fragments, links of two packets, one or two faults, an answer of
  TRANSPORT_BUSY being one. The sync bits repeat after two messages, so three reach every confusion of old and new; two
  fragments tell first from last.
* `ThpHandshake`: two requests, so that a response can be late; one lost or repeated packet; one packet in flight in each
  direction, or two when one is repeated. Longer queues on the link are not explored. The table of handshakes has one
  place and a message is repeated once, so that a second request evicts the first channel and a lost packet can exhaust the
  retransmissions; with two places the run passes as well, in 225 thousand states.
* `ThpContext`: one place for channels in the handshake and two past it, so that most insertions evict; two hosts, one of
  them on both interfaces; four ids, which wrap around; two sessions. The proofs need only that there are more ids than
  places.
* `Norcow`: two keys, values of one and two elements, sectors that fill after a few items; two losses on bit access, so that a
  recovery is interrupted too, and one on block access. There, one device has values of one element and one values of
  two.
* `Storage`: three PINs including the empty one on bit access and two on block access, one entry, two tries, one loss. A
  storage of an older firmware may start with the sector of a copy that was interrupted before, so that one loss reaches
  its return. `SomeCopies` has a complete copy, one without the counter and one that breaks off at the EDEK. Two losses,
  so that a recovery is interrupted too, pass as well: with two PINs in 1.6 million states on bit access and 1.7 million
  on block access, with three PINs on bit access in 11.4 million. The hardware key comes
  with block access (T3B1 and T3T1, which have older versions to upgrade from); on bit access an upgrade from version 4
  changes the scheme with either value of `HwKey`, so that it is TRUE for both. The proofs cover both values.

### Fairness

* `ThpChannel`: weak fairness of sending, receiving and retransmission: the loops of `interface_context.py` poll and drain,
  and timers fire. `message_out` has strong fairness, because a packet can disable it for a moment and the waiting task
  runs in between. Faults are bounded and never forced. The limit of 50 retransmissions is not part of the channel and is
  left out here; `ThpHandshake` has it (`MaxRetry`).
* `ThpHandshake`: the same for both sides, the host continues a handshake that is finished, and the request for the static
  key is answered. Sending by one of several channels of the device has strong fairness: each of the others has finitely
  many packets until its timer fires.
* `ThpContext`: weak fairness of the write loop alone. A change of a channel is followed by `request_write`, and a write
  that blocks is given up after `_WRITE_TIMEOUT_MS`.
* `Norcow`, `Storage`: weak fairness of the steps of the operation in progress, i.e. the processor runs.

## 4. Proofs

`tlapm <module>` for each module in the headings below; it checks the proofs of that module only. Most leaves are left
to Zenon, the ones with arithmetic to SMT.

`ThpChannelProofs` assumes the constants' types (`ModeAssumption`, `BoundAssumption`).
`TypeInvariant` needs nothing else; the last two theorems assume no piggybacking; the others assume `Protocol20`: no
piggybacking, no TRANSPORT_BUSY, headers that parse. Section 3 says what goes wrong without each of them.

| Theorem | States |
|---|---|
| `TypeInvariant` | types, in every mode |
| `IndInvariant` | the inductive invariant |
| `ConfirmedInvariant` | a confirmed message was picked up |
| `NeverFailsInvariant` | faults of the link never make an end inoperable |
| `ReadyInvariant` | ready means that `message_in` can send |
| `CorruptionInvariant` | what passes the checksum is what is being sent |
| `ExchangeRefinement` | the channel implements `ReliableExchange` |
| `BusyInvariant` | TRANSPORT_BUSY answers cost the host no request |
| `FailureIsFinal` | an end that failed to decrypt, or was told so, delivers nothing more, even if it goes on receiving |

`ConfirmedWasDelivered` is not inductive: whether an ACK confirms the right message depends on what else is on the link.
`IndInv` adds, for each direction: sender and receiver are level or the receiver is one message ahead (`SyncInv`); an
intact initiation packet belongs to the next message or the last one delivered, and its bit tells which (`DataInv`);
initiation packets are in order (`OrderInv`); a good reassembly is of the message being sent and no packet of an older one
follows (`ReassemblyInv`); and behind the first ACK that confirms all others do, so that after it none is left to confirm
the next message (`AckInv`).

With TRANSPORT_BUSY and headers that do not parse, `IndInv` fails: a message may reach `message_out` with its buffer erased,
so that nonces part for good (`missed`). `RequestInv` says what remains true of the host's requests. There is a message `m` with the
host's current bit; packets with that bit belong to it, none with the other bit follows them, and none at all is left once
the device expects the other bit (`Sent`). What the device reassembles under a good checksum is `m`, and its nonce is at
most `m`, or behind it once decryption has failed (`Received`). The device acknowledges only what it has picked up
(`Acknowledged`). TLC checked `RequestInv`, with `m` bounded by the host's nonce, with two requests, two responses and two
faults before it was proved.

`ThpHandshakeProofs` assumes the constants' types (`HandshakeAssumption`). The last two theorems also
assume `Polite`: a host with piggybacking does not start with a message short enough to overtake the end of the handshake.
`thp_handshake` is an instance of it, and `thp_handshake_overtaken` shows what happens otherwise.

| Theorem | States |
|---|---|
| `HandshakeTyped` | types |
| `LastRequestAnswered` | the channel id the host takes answers its last request |
| `DeviceDoneAfterHost` | the device hands over only a channel that the host has opened |
| `BothEndsAgree` | the ends of an opened channel agree on pairing state and piggybacking, unless the device gave it up, if `Polite` |
| `NoHandshakeFails` | whatever is lost, repeated or late, no handshake fails, if `Polite`: a channel is closed for another reason |

None of these is inductive, since each depends on which packets may still arrive. The invariant divides the channels: one
is unused (at most its allocation response is under way), closed for good, or the one the host is opening (`Others`). For
the last, `HostEnd` and `DeviceEnd` give the sync bits of each end in each phase, `Together` the phases that go together,
`FromHost` and `FromDevice` what a packet under way implies about both ends: for instance, an ACK with bit 1 is there only
when the host is done. Requests of different phases stay in order on a link (`Ordered`), which keeps a repeated initiation
request away from a device that has moved on. `Allocation` says that the response a host waits for is for an unused
channel, `Errors` that transport errors are about closed ones. A channel that the device gives up while the host goes on is
closed with its cause, and its packets can no longer reach a handshake.

`ThpContextProofs` assumes that the capacities are positive and that there are more ids than places for channels
(`ContextAssumption`).

| Theorem | States |
|---|---|
| `NeverPanics` | the assertions of `insert_channel` hold: tables within their capacity, no id twice |
| `Replacement` | a host has at most one encrypted channel on an interface |
| `SessionOwnership` | a session is with the host that created it, or `channel_closed` is set |
| `CredentialsStayLive` | a queued credential belongs to a channel that has yet to use it, one for each |
| `TypesHold` | types; the queue of credentials stays within its capacity |

`SessionsOwned` needs `SessionsFresh`: no session refers to a channel that is not in encrypted transport yet. Without it,
the end of a pairing could hand a stale session to another host. `QueueInv` follows the queue through each call: no id
twice, each of a channel in one of the tables that has not used its credential. What `Dropped` leaves of a queue is found
by induction on its length.

`NorcowInvariant`, `NorcowMaintenance`, `NorcowOperations` and `NorcowProofs` assume the types of the constants
(`KeysAssumption`, `WordsAssumption`, `DevicesAssumption`), and of a behaviour that an upgrade always finds the room it
needs (`RoomToUpgrade`). The run `norcow` checks that hypothesis on its devices; `norcow_upgrade_full` has a device where
it fails, and shows that the theorems would fail with it.

| Theorem | States |
|---|---|
| `InvariantHolds` | the inductive invariant |
| `TypesHold` | types, and no sector overflows |
| `KeysAreUnique` | one item for a key in a sector |
| `OffsetIsCached` | the cached offset is the end of the write sector |
| `NothingIsLost` | an entry that is not at stake is in one of the sectors |
| `UpgradeIsComplete` | an upgrade copies every entry |
| `StoreIsImplemented` | norcow implements `KeyValueStore` |

The invariant has a clause for each value of `pc` (`PhaseInv`), i.e. for each write that may be the last one before a power
loss: what the operation has done so far, which sector `norcow_init` would find, and that it holds the entries that are not
at stake (`Safe`). The room that items take is a sum over them; lemmas of `NorcowInvariant` say what an append, a deletion
and a copy make of it. Their induction uses that a set of natural numbers has a least element (`LeastNumber`, from
`WFMin` of the library), which needs no operator as a parameter.

`StorageProofs` assumes that `PIN_MAX_TRIES` is a natural number, that applications do not use the keys of
`APP_STORAGE`, and the types of `Builds`, `Copies` and `HwKey`.

| Theorem | States |
|---|---|
| `Counted` | a wrong PIN is in the counter before it is tried, and stays there until the right one or a wipe, whenever power is lost |
| `Bounded` | at most `PIN_MAX_TRIES` wrong PINs are tried before a wipe begins |
| `KeysMatch` | between operations the keys in RAM are those of the EDEK, or none if the storage is locked |

The invariant follows an attempt through its steps. `Counting`: a write of the counter that is due either adds one to a
counter that can be read, or resets it when nothing is left to be counted; a PIN is tried only when the counter exceeds
the wrong PINs so far and is within the limit; once the right PIN was entered there are none. `Locking`: the writes of the
EDEK that are due all hold the cached keys, and while unlocked or about to be the EDEK holds them once they are done. A
counter or an EDEK that is torn or missing is covered, since the invariant speaks of entries that can be read. A sector
that an interrupted copy left can only come back in the middle of a wipe, when nothing is left to be counted.

The second part of the module is about the properties that hold until power is lost in the middle of an operation
(`NoLoss`), from the same assumptions.

| Theorem | States |
|---|---|
| `Faultless` | no consistency check fails: the fault handler is not entered |
| `TagIsCurrent` | between operations the tag covers the protected entries that are present |
| `LockVersionIsRight` | `get_lock_version` is the version whose scheme locked the keys, through upgrades as well |
| `HasPinIsRight` | `storage_has_pin` is right about the PIN that locks the EDEK |

An operation writes one entry at a time, so that in between the entries disagree and a check would fail. The invariant
`Lossless` is therefore about the entries as they will be when the writes in `todo` are done (`Settling`): those are always
consistent (`Stored`), i.e. EDEK, flag of the empty PIN, both versions, upgrade mark, tag and entries all belong to one
PIN, one secret and one version. The lemmas show what single writes and sequences of them leave, then there is one per
action. TLC checked `Lossless` on the instance of run `storage` before it was
proved.

Only model-checked:

* liveness, which is out of the prover's reach;
* everything about piggybacking on an open channel, and what TRANSPORT_BUSY does to the device's responses;
* the behaviour of an upgrade that does not find its room, beyond what `norcow_upgrade_full` shows;
* `TypeOK` of `Storage`, for which no proof was written.

## 5. Not modelled

* THP: the key exchange, ping and pong, codec v1, when retransmissions are due, autoconnection, `end_pairing`
  inside a channel, buffer lengths, what pairing methods do.
* THP in Python: the tasks of the read, write and retransmission loops, their mailboxes and preemption. They are coroutines
  on the event loop, whose order of wake-ups decides what can happen; they need a model of `loop.py` first.
* norcow: `norcow_next_counter`, `norcow_update_bytes`, `norcow_set` without a value, headers of other lengths.
* Storage: secure elements, public entries and counters, versions 0 to 2, a full storage. The PIN log is a count.
* The other parts in `PROJECT.json` with status `not_modelled`, each with its reason.

## 6. Plan

1. Storage: `PinLogs` (the words of the log, refining a counter), `NorcowCounter`, `norcow_update_bytes`; secure elements
   composed with `Storage`.
2. Firmware: `EventLoop` with workflows, then the loops of `InterfaceContext` and `Channel` on it, composed with
   `ThpContext`; `TsQueue`, `Ipc`, `PowerStates`, the application arena, SD card salt, recovery.
3. Proofs: the exchange with piggybacking and alternating applications.

Runs of the new modules use two actors, queues of two or three entries and counters of two or three bits.
