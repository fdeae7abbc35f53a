-------------------------------- MODULE Norcow --------------------------------
(***************************************************************************)
(* NORCOW, the copy-on-write key-value layer on NOR flash                  *)
(* (storage/norcow.c with norcow_bitwise.h or norcow_blockwise.h), and the *)
(* storage upgrade that runs on it (storage.c: storage_upgrade).           *)
(*                                                                         *)
(* A sector is a header and the items appended to it.  Each write to the   *)
(* flash is one step, so that power can be lost between any two of them.   *)
(* A byte of the bitwise flash and a block of the blockwise flash are both *)
(* one element, 1 when erased.  In flash written bit by bit a 1 can become *)
(* a 0 in place; flash with error correction is written once a block, and  *)
(* once more with zeros.  Offsets count from NORCOW_STORAGE_START.         *)
(***************************************************************************)
EXTENDS Naturals, Sequences

CONSTANTS
  Keys,          \* keys in use, neither NORCOW_KEY_FREE nor NORCOW_KEY_DELETED
  UpgradedKey,   \* STORAGE_UPGRADED_KEY
  TrueWord,      \* the value that marks an upgraded storage
  FalseWord,     \* and its complement
  MaxFirmware,   \* firmware versions are at most MaxFirmware
  Devices        \* the models of device to consider, each with
                 \*   blockwise: the flash is not FLASH_BIT_ACCESS
                 \*   size: room for items in a sector
                 \*   values: the values a client gives to each key, none empty
                 \*   firmware: the latest firmware version there is for it
                 \*   losses: bound on power losses while an operation is running

Deleted == "deleted"            \* NORCOW_KEY_DELETED

ASSUME KeysAssumption == UpgradedKey \in Keys /\ Deleted \notin Keys

ASSUME WordsAssumption == TrueWord \in Seq(0..1) /\ FalseWord \in Seq(0..1)

ASSUME DevicesAssumption ==
  /\ MaxFirmware \in Nat
  /\ \A m \in DOMAIN Devices :
       LET d == Devices[m]
       IN  /\ d.blockwise \in BOOLEAN
           /\ d.size \in Nat /\ d.losses \in Nat
           /\ d.firmware \in 1..MaxFirmware
           /\ d.values \in [Keys -> SUBSET Seq(0..1)]

VARIABLES
  model,      \* which of Devices the device is
  flash,      \* the sectors
  active,     \* norcow_active_sector
  write,      \* norcow_write_sector
  version,    \* norcow_active_version
  free,       \* norcow_free_offset
  firmware,   \* NORCOW_VERSION of the firmware that is installed
  pc,         \* the next step of the operation in progress
  local,      \* its arguments and local variables
  store,      \* the entries that norcow_get returned after the last operation
  at,         \* the keys that the operation in progress may change
  losses      \* power losses so far

nor == <<active, write, version, free>>
installed == <<model, firmware>>
ghost == <<store, at, losses>>
vars == <<installed, flash, nor, pc, local, ghost>>

device == Devices[model]
Sectors == 0..1
NoMagic == MaxFirmware + 1      \* a sector without NORCOW_MAGIC
NoValue == <<>>
Element == 0..1
Blank == [version |-> NoMagic, items |-> <<>>]

Labels == {"idle", "update", "delete", "zero", "room", "prefix", "data", "return",
           "erase", "magic", "version", "copy", "compacted", "wipeOthers", "wiped",
           "next", "finish", "upgraded", "failed", "fault", "off"}
Callers == {"none", "set", "delete", "wipe", "boot", "upgrade", "flag"}
Local == [key : Keys, val : Seq(Element), caller : Callers, ok : BOOLEAN,
          item : [key : Keys, val : Seq(Element)], copying : BOOLEAN,
          i : Nat, r : Nat,
          sector : Sectors, magic : BOOLEAN, then : Labels]
Quiet == [key |-> UpgradedKey, val |-> NoValue, caller |-> "none", ok |-> TRUE,
          item |-> [key |-> UpgradedKey, val |-> NoValue], copying |-> FALSE,
          i |-> 0, r |-> 0, sector |-> 0, magic |-> FALSE, then |-> "idle"]

(* The room that an item with value v takes, and that of all the items.    *)
Size(v) == IF device.blockwise /\ Len(v) = 1 THEN 1 ELSE 1 + Len(v)
Used(items) ==
  LET upTo[n \in 0..Len(items)] ==
        IF n = 0 THEN 0 ELSE upTo[n - 1] + Size(items[n].val)
  IN  upTo[Len(items)]

(* Every variable keeps its type, and no sector overflows.                 *)
TypeOK ==
  /\ \A s \in Sectors :
       /\ flash[s].version \in 0..NoMagic
       /\ flash[s].items \in Seq([key : Keys \cup {Deleted}, val : Seq(Element)])
       /\ Used(flash[s].items) <= device.size
  /\ active \in Sectors /\ write \in Sectors
  /\ version \in 0..MaxFirmware /\ free \in 0..device.size
  /\ model \in DOMAIN Devices /\ firmware \in 1..device.firmware
  /\ pc \in Labels /\ local \in Local
  /\ store \in [Keys -> Seq(Element)]
  /\ at \subseteq Keys
  /\ losses \in 0..device.losses

-------------------------------------------------------------------------------
(***************************************************************************)
(* Reading.                                                                *)
(***************************************************************************)

(* The first and the last of a set of positions.                           *)
First(S) == CHOOSE i \in S : \A j \in S : i <= j
Last(S) == CHOOSE i \in S : \A j \in S : i >= j

(* find_item: the last item with the key, 0 if there is none.              *)
FindItem(sector, key) ==
  IF sector.version = NoMagic
  THEN 0
  ELSE Last({0} \cup {j \in 1..Len(sector.items) : sector.items[j].key = key})

(* norcow_get *)
NorcowGet(sector, key) ==
  LET j == FindItem(sector, key)
  IN  IF j = 0 THEN NoValue ELSE sector.items[j].val

(* find_free_offset *)
FindFreeOffset(sector) == IF sector.version = NoMagic THEN 0 ELSE Used(sector.items)

(* What norcow_set wants free before it appends, which for small blockwise *)
(* items is more than write_item uses.                                     *)
Need(v) == 1 + Len(v)

-------------------------------------------------------------------------------
(***************************************************************************)
(* erase_sector: the sector is blank, then has a magic without a version   *)
(* (which reads as version 0), then both; the last two are one write on    *)
(* blockwise flash.                                                        *)
(***************************************************************************)
CallErase(loc, sector, magic, then) ==
  /\ local' = [loc EXCEPT !.sector = sector, !.magic = magic, !.then = then]
  /\ pc' = "erase"

EraseSector ==
  /\ pc = "erase"
  /\ flash' = [flash EXCEPT ![local.sector] = Blank]
  /\ pc' = IF local.magic THEN "magic" ELSE local.then
  /\ UNCHANGED <<nor, installed, local, ghost>>

WriteMagic ==
  /\ pc = "magic"
  /\ flash' = [flash EXCEPT ![local.sector].version = IF device.blockwise THEN firmware ELSE 0]
  /\ pc' = IF device.blockwise THEN local.then ELSE "version"
  /\ UNCHANGED <<nor, installed, local, ghost>>

WriteVersion ==
  /\ pc = "version"
  /\ flash' = [flash EXCEPT ![local.sector].version = firmware]
  /\ pc' = local.then
  /\ UNCHANGED <<nor, installed, local, ghost>>

-------------------------------------------------------------------------------
(***************************************************************************)
(* write_item: the prefix, then the data; a small blockwise item is a      *)
(* single write.  It is called by norcow_set_ex for the new item and by    *)
(* compact for each item it copies.                                        *)
(***************************************************************************)
CallWrite(loc, item, copying) ==
  /\ local' = [loc EXCEPT !.item = item, !.copying = copying, !.i = 1]
  /\ pc' = "prefix"

MutantFits(offset, v) == offset + Len(v) <= device.size
Fits(offset, v) == offset + Size(v) <= device.size

Erased(v) == [n \in 1..Len(v) |-> 1]
Atomic(v) == device.blockwise /\ Len(v) = 1

(* The caller goes on when the item is complete.                           *)
Written ==
  IF local.copying
  THEN pc' = "copy" /\ UNCHANGED <<free, local>>
  ELSE /\ free' = free + Size(local.item.val)
       /\ local' = [local EXCEPT !.ok = TRUE]
       /\ pc' = "return"

WritePrefix ==
  LET v == local.item.val
      offset == IF local.copying THEN FindFreeOffset(flash[write]) ELSE free
  IN  /\ pc = "prefix"
      /\ \/ /\ ~Fits(offset, v)
            /\ pc' = IF local.copying THEN "fault" ELSE "return"
            /\ local' = [local EXCEPT !.ok = FALSE]
            /\ UNCHANGED <<flash, free>>
         \/ /\ Fits(offset, v)
            /\ flash' = [flash EXCEPT ![write].items =
                 Append(@, [local.item EXCEPT !.val = IF Atomic(v) THEN v ELSE Erased(v)])]
            /\ IF Atomic(v) THEN Written ELSE pc' = "data" /\ UNCHANGED <<free, local>>
      /\ UNCHANGED <<active, write, version, installed, ghost>>

WriteData ==
  LET v == local.item.val
      last == Len(flash[write].items)
  IN  /\ pc = "data"
      /\ flash' = [flash EXCEPT ![write].items[last].val[local.i] = v[local.i]]
      /\ IF local.i = Len(v)
         THEN Written
         ELSE /\ local' = [local EXCEPT !.i = @ + 1]
              /\ UNCHANGED <<pc, free>>
      /\ UNCHANGED <<active, write, version, installed, ghost>>

-------------------------------------------------------------------------------
(***************************************************************************)
(* norcow_delete_item: bit by bit, the key first and then the data; a      *)
(* large blockwise item counts as deleted when its last block, with the    *)
(* flag, is zero.                                                          *)
(***************************************************************************)
Zeroed(v) == [n \in 1..Len(v) |-> 0]
AfterDelete == IF local.caller = "delete" THEN "return" ELSE "room"

DeleteItem ==
  LET j == FindItem(flash[write], local.key)
      v == flash[write].items[j].val
  IN  /\ pc = "delete"
      /\ \/ /\ ~device.blockwise
            /\ flash' = [flash EXCEPT ![write].items[j].key = Deleted]
            /\ local' = [local EXCEPT !.i = j]
            /\ pc' = "zero"
         \/ /\ Atomic(v)
            /\ flash' = [flash EXCEPT ![write].items[j] = [key |-> Deleted, val |-> Zeroed(v)]]
            /\ pc' = AfterDelete
            /\ UNCHANGED local
         \/ /\ device.blockwise /\ ~Atomic(v)
            /\ flash' = [flash EXCEPT ![write].items[j].val[1] = 0]
            /\ local' = [local EXCEPT !.i = 2]
            /\ pc' = "zero"
      /\ UNCHANGED <<nor, installed, ghost>>

DeleteData ==
  /\ pc = "zero"
  /\ IF ~device.blockwise
     THEN /\ flash' = [flash EXCEPT ![write].items[local.i].val = Zeroed(@)]
          /\ pc' = AfterDelete
          /\ UNCHANGED local
     ELSE LET j == FindItem(flash[write], local.key)
              last == Len(flash[write].items[j].val)
          IN  /\ flash' = [flash EXCEPT ![write].items[j] =
                             [key |-> IF local.i = last THEN Deleted ELSE @.key,
                              val |-> [@.val EXCEPT ![local.i] = 0]]]
              /\ pc' = IF local.i = last THEN AfterDelete ELSE "zero"
              /\ local' = [local EXCEPT !.i = @ + 1]
  /\ UNCHANGED <<nor, installed, ghost>>

-------------------------------------------------------------------------------
(***************************************************************************)
(* norcow_set_ex: update in place if the flash allows, else delete the old *)
(* item, make room, append the new one.                                    *)
(***************************************************************************)
MutantFirstStep(key, val) ==
  LET old == NorcowGet(flash[write], key)
      fits == FindItem(flash[write], key) # 0 /\ Len(old) = Len(val)
  IN  CASE ~fits                     -> "room"
        [] fits /\ ~device.blockwise -> "update"
        [] fits /\ device.blockwise  -> IF old = val THEN "return" ELSE "delete"

FirstStep(key, val) ==
  LET found == FindItem(flash[write], key) # 0
      old == NorcowGet(flash[write], key)
      fits == found /\ Len(old) = Len(val)
  IN  CASE ~found                    -> "room"
        [] found /\ ~fits            -> "delete"
        [] fits /\ ~device.blockwise -> "update"
        [] fits /\ device.blockwise  -> IF old = val THEN "return" ELSE "delete"

CallSet(loc, key, val, caller) ==
  /\ local' = [loc EXCEPT !.key = key, !.val = val, !.caller = caller,
                          !.i = 1, !.ok = TRUE]
  /\ pc' = FirstStep(key, val)

NorcowSet(key, val) ==
  /\ pc = "idle"
  /\ CallSet(local, key, val, "set")
  /\ at' = {key}
  /\ UNCHANGED <<flash, nor, installed, store, losses>>

(* flash_area_write_bytes: byte by byte until one would have to set a bit. *)
UpdateByte ==
  LET j == FindItem(flash[write], local.key)
      i == local.i
  IN  /\ pc = "update"
      /\ IF local.val[i] <= flash[write].items[j].val[i]
         THEN /\ flash' = [flash EXCEPT ![write].items[j].val[i] = local.val[i]]
              /\ pc' = IF i = Len(local.val) THEN "return" ELSE "update"
              /\ local' = [local EXCEPT !.i = @ + 1]
         ELSE pc' = "delete" /\ UNCHANGED <<flash, local>>
      /\ UNCHANGED <<nor, installed, ghost>>

(* "Check whether there is enough free space and compact if full."         *)
EnsureRoom ==
  /\ pc = "room"
  /\ IF free + Need(local.val) > device.size /\ flash[active].version # NoMagic
     THEN /\ write' = 1 - active
          /\ CallErase([local EXCEPT !.r = 1], 1 - active, TRUE, "copy")
     ELSE /\ CallWrite(local, [key |-> local.key, val |-> local.val], FALSE)
          /\ UNCHANGED write
  /\ UNCHANGED <<flash, active, version, free, installed, ghost>>

(* compact: copies what is not deleted, then erases the source.            *)
Live(sector) == {j \in DOMAIN sector.items : sector.items[j].key # Deleted}

MutantUnread(sector) == {j \in Live(sector) : j > local.r}
Unread(sector) == {j \in Live(sector) : j >= local.r}

CopyNext ==
  LET rest == Unread(flash[active])
  IN  /\ pc = "copy"
      /\ IF rest = {}
         THEN CallErase(local, active, FALSE, "compacted")
         ELSE CallWrite([local EXCEPT !.r = First(rest) + 1],
                        flash[active].items[First(rest)], TRUE)
      /\ UNCHANGED <<flash, nor, installed, ghost>>

MutantCompacted ==
  /\ pc = "compacted"
  /\ active' = write
  /\ version' = firmware
  /\ CallWrite(local, [key |-> local.key, val |-> local.val], FALSE)
  /\ UNCHANGED <<flash, write, free, installed, ghost>>

Compacted ==
  /\ pc = "compacted"
  /\ active' = write
  /\ version' = firmware
  /\ free' = FindFreeOffset(flash[write])
  /\ CallWrite(local, [key |-> local.key, val |-> local.val], FALSE)
  /\ UNCHANGED <<flash, write, installed, ghost>>

-------------------------------------------------------------------------------
(* norcow_delete *)
NorcowDelete(key) ==
  /\ pc = "idle"
  /\ FindItem(flash[write], key) # 0
  /\ local' = [local EXCEPT !.key = key, !.val = NoValue, !.caller = "delete", !.ok = TRUE]
  /\ pc' = "delete"
  /\ at' = {key}
  /\ UNCHANGED <<flash, nor, installed, store, losses>>

(* norcow_wipe: "Erase the active sector first, because it contains        *)
(* sensitive data."                                                        *)
CallWipe(loc, sector) == CallErase(loc, sector, TRUE, "wipeOthers")

NorcowWipe ==
  /\ pc = "idle"
  /\ CallWipe([local EXCEPT !.caller = "wipe", !.ok = TRUE], active)
  /\ at' = Keys
  /\ UNCHANGED <<flash, nor, installed, store, losses>>

WipeOthers ==
  /\ pc = "wipeOthers"
  /\ CallErase(local, 1 - active, FALSE, "wiped")
  /\ UNCHANGED <<flash, nor, installed, ghost>>

Wiped ==
  /\ pc = "wiped"
  /\ version' = firmware
  /\ write' = active
  /\ free' = 0
  /\ pc' = IF local.caller = "upgrade" THEN "fault" ELSE "return"
  /\ UNCHANGED <<flash, active, installed, local, ghost>>

-------------------------------------------------------------------------------
(***************************************************************************)
(* norcow_init: the sector with the highest version, the later one of two  *)
(* with the same version.                                                  *)
(***************************************************************************)
WithMagic == {s \in Sectors : flash[s].version # NoMagic}

MutantDetected ==
  First({s \in WithMagic : \A t \in WithMagic : flash[t].version <= flash[s].version})

Detected ==
  Last({s \in WithMagic : \A t \in WithMagic : flash[t].version <= flash[s].version})

(* norcow_active_version keeps what find_start_offset read last, which may *)
(* be the version of the other sector.                                     *)
Scanned == flash[Last(WithMagic)].version

MutantBeginUpgrade(loc) ==
  /\ active' = Detected
  /\ version' = Scanned
  /\ write' = 1 - Detected
  /\ free' = FindFreeOffset(flash[Detected])
  /\ CallErase([loc EXCEPT !.r = 1], 1 - Detected, TRUE, "next")
  /\ at' = at \cup {UpgradedKey}

(* norcow_init on a sector of an older firmware: it stays active, and the  *)
(* other sector is erased and written from its start.                      *)
BeginUpgrade(loc) ==
  /\ active' = Detected
  /\ version' = Scanned
  /\ write' = 1 - Detected
  /\ free' = 0
  /\ CallErase([loc EXCEPT !.r = 1], 1 - Detected, TRUE, "next")
  /\ at' = at \cup {UpgradedKey}

NorcowInit ==
  /\ pc = "off"
  /\ LET loc == [local EXCEPT !.caller = "boot", !.ok = TRUE]
     IN  CASE WithMagic = {} ->
                /\ active' = 0
                /\ CallWipe(loc, 0)
                /\ at' = Keys
                /\ UNCHANGED <<write, version, free>>
           [] WithMagic # {} /\ flash[Detected].version > firmware ->
                /\ active' = Detected
                /\ version' = Scanned
                /\ CallWipe(loc, Detected)
                /\ at' = Keys
                /\ UNCHANGED <<write, free>>
           [] WithMagic # {} /\ flash[Detected].version < firmware ->
                BeginUpgrade(loc)
           [] WithMagic # {} /\ flash[Detected].version = firmware ->
                /\ active' = Detected
                /\ version' = Scanned
                /\ write' = Detected
                /\ free' = FindFreeOffset(flash[Detected])
                /\ pc' = "return"
                /\ local' = loc
                /\ UNCHANGED at
  /\ UNCHANGED <<flash, installed, store, losses>>

-------------------------------------------------------------------------------
(***************************************************************************)
(* storage_upgrade: each entry that norcow_get_next finds is set in the    *)
(* write sector, then the upgrade is marked and the old sector erased.  A  *)
(* copy that fails wipes the storage.  Should norcow_set compact in the    *)
(* middle of the loop, the write sector is full and that copy fails, so    *)
(* the loop never reads on in another sector.                              *)
(***************************************************************************)

(* norcow_get_next: in version 0 an item may have newer instances.         *)
Latest(sector, j) ==
  version = 0 => \A n \in Live(sector) : n > j => sector.items[n].key # sector.items[j].key

MutantAdvanced(j) == j
Advanced(j) == j + 1

UpgradeNext ==
  LET old == flash[active]
      rest == {j \in Unread(old) : Latest(old, j)}
      j == First(rest)
  IN  /\ pc = "next"
      /\ IF rest # {}
         THEN CallSet([local EXCEPT !.r = Advanced(j)], old.items[j].key, old.items[j].val, "upgrade")
         ELSE CallSet(local, UpgradedKey, IF old.version = 0 THEN FalseWord ELSE TrueWord, "flag")
      /\ UNCHANGED <<flash, nor, installed, ghost>>

UpgradeFailed ==
  /\ pc = "failed"
  /\ CallWipe(local, active)
  /\ at' = Keys
  /\ UNCHANGED <<flash, nor, installed, store, losses>>

(* norcow_upgrade_finish *)
UpgradeFinish ==
  /\ pc = "finish"
  /\ version' = firmware
  /\ CallErase(local, active, FALSE, "upgraded")
  /\ UNCHANGED <<flash, active, write, free, installed, ghost>>

Upgraded ==
  /\ pc = "upgraded"
  /\ active' = write
  /\ version' = firmware
  /\ pc' = "return"
  /\ local' = [local EXCEPT !.caller = "boot"]
  /\ UNCHANGED <<flash, write, free, installed, ghost>>

-------------------------------------------------------------------------------
(* An operation returns to its caller.  The result of marking the upgrade  *)
(* is ignored.                                                             *)
Return ==
  /\ pc = "return"
  /\ CASE local.caller = "upgrade" ->
            /\ pc' = IF local.ok THEN "next" ELSE "failed"
            /\ UNCHANGED <<local, store, at>>
       [] local.caller = "flag" ->
            /\ pc' = "finish"
            /\ UNCHANGED <<local, store, at>>
       [] OTHER ->
            /\ pc' = "idle"
            /\ local' = Quiet
            /\ store' = [k \in Keys |-> NorcowGet(flash[active], k)]
            /\ at' = {}
  /\ UNCHANGED <<flash, nor, installed, losses>>

(* Without power the variables in RAM are lost.                            *)
Off ==
  /\ pc' = "off"
  /\ local' = Quiet
  /\ active' = 0 /\ write' = 0 /\ version' = 0 /\ free' = 0

(* ensure() failed, or the upgrade did: the device shows an error and      *)
(* turns itself off.                                                       *)
Fault ==
  /\ pc = "fault"
  /\ Off
  /\ at' = Keys
  /\ UNCHANGED <<flash, installed, store, losses>>

-------------------------------------------------------------------------------
(***************************************************************************)
(* Power.  AtRisk says at which moments a power loss endangers the whole   *)
(* storage: while a new sector of a higher version is filled, and while    *)
(* sector 1 is filled from sector 0, because norcow_init then prefers the  *)
(* new sector to the complete old one.                                     *)
(***************************************************************************)
Copying == \/ pc = "copy"
           \/ (pc \in {"prefix", "data"} /\ local.copying)
Filling == \/ pc = "next"
           \/ local.caller \in {"upgrade", "flag"} /\ pc # "finish" /\ local.then # "upgraded"

AtRisk == Filling \/ (Copying /\ active = 0)

PowerLoss ==
  /\ pc \notin {"idle", "off", "fault"}
  /\ losses < device.losses
  /\ losses' = losses + 1
  /\ Off
  /\ at' = IF AtRisk THEN Keys ELSE at
  /\ UNCHANGED <<flash, installed, store>>

TurnOff ==
  /\ pc = "idle"
  /\ Off
  /\ UNCHANGED <<flash, installed, ghost>>

InstallFirmware(f) ==
  /\ pc = "off"
  /\ firmware' = f
  /\ UNCHANGED <<model, flash, nor, pc, local, ghost>>

Init ==
  /\ model \in DOMAIN Devices
  /\ firmware = 1
  /\ flash = [s \in Sectors |-> IF s = 0 THEN [Blank EXCEPT !.version = 1] ELSE Blank]
  /\ active = 0 /\ write = 0 /\ version = 1 /\ free = 0
  /\ pc = "idle"
  /\ local = Quiet
  /\ store = [k \in Keys |-> NoValue]
  /\ at = {}
  /\ losses = 0

Step ==
  \/ EraseSector \/ WriteMagic \/ WriteVersion
  \/ WritePrefix \/ WriteData
  \/ DeleteItem \/ DeleteData
  \/ UpdateByte \/ EnsureRoom \/ CopyNext \/ Compacted
  \/ WipeOthers \/ Wiped
  \/ UpgradeNext \/ UpgradeFailed \/ UpgradeFinish \/ Upgraded
  \/ Return \/ Fault \/ NorcowInit

Next ==
  \/ Step
  \/ \E k \in Keys : NorcowDelete(k) \/ \E v \in device.values[k] : NorcowSet(k, v)
  \/ NorcowWipe
  \/ PowerLoss \/ TurnOff
  \/ \E f \in 1..device.firmware : InstallFirmware(f)

Spec == Init /\ [][Next]_vars

(* The processor runs the operation it started.                            *)
FairSpec == Spec /\ WF_vars(Step)

-------------------------------------------------------------------------------
(***************************************************************************)
(* Properties.                                                             *)
(***************************************************************************)

Up == pc # "off" /\ local.caller \notin {"boot", "upgrade", "flag"}

(* NORCOW is a key-value store: norcow_set, norcow_delete and norcow_wipe  *)
(* change the entries they should and no other, through any number of      *)
(* compactions, restarts and firmware upgrades, and a power loss outside   *)
(* the windows of AtRisk changes at most the entry being written.          *)
KV == INSTANCE KeyValueStore WITH
  Stored <- Seq(Element),
  wanted <- IF Up /\ at # {} THEN local.val ELSE NoValue,
  up <- Up

ImplementsStore == KV!Spec

(* norcow_get_next of storage versions above 0 returns every item that is  *)
(* not deleted, without looking for newer instances: no sector ever holds  *)
(* two items of one key, whenever power was lost.                          *)
UniqueKeys ==
  \A s \in Sectors : \A m, n \in Live(flash[s]) :
    flash[s].items[m].key = flash[s].items[n].key => m = n

(* norcow_free_offset is where find_free_offset would find the end of the  *)
(* write sector, whichever path the last operation took.                   *)
CachedOffset == pc = "idle" => free = FindFreeOffset(flash[write])

(* compact erases its source only when the copy is complete: in every      *)
(* state each entry that is not at stake can be read from some sector.     *)
NothingLost ==
  \A k \in Keys \ at : \E s \in Sectors : NorcowGet(flash[s], k) = store[k]

(* "Copy all entries." (storage.c:2046): when an upgrade is finished the   *)
(* new sector has every entry of the old one.                              *)
UpgradeCopiesAll ==
  pc = "upgraded" =>
    \A k \in Keys \ at : NorcowGet(flash[write], k) = store[k]

(* While an upgrade copies, the new sector has the room that norcow_set_ex *)
(* asks for, so that it does not call compact, which would start the new   *)
(* sector over.                                                            *)
RoomToUpgrade ==
  pc = "room" /\ local.caller \in {"upgrade", "flag"} => ~(free + Need(local.val) > device.size)

(* Every operation ends, and a device that lost power comes back.          *)
AlwaysBack == []<>(pc = "idle")
===============================================================================
