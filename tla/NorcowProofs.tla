----------------------------- MODULE NorcowProofs -----------------------------
(***************************************************************************)
(* The theorems about NORCOW: the inductive invariant, the properties it   *)
(* gives, and the refinement of KeyValueStore.  They hold for any keys,    *)
(* values, devices, sector sizes, firmware versions and number of power    *)
(* losses.                                                                 *)
(*                                                                         *)
(* The theorems assume RoomToUpgrade at all times, and nothing else about  *)
(* the behaviour: an upgrade that does not find the room compacts, and     *)
(* loses the entries that it has not copied.                               *)
(***************************************************************************)
EXTENDS NorcowOperations, NorcowMaintenance

USE Zenon

-------------------------------------------------------------------------------
(* A new device satisfies the invariant.                                   *)
LEMMA InitInv ==
  ASSUME Init
  PROVE  Inv
<1> DEFINE S0 == [Blank EXCEPT !.version = 1]
<1>1. /\ model \in DOMAIN Devices /\ firmware = 1 /\ active = 0 /\ write = 0 /\ version = 1 /\ free = 0
      /\ pc = "idle" /\ local = Quiet /\ store = [k \in Keys |-> NoValue] /\ at = {} /\ losses = 0
      /\ flash = [s \in Sectors |-> IF s = 0 THEN S0 ELSE Blank]
  BY DEF Init
<1>2. /\ device.size \in Nat /\ device.losses \in Nat /\ device.firmware \in 1..MaxFirmware
      /\ MaxFirmware \in Nat
  BY <1>1, DevicesAssumption DEF device
<1>3. /\ 0 \in Sectors /\ 1 \in Sectors /\ Sectors = {0, 1} /\ 1 - 0 = 1 /\ 1 \in 0..MaxFirmware
      /\ 0 \in 0..device.size /\ 1 \in 1..device.firmware /\ 0 \in 0..device.losses
      /\ 1 # NoMagic /\ 1 \in 0..NoMagic /\ 0 # 1 /\ NoMagic \in 0..NoMagic
  BY <1>2, SMT DEF Sectors, NoMagic
<1>4. <<>> \in Seq(Item) /\ <<>> \in Seq(Element)
  BY SeqEmpty
<1>5. S0 \in Sector /\ S0.version = 1 /\ S0.items = <<>> /\ Blank \in Sector /\ Blank.version = NoMagic /\ Blank.items = <<>>
  BY <1>3, <1>4 DEF Blank, Sector
<1> HIDE DEF S0
<1>6. flash \in [Sectors -> Sector] /\ flash[0] = S0 /\ flash[1] = Blank
  BY <1>1, <1>3, <1>5
<1>7. store \in [Keys -> Seq(Element)]
  BY <1>1, <1>4 DEF NoValue
<1>8. TypeInv
  BY <1>1, <1>3, <1>6, <1>7, QuietType DEF TypeInv, Labels
<1>9. ASSUME NEW s \in Sectors
      PROVE  flash[s] \in Sector /\ flash[s].items = <<>> /\ OneEach(flash[s]) /\ Room(device.blockwise, flash[s].items) = 0
  <2>1. flash[s] \in Sector /\ flash[s].items = <<>>
    BY <1>3, <1>5, <1>6
  <2> QED
    BY <2>1, EmptySector
<1>10. 0 <= device.size
  BY <1>2, SMT
<1>11. SectorInv
  BY <1>9, <1>10 DEF SectorInv
<1>12. Preferred(0)
  BY <1>3, <1>5, <1>6 DEF Preferred
<1>13. Holds(0)
  <2>1. \A k \in Keys : NorcowGet(flash[0], k) = NoValue
    BY <1>3, <1>9, EmptySector
  <2> QED
    BY <1>1, <2>1 DEF Holds
<1>14. InPlace
  BY <1>1, <1>5, <1>6, <1>12, <1>13 DEF InPlace
<1>15. Tracked
  BY <1>1, <1>3, <1>9 DEF Tracked
<1> QED
  BY <1>1, <1>8, <1>11, <1>14, <1>15 DEF Inv, PhaseInv, Quiet

(* A step that changes nothing keeps it.                                   *)
LEMMA Stutter ==
  ASSUME Inv, UNCHANGED vars
  PROVE  Inv'
<1>1. /\ flash' = flash /\ Rest /\ pc' = pc /\ local' = local /\ active' = active /\ write' = write
      /\ version' = version /\ free' = free /\ model' = model /\ firmware' = firmware
      /\ store' = store /\ at' = at /\ losses' = losses
  BY DEF vars, nor, installed, ghost, Rest
<1>2. TypeInv' /\ SectorInv'
  <2>1. StillFlash
    BY <1>1 DEF StillFlash, Inv, TypeInv
  <2> QED
    BY <2>1, StillTyped DEF Inv
<1>3. Setting' = Setting /\ InPlace' = InPlace /\ Moving' = Moving /\ Compacting' = Compacting
      /\ Compact' = Compact /\ Moved' = Moved /\ Emptied' = Emptied /\ Wiping' = Wiping
      /\ Tracked' = Tracked /\ Filled' = Filled
  <2>1. \A s : (Preferred(s))' = Preferred(s) /\ (Holds(s))' = Holds(s)
    BY <1>1 DEF Preferred, Holds
  <2>2. Tracked' = Tracked /\ Filled' = Filled
    BY <1>1 DEF Tracked, Filled, device
  <2>3. InPlace' = InPlace
    BY <1>1, <2>1 DEF InPlace
  <2>4. Moving' = Moving
    BY <1>1, <2>1 DEF Moving
  <2>5. Compacting' = Compacting
    BY <1>1, <2>1 DEF Compacting
  <2>6. Compact' = Compact
    BY <1>1, <2>1, <2>2 DEF Compact
  <2>7. Moved' = Moved
    BY <1>1, <2>1, <2>2 DEF Moved
  <2>8. Wiping' = Wiping
    BY <1>1 DEF Wiping
  <2>9. Emptied' = Emptied
    BY <1>1, <2>8 DEF Emptied
  <2>10. InLoop' = InLoop
    BY <1>1, <2>2, <2>4 DEF InLoop
  <2>11. Setting' = Setting
    BY <1>1, <2>3, <2>10 DEF Setting
  <2> QED
    BY <2>2, <2>3, <2>4, <2>5, <2>6, <2>7, <2>8, <2>9, <2>11
<1>4. \A s : (Safe(s))' = Safe(s) /\ (Preferred(s))' = Preferred(s) /\ (Holds(s))' = Holds(s)
  BY <1>1 DEF Safe, Preferred, Holds
<1>5. EraseInv' = EraseInv /\ NextInv' = NextInv /\ ReturnInv' = ReturnInv
  <2>1. EraseInv' = EraseInv
    BY <1>1, <1>3, <1>4 DEF EraseInv
  <2>2. NextInv' = NextInv
    BY <1>1, <1>3 DEF NextInv
  <2>3. ReturnInv' = ReturnInv
    BY <1>1, <1>3 DEF ReturnInv, Result
  <2> QED
    BY <2>1, <2>2, <2>3
<1>6. UpdateInv' = UpdateInv /\ DeleteInv' = DeleteInv /\ ZeroInv' = ZeroInv /\ RoomInv' = RoomInv
  BY <1>1, <1>3 DEF UpdateInv, DeleteInv, ZeroInv, RoomInv, Found, FoundVal, device
<1>7. PrefixInv' = PrefixInv /\ DataInv' = DataInv
  <2>1. Adding' = Adding /\ CopyingItem' = CopyingItem
    BY <1>1, <1>3 DEF Adding, CopyingItem
  <2>2. PrefixInv' = PrefixInv
    BY <1>1, <1>3, <2>1 DEF PrefixInv
  <2>3. LastItem' = LastItem /\ device' = device
    BY <1>1 DEF LastItem, device
  <2>4. DataInv' = DataInv
    BY <1>1, <2>1, <2>3 DEF DataInv
  <2> QED
    BY <2>2, <2>4
<1>8. PhaseInv'
  <2>1. PhaseInv
    BY DEF Inv
  <2>2. /\ (pc' = "idle" => local' = Quiet /\ at' = {} /\ InPlace' /\ Tracked')
        /\ (pc' = "off" => local' = Quiet /\ \E s \in Sectors : (Safe(s))')
        /\ (pc' = "update" => UpdateInv') /\ (pc' = "delete" => DeleteInv') /\ (pc' = "zero" => ZeroInv')
        /\ (pc' = "room" => RoomInv') /\ (pc' = "prefix" => PrefixInv') /\ (pc' = "data" => DataInv')
        /\ (pc' = "return" => ReturnInv') /\ (pc' = "erase" => EraseInv')
    BY <1>1, <1>3, <1>4, <1>5, <1>6, <1>7, <2>1 DEF PhaseInv
  <2>3. /\ (pc' = "magic" => EraseInv' /\ local'.magic /\ flash'[local'.sector] = Blank)
        /\ (pc' = "version" => EraseInv' /\ local'.magic /\ flash'[local'.sector] = [Blank EXCEPT !.version = 0])
        /\ (pc' = "copy" => Compacting' /\ Filled' /\ Entries(flash'[write']) = Taken(flash'[active'], local'.r))
        /\ (pc' = "compacted" => Compact' /\ flash'[active'] = Blank)
        /\ (pc' = "wipeOthers" => Emptied')
        /\ (pc' = "wiped" => Emptied' /\ flash'[1 - active'] = Blank)
    BY <1>1, <1>3, <1>5, <2>1 DEF PhaseInv
  <2>4. /\ (pc' = "next" => NextInv') /\ (pc' = "finish" => Moved')
        /\ (pc' = "upgraded" => Moved' /\ flash'[active'] = Blank)
        /\ (pc' = "failed" => Moving' /\ local'.caller = "upgrade" /\ local'.then = "next")
        /\ (pc' = "fault" => at' = Keys \/ Holds(active)')
    BY <1>1, <1>3, <1>4, <1>5, <2>1 DEF PhaseInv
  <2> QED
    BY <2>2, <2>3, <2>4 DEF PhaseInv
<1> QED
  BY <1>2, <1>8 DEF Inv

(* Every step of the storage keeps the invariant, provided that an upgrade *)
(* has the room it needs.                                                  *)
LEMMA StepInv ==
  ASSUME Inv, RoomToUpgrade, [Next]_vars
  PROVE  Inv'
<1>1. CASE UNCHANGED vars
  BY <1>1, Stutter
<1>2. CASE Step
  BY <1>2, EraseSectorInv, WriteMagicInv, WriteVersionInv, WritePrefixInv, WriteDataInv, DeleteItemInv,
     DeleteDataInv, UpdateByteInv, EnsureRoomInv, CopyNextInv, CompactedInv, WipeOthersInv, WipedInv,
     UpgradeNextInv, UpgradeFailedInv, UpgradeFinishInv, UpgradedInv, ReturnInvKept, FaultInv,
     NorcowInitInv DEF Step
<1>3. ASSUME NEW k \in Keys, NorcowDelete(k) \/ \E v \in device.values[k] : NorcowSet(k, v) PROVE Inv'
  BY <1>3, NorcowDeleteInv, NorcowSetInv
<1>4. CASE NorcowWipe \/ PowerLoss \/ TurnOff
  BY <1>4, NorcowWipeInv, PowerLossInv, TurnOffInv
<1>5. ASSUME NEW f \in 1..device.firmware, InstallFirmware(f) PROVE Inv'
  BY <1>5, InstallFirmwareInv
<1> QED
  BY <1>1, <1>2, <1>3, <1>4, <1>5 DEF Next

-------------------------------------------------------------------------------
(* The invariant gives each of the properties.                             *)
LEMMA InvType ==
  ASSUME Inv
  PROVE  TypeOK
<1>1. TypeInv /\ SectorInv
  BY DEF Inv
<1>2. ASSUME NEW s \in Sectors
      PROVE  /\ flash[s].version \in 0..NoMagic
             /\ flash[s].items \in Seq([key : Keys \cup {Deleted}, val : Seq(Element)])
             /\ Used(flash[s].items) <= device.size
  <2>1. flash[s] \in Sector /\ Room(device.blockwise, flash[s].items) <= device.size
    BY <1>1, FlashType DEF SectorInv
  <2>2. flash[s].version \in 0..NoMagic /\ flash[s].items \in Seq(Item)
    BY <2>1, SectorType
  <2> QED
    BY <2>1, <2>2, UsedIsRoom DEF Item
<1> QED
  BY <1>1, <1>2 DEF TypeInv, TypeOK

(* UniqueKeys is a part of the invariant.                                  *)
LEMMA InvUnique ==
  ASSUME Inv
  PROVE  UniqueKeys
  BY DEF Inv, SectorInv, OneEach, UniqueKeys

(* CachedOffset is what Tracked says between two operations.               *)
LEMMA InvCached ==
  ASSUME Inv
  PROVE  CachedOffset
<1>1. ASSUME pc = "idle" PROVE free = FindFreeOffset(flash[write])
  <2>1. Tracked /\ flash[write].version # NoMagic
    BY <1>1, IdleFacts
  <2> QED
    BY <2>1, UsedIsRoom DEF Tracked, FindFreeOffset
<1> QED
  BY <1>1 DEF CachedOffset

(* UpgradeCopiesAll is what Moved says before norcow_upgrade_finish.       *)
LEMMA InvCopied ==
  ASSUME Inv
  PROVE  UpgradeCopiesAll
  BY DEF Inv, PhaseInv, Moved, Holds, UpgradeCopiesAll

(* At every label some sector has every entry that is not at stake.        *)
LEMMA SomeSectorHolds ==
  ASSUME Inv
  PROVE  at = Keys \/ \E s \in Sectors : Holds(s)
<1>1. TypeInv /\ PhaseInv /\ pc \in Labels /\ active \in Sectors /\ write \in Sectors
  BY DEF Inv, TypeInv
<1>2. ASSUME Setting PROVE Holds(active)
  BY <1>2 DEF Setting, Setters, InPlace, InLoop, Moving
<1>3. CASE pc \in {"update", "delete", "zero", "room"}
  <2>1. Setting
    BY <1>1, <1>3 DEF PhaseInv, UpdateInv, DeleteInv, ZeroInv, RoomInv
  <2> QED
    BY <1>1, <1>2, <2>1
<1>4. CASE pc \in {"prefix", "data"}
  <2>1. IF local.copying THEN CopyingItem ELSE Adding
    BY <1>1, <1>4 DEF PhaseInv, PrefixInv, DataInv
  <2>2. Holds(active)
    BY <1>2, <2>1 DEF CopyingItem, Compacting, Adding
  <2> QED
    BY <1>1, <2>2
<1>5. CASE pc = "return"
  <2>1. ReturnInv
    BY <1>1, <1>5 DEF PhaseInv
  <2>2. Holds(active)
    BY <1>2, <2>1 DEF ReturnInv, InPlace
  <2> QED
    BY <1>1, <2>2
<1>6. CASE pc \in {"erase", "magic", "version"}
  <2>1. EraseInv
    BY <1>1, <1>6 DEF PhaseInv
  <2> QED
    BY <1>1, <2>1, EraseSafe DEF Safe
<1>7. CASE pc \in {"idle", "copy", "next", "failed", "fault"}
  <2>1. at = Keys \/ Holds(active)
    BY <1>1, <1>7 DEF PhaseInv, InPlace, Compacting, NextInv, Moving
  <2> QED
    BY <1>1, <2>1
<1>8. CASE pc \in {"compacted", "finish", "upgraded"}
  <2>1. Holds(write)
    BY <1>1, <1>8 DEF PhaseInv, Compact, Moved
  <2> QED
    BY <1>1, <2>1
<1>9. CASE pc \in {"wipeOthers", "wiped"}
  BY <1>1, <1>9 DEF PhaseInv, Emptied, Wiping
<1>10. CASE pc = "off"
  BY <1>1, <1>10 DEF PhaseInv, Safe
<1> QED
  BY <1>1, <1>3, <1>4, <1>5, <1>6, <1>7, <1>8, <1>9, <1>10 DEF Labels

(* And so nothing is lost.                                                 *)
LEMMA InvNothingLost ==
  ASSUME Inv
  PROVE  NothingLost
  BY SomeSectorHolds DEF NothingLost, Holds

(***************************************************************************)
(* Theorems.                                                               *)
(***************************************************************************)

(* Every state of NORCOW satisfies Inv, as long as no upgrade has to       *)
(* compact the sector that it fills.                                       *)
THEOREM InvariantHolds == Spec /\ []RoomToUpgrade => []Inv
<1>1. Init => Inv
  BY InitInv
<1>2. Inv /\ RoomToUpgrade /\ [Next]_vars => Inv'
  BY StepInv
<1> QED
  BY <1>1, <1>2, PTL DEF Spec

(* No variable leaves its type and no sector of any size overflows,        *)
(* whatever is written, deleted, compacted, upgraded or cut short.         *)
THEOREM TypesHold == Spec /\ []RoomToUpgrade => []TypeOK
<1>1. Inv => TypeOK
  BY InvType
<1> QED
  BY <1>1, InvariantHolds, PTL

(* No sector ever holds two items of one key.                              *)
THEOREM KeysAreUnique == Spec /\ []RoomToUpgrade => []UniqueKeys
<1>1. Inv => UniqueKeys
  BY InvUnique
<1> QED
  BY <1>1, InvariantHolds, PTL

(* norcow_free_offset is the end of the write sector in every idle state.  *)
THEOREM OffsetIsCached == Spec /\ []RoomToUpgrade => []CachedOffset
<1>1. Inv => CachedOffset
  BY InvCached
<1> QED
  BY <1>1, InvariantHolds, PTL

(* No entry that is not at stake is ever missing from both sectors.        *)
THEOREM NothingIsLost == Spec /\ []RoomToUpgrade => []NothingLost
<1>1. Inv => NothingLost
  BY InvNothingLost
<1> QED
  BY <1>1, InvariantHolds, PTL

(* An upgrade that never has to compact copies every entry: the lack of    *)
(* room is the only cause of the loss that norcow_upgrade_full shows.      *)
THEOREM UpgradeIsComplete == Spec /\ []RoomToUpgrade => []UpgradeCopiesAll
<1>1. Inv => UpgradeCopiesAll
  BY InvCopied
<1> QED
  BY <1>1, InvariantHolds, PTL

-------------------------------------------------------------------------------
(***************************************************************************)
(* NORCOW implements KeyValueStore: each step is a step of the store or    *)
(* leaves it alone.                                                        *)
(***************************************************************************)

(* The callers while the device starts.                                    *)
Starting == {"boot", "upgrade", "flag"}

(* The refinement mapping for the value that an operation writes.          *)
Wanted == IF Up /\ at # {} THEN local.val ELSE NoValue

(* A step that the store does not see.                                     *)
Unseen ==
  /\ store' = store /\ at' = at /\ pc # "off" /\ pc' # "off"
  /\ \/ local'.val = local.val /\ local'.caller = local.caller
     \/ local.caller \in Starting /\ local'.caller \in Starting

(* It leaves the variables of the store as they are.                       *)
LEMMA UnseenStutters ==
  ASSUME Unseen
  PROVE  UNCHANGED KV!vars
<1>1. Up' = Up
  BY DEF Unseen, Up, Starting
<1>2. Wanted' = Wanted
  BY <1>1 DEF Unseen, Wanted, Up, Starting
<1> QED
  BY <1>1, <1>2 DEF KV!vars, Unseen, Wanted

(* The steps of an operation: they go on with the same call.               *)
LEMMA EraseUnseen ==
  ASSUME Inv, EraseSector \/ WriteMagic \/ WriteVersion
  PROVE  Unseen
<1>1. EraseInv /\ pc # "off" /\ local' = local /\ store' = store /\ at' = at
      /\ pc' \in {"magic", "version", local.then}
  BY DEF Inv, PhaseInv, EraseSector, WriteMagic, WriteVersion, ghost
<1>2. local.then # "off"
  BY <1>1 DEF EraseInv
<1> QED
  BY <1>1, <1>2 DEF Unseen

(* write_item,                                                             *)
LEMMA WriteUnseen ==
  ASSUME Inv, WritePrefix \/ WriteData
  PROVE  Unseen
<1>1. pc \in {"prefix", "data"} /\ store' = store /\ at' = at
  BY DEF WritePrefix, WriteData, ghost
<1>2. local \in Local
  BY DEF Inv, TypeInv
<1>3. ASSUME Written
      PROVE  pc' \in {"copy", "return"} /\ local'.val = local.val /\ local'.caller = local.caller
  BY <1>2, <1>3, WrittenLocal
<1>4. CASE WritePrefix
  <2>1. ASSUME local' = [local EXCEPT !.ok = FALSE]
        PROVE  local'.val = local.val /\ local'.caller = local.caller
    BY <1>2, <2>1, OkLocal DEF Erases
  <2> QED
    BY <1>1, <1>3, <1>4, <2>1 DEF WritePrefix, Unseen
<1>5. CASE WriteData
  <2>1. ASSUME local' = [local EXCEPT !.i = @ + 1]
        PROVE  local'.val = local.val /\ local'.caller = local.caller
    BY <1>2, <2>1 DEF Local
  <2> QED
    BY <1>1, <1>3, <1>5, <2>1 DEF WriteData, Unseen
<1> QED
  BY <1>4, <1>5

(* norcow_delete_item and the update in place,                             *)
LEMMA DeleteUnseen ==
  ASSUME Inv, DeleteItem \/ DeleteData \/ UpdateByte
  PROVE  Unseen
<1>1. pc \in {"delete", "zero", "update"} /\ store' = store /\ at' = at
  BY DEF DeleteItem, DeleteData, UpdateByte, ghost
<1>2. local \in Local
  BY DEF Inv, TypeInv
<1>3. /\ pc' \in {"zero", "return", "room", "update", "delete"}
      /\ local' = local \/ \E n : local' = [local EXCEPT !.i = n]
  BY <1>1 DEF DeleteItem, DeleteData, UpdateByte, AfterDelete
<1>4. \A n : [local EXCEPT !.i = n].val = local.val /\ [local EXCEPT !.i = n].caller = local.caller
  BY <1>2 DEF Local
<1> QED
  BY <1>1, <1>3, <1>4 DEF Unseen

(* The calls leave the value and the caller alone.                         *)
LEMMA CallsKeep ==
  ASSUME NEW loc \in Local
  PROVE  /\ \A s, m, l : CallErase(loc, s, m, l) =>
              pc' = "erase" /\ local'.val = loc.val /\ local'.caller = loc.caller
         /\ \A x, c : CallWrite(loc, x, c) =>
              pc' = "prefix" /\ local'.val = loc.val /\ local'.caller = loc.caller
<1>1. ASSUME NEW s, NEW m, NEW l, CallErase(loc, s, m, l)
      PROVE  pc' = "erase" /\ local'.val = loc.val /\ local'.caller = loc.caller
  BY <1>1 DEF CallErase, Local
<1>2. ASSUME NEW x, NEW c, CallWrite(loc, x, c)
      PROVE  pc' = "prefix" /\ local'.val = loc.val /\ local'.caller = loc.caller
  BY <1>2 DEF CallWrite, Local
<1> QED
  BY <1>1, <1>2

(* So does the step of a loop.                                             *)
LEMMA LoopLocal ==
  ASSUME NEW loc \in Local, NEW n \in Nat
  PROVE  LET y == [loc EXCEPT !.r = n]
         IN  y \in Local /\ y.val = loc.val /\ y.caller = loc.caller
  BY DEF Local

(* compact, norcow_wipe and norcow_upgrade_finish,                         *)
LEMMA CompactUnseen ==
  ASSUME Inv, EnsureRoom \/ CopyNext \/ Compacted \/ WipeOthers \/ Wiped \/ UpgradeFinish
  PROVE  Unseen
<1>1. pc \in {"room", "copy", "compacted", "wipeOthers", "wiped", "finish"} /\ store' = store /\ at' = at
  BY DEF EnsureRoom, CopyNext, Compacted, WipeOthers, Wiped, UpgradeFinish, ghost
<1>2. local \in Local
  BY DEF Inv, TypeInv
<1>3. CASE EnsureRoom
  <2>1. 1 \in Nat
    BY SMT
  <2> QED
    BY <1>2, <1>3, <2>1, <1>1, CallsKeep, LoopLocal DEF EnsureRoom, Unseen
<1>4. CASE CopyNext
  <2> DEFINE rest == Unread(flash[active])
  <2>1. IF rest = {} THEN CallErase(local, active, FALSE, "compacted")
        ELSE CallWrite([local EXCEPT !.r = First(rest) + 1], flash[active].items[First(rest)], TRUE)
    BY <1>4 DEF CopyNext
  <2>2. ASSUME rest # {} PROVE First(rest) + 1 \in Nat
    <3>1. flash[active] \in Sector
      BY FlashType DEF Inv, TypeInv
    <3>2. rest \subseteq Nat
      BY <3>1, SectorType DEF Unread
    <3> HIDE DEF rest
    <3>3. First(rest) \in Nat
      BY <2>2, <3>2, LeastUnread
    <3> QED
      BY <3>3, SMT
  <2> HIDE DEF rest
  <2> QED
    BY <1>1, <1>2, <2>1, <2>2, CallsKeep, LoopLocal DEF Unseen
<1>5. CASE Compacted \/ WipeOthers \/ UpgradeFinish
  BY <1>1, <1>2, <1>5, CallsKeep DEF Compacted, WipeOthers, UpgradeFinish, Unseen
<1>6. CASE Wiped
  BY <1>1, <1>6 DEF Wiped, Unseen
<1> QED
  BY <1>3, <1>4, <1>5, <1>6

(* and the loop of the upgrade.                                            *)
LEMMA UpgradeUnseen ==
  ASSUME Inv, UpgradeNext \/ Upgraded
  PROVE  Unseen
<1>1. pc \in {"next", "upgraded"} /\ store' = store /\ at' = at
  BY DEF UpgradeNext, Upgraded, ghost
<1>2. local \in Local /\ local.caller \in Starting
  BY <1>1 DEF Inv, TypeInv, PhaseInv, NextInv, Moved, Starting
<1>3. ASSUME NEW loc, DOMAIN loc = DOMAIN local, NEW k, NEW v, NEW c, CallSet(loc, k, v, c)
      PROVE  local'.caller = c /\ pc' # "off"
  <2>1. "caller" \in DOMAIN loc
    BY <1>2, <1>3 DEF Local
  <2>2. local'.caller = c
    BY <1>3, <2>1 DEF CallSet
  <2> QED
    BY <1>3, <2>2, FirstStepLabel DEF CallSet
<1>4. CASE UpgradeNext
  <2>1. \A n : DOMAIN [local EXCEPT !.r = n] = DOMAIN local
    OBVIOUS
  <2>2. \/ \E n, k, v : CallSet([local EXCEPT !.r = n], k, v, "upgrade")
        \/ \E v : CallSet(local, UpgradedKey, v, "flag")
    BY <1>4 DEF UpgradeNext
  <2>3. local'.caller \in {"upgrade", "flag"} /\ pc' # "off"
    BY <1>3, <2>1, <2>2
  <2> QED
    BY <1>1, <1>2, <2>3 DEF Unseen, Starting
<1>5. CASE Upgraded
  <2>1. local' = [local EXCEPT !.caller = "boot"] /\ pc' = "return"
    BY <1>5 DEF Upgraded
  <2>2. local'.caller = "boot"
    BY <1>2, <2>1 DEF Local
  <2> QED
    BY <1>1, <1>2, <2>1, <2>2 DEF Unseen, Starting
<1> QED
  BY <1>4, <1>5

(* norcow_set and norcow_delete begin.                                     *)
LEMMA BeginsOne ==
  ASSUME Inv, NEW k \in Keys, NorcowDelete(k) \/ \E v \in device.values[k] : NorcowSet(k, v)
  PROVE  KV!Begin({k})
<1>1. pc = "idle" /\ at' = {k} /\ store' = store
  BY DEF NorcowDelete, NorcowSet
<1>2. local = Quiet /\ at = {} /\ TypeInv /\ local \in Local
  BY <1>1, IdleFacts DEF TypeInv
<1>3. Up
  BY <1>1, <1>2, QuietType DEF Up
<1>4. local'.val \in Seq(Element) /\ local'.caller \in {"set", "delete"} /\ pc' # "off"
  <2>1. CASE NorcowDelete(k)
    <3>1. local' = [local EXCEPT !.key = k, !.val = NoValue, !.caller = "delete", !.ok = TRUE] /\ pc' = "delete"
      BY <2>1 DEF NorcowDelete
    <3>2. local'.val = NoValue /\ local'.caller = "delete"
      BY <1>2, <3>1 DEF Local
    <3> QED
      BY <3>1, <3>2, SeqEmpty DEF NoValue
  <2>2. ASSUME NEW v \in device.values[k], NorcowSet(k, v)
        PROVE  local'.val \in Seq(Element) /\ local'.caller \in {"set", "delete"} /\ pc' # "off"
    <3>1. v \in Seq(Element) /\ CallSet(local, k, v, "set") /\ "set" \in Callers
      BY <1>2, <2>2, DeviceFacts DEF NorcowSet, Callers
    <3>2. local'.val = v /\ local'.caller = "set" /\ pc' = FirstStep(k, v)
      BY <1>2, <3>1, CallSetLocal
    <3> QED
      BY <3>1, <3>2, FirstStepLabel
  <2> QED
    BY <2>1, <2>2
<1>5. Up'
  BY <1>4 DEF Up
<1>6. at' # {} /\ Wanted' = local'.val
  BY <1>1, <1>5 DEF Wanted
<1> QED
  BY <1>1, <1>2, <1>3, <1>4, <1>5, <1>6 DEF KV!Begin, Wanted

(* norcow_wipe begins.                                                     *)
LEMMA BeginsAll ==
  ASSUME Inv, NorcowWipe
  PROVE  KV!Begin(Keys) /\ Wanted' = NoValue
<1>1. pc = "idle" /\ at' = Keys /\ store' = store
      /\ CallWipe([local EXCEPT !.caller = "wipe", !.ok = TRUE], active)
  BY DEF NorcowWipe
<1>2. local = Quiet /\ at = {} /\ local \in Local /\ local.val = NoValue
  BY <1>1, IdleFacts, QuietType DEF TypeInv
<1>3. Up
  BY <1>1, <1>2, QuietType DEF Up
<1> DEFINE loc == [local EXCEPT !.caller = "wipe", !.ok = TRUE]
<1>4. loc \in Local /\ loc.val = NoValue /\ loc.caller = "wipe"
  <2>1. "wipe" \in Callers
    BY DEF Callers
  <2> QED
    BY <1>2, <2>1 DEF Local
<1> HIDE DEF loc
<1>5. pc' = "erase" /\ local'.val = NoValue /\ local'.caller = "wipe"
  BY <1>1, <1>4, CallsKeep DEF CallWipe, loc
<1>6. Up' /\ Wanted' = NoValue
  BY <1>5 DEF Up, Wanted
<1>7. NoValue \in Seq(Element)
  BY SeqEmpty DEF NoValue
<1> QED
  BY <1>1, <1>2, <1>3, <1>6, <1>7 DEF KV!Begin, Wanted

(* The store that norcow_set, norcow_delete and norcow_wipe leave.         *)
LEMMA Completes ==
  ASSUME Inv, pc = "return", local.caller \in {"set", "delete", "wipe"},
         pc' = "idle", local' = Quiet, at' = {},
         store' = [k \in Keys |-> NorcowGet(flash[active], k)]
  PROVE  KV!Complete
<1>1. TypeInv /\ SectorInv /\ InPlace /\ ReturnInv
  BY Returning
<1>2. Up /\ Up' /\ Wanted' = NoValue
  BY QuietType DEF Up, Wanted
<1>3. /\ write = active /\ Holds(active) /\ flash[active] \in Sector /\ OneEach(flash[active])
      /\ flash[active].version # NoMagic /\ local.key \in Keys
  BY <1>1, FlashType, Numbers, LocalTypes DEF TypeInv, SectorInv, InPlace
<1>4. store \in [Keys -> Seq(Element)]
  BY <1>1 DEF TypeInv
<1>5. CASE local.caller \in {"set", "delete"}
  <2>1. at = {local.key} /\ Result
    BY <1>1, <1>5 DEF ReturnInv, Setting, Setters
  <2>2. Wanted = local.val
    BY <1>2, <2>1 DEF Wanted
  <2>3. \A k \in Keys : k \notin at => NorcowGet(flash[active], k) = store[k]
    BY <1>3 DEF Holds
  <2>4. NorcowGet(flash[active], local.key) \in {Wanted, NoValue}
    <3>1. CASE [key |-> local.key, val |-> local.val] \in Entries(flash[write])
      <4>1. PICK j \in Live(flash[active]) : flash[active].items[j] = [key |-> local.key, val |-> local.val]
        BY <1>3, <3>1 DEF Entries
      <4>2. flash[active].items[j].key = local.key /\ flash[active].items[j].val = local.val
        BY <4>1, SMT
      <4> QED
        BY <1>3, <2>2, <4>2, GetOne
    <3>2. CASE NoKey(flash[write], local.key)
      BY <1>3, <3>2, GetNone
    <3> QED
      BY <2>1, <3>1, <3>2 DEF Result
  <2>5. store' \in {KV!Assigned(Wanted), KV!Assigned(NoValue)}
    <3>1. ASSUME NEW v, NorcowGet(flash[active], local.key) = v PROVE store' = KV!Assigned(v)
      <4>1. \A k \in Keys : NorcowGet(flash[active], k) = IF k \in at THEN v ELSE store[k]
        BY <2>1, <2>3, <3>1
      <4> QED
        BY <4>1 DEF KV!Assigned
    <3> QED
      BY <2>4, <3>1
  <2> QED
    BY <1>2, <2>5 DEF KV!Complete, Wanted
<1>6. CASE local.caller = "wipe"
  <2>1. at = Keys /\ local.val = NoValue /\ flash[active].items = <<>>
    BY <1>1, <1>6 DEF ReturnInv, Wiping
  <2>2. \A k \in Keys : NorcowGet(flash[active], k) = NoValue
    BY <1>3, <2>1, EmptySector
  <2>3. store' = KV!Assigned(NoValue)
    BY <2>1, <2>2 DEF KV!Assigned
  <2> QED
    BY <1>2, <2>3 DEF KV!Complete, Wanted
<1> QED
  BY <1>5, <1>6

(* The device is ready again.                                              *)
LEMMA Restarts ==
  ASSUME Inv, pc = "return", local.caller = "boot",
         pc' = "idle", local' = Quiet, at' = {},
         store' = [k \in Keys |-> NorcowGet(flash[active], k)]
  PROVE  KV!Restart
<1>1. TypeInv /\ SectorInv /\ InPlace
  BY Returning
<1>2. ~Up /\ Up' /\ Wanted = NoValue /\ Wanted' = NoValue
  BY QuietType DEF Up, Wanted
<1>3. flash[active] \in Sector /\ Holds(active)
  BY <1>1, FlashType DEF TypeInv, InPlace
<1>4. store' \in [Keys -> Seq(Element)]
  BY <1>3, GetType
<1>5. \A k \in Keys \ at : store'[k] = store[k]
  BY <1>3 DEF Holds
<1>6. Up = FALSE /\ Up' = TRUE
  BY <1>2 DEF Up
<1> QED
  BY <1>2, <1>4, <1>5, <1>6 DEF KV!Restart, Wanted

(* The device loses power, or turns itself off.                            *)
LEMMA LosesPower ==
  ASSUME Inv, PowerLoss \/ Fault \/ TurnOff
  PROVE  KV!PowerLoss
<1>1. pc' = "off" /\ store' = store /\ at' \in {at, Keys}
  BY DEF PowerLoss, Fault, TurnOff, Off, ghost
<1>2. Up' = FALSE /\ Wanted' = NoValue
  BY <1>1 DEF Up, Wanted
<1> QED
  BY <1>1, <1>2 DEF KV!PowerLoss, Wanted

(* Starting may change entries.                                            *)
LEMMA StartRepairs ==
  ASSUME Inv, NorcowInit \/ UpgradeFailed
  PROVE  KV!Repair(Keys) \/ KV!Repair({UpgradedKey}) \/ UNCHANGED KV!vars
<1>1. TypeInv /\ local \in Local /\ at \subseteq Keys
  BY DEF Inv, TypeInv
<1> DEFINE Dark == Up = FALSE /\ Up' = FALSE /\ Wanted = NoValue /\ Wanted' = NoValue
<1>2. CASE UpgradeFailed
  <2>1. local.caller = "upgrade" /\ at' = Keys /\ store' = store /\ CallWipe(local, active)
    BY <1>2 DEF UpgradeFailed, Inv, PhaseInv
  <2>2. local'.caller = "upgrade"
    BY <1>1, <2>1, CallsKeep DEF CallWipe
  <2>3. Dark
    BY <2>1, <2>2 DEF Up, Wanted
  <2>4. at' = at \cup Keys
    BY <1>1, <2>1
  <2> QED
    BY <2>1, <2>3, <2>4 DEF KV!Repair, Wanted
<1>3. CASE NorcowInit
  <2> DEFINE loc == [local EXCEPT !.caller = "boot", !.ok = TRUE]
             loop == [loc EXCEPT !.r = 1]
  <2>1. loc \in Local /\ loc.caller = "boot"
    <3>1. "boot" \in Callers
      BY DEF Callers
    <3> QED
      BY <1>1, <3>1 DEF Local
  <2>2. loop \in Local /\ loop.caller = "boot"
    <3>1. 1 \in Nat
      BY SMT
    <3> HIDE DEF loc
    <3> QED
      BY <2>1, <3>1, LoopLocal
  <2>3. pc = "off" /\ store' = store
    BY <1>3 DEF NorcowInit
  <2>4. \/ CallWipe(loc, 0) /\ at' = Keys
        \/ CallWipe(loc, Detected) /\ at' = Keys
        \/ CallErase(loop, 1 - Detected, TRUE, "next") /\ at' = at \cup {UpgradedKey}
        \/ local' = loc /\ at' = at
    <3>1. WithMagic # {} => \/ flash[Detected].version > firmware \/ flash[Detected].version < firmware
                            \/ flash[Detected].version = firmware
      <4>1. WithMagic # {} => flash[Detected].version \in Nat
        BY <2>3, InitFinds, SMT
      <4>2. firmware \in Nat
        BY <1>1, Numbers
      <4> QED
        BY <4>1, <4>2, SMT
    <3>2. CASE WithMagic = {}
      BY <1>3, <3>2 DEF NorcowInit
    <3>3. CASE WithMagic # {}
      BY <1>3, <3>1, <3>3 DEF NorcowInit, BeginUpgrade
    <3> QED
      BY <3>2, <3>3
  <2> HIDE DEF loc, loop
  <2>5. local'.caller = "boot"
    BY <2>1, <2>2, <2>4, CallsKeep DEF CallWipe
  <2>6. Dark
    BY <2>3, <2>5 DEF Up, Wanted
  <2>7. at' = at \cup Keys \/ at' = at \cup {UpgradedKey} \/ at' = at
    BY <1>1, <2>4
  <2> QED
    BY <2>3, <2>6, <2>7 DEF KV!Repair, KV!vars, Wanted
<1> QED
  BY <1>2, <1>3

(* Every step of NORCOW is a step of the store or none.                    *)
LEMMA StoreStep ==
  ASSUME Inv, [Next]_vars
  PROVE  [KV!Next]_(KV!vars)
<1>1. CASE UNCHANGED vars
  BY <1>1 DEF vars, ghost, KV!vars, Up
<1>2. CASE \/ EraseSector \/ WriteMagic \/ WriteVersion \/ WritePrefix \/ WriteData \/ DeleteItem \/ DeleteData
           \/ UpdateByte \/ EnsureRoom \/ CopyNext \/ Compacted \/ WipeOthers \/ Wiped \/ UpgradeFinish
           \/ UpgradeNext \/ Upgraded
  <2>1. Unseen
    BY <1>2, EraseUnseen, WriteUnseen, DeleteUnseen, CompactUnseen, UpgradeUnseen
  <2> QED
    BY <2>1, UnseenStutters
<1>3. CASE Return
  <2>1. pc = "return"
    BY <1>3 DEF Return
  <2>2. CASE local.caller \in {"upgrade", "flag"}
    <3>1. local' = local /\ store' = store /\ at' = at /\ pc' # "off"
      BY <1>3, <2>2 DEF Return
    <3>2. Unseen
      BY <2>1, <3>1 DEF Unseen
    <3> QED
      BY <3>2, UnseenStutters
  <2>3. CASE local.caller \notin {"upgrade", "flag"}
    <3>1. pc' = "idle" /\ local' = Quiet /\ store' = [k \in Keys |-> NorcowGet(flash[active], k)] /\ at' = {}
      BY <1>3, <2>3 DEF Return
    <3>2. KV!Complete \/ KV!Restart
      BY <2>1, <2>3, <3>1, Returning, Completes, Restarts
    <3> QED
      BY <3>2 DEF KV!Next
  <2> QED
    BY <2>2, <2>3
<1>4. CASE UpgradeFailed \/ NorcowInit
  BY <1>4, StartRepairs, KeysAssumption DEF KV!Next
<1>5. CASE PowerLoss \/ Fault \/ TurnOff
  BY <1>5, LosesPower DEF KV!Next
<1>6. ASSUME NEW k \in Keys, NorcowDelete(k) \/ \E v \in device.values[k] : NorcowSet(k, v)
      PROVE  KV!Next
  BY <1>6, BeginsOne DEF KV!Next
<1>7. CASE NorcowWipe
  BY <1>7, BeginsAll DEF KV!Next, Wanted
<1>8. ASSUME NEW f \in 1..device.firmware, InstallFirmware(f)
      PROVE  UNCHANGED KV!vars
  BY <1>8 DEF InstallFirmware, ghost, KV!vars, Up
<1> QED
  BY <1>1, <1>2, <1>3, <1>4, <1>5, <1>6, <1>7, <1>8 DEF Next, Step

(* A new device is an empty store.                                         *)
LEMMA StoreInit ==
  ASSUME Init
  PROVE  KV!Init
<1>1. Up = TRUE /\ at = {} /\ store = [k \in Keys |-> NoValue]
  BY QuietType DEF Init, Up
<1> QED
  BY <1>1 DEF KV!Init

(* NORCOW is a key-value store: each behaviour in which no upgrade has to  *)
(* compact is one of KeyValueStore, for any keys, values, sector sizes,    *)
(* number of firmware versions and of power losses.                        *)
THEOREM StoreIsImplemented == Spec /\ []RoomToUpgrade => ImplementsStore
<1>1. Init => KV!Init
  BY StoreInit
<1>2. Inv /\ [Next]_vars => [KV!Next]_(KV!vars)
  BY StoreStep
<1> QED
  BY <1>1, <1>2, InvariantHolds, PTL DEF Spec, ImplementsStore, KV!Spec

===============================================================================
