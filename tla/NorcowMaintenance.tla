-------------------------- MODULE NorcowMaintenance ---------------------------
(***************************************************************************)
(* What moves the entries from sector to sector keeps the invariant:       *)
(* compact, erase_sector, norcow_wipe, the upgrade, the start of a device  *)
(* and the loss of power.                                                  *)
(***************************************************************************)
EXTENDS NorcowInvariant

USE Zenon

(* No items take no room.                                                  *)
LEMMA RoomEmpty == ASSUME NEW b PROVE Room(b, <<>>) = 0
<1>1. <<>> \in Seq(Item) /\ Len(<<>>) = 0
  BY SMT
<1>2. PICK f \in [0..Len(<<>>) -> Nat] : Sums(b, <<>>, f)
  BY <1>1, SumsExist
<1>3. Sums(b, <<>>, CHOOSE g : Sums(b, <<>>, g))
  BY <1>2
<1>4. 0 \in 0..Len(<<>>)
  BY <1>1, SMT
<1> QED
  BY <1>1, <1>3, <1>4, RoomIsSum DEF Sums

(* The local variables of an operation that is over.                       *)
LEMMA QuietType == Quiet \in Local /\ Quiet.val = NoValue /\ Quiet.caller = "none"
<1>1. <<>> \in Seq(Element) /\ 0 \in Nat /\ 0 \in Sectors
  BY SeqEmpty, SMT DEF Sectors
<1>2. "none" \in Callers /\ "idle" \in Labels
  BY DEF Callers, Labels
<1>3. UpgradedKey \in Keys
  BY KeysAssumption
<1> QED
  BY <1>1, <1>2, <1>3 DEF Quiet, NoValue, Local

(* A sector without items has no entries.                                  *)
LEMMA EmptySector ==
  ASSUME NEW S \in Sector, S.items = <<>>
  PROVE  /\ Live(S) = {} /\ OneEach(S) /\ Entries(S) = {} /\ \A k \in Keys : NoKey(S, k)
         /\ (\A b : Room(b, S.items) = 0) /\ \A k \in Keys : NorcowGet(S, k) = NoValue
<1>1. DOMAIN S.items = {}
  BY SMT
<1>2. Live(S) = {}
  BY <1>1 DEF Live
<1>3. \A k \in Keys : NoKey(S, k)
  BY <1>2 DEF NoKey
<1> QED
  BY <1>2, <1>3, GetNone, RoomEmpty DEF OneEach, Entries

(* A sector that was erased, with or without its header.                   *)
LEMMA BlankSector ==
  ASSUME TypeInv, NEW n \in 0..NoMagic
  PROVE  /\ [Blank EXCEPT !.version = n] \in Sector
         /\ [Blank EXCEPT !.version = n].version = n
         /\ [Blank EXCEPT !.version = n].items = <<>>
         /\ Blank \in Sector /\ Blank.version = NoMagic /\ Blank.items = <<>>
<1>1. <<>> \in Seq(Item)
  BY SeqEmpty
<1> QED
  BY <1>1, Numbers DEF Blank, Sector

-------------------------------------------------------------------------------
(* norcow_init detects the sector of the higher version, the second one of *)
(* two of the same version,                                                *)
LEMMA PreferredIsDetected ==
  ASSUME TypeInv, NEW s \in Sectors, Preferred(s)
  PROVE  WithMagic # {} /\ Detected = s
<1> DEFINE D == {x \in WithMagic : \A t \in WithMagic : flash[t].version <= flash[x].version}
<1>1. s \in WithMagic
  BY DEF Preferred, WithMagic
<1>2. \A t \in Sectors : flash[t].version \in Nat
  <2>1. \A t \in Sectors : flash[t].version \in 0..NoMagic
    BY FlashType DEF Sector
  <2> QED
    BY <2>1, DeviceFacts, SMT DEF NoMagic
<1>3. \A t \in WithMagic : t \in Sectors /\ (t = s \/ t = 1 - s) /\ flash[t].version # NoMagic
  BY Other DEF WithMagic
<1>4. s \in D
  BY <1>1, <1>2, <1>3, SMT DEF Preferred
<1>5. \A t \in D : s >= t
  <2>1. SUFFICES ASSUME NEW t \in D, t # s PROVE s >= t
    BY SMT DEF Sectors
  <2>2. t = 1 - s /\ flash[t].version # NoMagic /\ flash[s].version <= flash[t].version
    BY <2>1, <1>1, <1>3
  <2>3. s = 1
    BY <2>2, <1>2, <1>3, SMT DEF Preferred
  <2> QED
    BY <2>2, <2>3, SMT
<1>6. D \subseteq Sectors
  BY <1>3
<1>7. Detected = Last(D)
  BY DEF Detected
<1> HIDE DEF D
<1>8. \A x \in D : (\A t \in D : x >= t) => x = s
  BY <1>4, <1>5, <1>6, SMT DEF Sectors
<1>9. Last(D) = s
  BY <1>4, <1>5, <1>8 DEF Last
<1> QED
  BY <1>1, <1>7, <1>9

(* and the sector that it detects is such a one.                           *)
LEMMA DetectedIsPreferred ==
  ASSUME TypeInv, WithMagic # {}
  PROVE  Detected \in Sectors /\ Preferred(Detected)
<1>1. PICK s \in Sectors : flash[s].version # NoMagic
  BY DEF WithMagic
<1>2. \A t \in Sectors : flash[t].version \in Nat
  <2>1. \A t \in Sectors : flash[t].version \in 0..NoMagic
    BY FlashType DEF Sector
  <2> QED
    BY <2>1, DeviceFacts, SMT DEF NoMagic
<1>3. \E t \in Sectors : Preferred(t)
  <2>1. 1 - s \in Sectors /\ 1 - (1 - s) = s /\ (s = 1 \/ 1 - s = 1)
    BY SMT DEF Sectors
  <2>2. \/ flash[1 - s].version < flash[s].version
        \/ flash[1 - s].version = flash[s].version
        \/ flash[s].version < flash[1 - s].version
    BY <1>2, <2>1, SMT
  <2> QED
    BY <1>1, <2>1, <2>2 DEF Preferred
<1> QED
  BY <1>3, PreferredIsDetected

(* compact and the upgrade read the items in order.                        *)
LEMMA LeastUnread ==
  ASSUME NEW T, T \subseteq Nat, T # {}
  PROVE  First(T) \in T /\ \A y \in T : First(T) <= y
  BY LeastNumber DEF First

(* Reading the next item takes one more entry, of a key that was not read  *)
(* before.                                                                 *)
LEMMA TakenNext ==
  ASSUME NEW A \in Sector, OneEach(A), NEW r \in Nat, NEW j \in Live(A), j >= r,
         \A m \in Live(A) : m >= r => j <= m
  PROVE  /\ \A k : k = A.items[j].key => But(Taken(A, j + 1), k) = But(Taken(A, r), k)
         /\ \A e \in Taken(A, r) : e.key # A.items[j].key
         /\ j + 1 \in Nat
<1>1. \A m \in Live(A) : m \in Nat
  BY SectorType
<1>2. \A m \in Live(A) : m < j + 1 <=> m < r \/ m = j
  BY <1>1, SMT
<1>3. ~(j < r)
  BY <1>1, SMT
<1>4. ASSUME NEW e \in Taken(A, r) PROVE e.key # A.items[j].key
  <2>1. PICK m \in Live(A) : m < r /\ e = A.items[m]
    BY DEF Taken
  <2>2. m # j
    BY <2>1, <1>3
  <2> QED
    BY <2>1, <2>2 DEF OneEach
<1>5. Taken(A, j + 1) = Taken(A, r) \cup {A.items[j]}
  BY <1>2 DEF Taken
<1> HIDE DEF Taken
<1>6. \A k : k = A.items[j].key => But(Taken(A, j + 1), k) = But(Taken(A, r), k)
  BY <1>5 DEF But
<1>7. j + 1 \in Nat
  BY <1>1, SMT
<1> QED
  BY <1>4, <1>6, <1>7

(* When nothing is left to read all of the sector was taken.               *)
LEMMA TakenAll ==
  ASSUME NEW A, NEW r, \A j \in Live(A) : j < r
  PROVE  Taken(A, r) = Entries(A)
  BY DEF Taken, Entries

(* Sectors with the same entries give the same answers.                    *)
LEMMA EntriesSame ==
  ASSUME NEW S \in Sector, NEW T \in Sector, OneEach(S), OneEach(T),
         S.version # NoMagic, T.version # NoMagic, Entries(S) = Entries(T), NEW k \in Keys
  PROVE  NorcowGet(S, k) = NorcowGet(T, k) /\ (NoKey(S, k) => NoKey(T, k))
<1>1. k # Deleted /\ But(Entries(S), Deleted) = But(Entries(T), Deleted)
  BY KeysAssumption
<1>2. NorcowGet(S, k) = NorcowGet(T, k)
  BY <1>1, GetSame, SMT
<1>3. ASSUME NoKey(S, k), NEW j \in Live(T) PROVE T.items[j].key # k
  <2>1. T.items[j] \in Entries(S)
    BY DEF Entries
  <2>2. PICK m \in Live(S) : S.items[m] = T.items[j]
    BY <2>1 DEF Entries
  <2> QED
    BY <1>3, <2>2 DEF NoKey
<1> QED
  BY <1>2, <1>3 DEF NoKey

(* compact, reading the next item, or erasing the old sector when there is *)
(* none.                                                                   *)
LEMMA CopyNextInv ==
  ASSUME Inv, CopyNext
  PROVE  Inv'
<1> DEFINE A == flash[active]
           W == flash[write]
           rest == Unread(A)
<1>1. /\ TypeInv /\ SectorInv /\ Compacting /\ Filled /\ Entries(W) = Taken(A, local.r) /\ pc = "copy"
  BY DEF Inv, PhaseInv, CopyNext
<1>2. /\ local \in Local /\ local.r \in Nat /\ local.key \in Keys /\ active \in Sectors /\ write \in Sectors
  BY <1>1, LocalTypes DEF TypeInv
<1>3. /\ A \in Sector /\ W \in Sector /\ OneEach(A) /\ OneEach(W)
      /\ A.version = firmware /\ W.version = firmware /\ firmware # NoMagic
  BY <1>1, <1>2, FlashType, Numbers DEF SectorInv, Compacting, Filled
<1>4. /\ flash' = flash /\ active' = active /\ write' = write /\ version' = version /\ free' = free
      /\ model' = model /\ firmware' = firmware /\ store' = store /\ at' = at /\ losses' = losses
  BY DEF CopyNext, installed, ghost, nor
<1>5. IF rest = {} THEN CallErase(local, active, FALSE, "compacted")
      ELSE CallWrite([local EXCEPT !.r = First(rest) + 1], A.items[First(rest)], TRUE)
  BY DEF CopyNext
<1>6. \A j \in Live(A) : j \in rest <=> j >= local.r
  BY DEF Unread
<1>7. rest \subseteq Live(A)
  BY DEF Unread
<1>8. \A j \in Live(A) : j \in Nat /\ A.items[j] \in Item /\ A.items[j].key \in Keys
                         /\ A.items[j].val \in Seq(Element)
  BY <1>3, SectorType
<1> HIDE DEF A, W, rest
<1>9. CASE rest = {}
  <2>1. \A j \in Live(A) : j < local.r
    BY <1>2, <1>6, <1>8, <1>9, SMT
  <2>2. Entries(A) = Entries(W)
    BY <1>1, <2>1, TakenAll
  <2>3. \A k \in Keys : NorcowGet(A, k) = NorcowGet(W, k) /\ (NoKey(A, k) => NoKey(W, k))
    BY <1>3, <2>2, EntriesSame
  <2>4. /\ local' \in Local /\ pc' = "erase" /\ local'.sector = active /\ local'.magic = FALSE
        /\ local'.then = "compacted" /\ Erases(local, local')
    <3>1. FALSE \in BOOLEAN /\ "compacted" \in Labels
      BY DEF Labels
    <3> QED
      BY <1>2, <1>5, <1>9, <3>1, CallEraseLocal
  <2>5. local'.key = local.key /\ local'.caller = local.caller
    BY <2>4 DEF Erases
  <2>6. TypeInv' /\ SectorInv'
    <3>1. StillFlash
      BY <1>1, <1>4, <2>4 DEF StillFlash, TypeInv, Labels
    <3> QED
      BY <1>1, <3>1, StillTyped
  <2>7. Compacting'
    BY <1>1, <1>4, <2>5, CompactingKept
  <2>8. Holds(write)
    BY <1>1, <2>3 DEF Compacting, Holds, A, W
  <2>9. Holds(write)'
    BY <1>4, <2>8 DEF Holds
  <2>10. NoKey(W, local.key)
    BY <1>1, <1>2, <2>3 DEF Compacting, A
  <2>11. Compact'
    BY <1>1, <1>4, <2>5, <2>9, <2>10 DEF Compact, Compacting, Filled, W
  <2>12. EraseInv'
    BY <1>4, <2>4, <2>7, <2>11 DEF EraseInv
  <2> QED
    BY <2>4, <2>6, <2>12 DEF Inv, PhaseInv
<1>10. CASE rest # {}
  <2> DEFINE j == First(rest)
             x == A.items[j]
             loc == [local EXCEPT !.r = j + 1]
  <2>1. rest \subseteq Nat
    BY <1>7, <1>8
  <2>2. j \in rest /\ \A m \in rest : j <= m
    BY <1>10, <2>1, LeastUnread
  <2>3. CallWrite(loc, x, TRUE)
    BY <1>5, <1>10
  <2> HIDE DEF j
  <2>4. j \in Live(A) /\ j >= local.r /\ \A m \in Live(A) : m >= local.r => j <= m
    BY <1>6, <1>7, <2>2
  <2>5. /\ But(Taken(A, j + 1), x.key) = But(Taken(A, local.r), x.key)
        /\ (\A e \in Taken(A, local.r) : e.key # x.key) /\ j + 1 \in Nat
    BY <1>2, <1>3, <2>4, TakenNext, SMT
  <2>6. x \in [key : Keys, val : Seq(Element)]
    BY <1>8, <2>4 DEF Item
  <2>7. loc \in Local /\ loc.r = j + 1 /\ loc.key = local.key /\ loc.caller = local.caller
    BY <1>2, <2>5 DEF Local
  <2> HIDE DEF x, loc
  <2>8. /\ local' \in Local /\ pc' = "prefix" /\ local'.item = x /\ local'.copying = TRUE /\ local'.i = 1
        /\ Writes(loc, local')
    BY <2>3, <2>6, <2>7, CallWriteLocal
  <2>9. local'.r = j + 1 /\ local'.key = local.key /\ local'.caller = local.caller
    BY <2>7, <2>8 DEF Writes
  <2>10. TypeInv' /\ SectorInv'
    <3>1. StillFlash
      BY <1>1, <1>4, <2>8 DEF StillFlash, TypeInv, Labels
    <3> QED
      BY <1>1, <3>1, StillTyped
  <2>11. Compacting' /\ Filled'
    BY <1>1, <1>4, <2>9, CompactingKept DEF Filled
  <2>12. NoKey(W, x.key)
    <3>1. \A m \in Live(W) : W.items[m] \in Entries(W)
      BY DEF Entries
    <3> QED
      BY <1>1, <2>5, <3>1 DEF NoKey
  <2>13. CopyingItem'
    BY <1>1, <1>4, <2>4, <2>5, <2>8, <2>9, <2>11 DEF CopyingItem, A, W, x
  <2>14. PrefixInv'
    BY <1>4, <2>8, <2>12, <2>13 DEF PrefixInv, W
  <2> QED
    BY <2>8, <2>10, <2>14 DEF Inv, PhaseInv
<1> QED
  BY <1>9, <1>10

(* compact returns and norcow_set goes on.                                 *)
LEMMA CompactedInv ==
  ASSUME Inv, Compacted
  PROVE  Inv'
<1> DEFINE W == flash[write]
           x == [key |-> local.key, val |-> local.val]
<1>1. TypeInv /\ SectorInv /\ Compact /\ flash[active] = Blank /\ pc = "compacted"
  BY DEF Inv, PhaseInv, Compacted
<1>2. local \in Local /\ local.key \in Keys /\ active \in Sectors /\ write \in Sectors
  BY <1>1, LocalTypes DEF TypeInv
<1>3. /\ local.caller = "set" /\ at = {local.key} /\ write = 1 - active /\ W.version = firmware
      /\ Holds(write) /\ NoKey(W, local.key)
  BY <1>1 DEF Compact, Filled
<1>4. /\ flash' = flash /\ active' = write /\ write' = write /\ version' = firmware
      /\ free' = FindFreeOffset(W)
      /\ model' = model /\ firmware' = firmware /\ store' = store /\ at' = at /\ losses' = losses
      /\ CallWrite(local, x, FALSE)
  BY DEF Compacted, installed, ghost
<1>5. /\ Room(device.blockwise, W.items) \in Nat /\ Room(device.blockwise, W.items) <= device.size
      /\ device.size \in Nat /\ firmware # NoMagic /\ firmware \in 0..MaxFirmware
  BY <1>1, WriteSector, DeviceFacts, Numbers
<1>6. free' = Room(device.blockwise, W.items)
  BY <1>3, <1>4, <1>5, UsedIsRoom DEF FindFreeOffset
<1>7. free' \in 0..device.size
  BY <1>5, <1>6, SMT
<1>8. x \in [key : Keys, val : Seq(Element)] /\ x.key = local.key
  BY <1>2, LocalTypes
<1> HIDE DEF x
<1>9. /\ local' \in Local /\ pc' = "prefix" /\ local'.item = x /\ local'.copying = FALSE /\ local'.i = 1
      /\ Writes(local, local')
  BY <1>2, <1>4, <1>8, CallWriteLocal
<1>10. local'.key = local.key /\ local'.val = local.val /\ local'.caller = "set"
  BY <1>3, <1>9 DEF Writes
<1>11. TypeInv' /\ SectorInv' /\ device' = device
  <2>1. StillFlash
    BY <1>1, <1>2, <1>4, <1>5, <1>7, <1>9 DEF StillFlash, TypeInv, Labels
  <2> QED
    BY <1>1, <2>1, StillTyped
<1>12. Tracked'
  BY <1>4, <1>6, <1>11 DEF Tracked
<1>13. InPlace'
  <2>1. flash[1 - write].version = NoMagic
    BY <1>1, <1>2, <1>3, Other, BlankSector, Numbers
  <2>2. Preferred(active)'
    BY <1>3, <1>4, <1>5, <2>1 DEF Preferred
  <2>3. Holds(active)'
    BY <1>3, <1>4 DEF Holds
  <2> QED
    BY <1>3, <1>4, <2>2, <2>3 DEF InPlace
<1>14. Setting'
  BY <1>3, <1>4, <1>10, <1>13 DEF Setting, Setters
<1>15. PrefixInv'
  BY <1>3, <1>4, <1>8, <1>9, <1>10, <1>12, <1>14 DEF PrefixInv, Adding, x
<1> QED
  BY <1>9, <1>11, <1>15 DEF Inv, PhaseInv

-------------------------------------------------------------------------------
(* A step of erase_sector: it leaves T, which has no items.                *)
EraseStep(T) ==
  /\ flash' = [flash EXCEPT ![local.sector] = T] /\ T \in Sector /\ T.items = <<>>
  /\ Rest /\ local' = local /\ pc' \in Labels

(* Such a step keeps the types and the sectors.                            *)
LEMMA EraseTyped ==
  ASSUME TypeInv, SectorInv, NEW T, EraseStep(T)
  PROVE  /\ TypeInv' /\ SectorInv' /\ device' = device /\ local.sector \in Sectors
         /\ flash'[local.sector] = T
         /\ \A s \in Sectors : s # local.sector => flash'[s] = flash[s]
<1>1. local.sector \in Sectors /\ flash \in [Sectors -> Sector]
  BY LocalTypes DEF TypeInv
<1>2. flash' = [flash EXCEPT ![local.sector] = T] /\ T \in Sector /\ T.items = <<>> /\ Rest /\ local' = local
      /\ pc' \in Labels
  BY DEF EraseStep
<1>3. flash'[local.sector] = T /\ \A s \in Sectors : s # local.sector => flash'[s] = flash[s]
  BY <1>1, <1>2
<1>4. device' = device
  BY <1>2 DEF Rest, device
<1>5. flash' \in [Sectors -> Sector]
  BY <1>1, <1>2
<1>6. TypeInv'
  BY <1>2, <1>4, <1>5 DEF TypeInv, Rest
<1>7. OneEach(T) /\ Room(device.blockwise, T.items) = 0 /\ 0 <= device.size
  <2>1. OneEach(T) /\ Room(device.blockwise, T.items) = 0
    BY <1>2, EmptySector
  <2>2. device.size \in Nat
    BY DeviceFacts
  <2> QED
    BY <2>1, <2>2, SMT
<1>8. ASSUME NEW s \in Sectors
      PROVE  /\ OneEach(flash'[s])
             /\ flash'[s].version \in {0, NoMagic} => flash'[s].items = <<>>
             /\ Room(device.blockwise, flash'[s].items) <= device.size
  <2>1. CASE s = local.sector
    BY <2>1, <1>2, <1>3, <1>7
  <2>2. CASE s # local.sector
    BY <2>2, <1>3 DEF SectorInv
  <2> QED
    BY <2>1, <2>2
<1>9. SectorInv'
  BY <1>4, <1>8 DEF SectorInv
<1> QED
  BY <1>1, <1>3, <1>4, <1>6, <1>9

(* The sector that is being erased, and what the other one keeps.          *)
LEMMA EraseOther ==
  ASSUME TypeInv, SectorInv, NEW T, EraseStep(T), NEW s \in Sectors, s # local.sector
  PROVE  /\ flash'[s] = flash[s]
         /\ Holds(s) => \A k \in Keys \ at : NorcowGet(flash'[s], k) = store[k]
         /\ (T.version = NoMagic \/ T.version < flash[s].version) /\ flash[s].version # NoMagic =>
              /\ flash'[s].version # NoMagic
              /\ flash'[1 - s].version = NoMagic \/ flash'[1 - s].version < flash'[s].version
<1>1. flash'[s] = flash[s] /\ flash'[local.sector] = T /\ local.sector \in Sectors
  BY EraseTyped
<1>2. 1 - s = local.sector
  BY <1>1, Other
<1> QED
  BY <1>1, <1>2 DEF Holds

(* While it is erased or given a header the reason to erase it stands.     *)
LEMMA EraseGoesOn ==
  ASSUME TypeInv, SectorInv, EraseInv, local.magic, NEW T, EraseStep(T), T.version \in {0, NoMagic}
  PROVE  EraseInv'
<1>1. /\ local' = local /\ active' = active /\ write' = write /\ version' = version /\ free' = free
      /\ firmware' = firmware /\ store' = store /\ at' = at
  BY DEF EraseStep, Rest
<1>2. active \in Sectors /\ write \in Sectors /\ firmware \in Nat /\ 0 < firmware /\ firmware # NoMagic
  BY Numbers DEF TypeInv
<1>3. local.then \in {"copy", "wipeOthers", "next"}
  BY DEF EraseInv
<1>4. CASE local.then = "copy"
  <2>1. Compacting /\ Preferred(active) /\ local.sector = write /\ local.r = 1
    BY <1>4 DEF EraseInv
  <2>2. active # local.sector /\ flash[active].version = firmware
    <3>1. local.sector = 1 - active /\ 1 - active # active
      BY <1>2, <2>1, Other DEF Compacting
    <3> QED
      BY <2>1, <3>1 DEF Compacting
  <2>3. flash'[active] = flash[active]
    BY <1>2, <2>2, EraseOther
  <2>4. Compacting'
    BY <1>1, <2>1, <2>3, CompactingKept
  <2>5. Preferred(active)'
    <3>1. T.version = NoMagic \/ T.version < flash[active].version
      BY <1>2, <2>2
    <3> QED
      BY <1>1, <1>2, <2>2, <3>1, EraseOther DEF Preferred
  <2> QED
    BY <1>1, <1>4, <2>1, <2>4, <2>5 DEF EraseInv
<1>5. CASE local.then = "wipeOthers"
  <2>1. Wiping /\ local.sector = active
    BY <1>5 DEF EraseInv
  <2>2. Wiping'
    BY <1>1, <2>1 DEF Wiping
  <2> QED
    BY <1>1, <1>5, <2>1, <2>2 DEF EraseInv
<1>6. CASE local.then = "next"
  <2>1. /\ Moving /\ Safe(active) /\ local.sector = write
        /\ local.caller = "boot" /\ local.r = 1 /\ free = 0
    BY <1>6 DEF EraseInv
  <2>2. active # local.sector
    <3>1. local.sector = 1 - active /\ 1 - active # active
      BY <1>2, <2>1, Other DEF Moving
    <3> QED
      BY <2>1, <3>1 DEF Moving
  <2>3. flash'[active] = flash[active] /\ flash'[active'] = flash[active]
    BY <1>1, <1>2, <2>2, EraseOther
  <2>4. Holds(active)'
    BY <1>1, <2>1, <2>3 DEF Moving, Holds
  <2>5. Moving'
    BY <1>1, <2>1, <2>3, <2>4 DEF Moving
  <2>6. ASSUME at # Keys PROVE Preferred(active)' /\ flash'[active'].version # 0
    <3>1. Preferred(active) /\ flash[active].version # 0
      BY <2>1, <2>6 DEF Safe
    <3>2. flash[active].version \in 0..NoMagic /\ NoMagic \in Nat
      BY <1>2, FlashType, SectorType, DeviceFacts, SMT DEF NoMagic
    <3>3. 0 < flash[active].version
      BY <3>1, <3>2, SMT
    <3>4. flash[active].version # NoMagic
      BY <3>1 DEF Preferred
    <3> QED
      BY <1>1, <1>2, <2>2, <2>3, <3>1, <3>3, <3>4, EraseOther, SMT DEF Preferred
  <2>7. Safe(active)'
    BY <1>1, <2>4, <2>6 DEF Safe
  <2> QED
    BY <1>1, <1>6, <2>1, <2>5, <2>7 DEF EraseInv
<1> QED
  BY <1>3, <1>4, <1>5, <1>6

(* Nothing was taken before the first item.                                *)
LEMMA TakenNone ==
  ASSUME NEW A \in Sector
  PROVE  Taken(A, 1) = {}
<1>1. \A j \in Live(A) : ~(j < 1)
  <2>1. \A j \in Live(A) : j \in Nat /\ j # 0
    BY SectorType
  <2> QED
    BY <2>1, SMT
<1> QED
  BY <1>1 DEF Taken

(* The sector has its version: the caller goes on.                         *)
LEMMA EraseFilled ==
  ASSUME TypeInv, SectorInv, EraseInv, local.magic, NEW T, EraseStep(T), T.version = firmware,
         pc' = local.then
  PROVE  Inv'
<1>1. /\ local' = local /\ active' = active /\ write' = write /\ version' = version /\ free' = free
      /\ firmware' = firmware /\ store' = store /\ at' = at /\ T \in Sector /\ T.items = <<>>
  BY DEF EraseStep, Rest
<1>2. active \in Sectors /\ write \in Sectors /\ firmware \in Nat /\ 0 < firmware /\ firmware # NoMagic
  BY Numbers DEF TypeInv
<1>3. local.then \in {"copy", "wipeOthers", "next"}
  BY DEF EraseInv
<1>4. TypeInv' /\ SectorInv' /\ device' = device /\ flash'[local.sector] = T
  BY EraseTyped
<1>5. Entries(T) = {} /\ Room(device.blockwise, T.items) = 0
  BY <1>1, EmptySector
<1>6. flash[active] \in Sector /\ Taken(flash[active], 1) = {}
  BY <1>2, FlashType, TakenNone
<1>7. CASE local.then = "copy"
  <2>1. Compacting /\ local.sector = write /\ local.r = 1
    BY <1>7 DEF EraseInv
  <2>2. active # local.sector
    <3>1. local.sector = 1 - active /\ 1 - active # active
      BY <1>2, <2>1, Other DEF Compacting
    <3> QED
      BY <3>1
  <2>3. flash'[active] = flash[active] /\ flash'[active'] = flash[active]
    BY <1>1, <1>2, <2>2, EraseOther
  <2>4. Compacting'
    BY <1>1, <2>1, <2>3, CompactingKept
  <2>5. Filled'
    BY <1>1, <1>4, <2>1 DEF Filled
  <2>6. Entries(flash'[write']) = Taken(flash'[active'], local'.r)
    BY <1>1, <1>4, <1>5, <1>6, <2>1, <2>3
  <2>7. pc' = "copy"
    BY <1>7
  <2> QED
    BY <1>4, <2>4, <2>5, <2>6, <2>7 DEF Inv, PhaseInv
<1>8. CASE local.then = "wipeOthers"
  <2>1. Wiping /\ local.sector = active
    BY <1>8 DEF EraseInv
  <2>2. Wiping'
    BY <1>1, <2>1 DEF Wiping
  <2>3. Emptied'
    BY <1>1, <1>4, <2>1, <2>2 DEF Emptied
  <2>4. pc' = "wipeOthers"
    BY <1>8
  <2> QED
    BY <1>4, <2>3, <2>4 DEF Inv, PhaseInv
<1>9. CASE local.then = "next"
  <2>1. /\ Moving /\ Safe(active) /\ local.sector = write
        /\ local.caller = "boot" /\ local.r = 1 /\ free = 0
    BY <1>9 DEF EraseInv
  <2>2. active # local.sector
    <3>1. local.sector = 1 - active /\ 1 - active # active
      BY <1>2, <2>1, Other DEF Moving
    <3> QED
      BY <3>1
  <2>3. flash'[active] = flash[active] /\ flash'[active'] = flash[active]
    BY <1>1, <1>2, <2>2, EraseOther
  <2>4. Holds(active)'
    BY <1>1, <2>1, <2>3 DEF Moving, Holds
  <2>5. Moving'
    BY <1>1, <2>1, <2>3, <2>4 DEF Moving
  <2>6. Filled'
    BY <1>1, <1>4, <2>1 DEF Filled
  <2>7. Tracked'
    BY <1>1, <1>4, <1>5, <2>1 DEF Tracked
  <2>8. Entries(flash'[write']) = Taken(flash'[active'], local'.r)
    BY <1>1, <1>4, <1>5, <1>6, <2>1, <2>3
  <2>9. NextInv'
    BY <1>1, <1>9, <2>1, <2>5, <2>6, <2>7, <2>8 DEF NextInv
  <2>10. pc' = "next"
    BY <1>9
  <2> QED
    BY <1>4, <2>9, <2>10 DEF Inv, PhaseInv
<1> QED
  BY <1>3, <1>7, <1>8, <1>9

(* The sector is blank, and that was all.                                  *)
LEMMA EraseBlank ==
  ASSUME TypeInv, SectorInv, EraseInv, ~local.magic, EraseStep(Blank), pc' = local.then
  PROVE  Inv'
<1>1. /\ local' = local /\ active' = active /\ write' = write /\ version' = version /\ free' = free
      /\ firmware' = firmware /\ store' = store /\ at' = at
  BY DEF EraseStep, Rest
<1>2. active \in Sectors /\ write \in Sectors /\ firmware # NoMagic /\ Blank.version = NoMagic
  BY Numbers, BlankSector DEF TypeInv
<1>3. local.then \in {"compacted", "wiped", "upgraded"}
  BY DEF EraseInv
<1>4. TypeInv' /\ SectorInv' /\ device' = device /\ flash'[local.sector] = Blank
  BY EraseTyped
<1>5. CASE local.then = "compacted"
  <2>1. Compact /\ local.sector = active
    BY <1>5 DEF EraseInv
  <2>2. write # local.sector
    <3>1. write = 1 - active /\ 1 - active # active
      BY <1>2, <2>1, Other DEF Compact
    <3> QED
      BY <2>1, <3>1
  <2>3. flash'[write'] = flash[write]
    BY <1>1, <1>2, <2>2, EraseOther
  <2>4. Holds(write)'
    BY <1>1, <2>1, <2>3 DEF Compact, Holds
  <2>5. Compact'
    BY <1>1, <2>1, <2>3, <2>4 DEF Compact, Filled
  <2>6. pc' = "compacted" /\ flash'[active'] = Blank
    BY <1>1, <1>4, <1>5, <2>1
  <2>7. Blank' = Blank
    BY DEF Blank, NoMagic
  <2> QED
    BY <1>4, <2>5, <2>6, <2>7 DEF Inv, PhaseInv
<1>6. CASE local.then = "wiped"
  <2>1. Emptied /\ local.sector = 1 - active
    BY <1>6 DEF EraseInv
  <2>2. active # local.sector
    <3>1. 1 - active # active
      BY <1>2, Other
    <3> QED
      BY <2>1, <3>1
  <2>3. flash'[active'] = flash[active]
    BY <1>1, <1>2, <2>2, EraseOther
  <2>4. Emptied'
    BY <1>1, <2>1, <2>3 DEF Emptied, Wiping
  <2>5. pc' = "wiped" /\ flash'[1 - active'] = Blank
    BY <1>1, <1>4, <1>6, <2>1
  <2> QED
    BY <1>4, <2>4, <2>5 DEF Inv, PhaseInv
<1>7. CASE local.then = "upgraded"
  <2>1. Moved /\ local.sector = active
    BY <1>7 DEF EraseInv
  <2>2. write # local.sector
    <3>1. write = 1 - active /\ 1 - active # active
      BY <1>2, <2>1, Other DEF Moved
    <3> QED
      BY <2>1, <3>1
  <2>3. flash'[write'] = flash[write]
    BY <1>1, <1>2, <2>2, EraseOther
  <2>4. Holds(write)'
    BY <1>1, <2>1, <2>3 DEF Moved, Holds
  <2>5. Preferred(write)'
    <3>1. flash[write].version = firmware
      BY <2>1 DEF Moved, Filled
    <3> QED
      BY <1>1, <1>2, <2>2, <3>1, EraseOther DEF Preferred
  <2>6. Tracked'
    BY <1>1, <1>4, <2>1, <2>3 DEF Tracked, Moved
  <2>7. Moved'
    BY <1>1, <2>1, <2>3, <2>4, <2>5, <2>6 DEF Moved, Filled
  <2>8. pc' = "upgraded" /\ flash'[active'] = Blank
    BY <1>1, <1>4, <1>7, <2>1
  <2> QED
    BY <1>4, <2>7, <2>8 DEF Inv, PhaseInv
<1> QED
  BY <1>3, <1>5, <1>6, <1>7

(* erase_sector, erasing.                                                  *)
LEMMA EraseSectorInv ==
  ASSUME Inv, EraseSector
  PROVE  Inv'
<1>1. TypeInv /\ SectorInv /\ EraseInv /\ local \in Local
  BY DEF Inv, PhaseInv, EraseSector, TypeInv
<1>2. /\ flash' = [flash EXCEPT ![local.sector] = Blank] /\ Rest /\ local' = local
      /\ pc' = IF local.magic THEN "magic" ELSE local.then
  BY DEF EraseSector, nor, installed, ghost, Rest
<1>3. Blank \in Sector /\ Blank.items = <<>> /\ Blank.version = NoMagic
  BY <1>1, BlankSector, Numbers
<1>4. local.then \in Labels /\ local.magic \in BOOLEAN
  BY <1>1, LocalTypes
<1>5. EraseStep(Blank)
  BY <1>2, <1>3, <1>4 DEF EraseStep, Labels
<1>6. CASE local.magic
  <2>1. EraseInv'
    BY <1>1, <1>3, <1>5, <1>6, EraseGoesOn
  <2>2. TypeInv' /\ SectorInv' /\ flash'[local'.sector] = Blank
    BY <1>1, <1>2, <1>5, EraseTyped
  <2>3. pc' = "magic" /\ local'.magic
    BY <1>2, <1>6
  <2> QED
    BY <2>1, <2>2, <2>3 DEF Inv, PhaseInv
<1>7. CASE ~local.magic
  <2>1. pc' = local.then
    BY <1>2, <1>7
  <2> QED
    BY <1>1, <1>5, <1>7, <2>1, EraseBlank
<1> QED
  BY <1>6, <1>7

(* erase_sector, writing the magic number.  A sector of version 0 is       *)
(* complete then.                                                          *)
LEMMA WriteMagicInv ==
  ASSUME Inv, WriteMagic
  PROVE  Inv'
<1> DEFINE v == IF device.blockwise THEN firmware ELSE 0
           T == [Blank EXCEPT !.version = v]
<1>1. TypeInv /\ SectorInv /\ EraseInv /\ local \in Local /\ local.magic /\ flash[local.sector] = Blank
  BY DEF Inv, PhaseInv, WriteMagic, TypeInv
<1>2. /\ flash' = [flash EXCEPT ![local.sector] = [flash[local.sector] EXCEPT !.version = v]]
      /\ Rest /\ local' = local
      /\ pc' = IF device.blockwise THEN local.then ELSE "version"
  BY DEF WriteMagic, nor, installed, ghost, Rest
<1>3. T \in Sector /\ T.items = <<>> /\ T.version = v
  <2>1. v \in 0..NoMagic
    BY <1>1, Numbers
  <2> HIDE DEF v
  <2> QED
    BY <1>1, <2>1, BlankSector
<1>4. local.then \in Labels /\ device.blockwise \in BOOLEAN
  BY <1>1, LocalTypes, DeviceFacts
<1>5. EraseStep(T)
  BY <1>1, <1>2, <1>3, <1>4 DEF EraseStep, Labels
<1> HIDE DEF T
<1>6. CASE device.blockwise
  <2>1. pc' = local.then /\ T.version = firmware
    BY <1>2, <1>3, <1>6
  <2> QED
    BY <1>1, <1>5, <2>1, EraseFilled
<1>7. CASE ~device.blockwise
  <2>1. pc' = "version" /\ T.version = 0 /\ T = [Blank EXCEPT !.version = 0]
    BY <1>2, <1>3, <1>7 DEF T
  <2>2. EraseInv'
    BY <1>1, <1>5, <2>1, EraseGoesOn
  <2>3. TypeInv' /\ SectorInv' /\ flash'[local'.sector] = [Blank EXCEPT !.version = 0] /\ local'.magic
    BY <1>1, <1>2, <1>5, <2>1, EraseTyped
  <2> QED
    BY <2>1, <2>2, <2>3 DEF Inv, PhaseInv
<1> QED
  BY <1>6, <1>7

(* erase_sector, writing the version.                                      *)
LEMMA WriteVersionInv ==
  ASSUME Inv, WriteVersion
  PROVE  Inv'
<1> DEFINE T == [Blank EXCEPT !.version = firmware]
<1>1. /\ TypeInv /\ SectorInv /\ EraseInv /\ local \in Local /\ local.magic
      /\ flash[local.sector] = [Blank EXCEPT !.version = 0]
  BY DEF Inv, PhaseInv, WriteVersion, TypeInv
<1>2. /\ flash' = [flash EXCEPT ![local.sector] = [flash[local.sector] EXCEPT !.version = firmware]]
      /\ Rest /\ local' = local /\ pc' = local.then
  BY DEF WriteVersion, nor, installed, ghost, Rest
<1>3. T \in Sector /\ T.items = <<>> /\ T.version = firmware
  BY <1>1, BlankSector, Numbers
<1>4. [flash[local.sector] EXCEPT !.version = firmware] = T
  BY <1>1 DEF Blank
<1>5. EraseStep(T)
  BY <1>1, <1>2, <1>3, <1>4, LocalTypes DEF EraseStep
<1> QED
  BY <1>1, <1>2, <1>3, <1>5, EraseFilled

-------------------------------------------------------------------------------
(* norcow_wipe, called by the application, by norcow_init or by the        *)
(* upgrade: every entry is at stake.                                       *)
LEMMA CallWipeInv ==
  ASSUME TypeInv, SectorInv, NEW loc \in Local, NEW s \in Sectors, CallWipe(loc, s),
         flash' = flash, model' = model, firmware' = firmware, store' = store, losses' = losses,
         active' = s, write' = write, version' \in 0..MaxFirmware, free' = free, at' = Keys,
         loc.caller \in {"wipe", "boot", "upgrade"}, loc.caller = "wipe" => loc.val = NoValue
  PROVE  Inv'
<1>1. TRUE \in BOOLEAN /\ "wipeOthers" \in Labels
  BY DEF Labels
<1>2. /\ local' \in Local /\ pc' = "erase" /\ local'.sector = s /\ local'.magic = TRUE
      /\ local'.then = "wipeOthers" /\ Erases(loc, local')
  BY <1>1, CallEraseLocal DEF CallWipe
<1>3. StillFlash
  BY <1>2 DEF StillFlash, TypeInv, Labels
<1>4. TypeInv' /\ SectorInv'
  BY <1>3, StillTyped
<1>5. local'.caller = loc.caller /\ local'.val = loc.val
  BY <1>2 DEF Erases
<1>6. Wiping'
  BY <1>5 DEF Wiping
<1>7. EraseInv'
  BY <1>2, <1>6 DEF EraseInv
<1> QED
  BY <1>2, <1>4, <1>7 DEF Inv, PhaseInv

(* The application calls norcow_wipe.                                      *)
LEMMA NorcowWipeInv ==
  ASSUME Inv, NorcowWipe
  PROVE  Inv'
<1> DEFINE loc == [local EXCEPT !.caller = "wipe", !.ok = TRUE]
<1>1. TypeInv /\ SectorInv /\ local = Quiet /\ local \in Local /\ active \in Sectors /\ local.val = NoValue
  <2>1. TypeInv /\ SectorInv /\ local = Quiet
    BY IdleFacts DEF NorcowWipe
  <2> QED
    BY <2>1, QuietType DEF TypeInv
<1>2. loc \in Local /\ loc.caller = "wipe" /\ loc.val = NoValue
  <2>1. "wipe" \in Callers
    BY DEF Callers
  <2> QED
    BY <1>1, <2>1 DEF Local
<1>3. /\ CallWipe(loc, active) /\ flash' = flash /\ model' = model /\ firmware' = firmware
      /\ store' = store /\ losses' = losses
      /\ active' = active /\ write' = write /\ version' = version /\ free' = free /\ at' = Keys
  BY DEF NorcowWipe, nor, installed
<1>4. version' \in 0..MaxFirmware
  BY <1>1, <1>3 DEF TypeInv
<1> HIDE DEF loc
<1> QED
  BY <1>1, <1>2, <1>3, <1>4, CallWipeInv

(* An entry did not fit: the storage is wiped.                             *)
LEMMA UpgradeFailedInv ==
  ASSUME Inv, UpgradeFailed
  PROVE  Inv'
<1>1. TypeInv /\ SectorInv /\ local \in Local /\ active \in Sectors /\ local.caller = "upgrade"
  BY DEF Inv, PhaseInv, UpgradeFailed, TypeInv
<1>2. /\ CallWipe(local, active) /\ flash' = flash /\ model' = model /\ firmware' = firmware
      /\ store' = store /\ losses' = losses
      /\ active' = active /\ write' = write /\ version' = version /\ free' = free /\ at' = Keys
  BY DEF UpgradeFailed, nor, installed
<1>3. version' \in 0..MaxFirmware
  BY <1>1, <1>2 DEF TypeInv
<1> QED
  BY <1>1, <1>2, <1>3, CallWipeInv

(* norcow_wipe goes on with the other sector.                              *)
LEMMA WipeOthersInv ==
  ASSUME Inv, WipeOthers
  PROVE  Inv'
<1>1. TypeInv /\ SectorInv /\ Emptied /\ local \in Local /\ active \in Sectors
  BY DEF Inv, PhaseInv, WipeOthers, TypeInv
<1>2. /\ flash' = flash /\ Rest /\ CallErase(local, 1 - active, FALSE, "wiped")
  BY DEF WipeOthers, nor, installed, ghost, Rest
<1>3. FALSE \in BOOLEAN /\ "wiped" \in Labels /\ 1 - active \in Sectors
  BY <1>1, Other DEF Labels
<1>4. /\ local' \in Local /\ pc' = "erase" /\ local'.sector = 1 - active /\ local'.magic = FALSE
      /\ local'.then = "wiped" /\ Erases(local, local')
  BY <1>1, <1>2, <1>3, CallEraseLocal
<1>5. TypeInv' /\ SectorInv'
  <2>1. StillFlash
    BY <1>1, <1>2, <1>4 DEF StillFlash, TypeInv, Labels, Rest
  <2> QED
    BY <1>1, <2>1, StillTyped
<1>6. Emptied'
  BY <1>1, <1>2, <1>4 DEF Emptied, Wiping, Erases, Rest
<1>7. EraseInv'
  BY <1>2, <1>4, <1>6 DEF EraseInv, Rest
<1> QED
  BY <1>4, <1>5, <1>7 DEF Inv, PhaseInv

(* norcow_wipe is done.                                                    *)
LEMMA WipedInv ==
  ASSUME Inv, Wiped
  PROVE  Inv'
<1>1. /\ TypeInv /\ SectorInv /\ Emptied /\ local \in Local /\ active \in Sectors
      /\ flash[1 - active] = Blank
  BY DEF Inv, PhaseInv, Wiped, TypeInv
<1>2. /\ flash' = flash /\ active' = active /\ model' = model /\ firmware' = firmware
      /\ local' = local /\ store' = store /\ at' = at /\ losses' = losses
      /\ version' = firmware /\ write' = active /\ free' = 0
      /\ pc' = IF local.caller = "upgrade" THEN "fault" ELSE "return"
  BY DEF Wiped, installed, ghost
<1>3. /\ Wiping /\ at = Keys /\ flash[active].version = firmware /\ flash[active].items = <<>>
      /\ local.caller \in {"wipe", "boot", "upgrade"}
  BY <1>1 DEF Emptied, Wiping
<1>4. /\ flash[active] \in Sector /\ Room(device.blockwise, flash[active].items) = 0
      /\ firmware # NoMagic /\ Blank.version = NoMagic
  BY <1>1, <1>3, FlashType, EmptySector, Numbers, BlankSector
<1>5. TypeInv' /\ SectorInv' /\ device' = device
  <2>1. StillFlash
    BY <1>1, <1>2, Numbers DEF StillFlash, TypeInv, Labels
  <2> QED
    BY <1>1, <2>1, StillTyped
<1>6. Tracked'
  BY <1>2, <1>4, <1>5 DEF Tracked
<1>7. InPlace'
  <2>1. Preferred(active)'
    BY <1>1, <1>2, <1>3, <1>4 DEF Preferred
  <2>2. Holds(active)'
    BY <1>2, <1>3 DEF Holds
  <2> QED
    BY <1>2, <1>3, <2>1, <2>2 DEF InPlace
<1>8. Wiping'
  BY <1>2, <1>3 DEF Wiping
<1>9. CASE local.caller = "upgrade"
  <2>1. pc' = "fault" /\ at' = Keys
    BY <1>2, <1>3, <1>9
  <2> QED
    BY <1>5, <2>1 DEF Inv, PhaseInv
<1>10. CASE local.caller # "upgrade"
  <2>1. pc' = "return" /\ local'.caller \in {"wipe", "boot"} /\ flash'[active'].items = <<>>
    BY <1>2, <1>3, <1>10
  <2>2. ReturnInv'
    BY <1>6, <1>7, <1>8, <2>1 DEF ReturnInv, Setters
  <2> QED
    BY <1>5, <2>1, <2>2 DEF Inv, PhaseInv
<1> QED
  BY <1>9, <1>10

(* norcow_upgrade_finish erases the old sector.                            *)
LEMMA UpgradeFinishInv ==
  ASSUME Inv, UpgradeFinish
  PROVE  Inv'
<1>1. TypeInv /\ SectorInv /\ Moved /\ local \in Local /\ active \in Sectors
  BY DEF Inv, PhaseInv, UpgradeFinish, TypeInv
<1>2. /\ flash' = flash /\ active' = active /\ write' = write /\ free' = free /\ model' = model
      /\ firmware' = firmware /\ store' = store /\ at' = at /\ losses' = losses
      /\ version' = firmware /\ CallErase(local, active, FALSE, "upgraded")
  BY DEF UpgradeFinish, installed, ghost
<1>3. FALSE \in BOOLEAN /\ "upgraded" \in Labels
  BY DEF Labels
<1>4. /\ local' \in Local /\ pc' = "erase" /\ local'.sector = active /\ local'.magic = FALSE
      /\ local'.then = "upgraded" /\ Erases(local, local')
  BY <1>1, <1>2, <1>3, CallEraseLocal
<1>5. TypeInv' /\ SectorInv' /\ device' = device
  <2>1. StillFlash
    BY <1>1, <1>2, <1>4, Numbers DEF StillFlash, TypeInv, Labels
  <2> QED
    BY <1>1, <2>1, StillTyped
<1>6. Moved'
  <2>1. Preferred(write)' /\ Holds(write)'
    BY <1>1, <1>2 DEF Moved, Preferred, Holds
  <2>2. Tracked' /\ Filled'
    BY <1>1, <1>2, <1>5 DEF Moved, Tracked, Filled
  <2> QED
    BY <1>1, <1>2, <1>4, <2>1, <2>2 DEF Moved, Erases
<1>7. EraseInv'
  BY <1>2, <1>4, <1>6 DEF EraseInv
<1> QED
  BY <1>4, <1>5, <1>7 DEF Inv, PhaseInv

(* The upgrade is done.                                                    *)
LEMMA UpgradedInv ==
  ASSUME Inv, Upgraded
  PROVE  Inv'
<1>1. TypeInv /\ SectorInv /\ Moved /\ local \in Local /\ active \in Sectors /\ write \in Sectors
  BY DEF Inv, PhaseInv, Upgraded, TypeInv
<1>2. /\ flash' = flash /\ active' = write /\ write' = write /\ free' = free /\ model' = model
      /\ firmware' = firmware /\ store' = store /\ at' = at /\ losses' = losses
      /\ version' = firmware /\ pc' = "return" /\ local' = [local EXCEPT !.caller = "boot"]
  BY DEF Upgraded, installed, ghost
<1>3. local' \in Local /\ local'.caller = "boot"
  <2>1. "boot" \in Callers
    BY DEF Callers
  <2> QED
    BY <1>1, <1>2, <2>1 DEF Local
<1>4. TypeInv' /\ SectorInv' /\ device' = device
  <2>1. StillFlash
    BY <1>1, <1>2, <1>3, Numbers DEF StillFlash, TypeInv, Labels
  <2> QED
    BY <1>1, <2>1, StillTyped
<1>5. InPlace'
  <2>1. Preferred(active)' /\ Holds(active)'
    BY <1>1, <1>2 DEF Moved, Preferred, Holds
  <2> QED
    BY <1>1, <1>2, <2>1 DEF Moved, Filled, InPlace
<1>6. Tracked'
  BY <1>1, <1>2, <1>4 DEF Moved, Tracked
<1>7. ReturnInv'
  BY <1>3, <1>5, <1>6 DEF ReturnInv, Setters
<1> QED
  BY <1>2, <1>4, <1>7 DEF Inv, PhaseInv

(* The call that an upgrade makes for an entry, or to mark itself.         *)
LEMMA UpgradeSets ==
  ASSUME Inv, pc = "next", flash' = flash, Rest,
         NEW loc \in Local, NEW k \in Keys, NEW v \in Seq(Element), NEW c \in {"upgrade", "flag"},
         CallSet(loc, k, v, c), loc.then = local.then,
         But(Taken(flash[active], loc.r), k) = But(Taken(flash[active], local.r), k),
         c = "upgrade" => \E j \in Live(flash[active]) :
                            loc.r = j + 1 /\ flash[active].items[j] = [key |-> k, val |-> v],
         c = "flag" => k = UpgradedKey /\ \A j \in Live(flash[active]) : j < loc.r
  PROVE  Inv'
<1>1. TypeInv /\ SectorInv /\ NextInv
  BY DEF Inv, PhaseInv
<1>2. /\ Moving /\ Filled /\ local.then = "next" /\ Tracked
      /\ Entries(flash[write]) = Taken(flash[active], local.r)
  BY <1>1 DEF NextInv
<1>3. c \in Callers
  BY DEF Callers
<1>4. /\ local' \in Local /\ pc' = FirstStep(k, v)
      /\ local'.key = k /\ local'.val = v /\ local'.caller = c
      /\ local'.i = 1 /\ local'.ok = TRUE /\ local'.r = loc.r /\ local'.then = "next"
  <2>1. /\ local' \in Local /\ pc' = FirstStep(k, v)
        /\ local'.key = k /\ local'.val = v /\ local'.caller = c
        /\ local'.i = 1 /\ local'.ok = TRUE /\ local'.r = loc.r /\ local'.then = loc.then
    BY <1>3, CallSetLocal
  <2> QED
    BY <1>2, <2>1
<1>5. pc' \in Labels
  BY <1>4, FirstStepLabel, LabelFacts
<1>6. TypeInv' /\ SectorInv' /\ device' = device
  <2>1. StillFlash
    BY <1>1, <1>4, <1>5 DEF StillFlash, TypeInv, Rest
  <2> QED
    BY <1>1, <2>1, StillTyped
<1>7. Tracked' /\ Filled'
  BY <1>2, <1>6 DEF Tracked, Filled, Rest
<1>8. Moving'
  <2>1. Holds(active)'
    BY <1>2 DEF Moving, Holds, Rest
  <2> QED
    BY <1>2, <2>1 DEF Moving, Rest
<1>9. InLoop'
  BY <1>2, <1>4, <1>7, <1>8 DEF InLoop, Rest
<1>10. Setting'
  <2>1. c \in Setters /\ c \notin {"set", "delete"}
    BY DEF Setters
  <2> QED
    BY <1>4, <1>9, <2>1 DEF Setting, Rest
<1>11. flash[write] \in Sector /\ OneEach(flash[write]) /\ flash[write].version # NoMagic
  BY <1>1, <1>2, WriteSector, Numbers DEF Filled
<1>12. local'.caller # "delete" /\ local'.ok
  BY <1>4
<1> QED
  BY <1>4, <1>6, <1>7, <1>10, <1>11, <1>12, FirstStepInv DEF Rest

(* The upgrade reads the next entry, or marks the new sector when there is *)
(* none.                                                                   *)
LEMMA UpgradeNextInv ==
  ASSUME Inv, UpgradeNext
  PROVE  Inv'
<1> DEFINE A == flash[active]
           rest == {m \in Unread(A) : Latest(A, m)}
<1>1. TypeInv /\ SectorInv /\ NextInv /\ pc = "next" /\ local \in Local /\ active \in Sectors /\ local.r \in Nat
  BY LocalTypes DEF Inv, PhaseInv, UpgradeNext, TypeInv
<1>2. A \in Sector /\ OneEach(A)
  BY <1>1, FlashType DEF SectorInv, NextInv, Moving
<1>3. flash' = flash /\ Rest
  BY DEF UpgradeNext, nor, installed, ghost, Rest
<1>4. IF rest # {}
      THEN CallSet([local EXCEPT !.r = Advanced(First(rest))], A.items[First(rest)].key, A.items[First(rest)].val, "upgrade")
      ELSE CallSet(local, UpgradedKey, IF A.version = 0 THEN FalseWord ELSE TrueWord, "flag")
  BY DEF UpgradeNext
<1>5. \A j \in Live(A) : j \in rest <=> j >= local.r
  <2>1. \A j, n \in Live(A) : n > j => n # j
    BY <1>2, SectorType, SMT
  <2>2. \A j \in Live(A) : Latest(A, j)
    BY <1>2, <2>1 DEF Latest, OneEach
  <2> QED
    BY <2>2 DEF Unread
<1>6. rest \subseteq Live(A)
  BY DEF Unread
<1>7. \A j \in Live(A) : j \in Nat /\ A.items[j] \in Item /\ A.items[j].key \in Keys
                         /\ A.items[j].val \in Seq(Element)
  BY <1>2, SectorType
<1> HIDE DEF A, rest
<1>8. CASE rest # {}
  <2> DEFINE j == First(rest)
             x == A.items[j]
             loc == [local EXCEPT !.r = j + 1]
  <2>1. rest \subseteq Nat
    BY <1>6, <1>7
  <2>2. j \in rest /\ \A m \in rest : j <= m
    BY <1>8, <2>1, LeastUnread
  <2>3. CallSet(loc, x.key, x.val, "upgrade")
    BY <1>4, <1>8 DEF Advanced
  <2> HIDE DEF j
  <2>4. j \in Live(A) /\ j >= local.r /\ \A m \in Live(A) : m >= local.r => j <= m
    BY <1>5, <1>6, <2>2
  <2>5. /\ But(Taken(A, j + 1), x.key) = But(Taken(A, local.r), x.key) /\ j + 1 \in Nat
    BY <1>1, <1>2, <2>4, TakenNext, SMT
  <2>6. x.key \in Keys /\ x.val \in Seq(Element) /\ x = [key |-> x.key, val |-> x.val]
    BY <1>7, <2>4 DEF Item
  <2>7. loc \in Local /\ loc.r = j + 1 /\ loc.then = local.then
    BY <1>1, <2>5 DEF Local
  <2> HIDE DEF loc
  <2> DEFINE k == x.key
             v == x.val
             c == "upgrade"
  <2>8. /\ c \in {"upgrade", "flag"} /\ k \in Keys /\ v \in Seq(Element) /\ CallSet(loc, k, v, c)
        /\ But(Taken(flash[active], loc.r), k) = But(Taken(flash[active], local.r), k)
        /\ \E m \in Live(flash[active]) :
             loc.r = m + 1 /\ flash[active].items[m] = [key |-> k, val |-> v]
        /\ c # "flag"
    BY <2>3, <2>4, <2>5, <2>6, <2>7 DEF A
  <2> HIDE DEF k, v, c, x
  <2> QED
    BY <1>1, <1>3, <2>7, <2>8, UpgradeSets
<1>9. CASE rest = {}
  <2> DEFINE v == IF A.version = 0 THEN FalseWord ELSE TrueWord
             c == "flag"
  <2>1. \A j \in Live(A) : j < local.r
    BY <1>1, <1>5, <1>7, <1>9, SMT
  <2>2. v \in Seq(Element) /\ UpgradedKey \in Keys
    BY WordsAssumption, KeysAssumption DEF Element
  <2>3. c \in {"upgrade", "flag"} /\ CallSet(local, UpgradedKey, v, c) /\ c # "upgrade"
    BY <1>4, <1>9
  <2> HIDE DEF v, c
  <2> QED
    BY <1>1, <1>3, <2>1, <2>2, <2>3, UpgradeSets DEF A
<1> QED
  BY <1>8, <1>9

-------------------------------------------------------------------------------
(* Power can be lost while one sector is in use,                           *)
LEMMA InPlaceSafe ==
  ASSUME TypeInv, InPlace
  PROVE  \E s \in Sectors : Safe(s)
<1>1. active \in Sectors /\ flash[active].version # 0
  BY Numbers DEF TypeInv, InPlace
<1> QED
  BY <1>1 DEF InPlace, Safe

(* after an upgrade has copied everything,                                 *)
LEMMA MovedSafe ==
  ASSUME TypeInv, Moved
  PROVE  \E s \in Sectors : Safe(s)
<1>1. write \in Sectors /\ flash[write].version # 0
  BY Numbers DEF TypeInv, Moved, Filled
<1> QED
  BY <1>1 DEF Moved, Safe

(* Of two sectors of the same version norcow_init takes sector 1.          *)
LEMMA SecondPreferred ==
  ASSUME TypeInv, flash[0].version = firmware, flash[1].version = firmware
  PROVE  Preferred(1) /\ flash[1].version # 0 /\ 1 \in Sectors
<1>1. 1 - 1 = 0 /\ 1 \in Sectors
  BY SMT DEF Sectors
<1> QED
  BY <1>1, Numbers DEF Preferred

(* while compact copies to the first sector,                               *)
LEMMA CopyingSafe ==
  ASSUME TypeInv, Compacting, Filled, active # 0
  PROVE  \E s \in Sectors : Safe(s)
<1>1. active = 1 /\ write = 0
  <2>1. active \in Sectors /\ write = 1 - active
    BY DEF TypeInv, Compacting
  <2> QED
    BY <2>1, SMT DEF Sectors
<1>2. flash[0].version = firmware /\ flash[1].version = firmware /\ Holds(1)
  BY <1>1 DEF Compacting, Filled
<1> QED
  BY <1>2, SecondPreferred DEF Safe

(* while a sector is erased,                                               *)
LEMMA EraseSafe ==
  ASSUME TypeInv, EraseInv
  PROVE  \E s \in Sectors : Safe(s)
<1>1. local.then \in {"copy", "compacted", "wipeOthers", "wiped", "next", "upgraded"}
  BY DEF EraseInv
<1>2. active \in Sectors /\ write \in Sectors /\ firmware # 0
  BY Numbers DEF TypeInv
<1>3. CASE local.then = "copy"
  <2>1. Compacting /\ Preferred(active)
    BY <1>3 DEF EraseInv
  <2> QED
    BY <1>2, <2>1 DEF Compacting, Safe
<1>4. CASE local.then = "compacted"
  <2>1. Compacting /\ Compact
    BY <1>4 DEF EraseInv
  <2>2. CASE active # 0
    BY <2>1, <2>2, CopyingSafe DEF Compact
  <2>3. CASE active = 0
    <3>1. write = 1
      BY <2>1, <2>3, SMT DEF Compact
    <3>2. flash[0].version = firmware /\ flash[1].version = firmware /\ Holds(1)
      BY <2>1, <2>3, <3>1 DEF Compacting, Compact, Filled
    <3> QED
      BY <3>2, SecondPreferred DEF Safe
  <2> QED
    BY <2>2, <2>3
<1>5. CASE local.then \in {"wipeOthers", "wiped"}
  <2>1. at = Keys
    BY <1>5 DEF EraseInv, Emptied, Wiping
  <2> QED
    BY <1>2, <2>1 DEF Safe
<1>6. CASE local.then = "next"
  <2>1. Safe(active)
    BY <1>6 DEF EraseInv
  <2> QED
    BY <1>2, <2>1
<1>7. CASE local.then = "upgraded"
  <2>1. Moved
    BY <1>7 DEF EraseInv
  <2> QED
    BY <2>1, MovedSafe
<1> QED
  BY <1>1, <1>3, <1>4, <1>5, <1>6, <1>7

(* while an entry is set,                                                  *)
LEMMA SettingSafe ==
  ASSUME TypeInv, Setting, ~AtRisk, pc # "finish"
  PROVE  \E s \in Sectors : Safe(s)
<1>1. CASE local.caller \in {"set", "delete"}
  <2>1. InPlace
    BY <1>1 DEF Setting
  <2> QED
    BY <2>1, InPlaceSafe
<1>2. CASE local.caller \in {"upgrade", "flag"}
  <2>1. local.then = "next"
    BY <1>2 DEF Setting, InLoop
  <2>2. Filling
    BY <1>2, <2>1 DEF Filling
  <2> QED
    BY <2>2 DEF AtRisk
<1> QED
  BY <1>1, <1>2 DEF Setting, Setters

(* while an item is written,                                               *)
LEMMA WriteSafe ==
  ASSUME TypeInv, ~AtRisk, pc \in {"prefix", "data"}, IF local.copying THEN CopyingItem ELSE Adding
  PROVE  \E s \in Sectors : Safe(s)
<1>1. CASE local.copying
  <2>1. active # 0
    BY <1>1 DEF AtRisk, Copying
  <2> QED
    BY <1>1, <2>1, CopyingSafe DEF CopyingItem
<1>2. CASE ~local.copying
  BY <1>2, SettingSafe DEF Adding
<1> QED
  BY <1>1, <1>2

(* and after compact has erased the old sector.                            *)
LEMMA CompactSafe ==
  ASSUME TypeInv, Compact, flash[active] = Blank
  PROVE  \E s \in Sectors : Safe(s)
<1>1. write \in Sectors /\ active \in Sectors /\ write = 1 - active /\ flash[write].version = firmware /\ Holds(write)
  BY DEF TypeInv, Compact, Filled
<1>2. 1 - write = active
  BY <1>1, Other
<1>3. firmware # 0 /\ firmware # NoMagic /\ flash[1 - write].version = NoMagic
  BY <1>2, Numbers, BlankSector
<1> QED
  BY <1>1, <1>3 DEF Safe, Preferred

(* Wherever power is lost outside the windows of AtRisk, the device finds  *)
(* every entry that was not at stake.                                      *)
LEMMA PowerLossSafe ==
  ASSUME Inv, pc \notin {"idle", "off", "fault"}, ~AtRisk
  PROVE  \E s \in Sectors : Safe(s)
<1>1. TypeInv /\ PhaseInv /\ pc \in Labels /\ active \in Sectors
  BY DEF Inv, TypeInv
<1>2. CASE pc \in {"update", "delete", "zero", "room"}
  <2>1. Setting
    BY <1>1, <1>2 DEF PhaseInv, UpdateInv, DeleteInv, ZeroInv, RoomInv
  <2> QED
    BY <1>1, <1>2, <2>1, SettingSafe
<1>3. CASE pc \in {"prefix", "data"}
  <2>1. IF local.copying THEN CopyingItem ELSE Adding
    BY <1>1, <1>3 DEF PhaseInv, PrefixInv, DataInv
  <2> QED
    BY <1>1, <1>3, <2>1, WriteSafe
<1>4. CASE pc = "return"
  <2>1. ReturnInv
    BY <1>1, <1>4 DEF PhaseInv
  <2>2. CASE local.caller \in Setters
    BY <1>1, <1>4, <2>1, <2>2, SettingSafe DEF ReturnInv
  <2>3. CASE local.caller \in {"boot", "wipe"}
    BY <1>1, <2>1, <2>3, InPlaceSafe DEF ReturnInv
  <2> QED
    BY <2>1, <2>2, <2>3 DEF ReturnInv
<1>5. CASE pc \in {"erase", "magic", "version"}
  <2>1. EraseInv
    BY <1>1, <1>5 DEF PhaseInv
  <2> QED
    BY <1>1, <2>1, EraseSafe
<1>6. CASE pc = "copy"
  <2>1. Compacting /\ Filled
    BY <1>1, <1>6 DEF PhaseInv
  <2>2. active # 0
    BY <1>6 DEF AtRisk, Copying
  <2> QED
    BY <1>1, <2>1, <2>2, CopyingSafe
<1>7. CASE pc = "compacted"
  <2>1. Compact /\ flash[active] = Blank
    BY <1>1, <1>7 DEF PhaseInv
  <2> QED
    BY <1>1, <2>1, CompactSafe
<1>8. CASE pc \in {"wipeOthers", "wiped"}
  <2>1. at = Keys
    BY <1>1, <1>8 DEF PhaseInv, Emptied, Wiping
  <2> QED
    BY <1>1, <2>1 DEF Safe
<1>9. CASE pc \in {"next", "failed"}
  <2>1. Filling
    BY <1>1, <1>9 DEF PhaseInv, Filling
  <2> QED
    BY <2>1 DEF AtRisk
<1>10. CASE pc \in {"finish", "upgraded"}
  <2>1. Moved
    BY <1>1, <1>10 DEF PhaseInv
  <2> QED
    BY <1>1, <2>1, MovedSafe
<1> QED
  BY <1>1, <1>2, <1>3, <1>4, <1>5, <1>6, <1>7, <1>8, <1>9, <1>10 DEF Labels

(* The device turns off: what was in RAM is gone.                          *)
LEMMA OffInv ==
  ASSUME TypeInv, SectorInv, Off, flash' = flash, model' = model, firmware' = firmware,
         store' = store, losses' \in 0..device.losses,
         at' = Keys \/ (at' = at /\ \E s \in Sectors : Safe(s))
  PROVE  Inv'
<1>1. pc' = "off" /\ local' = Quiet /\ active' = 0 /\ write' = 0 /\ version' = 0 /\ free' = 0
  BY DEF Off
<1>2. device' = device
  BY DEF device
<1>3. 0 \in Sectors /\ 0 \in 0..MaxFirmware /\ 0 \in 0..device.size /\ "off" \in Labels /\ at \subseteq Keys
  BY Numbers, SMT DEF Sectors, Labels, TypeInv
<1>4. TypeInv'
  BY <1>1, <1>2, <1>3, QuietType DEF TypeInv
<1>5. SectorInv'
  BY <1>2 DEF SectorInv
<1>6. \E s \in Sectors : (Safe(s))'
  <2>1. CASE at' = Keys
    BY <1>3, <2>1 DEF Safe
  <2>2. CASE at' = at /\ \E s \in Sectors : Safe(s)
    BY <2>2 DEF Safe, Preferred, Holds
  <2> QED
    BY <2>1, <2>2
<1> QED
  BY <1>1, <1>4, <1>5, <1>6 DEF Inv, PhaseInv

(* An assertion of the firmware turns it off.                              *)
LEMMA FaultInv ==
  ASSUME Inv, Fault
  PROVE  Inv'
<1>1. TypeInv /\ SectorInv /\ losses \in 0..device.losses
  BY DEF Inv, TypeInv
<1>2. /\ Off /\ flash' = flash /\ model' = model /\ firmware' = firmware
      /\ store' = store /\ losses' = losses /\ at' = Keys
  BY DEF Fault, installed
<1> QED
  BY <1>1, <1>2, OffInv

(* It is turned off between two operations.                                *)
LEMMA TurnOffInv ==
  ASSUME Inv, TurnOff
  PROVE  Inv'
<1>1. TypeInv /\ SectorInv /\ losses \in 0..device.losses /\ InPlace
  BY IdleFacts DEF Inv, TypeInv, TurnOff
<1>2. /\ Off /\ flash' = flash /\ model' = model /\ firmware' = firmware
      /\ store' = store /\ losses' = losses /\ at' = at
  BY DEF TurnOff, installed, ghost
<1>3. \E s \in Sectors : Safe(s)
  BY <1>1, InPlaceSafe
<1> QED
  BY <1>1, <1>2, <1>3, OffInv

(* Power is lost while an operation is running.                            *)
LEMMA PowerLossInv ==
  ASSUME Inv, PowerLoss
  PROVE  Inv'
<1>1. TypeInv /\ SectorInv /\ losses \in 0..device.losses /\ device.losses \in Nat
  BY DeviceFacts DEF Inv, TypeInv
<1>2. /\ Off /\ flash' = flash /\ model' = model /\ firmware' = firmware
      /\ store' = store /\ losses' = losses + 1 /\ losses < device.losses
      /\ at' = IF AtRisk THEN Keys ELSE at
      /\ pc \notin {"idle", "off", "fault"}
  BY DEF PowerLoss, installed
<1>3. losses' \in 0..device.losses
  BY <1>1, <1>2, SMT
<1>4. at' = Keys \/ (at' = at /\ \E s \in Sectors : Safe(s))
  BY <1>2, PowerLossSafe
<1> QED
  BY <1>1, <1>2, <1>3, <1>4, OffInv

(* Other firmware is installed while it is off.                            *)
LEMMA InstallFirmwareInv ==
  ASSUME Inv, NEW f \in 1..device.firmware, InstallFirmware(f)
  PROVE  Inv'
<1>1. TypeInv /\ SectorInv /\ pc = "off" /\ local = Quiet /\ \E s \in Sectors : Safe(s)
  BY DEF Inv, PhaseInv, InstallFirmware
<1>2. /\ flash' = flash /\ model' = model /\ firmware' = f /\ active' = active /\ write' = write
      /\ version' = version /\ free' = free /\ pc' = pc /\ local' = local
      /\ store' = store /\ at' = at /\ losses' = losses
  BY DEF InstallFirmware, nor, ghost
<1>3. device' = device
  BY <1>2 DEF device
<1>4. TypeInv'
  BY <1>1, <1>2, <1>3 DEF TypeInv
<1>5. SectorInv'
  BY <1>1, <1>2, <1>3 DEF SectorInv
<1>6. \E s \in Sectors : (Safe(s))'
  BY <1>1, <1>2 DEF Safe, Preferred, Holds
<1> QED
  BY <1>1, <1>2, <1>4, <1>5, <1>6 DEF Inv, PhaseInv

(* norcow_init takes the sector that has the entries.                      *)
LEMMA InitFinds ==
  ASSUME Inv, pc = "off", WithMagic # {}
  PROVE  /\ Detected \in Sectors /\ Preferred(Detected) /\ Safe(Detected) /\ Holds(Detected)
         /\ flash[Detected] \in Sector /\ OneEach(flash[Detected]) /\ flash[Detected].version \in 0..MaxFirmware
<1>1. TypeInv /\ SectorInv
  BY DEF Inv
<1>2. PICK s \in Sectors : Safe(s)
  BY DEF Inv, PhaseInv
<1>3. Detected \in Sectors /\ Preferred(Detected)
  BY <1>1, DetectedIsPreferred
<1>4. Safe(Detected) /\ Holds(Detected)
  <2>1. CASE at = Keys
    BY <2>1 DEF Safe, Holds
  <2>2. CASE at # Keys
    <3>1. Preferred(s) /\ Holds(s)
      BY <1>2, <2>2 DEF Safe
    <3>2. Detected = s
      BY <1>1, <3>1, PreferredIsDetected
    <3> QED
      BY <1>2, <3>1, <3>2
  <2> QED
    BY <2>1, <2>2
<1>5. flash[Detected] \in Sector /\ OneEach(flash[Detected])
  BY <1>1, <1>3, FlashType DEF SectorInv
<1>6. flash[Detected].version \in 0..MaxFirmware
  <2>1. flash[Detected].version \in 0..NoMagic /\ flash[Detected].version # NoMagic
    BY <1>3, <1>5, SectorType DEF Preferred
  <2>2. MaxFirmware \in Nat
    BY <1>1, DeviceFacts
  <2> QED
    BY <2>1, <2>2, SMT DEF NoMagic
<1> QED
  BY <1>3, <1>4, <1>5, <1>6

(* find_start_offset leaves the version of a sector in                     *)
(* norcow_active_version, if not always of the one it found.               *)
LEMMA ScannedType ==
  ASSUME TypeInv, WithMagic # {}
  PROVE  Scanned \in 0..MaxFirmware
<1>1. WithMagic \subseteq 0..1 /\ 1 \in Nat
  BY SMT DEF WithMagic, Sectors
<1>2. \E s \in WithMagic : \A t \in WithMagic : s >= t
  BY <1>1, GreatestNumber
<1>3. Last(WithMagic) \in WithMagic
  BY <1>2 DEF Last
<1>4. Scanned \in 0..NoMagic /\ Scanned # NoMagic
  BY <1>3, FlashType, SectorType DEF Scanned, WithMagic
<1>5. MaxFirmware \in Nat
  BY DeviceFacts
<1> QED
  BY <1>4, <1>5, SMT DEF NoMagic

(* norcow_init: the sector in use is found, an upgrade starts, or there is *)
(* nothing and the storage is wiped.                                       *)
LEMMA NorcowInitInv ==
  ASSUME Inv, NorcowInit
  PROVE  Inv'
<1> DEFINE loc == [local EXCEPT !.caller = "boot", !.ok = TRUE]
           D == Detected
<1>1. TypeInv /\ SectorInv /\ pc = "off" /\ local \in Local /\ at \subseteq Keys /\ firmware \in Nat
  BY Numbers DEF Inv, NorcowInit, TypeInv
<1>2. loc \in Local /\ loc.caller = "boot"
  <2>1. "boot" \in Callers
    BY DEF Callers
  <2> QED
    BY <1>1, <2>1 DEF Local
<1>3. flash' = flash /\ model' = model /\ firmware' = firmware /\ store' = store /\ losses' = losses
  BY DEF NorcowInit, installed
<1>4. ASSUME WithMagic # {}
      PROVE  /\ D \in Sectors /\ Preferred(D) /\ Safe(D) /\ Holds(D)
             /\ flash[D] \in Sector /\ OneEach(flash[D]) /\ flash[D].version \in 0..MaxFirmware
  BY <1>1, <1>4, InitFinds
<1>a. WithMagic # {} => Scanned \in 0..MaxFirmware
  BY <1>1, ScannedType
<1>5. CASE WithMagic = {}
  <2>1. /\ active' = 0 /\ CallWipe(loc, 0) /\ at' = Keys
        /\ write' = write /\ version' = version /\ free' = free
    BY <1>5 DEF NorcowInit
  <2>2. 0 \in Sectors
    BY SMT DEF Sectors
  <2>3. version' \in 0..MaxFirmware
    BY <1>1, <2>1 DEF TypeInv
  <2> HIDE DEF loc
  <2> QED
    BY <1>1, <1>2, <1>3, <2>1, <2>2, <2>3, CallWipeInv
<1>6. CASE WithMagic # {} /\ flash[D].version > firmware
  <2>1. flash[D].version \in Nat
    BY <1>4, <1>6, SMT
  <2>2. ~(flash[D].version < firmware) /\ flash[D].version # firmware
    BY <1>1, <1>6, <2>1, SMT
  <2>3. /\ active' = D /\ CallWipe(loc, D) /\ at' = Keys
        /\ write' = write /\ version' = Scanned /\ free' = free
    BY <1>6, <2>2 DEF NorcowInit
  <2> HIDE DEF loc, D
  <2> QED
    BY <1>1, <1>2, <1>3, <1>4, <1>a, <1>6, <2>3, CallWipeInv
<1>7. CASE WithMagic # {} /\ flash[D].version < firmware
  <2> DEFINE l == [loc EXCEPT !.r = 1]
  <2>1. flash[D].version \in Nat
    BY <1>4, <1>7, SMT
  <2>2. ~(flash[D].version > firmware) /\ flash[D].version # firmware
    BY <1>1, <1>7, <2>1, SMT
  <2>3. /\ active' = D /\ version' = Scanned /\ write' = 1 - D /\ free' = 0
        /\ CallErase(l, 1 - D, TRUE, "next") /\ at' = at \cup {UpgradedKey}
    BY <1>7, <2>2 DEF NorcowInit, BeginUpgrade
  <2> HIDE DEF loc, D
  <2>4. l \in Local /\ l.r = 1 /\ l.caller = "boot"
    <3>1. 1 \in Nat
      BY SMT
    <3> QED
      BY <1>2, <3>1 DEF Local
  <2> HIDE DEF l
  <2>5. 1 - D \in Sectors /\ TRUE \in BOOLEAN /\ "next" \in Labels
    BY <1>4, <1>7, Other DEF Labels
  <2>6. /\ local' \in Local /\ pc' = "erase" /\ local'.sector = 1 - D /\ local'.magic = TRUE
        /\ local'.then = "next" /\ Erases(l, local')
    BY <2>3, <2>4, <2>5, CallEraseLocal
  <2>7. local'.r = 1 /\ local'.caller = "boot"
    BY <2>4, <2>6 DEF Erases
  <2>8. TypeInv' /\ SectorInv'
    <3>1. at' \subseteq Keys
      BY <1>1, <2>3, KeysAssumption
    <3>2. StillFlash
      BY <1>1, <1>3, <1>4, <1>a, <1>7, <2>3, <2>5, <2>6, <3>1, Numbers DEF StillFlash, Labels
    <3> QED
      BY <1>1, <3>2, StillTyped
  <2>9. Holds(active)'
    BY <1>3, <1>4, <1>7, <2>3 DEF Holds
  <2>10. Safe(active)'
    <3>1. CASE at = Keys
      BY <3>1, <2>3, KeysAssumption DEF Safe
    <3>2. CASE at # Keys
      <4>1. Preferred(D) /\ flash[D].version # 0
        BY <1>4, <1>7, <3>2 DEF Safe
      <4>2. Preferred(active)'
        BY <1>3, <2>3, <4>1 DEF Preferred
      <4> QED
        BY <1>3, <2>3, <2>9, <4>1, <4>2 DEF Safe
    <3> QED
      BY <3>1, <3>2
  <2>11. Moving'
    BY <1>3, <1>7, <2>3, <2>9 DEF Moving
  <2>12. EraseInv'
    BY <2>3, <2>6, <2>7, <2>10, <2>11 DEF EraseInv
  <2> QED
    BY <2>6, <2>8, <2>12 DEF Inv, PhaseInv
<1>8. CASE WithMagic # {} /\ flash[D].version = firmware
  <2>1. ~(flash[D].version < firmware) /\ ~(flash[D].version > firmware)
    BY <1>1, <1>8, SMT
  <2>2. /\ active' = D /\ version' = Scanned /\ write' = D /\ free' = FindFreeOffset(flash[D])
        /\ pc' = "return" /\ local' = loc /\ at' = at
    BY <1>8, <2>1 DEF NorcowInit
  <2> HIDE DEF loc, D
  <2>3. /\ Room(device.blockwise, flash[D].items) \in Nat
        /\ Room(device.blockwise, flash[D].items) <= device.size
        /\ device.size \in Nat /\ firmware # NoMagic /\ firmware \in 0..MaxFirmware
    BY <1>1, <1>4, <1>8, RoomType, SectorType, DeviceFacts, Numbers DEF SectorInv
  <2>4. free' = Room(device.blockwise, flash[D].items)
    BY <1>8, <2>2, <2>3, UsedIsRoom DEF FindFreeOffset
  <2>5. free' \in 0..device.size
    BY <2>3, <2>4, SMT
  <2>6. TypeInv' /\ SectorInv' /\ device' = device
    <3>1. StillFlash
      BY <1>1, <1>2, <1>3, <1>4, <1>a, <1>8, <2>2, <2>3, <2>5 DEF StillFlash, Labels
    <3> QED
      BY <1>1, <3>1, StillTyped
  <2>7. Tracked'
    BY <1>3, <2>2, <2>4, <2>6 DEF Tracked
  <2>8. InPlace'
    <3>1. Preferred(active)' /\ Holds(active)'
      BY <1>3, <1>4, <1>8, <2>2 DEF Preferred, Holds
    <3> QED
      BY <1>3, <1>8, <2>2, <3>1 DEF InPlace
  <2>9. ReturnInv'
    BY <1>2, <2>2, <2>7, <2>8 DEF ReturnInv, Setters
  <2> QED
    BY <2>2, <2>6, <2>9 DEF Inv, PhaseInv
<1>9. WithMagic # {} => \/ flash[D].version > firmware \/ flash[D].version < firmware
                        \/ flash[D].version = firmware
  <2>1. WithMagic # {} => flash[D].version \in Nat
    BY <1>4, SMT
  <2> HIDE DEF D
  <2> QED
    BY <1>1, <2>1, SMT
<1> QED
  BY <1>5, <1>6, <1>7, <1>8, <1>9

-------------------------------------------------------------------------------
(* The upgrade goes on with the next entry.                                *)
LEMMA ReturnToLoop ==
  ASSUME Inv, pc = "return", local.caller = "upgrade", local.ok,
         pc' = "next", local' = local, flash' = flash, Rest
  PROVE  Inv'
<1> DEFINE A == flash[active]
           W == flash[write]
           k == local.key
           x == [key |-> k, val |-> local.val]
<1>1. TypeInv /\ SectorInv /\ Tracked /\ Setting /\ Result
  BY DEF Inv, PhaseInv, ReturnInv, Setters
<1>2. Moving /\ Filled /\ local.then = "next" /\ But(Entries(W), k) = But(Taken(A, local.r), k)
  BY <1>1 DEF Setting, InLoop
<1>3. PICK j \in Live(A) : local.r = j + 1 /\ A.items[j] = x
  BY <1>1 DEF Setting
<1>4. /\ active \in Sectors /\ write \in Sectors /\ A \in Sector /\ OneEach(A) /\ OneEach(W) /\ x.key = k
      /\ local \in Local
  BY <1>1, FlashType, LocalTypes DEF TypeInv, SectorInv
<1>5. x \in Entries(W)
  BY <1>1 DEF Result
<1>6. Entries(W) = Taken(A, local.r)
  <2>1. PICK n \in Live(W) : W.items[n] = x
    BY <1>5 DEF Entries
  <2>2. \A e \in Entries(W) : e.key = k => e = x
    BY <1>4, <2>1, OneEntry
  <2> DEFINE E == Entries(W)
  <2>3. /\ \A e \in E : e.key = k => e = A.items[j]
        /\ A.items[j] \in E /\ A.items[j].key = k /\ But(E, k) = But(Taken(A, local.r), k)
    BY <1>2, <1>3, <1>4, <1>5, <2>2
  <2> HIDE DEF A, W, k, x, E
  <2>4. E = Taken(A, local.r)
    BY <1>3, <1>4, <2>3, LoopDone, SMT
  <2> QED
    BY <2>4 DEF E
<1>7. TypeInv' /\ SectorInv' /\ device' = device
  <2>1. StillFlash
    BY <1>1, <1>4 DEF StillFlash, TypeInv, Labels, Rest
  <2> QED
    BY <1>1, <2>1, StillTyped
<1>8. Tracked' /\ Filled'
  BY <1>1, <1>2, <1>7 DEF Tracked, Filled, Rest
<1>9. Moving'
  <2>1. Holds(active)'
    BY <1>2 DEF Moving, Holds, Rest
  <2> QED
    BY <1>2, <2>1 DEF Moving, Rest
<1>10. NextInv'
  BY <1>2, <1>6, <1>8, <1>9 DEF NextInv, Rest
<1> QED
  BY <1>7, <1>10 DEF Inv, PhaseInv

(* The upgrade is marked: the write sector has every entry.                *)
LEMMA ReturnToFinish ==
  ASSUME Inv, pc = "return", local.caller = "flag",
         pc' = "finish", local' = local, flash' = flash, Rest
  PROVE  Inv'
<1> DEFINE A == flash[active]
           W == flash[write]
           k == local.key
<1>1. TypeInv /\ SectorInv /\ Tracked /\ Setting
  BY DEF Inv, PhaseInv, ReturnInv, Setters
<1>2. /\ Moving /\ Filled /\ But(Entries(W), k) = But(Taken(A, local.r), k)
      /\ k = UpgradedKey /\ \A j \in Live(A) : j < local.r
  BY <1>1 DEF Setting, InLoop
<1>3. /\ active \in Sectors /\ write \in Sectors /\ A \in Sector /\ W \in Sector /\ OneEach(A) /\ OneEach(W)
      /\ local \in Local
  BY <1>1, FlashType DEF TypeInv, SectorInv
<1>4. /\ write = 1 - active /\ A.version < firmware /\ A.version # NoMagic
      /\ W.version = firmware /\ firmware # NoMagic /\ Holds(active) /\ UpgradedKey \in at
  <2>1. /\ write = 1 - active /\ A.version < firmware
        /\ W.version = firmware /\ firmware # NoMagic /\ Holds(active) /\ UpgradedKey \in at
    BY <1>1, <1>2, Numbers DEF Moving, Filled
  <2>2. firmware \in 0..MaxFirmware /\ MaxFirmware \in Nat
    BY <1>1, Numbers, DeviceFacts
  <2>3. A.version \in 0..NoMagic
    BY <1>3, SectorType
  <2>4. A.version # NoMagic
    BY <2>1, <2>2, <2>3, SMT DEF NoMagic
  <2> QED
    BY <2>1, <2>4
<1>5. Taken(A, local.r) = Entries(A)
  BY <1>2, TakenAll
<1>6. Holds(write)
  <2>1. ASSUME NEW n \in Keys \ at PROVE NorcowGet(W, n) = store[n]
    <3>1. n \in Keys /\ n # k
      BY <1>2, <1>4
    <3>2. But(Entries(A), k) = But(Entries(W), k)
      BY <1>2, <1>5
    <3>3. NorcowGet(A, n) = store[n]
      BY <1>4 DEF Holds
    <3> HIDE DEF A, W, k
    <3>4. NorcowGet(A, n) = NorcowGet(W, n)
      BY <1>3, <1>4, <3>1, <3>2, GetSame, SMT
    <3> QED
      BY <3>3, <3>4
  <2> QED
    BY <2>1 DEF Holds
<1>7. 1 - write = active
  BY <1>3, <1>4, Other
<1>8. Preferred(write)
  BY <1>4, <1>7 DEF Preferred
<1>9. TypeInv' /\ SectorInv' /\ device' = device
  <2>1. StillFlash
    BY <1>1, <1>3 DEF StillFlash, TypeInv, Labels, Rest
  <2> QED
    BY <1>1, <2>1, StillTyped
<1>10. Tracked' /\ Filled'
  BY <1>1, <1>2, <1>9 DEF Tracked, Filled, Rest
<1>11. Preferred(write)' /\ Holds(write)'
  BY <1>6, <1>8 DEF Preferred, Holds, Rest
<1>12. Moved'
  BY <1>4, <1>10, <1>11 DEF Moved, Rest
<1> QED
  BY <1>9, <1>12 DEF Inv, PhaseInv

(* The upgrade could not set the entry.                                    *)
LEMMA ReturnFails ==
  ASSUME Inv, pc = "return", local.caller = "upgrade",
         pc' = "failed", local' = local, flash' = flash, Rest
  PROVE  Inv'
<1>1. TypeInv /\ SectorInv /\ Setting
  BY DEF Inv, PhaseInv, ReturnInv, Setters
<1>2. Moving /\ local.then = "next"
  BY <1>1 DEF Setting, InLoop
<1>3. TypeInv' /\ SectorInv'
  <2>1. StillFlash
    BY <1>1 DEF StillFlash, TypeInv, Labels, Rest
  <2> QED
    BY <1>1, <2>1, StillTyped
<1>4. Moving'
  <2>1. Holds(active)'
    BY <1>2 DEF Moving, Holds, Rest
  <2> QED
    BY <1>2, <2>1 DEF Moving, Rest
<1> QED
  BY <1>2, <1>3, <1>4 DEF Inv, PhaseInv

(* What is true when an operation returns to the application.              *)
LEMMA Returning ==
  ASSUME Inv, pc = "return", local.caller \notin {"upgrade", "flag"}
  PROVE  /\ TypeInv /\ SectorInv /\ InPlace /\ Tracked /\ ReturnInv
         /\ local.caller \in {"set", "delete", "boot", "wipe"}
<1>1. TypeInv /\ SectorInv /\ ReturnInv /\ Tracked
  BY DEF Inv, PhaseInv, ReturnInv
<1>2. local.caller \in {"set", "delete", "boot", "wipe"}
  BY <1>1 DEF ReturnInv, Setters
<1>3. InPlace
  BY <1>1, <1>2 DEF ReturnInv, Setters, Setting
<1> QED
  BY <1>1, <1>2, <1>3

(* An operation returns to the application.                                *)
LEMMA ReturnToIdle ==
  ASSUME Inv, pc = "return", local.caller \notin {"upgrade", "flag"},
         pc' = "idle", local' = Quiet, flash' = flash, at' = {},
         store' = [k \in Keys |-> NorcowGet(flash[active], k)],
         active' = active, write' = write, version' = version, free' = free,
         model' = model, firmware' = firmware, losses' = losses
  PROVE  Inv'
<1>1. TypeInv /\ SectorInv /\ InPlace /\ Tracked
  BY Returning
<1>2. store' \in [Keys -> Seq(Element)]
  <2>1. flash[active] \in Sector
    BY <1>1, FlashType DEF TypeInv
  <2> QED
    BY <2>1, GetType
<1>3. device' = device
  BY DEF device
<1>4. TypeInv'
  BY <1>1, <1>2, <1>3, QuietType DEF TypeInv, Labels
<1>5. SectorInv'
  BY <1>1, <1>3 DEF SectorInv
<1>6. Tracked'
  BY <1>1, <1>3 DEF Tracked
<1>7. InPlace'
  <2>1. Preferred(active)' /\ Holds(active)'
    BY <1>1 DEF InPlace, Preferred, Holds
  <2> QED
    BY <1>1, <2>1 DEF InPlace
<1> QED
  BY <1>4, <1>5, <1>6, <1>7 DEF Inv, PhaseInv, Quiet

(* All the ways to return.                                                 *)
LEMMA ReturnInvKept ==
  ASSUME Inv, Return
  PROVE  Inv'
<1>1. /\ pc = "return" /\ flash' = flash /\ active' = active /\ write' = write /\ version' = version
      /\ free' = free /\ model' = model /\ firmware' = firmware /\ losses' = losses
  BY DEF Return, nor, installed
<1>2. CASE local.caller = "upgrade"
  <2>1. pc' = (IF local.ok THEN "next" ELSE "failed") /\ local' = local /\ store' = store /\ at' = at
    BY <1>2 DEF Return
  <2>2. Rest
    BY <1>1, <2>1 DEF Rest
  <2>3. CASE local.ok
    BY <1>1, <1>2, <2>1, <2>2, <2>3, ReturnToLoop
  <2>4. CASE ~local.ok
    BY <1>1, <1>2, <2>1, <2>2, <2>4, ReturnFails
  <2> QED
    BY <2>3, <2>4
<1>3. CASE local.caller = "flag"
  <2>1. pc' = "finish" /\ local' = local /\ store' = store /\ at' = at
    BY <1>3 DEF Return
  <2>2. Rest
    BY <1>1, <2>1 DEF Rest
  <2> QED
    BY <1>1, <1>3, <2>1, <2>2, ReturnToFinish
<1>4. CASE local.caller \notin {"upgrade", "flag"}
  <2>1. pc' = "idle" /\ local' = Quiet /\ store' = [k \in Keys |-> NorcowGet(flash[active], k)] /\ at' = {}
    BY <1>4 DEF Return
  <2> QED
    BY <1>1, <1>4, <2>1, ReturnToIdle
<1> QED
  BY <1>2, <1>3, <1>4

===============================================================================
