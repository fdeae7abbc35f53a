--------------------------- MODULE NorcowOperations ---------------------------
(***************************************************************************)
(* norcow_set and norcow_delete, down to the writes of write_item, keep    *)
(* the invariant: at each label they leave the entries of all other keys   *)
(* alone, and they know where the item they work on is.                    *)
(***************************************************************************)
EXTENDS NorcowInvariant

USE Zenon

(* A sequence after a change of one element.                               *)
LEMMA SeqPut ==
  ASSUME NEW S, NEW s \in Seq(S), NEW j \in 1..Len(s), NEW x \in S
  PROVE  LET t == [s EXCEPT ![j] = x]
         IN  t \in Seq(S) /\ Len(t) = Len(s) /\ \A n \in 1..Len(s) : t[n] = IF n = j THEN x ELSE s[n]
BY SMT

(* A sequence after an append.                                             *)
LEMMA SeqAppend ==
  ASSUME NEW S, NEW s \in Seq(S), NEW x \in S
  PROVE  LET t == Append(s, x)
         IN  /\ t \in Seq(S) /\ t # <<>> /\ Len(t) = Len(s) + 1 /\ t[Len(s) + 1] = x
             /\ \A n \in 1..Len(s) : t[n] = s[n]
BY SMT

(* Sequences with the same elements are the same.                          *)
LEMMA SeqSame ==
  ASSUME NEW S, NEW s \in Seq(S), NEW t \in Seq(S), Len(s) = Len(t), \A n \in 1..Len(s) : s[n] = t[n]
  PROVE  s = t
BY SMT

(* Items of the same sizes take the same room.                             *)
LEMMA RoomSame ==
  ASSUME NEW b, NEW s \in Seq(Item), NEW t \in Seq(Item), Len(s) = Len(t),
         \A n \in 1..Len(s) : Takes(b, s[n].val) = Takes(b, t[n].val)
  PROVE  Room(b, s) = Room(b, t)
<1> DEFINE f == CHOOSE g : Sums(b, s, g)
           h == CHOOSE g : Sums(b, t, g)
<1>1. Sums(b, s, f) /\ Sums(b, t, h)
  BY SumsExist
<1>2. Room(b, s) = f[Len(s)] /\ Room(b, t) = h[Len(s)]
  BY RoomIsSum
<1>3. Len(s) \in 0..Len(s) /\ Len(s) <= Len(t)
  BY SeqType, SMT
<1>a. Starts(b, s, t)
  BY <1>3 DEF Starts
<1> HIDE DEF f, h
<1>4. f[Len(s)] = h[Len(s)]
  <2>1. \A m \in 0..Len(s) : f[m] = h[m]
    BY <1>1, <1>a, SumsUnique, SMT
  <2> QED
    BY <2>1, <1>3
<1> QED
  BY <1>2, <1>4

(* An item that is appended takes its own size more.                       *)
LEMMA RoomAppend ==
  ASSUME NEW b, NEW s \in Seq(Item), NEW x \in Item
  PROVE  Room(b, Append(s, x)) = Room(b, s) + Takes(b, x.val)
<1> DEFINE t == Append(s, x)
           f == CHOOSE g : Sums(b, s, g)
           h == CHOOSE g : Sums(b, t, g)
<1>1. /\ t \in Seq(Item) /\ Len(t) = Len(s) + 1 /\ t[Len(s) + 1] = x
      /\ \A n \in 1..Len(s) : t[n] = s[n]
  BY SeqAppend, SMT
<1> HIDE DEF t
<1>2. Sums(b, s, f) /\ Sums(b, t, h)
  BY <1>1, SumsExist
<1>3. Len(s) \in Nat /\ Len(s) \in 0..Len(s) /\ Len(s) <= Len(t)
  BY <1>1, SeqType, SMT
<1>4. Room(b, s) = f[Len(s)] /\ Room(b, t) = h[Len(s) + 1]
  BY <1>1, RoomIsSum
<1> HIDE DEF f, h
<1>5. f[Len(s)] = h[Len(s)]
  <2>1. Starts(b, s, t)
    BY <1>1, <1>3 DEF Starts
  <2>2. \A m \in 0..Len(s) : f[m] = h[m]
    BY <1>1, <1>2, <2>1, SumsUnique, SMT
  <2> QED
    BY <2>2, <1>3
<1>6. Len(s) + 1 \in 0..Len(t) /\ Len(s) + 1 # 0 /\ (Len(s) + 1) - 1 = Len(s)
  BY <1>1, <1>3, SMT
<1>7. h[Len(s) + 1] = h[Len(s)] + Takes(b, t[Len(s) + 1].val)
  BY <1>2, <1>6 DEF Sums
<1> QED
  BY <1>1, <1>4, <1>5, <1>7 DEF t

(* Item j is overwritten by x.                                             *)
Edited(S, j, x) == [S EXCEPT !.items = [S.items EXCEPT ![j] = x]]

(* Item x is appended.                                                     *)
Extended(S, x) == [S EXCEPT !.items = Append(S.items, x)]

(* T is S but for the items with key k.                                    *)
Apart(S, T, k) ==
  /\ T \in Sector /\ T.version = S.version /\ OneEach(T)
  /\ But(Entries(T), k) = But(Entries(S), k)

(* The sector after an overwrite, item by item.                            *)
LEMMA EditedFields ==
  ASSUME NEW S \in Sector, NEW j \in DOMAIN S.items, NEW x \in Item
  PROVE  /\ Edited(S, j, x) \in Sector
         /\ Edited(S, j, x).version = S.version
         /\ Edited(S, j, x).items \in Seq(Item)
         /\ DOMAIN Edited(S, j, x).items = DOMAIN S.items
         /\ Len(Edited(S, j, x).items) = Len(S.items)
         /\ Edited(S, j, x).items[j] = x
         /\ \A n \in DOMAIN S.items : n # j => Edited(S, j, x).items[n] = S.items[n]
<1> DEFINE t == [S.items EXCEPT ![j] = x]
<1>1. t \in Seq(Item) /\ Len(t) = Len(S.items) /\ DOMAIN t = DOMAIN S.items
  <2>1. S.items \in Seq(Item) /\ j \in 1..Len(S.items)
    BY SectorType
  <2>2. t \in Seq(Item) /\ Len(t) = Len(S.items)
    BY <2>1, SeqPut
  <2> QED
    BY <2>2
<1>2. t[j] = x /\ \A n \in DOMAIN S.items : n # j => t[n] = S.items[n]
  BY SectorType
<1> HIDE DEF t
<1>3. Edited(S, j, x) = [S EXCEPT !.items = t]
  BY DEF Edited, t
<1>4. [S EXCEPT !.items = t] \in Sector
  BY <1>1 DEF Sector
<1>5. [S EXCEPT !.items = t].items = t /\ [S EXCEPT !.items = t].version = S.version
  BY DEF Sector
<1> QED
  BY <1>1, <1>2, <1>3, <1>4, <1>5

(* Overwriting an item with key k, or a deleted one, leaves the entries of *)
(* all other keys.                                                         *)
LEMMA EditedApart ==
  ASSUME NEW S \in Sector, OneEach(S), NEW k \in Keys, NEW j \in DOMAIN S.items, NEW x \in Item,
         (S.items[j].key = k /\ x.key \in {k, Deleted}) \/ (S.items[j].key = Deleted /\ x.key = Deleted)
  PROVE  Apart(S, Edited(S, j, x), k)
<1> DEFINE T == Edited(S, j, x)
<1>1. T \in Sector /\ T.version = S.version
  BY EditedFields, SMT
<1>2. DOMAIN T.items = DOMAIN S.items /\ T.items[j] = x
  <2>1. DOMAIN T.items = DOMAIN S.items
    BY EditedFields, SMT
  <2>2. T.items[j] = x
    BY EditedFields
  <2> QED
    BY <2>1, <2>2
<1>3. \A n \in DOMAIN S.items : n # j => T.items[n] = S.items[n]
  BY EditedFields
<1> HIDE DEF T
<1>4. \A n \in Live(T) : n \in Live(S) /\ T.items[n].key = S.items[n].key
  BY <1>2, <1>3 DEF Live
<1>5. OneEach(T)
  BY <1>4 DEF OneEach
<1>6. ASSUME NEW e \in But(Entries(T), k) PROVE e \in But(Entries(S), k)
  <2>1. PICK n \in Live(T) : e = T.items[n] /\ e.key # k
    BY <1>6 DEF But, Entries
  <2>2. n # j
    BY <2>1, <1>2 DEF Live
  <2> QED
    BY <2>1, <2>2, <1>2, <1>3 DEF But, Entries, Live
<1>7. ASSUME NEW e \in But(Entries(S), k) PROVE e \in But(Entries(T), k)
  <2>1. PICK n \in Live(S) : e = S.items[n] /\ e.key # k
    BY <1>7 DEF But, Entries
  <2>2. n # j
    BY <2>1, <1>2 DEF Live
  <2> QED
    BY <2>1, <2>2, <1>2, <1>3 DEF But, Entries, Live
<1> QED
  BY <1>1, <1>5, <1>6, <1>7 DEF Apart, T

(* An item overwritten by one of the same length takes the same room.      *)
LEMMA EditedRoom ==
  ASSUME NEW b, NEW S \in Sector, NEW j \in DOMAIN S.items, NEW x \in Item,
         Len(x.val) = Len(S.items[j].val)
  PROVE  Room(b, Edited(S, j, x).items) = Room(b, S.items)
<1> DEFINE t == Edited(S, j, x).items
<1>1. t \in Seq(Item) /\ Len(t) = Len(S.items)
  BY EditedFields
<1>2. DOMAIN S.items = 1..Len(S.items) /\ S.items \in Seq(Item)
  BY SectorType
<1>3. \A n \in DOMAIN S.items : n # j => t[n] = S.items[n]
  BY EditedFields
<1>4. t[j] = x
  BY EditedFields
<1> HIDE DEF t
<1>5. \A n \in 1..Len(S.items) : Takes(b, S.items[n].val) = Takes(b, t[n].val)
  BY <1>2, <1>3, <1>4 DEF Takes
<1>6. Len(S.items) = Len(t)
  BY <1>1
<1>7. Room(b, S.items) = Room(b, t)
  BY <1>1, <1>2, <1>5, <1>6, RoomSame
<1> QED
  BY <1>7 DEF t

(* An item that gets deleted was the only one with its key.                *)
LEMMA EditedGone ==
  ASSUME NEW S \in Sector, OneEach(S), NEW k \in Keys, NEW j \in Live(S), NEW x \in Item,
         S.items[j].key = k, x.key = Deleted
  PROVE  NoKey(Edited(S, j, x), k)
<1> DEFINE T == Edited(S, j, x)
<1>1. j \in DOMAIN S.items
  BY DEF Live
<1>2. DOMAIN T.items = DOMAIN S.items /\ T.items[j] = x
  <2>1. DOMAIN T.items = DOMAIN S.items
    BY <1>1, EditedFields, SMT
  <2>2. T.items[j] = x
    BY <1>1, EditedFields
  <2> QED
    BY <2>1, <2>2
<1>3. \A n \in DOMAIN S.items : n # j => T.items[n] = S.items[n]
  BY <1>1, EditedFields
<1> HIDE DEF T
<1>4. NoKey(T, k)
  <2>1. ASSUME NEW n \in Live(T), T.items[n].key = k PROVE FALSE
    <3>1. n # j /\ n \in DOMAIN S.items
      BY <2>1, <1>2 DEF Live
    <3>2. n \in Live(S) /\ S.items[n].key = k
      BY <2>1, <3>1, <1>3 DEF Live
    <3> QED
      BY <3>1, <3>2 DEF OneEach
  <2> QED
    BY <2>1 DEF NoKey
<1> QED
  BY <1>4 DEF T

(* The sector after an append, item by item.                               *)
LEMMA ExtendedFields ==
  ASSUME NEW S \in Sector, NEW x \in Item
  PROVE  /\ Extended(S, x) \in Sector
         /\ Extended(S, x).version = S.version
         /\ Extended(S, x).items = Append(S.items, x)
         /\ Len(Extended(S, x).items) = Len(S.items) + 1
         /\ DOMAIN Extended(S, x).items = 1..(Len(S.items) + 1)
         /\ Extended(S, x).items[Len(S.items) + 1] = x
         /\ \A n \in DOMAIN S.items : Extended(S, x).items[n] = S.items[n]
<1> DEFINE t == Append(S.items, x)
<1>0. S.items \in Seq(Item) /\ DOMAIN S.items = 1..Len(S.items)
  BY SectorType
<1>1. /\ t \in Seq(Item) /\ Len(t) = Len(S.items) + 1 /\ t[Len(S.items) + 1] = x
      /\ \A n \in 1..Len(S.items) : t[n] = S.items[n]
  BY <1>0, SeqAppend, SMT
<1> HIDE DEF t
<1>2. DOMAIN t = 1..(Len(S.items) + 1)
  BY <1>1, SeqType
<1>3. Extended(S, x) = [S EXCEPT !.items = t]
  BY DEF Extended, t
<1>4. [S EXCEPT !.items = t] \in Sector
  BY <1>1 DEF Sector
<1>5. [S EXCEPT !.items = t].items = t /\ [S EXCEPT !.items = t].version = S.version
  BY DEF Sector
<1>6. t = Append(S.items, x)
  BY DEF t
<1> QED
  BY <1>0, <1>1, <1>2, <1>3, <1>4, <1>5, <1>6

(* An append adds one entry, of a key that had none.                       *)
LEMMA ExtendedApart ==
  ASSUME NEW S \in Sector, OneEach(S), NEW x \in Item, x.key \in Keys, NoKey(S, x.key)
  PROVE  /\ Apart(S, Extended(S, x), x.key)
         /\ Entries(Extended(S, x)) = Entries(S) \cup {x}
         /\ Len(S.items) + 1 \in Live(Extended(S, x))
<1> DEFINE T == Extended(S, x)
           l == Len(S.items) + 1
<1>1. T \in Sector /\ T.version = S.version
  BY ExtendedFields
<1>2. T.items[l] = x /\ \A n \in DOMAIN S.items : T.items[n] = S.items[n]
  BY ExtendedFields
<1>3. DOMAIN T.items = 1..l /\ DOMAIN S.items = 1..Len(S.items) /\ Len(S.items) \in Nat
  BY ExtendedFields, SectorType
<1>4. DOMAIN T.items = DOMAIN S.items \cup {l} /\ l \notin DOMAIN S.items
  BY <1>3, SMT
<1>5. x.key # Deleted
  BY KeysAssumption
<1> HIDE DEF T, l
<1>6. Live(T) = Live(S) \cup {l} /\ l \notin Live(S)
  BY <1>2, <1>4, <1>5 DEF Live
<1>7. \A n \in Live(S) : T.items[n] = S.items[n]
  BY <1>2 DEF Live
<1>8. OneEach(T)
  BY <1>2, <1>6, <1>7 DEF OneEach, NoKey
<1>9. Entries(T) = Entries(S) \cup {x}
  <2>1. \A e \in Entries(T) : e \in Entries(S) \cup {x}
    BY <1>2, <1>6, <1>7 DEF Entries
  <2>2. \A e \in Entries(S) : e \in Entries(T)
    BY <1>6, <1>7 DEF Entries
  <2>3. x \in Entries(T)
    BY <1>2, <1>6 DEF Entries
  <2> QED
    BY <2>1, <2>2, <2>3
<1>10. But(Entries(T), x.key) = But(Entries(S), x.key)
  BY <1>9 DEF But
<1> QED
  BY <1>1, <1>6, <1>8, <1>9, <1>10 DEF Apart, T, l

(* The steps of norcow_set and norcow_delete that only count, or note the  *)
(* result.                                                                 *)
LEMMA CountLocal ==
  ASSUME NEW loc \in Local, NEW n \in Nat
  PROVE  LET y == [loc EXCEPT !.i = n]
         IN  /\ y \in Local /\ y.i = n /\ Writes(loc, y)
             /\ y.item = loc.item /\ y.copying = loc.copying
  BY DEF Local, Writes

(* The same for the result.                                                *)
LEMMA OkLocal ==
  ASSUME NEW loc \in Local, NEW b \in BOOLEAN
  PROVE  LET y == [loc EXCEPT !.ok = b]
         IN  /\ y \in Local /\ y.ok = b /\ Erases(loc, y) /\ y.then = loc.then
             /\ y.item = loc.item /\ y.copying = loc.copying /\ y.i = loc.i
  BY DEF Local, Erases

(* The call in progress goes on.                                           *)
GoesOn ==
  /\ local'.key = local.key /\ local'.val = local.val /\ local'.caller = local.caller
  /\ local'.r = local.r /\ local'.then = local.then
  /\ local.caller = "delete" => local'.ok = local.ok

(* The step replaces the write sector by T, which differs from it in the   *)
(* entry of key k only, and leaves the rest.                               *)
Changes(T, k) ==
  /\ Apart(flash[write], T, k)
  /\ flash' = [flash EXCEPT ![write] = T]
  /\ active' = active /\ write' = write /\ version' = version
  /\ model' = model /\ firmware' = firmware
  /\ at' = at /\ store' = store

(* What the flash is after such a step.                                    *)
LEMMA ChangesFlash ==
  ASSUME TypeInv, NEW T, NEW k, Changes(T, k)
  PROVE  /\ flash'[write] = T /\ flash'[write'] = T /\ T \in Sector /\ OneEach(T)
         /\ T.version = flash[write].version
         /\ But(Entries(T), k) = But(Entries(flash[write]), k)
         /\ \A s \in Sectors : s # write => flash'[s] = flash[s]
         /\ \A s \in Sectors : flash'[s].version = flash[s].version
         /\ flash' \in [Sectors -> Sector]
<1>1. flash \in [Sectors -> Sector] /\ write \in Sectors
  BY DEF TypeInv
<1>2. flash' = [flash EXCEPT ![write] = T] /\ write' = write
  BY DEF Changes
<1>3. T \in Sector /\ OneEach(T) /\ T.version = flash[write].version
  BY DEF Changes, Apart
<1>4. But(Entries(T), k) = But(Entries(flash[write]), k)
  BY DEF Changes, Apart
<1>5. flash'[write] = T /\ \A s \in Sectors : s # write => flash'[s] = flash[s]
  BY <1>1, <1>2
<1>6. flash' \in [Sectors -> Sector]
  BY <1>1, <1>2, <1>3
<1>7. \A s \in Sectors : flash'[s].version = flash[s].version
  BY <1>3, <1>5
<1> QED
  BY <1>2, <1>3, <1>4, <1>5, <1>6, <1>7

(* If k is the key at stake, the sector in use stays the one that a        *)
(* restart finds, with all other entries.                                  *)
LEMMA InPlaceKept ==
  ASSUME TypeInv, SectorInv, InPlace, at = {local.key}, NEW T, Changes(T, local.key)
  PROVE  InPlace'
<1>1. active \in Sectors /\ write = active /\ flash[active].version = firmware
  BY DEF TypeInv, InPlace
<1>2. active' = active /\ write' = write /\ firmware' = firmware /\ at' = at /\ store' = store
  BY DEF Changes
<1>3. flash'[active] = T /\ T.version = firmware /\ \A s \in Sectors : flash'[s].version = flash[s].version
  BY <1>1, ChangesFlash
<1>4. Preferred(active)'
  <2>1. Preferred(active)
    BY DEF InPlace
  <2>2. 1 - active \in Sectors
    BY <1>1, Other
  <2> QED
    BY <1>1, <1>2, <1>3, <2>1, <2>2 DEF Preferred
<1>5. ASSUME NEW k \in Keys \ at PROVE NorcowGet(T, k) = store[k]
  <2>1. k \in Keys /\ k # local.key
    OBVIOUS
  <2>2. flash[active] \in Sector /\ OneEach(flash[active]) /\ flash[active].version # NoMagic
    BY <1>1, FlashType, Numbers DEF SectorInv
  <2>3. T \in Sector /\ OneEach(T) /\ T.version # NoMagic
    BY <1>3, ChangesFlash, Numbers
  <2>4. But(Entries(flash[active]), local.key) = But(Entries(T), local.key)
    BY <1>1, ChangesFlash
  <2>5. NorcowGet(flash[active], k) = NorcowGet(T, k)
    BY <2>1, <2>2, <2>3, <2>4, GetSame, SMT
  <2>6. NorcowGet(flash[active], k) = store[k]
    BY <1>5 DEF InPlace, Holds
  <2> QED
    BY <2>5, <2>6
<1>6. Holds(active)'
  BY <1>2, <1>3, <1>5 DEF Holds
<1> QED
  BY <1>1, <1>2, <1>3, <1>4, <1>6 DEF InPlace

(* In the loop of the upgrade the write sector still has what was read.    *)
LEMMA InLoopKept ==
  ASSUME TypeInv, SectorInv, InLoop, NEW T, Changes(T, local.key), GoesOn
  PROVE  InLoop' /\ flash'[active'] = flash[active]
<1>1. /\ active \in Sectors /\ write = 1 - active /\ write # active
      /\ flash[active].version < firmware /\ Holds(active) /\ UpgradedKey \in at
  BY Other DEF TypeInv, InLoop, Moving
<1>2. /\ active' = active /\ write' = write /\ firmware' = firmware /\ at' = at /\ store' = store
      /\ version' = version
  BY DEF Changes
<1>3. flash'[active] = flash[active] /\ flash'[write] = T /\ T.version = flash[write].version
  BY <1>1, ChangesFlash
<1>4. Holds(active)'
  BY <1>1, <1>2, <1>3 DEF Holds
<1>5. Moving'
  BY <1>1, <1>2, <1>3, <1>4 DEF Moving
<1>6. Filled'
  BY <1>2, <1>3 DEF Filled, InLoop
<1>7. But(Entries(T), local.key) = But(Taken(flash[active], local.r), local.key)
  BY ChangesFlash DEF InLoop
<1>8. local'.then = "next" /\ local'.key = local.key /\ local'.r = local.r
  BY DEF InLoop, GoesOn
<1> QED
  BY <1>2, <1>3, <1>5, <1>6, <1>7, <1>8 DEF InLoop

(* So the call in progress keeps its invariant.                            *)
LEMMA SettingKept ==
  ASSUME TypeInv, SectorInv, Setting, NEW T, Changes(T, local.key), GoesOn
  PROVE  Setting'
<1>0. /\ local'.key = local.key /\ local'.val = local.val /\ local'.caller = local.caller
      /\ local'.r = local.r /\ at' = at
  BY DEF GoesOn, Changes
<1>1. local.caller \in {"set", "delete"} => at = {local.key} /\ InPlace'
  BY InPlaceKept DEF Setting
<1>2. local.caller \in {"upgrade", "flag"} => InLoop' /\ flash'[active'] = flash[active]
  BY InLoopKept DEF Setting
<1>3. local.caller = "delete" => local'.val = NoValue /\ local'.ok
  BY DEF Setting, GoesOn
<1>4. local.caller = "upgrade" =>
       \E j \in Live(flash'[active']) :
         local'.r = j + 1 /\ flash'[active'].items[j] = [key |-> local'.key, val |-> local'.val]
  BY <1>0, <1>2 DEF Setting
<1>5. local.caller = "flag" =>
       local'.key = UpgradedKey /\ \A j \in Live(flash'[active']) : j < local'.r
  BY <1>0, <1>2 DEF Setting
<1> QED
  BY <1>0, <1>1, <1>2, <1>3, <1>4, <1>5 DEF Setting

-------------------------------------------------------------------------------
(* Values, element by element.                                             *)
LEMMA PutElement ==
  ASSUME NEW v \in Seq(Element), NEW i \in Nat, NEW e, i \in 1..Len(v) => e \in Element
  PROVE  [v EXCEPT ![i] = e] \in Seq(Element) /\ Len([v EXCEPT ![i] = e]) = Len(v)
<1>1. CASE i \in 1..Len(v)
  <2>1. e \in Element
    BY <1>1
  <2> QED
    BY <1>1, <2>1, SeqPut, SMT
<1>2. CASE i \notin 1..Len(v)
  <2>1. DOMAIN v = 1..Len(v) /\ v \in [1..Len(v) -> Element]
    BY SeqType
  <2>2. [v EXCEPT ![i] = e] = v
    BY <2>1, <1>2, SMT
  <2> QED
    BY <2>2
<1> QED
  BY <1>1, <1>2

(* Writing element i of w extends the agreement by one, up to w itself.    *)
LEMMA AgreeMore ==
  ASSUME NEW v \in Seq(Element), NEW w \in Seq(Element), NEW i \in Nat, Agree(v, w, i)
  PROVE  /\ [v EXCEPT ![i] = w[i]] \in Seq(Element)
         /\ Len([v EXCEPT ![i] = w[i]]) = Len(v)
         /\ Agree([v EXCEPT ![i] = w[i]], w, i + 1)
         /\ i = Len(w) => [v EXCEPT ![i] = w[i]] = w
<1> DEFINE u == [v EXCEPT ![i] = w[i]]
<1>0. Len(v) = Len(w) /\ i >= 1 /\ \A n \in 1..Len(w) : n < i => v[n] = w[n]
  BY DEF Agree
<1>1. \A n \in 1..Len(w) : w[n] \in Element
  BY SeqType
<1>2. u \in Seq(Element) /\ Len(u) = Len(v)
  <2>1. i \in 1..Len(v) => w[i] \in Element
    BY <1>0, <1>1
  <2> QED
    BY <2>1, PutElement
<1>3. DOMAIN v = 1..Len(v) /\ Len(w) \in Nat
  BY SeqType
<1>4. \A n \in 1..Len(w) : u[n] = IF n = i THEN w[i] ELSE v[n]
  BY <1>0, <1>3
<1> HIDE DEF u
<1>5. \A n \in 1..Len(w) : n < i + 1 => u[n] = w[n]
  BY <1>0, <1>3, <1>4, SMT
<1>6. Agree(u, w, i + 1)
  <2>1. i + 1 >= 1
    BY SMT
  <2> QED
    BY <2>1, <1>0, <1>2, <1>5 DEF Agree
<1>7. ASSUME i = Len(w) PROVE u = w
  <2>1. \A n \in 1..Len(w) : u[n] = w[n]
    BY <1>5, <1>7, <1>3, SMT
  <2>2. Len(u) = Len(w)
    BY <1>0, <1>2
  <2> QED
    BY <2>1, <2>2, <1>2, SeqSame
<1> QED
  BY <1>2, <1>6, <1>7 DEF u

(* A value filled with the same element has its length.                    *)
LEMMA FillValue ==
  ASSUME NEW v \in Seq(Element), NEW e \in Element
  PROVE  [n \in 1..Len(v) |-> e] \in Seq(Element) /\ Len([n \in 1..Len(v) |-> e]) = Len(v)
<1>1. Len(v) \in Nat
  BY SeqType
<1> QED
  BY <1>1, SMT

(* An item that gets another value.                                        *)
LEMMA NewVal ==
  ASSUME NEW x \in Item, NEW v \in Seq(Element)
  PROVE  /\ [x EXCEPT !.val = v] \in Item /\ [x EXCEPT !.val = v].val = v
         /\ [x EXCEPT !.val = v].key = x.key
  BY DEF Item

(* A new item.                                                             *)
LEMMA NewItem ==
  ASSUME NEW k \in Keys \cup {Deleted}, NEW v \in Seq(Element)
  PROVE  /\ [key |-> k, val |-> v] \in Item
         /\ [key |-> k, val |-> v].key = k /\ [key |-> k, val |-> v].val = v
  BY DEF Item

(* An item that loses its key.                                             *)
LEMMA NewKey ==
  ASSUME NEW x \in Item
  PROVE  /\ [x EXCEPT !.key = Deleted] \in Item /\ [x EXCEPT !.key = Deleted].val = x.val
         /\ [x EXCEPT !.key = Deleted].key = Deleted
  BY DEF Item

-------------------------------------------------------------------------------
(* A step of norcow_set or norcow_delete: it leaves T of the write sector  *)
(* and the other entries alone.                                            *)
Proceeds(T) ==
  /\ Changes(T, local.key) /\ GoesOn
  /\ Room(device.blockwise, T.items) <= device.size
  /\ local' \in Local /\ pc' \in Labels /\ free' \in 0..device.size /\ losses' = losses

(* norcow_set writes to a sector that has a header.                        *)
LEMMA SettingFilled ==
  ASSUME Setting
  PROVE  flash[write].version = firmware
  BY DEF Setting, InPlace, InLoop, Filled, Setters

(* A step that leaves the flash alone is such a step.                      *)
LEMMA ChangesNothing ==
  ASSUME TypeInv, SectorInv, NEW k, flash' = flash, active' = active, write' = write, version' = version,
         model' = model, firmware' = firmware, at' = at, store' = store
  PROVE  Changes(flash[write], k)
<1>1. flash \in [Sectors -> Sector] /\ write \in Sectors
  BY DEF TypeInv
<1>2. [flash EXCEPT ![write] = flash[write]] = flash
  BY <1>1
<1>3. Apart(flash[write], flash[write], k)
  BY <1>1, FlashType DEF SectorInv, Apart
<1> QED
  BY <1>2, <1>3 DEF Changes

(* The parts of the invariant that every such step keeps.                  *)
LEMMA ProceedsKept ==
  ASSUME TypeInv, SectorInv, Setting, NEW T, Proceeds(T)
  PROVE  TypeInv' /\ SectorInv' /\ Setting' /\ flash'[write'] = T /\ T \in Sector /\ OneEach(T)
         /\ device' = device /\ T.version # NoMagic
<1>0. Changes(T, local.key) /\ GoesOn
  BY DEF Proceeds
<1>1. /\ active' = active /\ write' = write /\ version' = version
      /\ model' = model /\ firmware' = firmware /\ at' = at /\ store' = store
  BY <1>0 DEF Changes
<1>2. device' = device
  BY <1>1 DEF device
<1>3. TypeInv'
  <2>1. flash' \in [Sectors -> Sector]
    BY <1>0, ChangesFlash
  <2> QED
    BY <1>1, <1>2, <2>1 DEF TypeInv, Proceeds
<1>4. /\ T.version = firmware /\ OneEach(T) /\ Room(device.blockwise, T.items) <= device.size /\ flash'[write'] = T
      /\ T \in Sector
  BY <1>0, ChangesFlash, SettingFilled DEF Proceeds
<1>5. SectorInv'
  <2>1. ASSUME NEW s \in Sectors
        PROVE  /\ OneEach(flash'[s])
               /\ flash'[s].version \in {0, NoMagic} => flash'[s].items = <<>>
               /\ Room(device.blockwise, flash'[s].items) <= device.size
    <3>1. CASE s = write
      BY <3>1, <1>1, <1>4, Numbers
    <3>2. CASE s # write
      BY <3>2, <1>0, ChangesFlash DEF SectorInv
    <3> QED
      BY <3>1, <3>2
  <2> QED
    BY <2>1, <1>2 DEF SectorInv
<1>6. Setting'
  BY <1>0, SettingKept
<1> QED
  BY <1>2, <1>3, <1>4, <1>5, <1>6, Numbers

(* Overwriting the item of the key, or a deleted one, is such a step.      *)
LEMMA EditProceeds ==
  ASSUME TypeInv, SectorInv, Setting,
         NEW j \in DOMAIN flash[write].items, NEW x \in Item,
         Len(x.val) = Len(flash[write].items[j].val),
         \/ flash[write].items[j].key = local.key /\ x.key \in {local.key, Deleted}
         \/ flash[write].items[j].key = Deleted /\ x.key = Deleted,
         flash' = [flash EXCEPT ![write] = Edited(flash[write], j, x)],
         Rest, GoesOn, local' \in Local, pc' \in Labels
  PROVE  /\ Proceeds(Edited(flash[write], j, x))
         /\ Tracked => Tracked'
<1> DEFINE S == flash[write]
           T == Edited(S, j, x)
<1>1. S \in Sector /\ OneEach(S) /\ Room(device.blockwise, S.items) <= device.size /\ local.key \in Keys
  BY WriteSector, LocalTypes DEF TypeInv
<1>2. Apart(S, T, local.key)
  BY <1>1, EditedApart
<1>3. Room(device.blockwise, T.items) = Room(device.blockwise, S.items)
  BY <1>1, EditedRoom
<1>4. Changes(T, local.key)
  BY <1>2 DEF Changes, Rest
<1>5. free' \in 0..device.size /\ losses' = losses
  BY DEF Rest, TypeInv
<1>6. Proceeds(T)
  BY <1>1, <1>3, <1>4, <1>5 DEF Proceeds
<1>7. flash'[write'] = T
  BY <1>4, ChangesFlash
<1>8. device' = device
  BY DEF Rest, device
<1>9. Tracked => Tracked'
  BY <1>3, <1>7, <1>8 DEF Tracked, Rest
<1> QED
  BY <1>6, <1>9

(* So is a step that writes nothing.                                       *)
LEMMA StayProceeds ==
  ASSUME TypeInv, SectorInv, Setting, flash' = flash, Rest, GoesOn, local' \in Local, pc' \in Labels
  PROVE  Proceeds(flash[write]) /\ (Tracked => Tracked')
<1>1. Changes(flash[write], local.key)
  BY ChangesNothing DEF Rest
<1>2. free' \in 0..device.size /\ losses' = losses
  BY DEF Rest, TypeInv
<1>3. device' = device
  BY DEF Rest, device
<1>4. Tracked => Tracked'
  BY <1>3 DEF Tracked, Rest
<1> QED
  BY <1>1, <1>2, <1>4, WriteSector DEF Proceeds

(* The item that find_item found.                                          *)
LEMMA FoundItem ==
  ASSUME TypeInv, Found
  PROVE  LET j == FindItem(flash[write], local.key)
         IN  /\ j \in Live(flash[write]) /\ j \in DOMAIN flash[write].items
             /\ flash[write].items[j] \in Item /\ flash[write].items[j].key = local.key
             /\ flash[write].items[j].val \in Seq(Element)
<1>1. flash[write] \in Sector /\ local.key \in Keys
  BY FlashType, LocalTypes DEF TypeInv
<1>2. FindItem(flash[write], local.key) \in Live(flash[write])
  BY DEF Found
<1> QED
  BY <1>1, <1>2, SectorType, FindItemFacts

(* norcow_set, updating a value in place.                                  *)
LEMMA UpdateByteInv ==
  ASSUME Inv, UpdateByte
  PROVE  Inv'
<1> DEFINE S == flash[write]
           j == FindItem(S, local.key)
           i == local.i
           y == S.items[j]
           v == y.val
           w == local.val
           u == [v EXCEPT ![i] = w[i]]
           x == [y EXCEPT !.val = u]
           T == Edited(S, j, x)
<1>1. TypeInv /\ SectorInv /\ UpdateInv
  BY DEF Inv, PhaseInv, UpdateByte
<1>2. Setting /\ local.caller # "delete" /\ local.ok /\ Tracked /\ Found /\ Agree(S.items[j].val, local.val, i)
  BY <1>1 DEF UpdateInv, FoundVal
<1>3. local \in Local /\ local.key \in Keys /\ local.val \in Seq(Element) /\ i \in Nat
  BY <1>1, LocalTypes DEF TypeInv
<1>4. /\ j \in Live(S) /\ j \in DOMAIN S.items /\ S.items[j] \in Item /\ S.items[j].key = local.key
      /\ S.items[j].val \in Seq(Element)
  BY <1>1, <1>2, FoundItem
<1>5. Rest
  BY DEF UpdateByte, Rest, nor, installed, ghost
<1>6. CASE local.val[i] <= S.items[j].val[i]
  <2>a. v \in Seq(Element) /\ w \in Seq(Element) /\ i \in Nat /\ y \in Item /\ y.key = local.key /\ Agree(v, w, i)
    BY <1>2, <1>3, <1>4
  <2> HIDE DEF v, w, i, y
  <2>1. /\ u \in Seq(Element) /\ Len(u) = Len(v)
        /\ Agree(u, w, i + 1) /\ (i = Len(w) => u = w)
    BY <2>a, AgreeMore
  <2> HIDE DEF u
  <2>3. x \in Item /\ x.val = u /\ x.key = local.key
    BY <2>a, <2>1, NewVal
  <2> USE DEF v, w, i, y
  <2>4. flash' = [flash EXCEPT ![write] = T]
    BY <1>6 DEF UpdateByte, Edited, x, u
  <2>5. /\ pc' = IF i = Len(local.val) THEN "return" ELSE "update"
        /\ local' = [local EXCEPT !.i = i + 1]
    BY <1>6 DEF UpdateByte
  <2>6. local' \in Local /\ local'.i = i + 1 /\ Writes(local, local')
    <3>1. i + 1 \in Nat
      BY <1>3, SMT
    <3> QED
      BY <1>3, <2>5, <3>1, CountLocal
  <2>7. GoesOn /\ pc' \in Labels
    BY <2>5, <2>6 DEF GoesOn, Writes, Labels
  <2> HIDE DEF x
  <2>8. Proceeds(T) /\ Tracked'
    BY <1>1, <1>2, <1>4, <1>5, <2>1, <2>3, <2>4, <2>6, <2>7, EditProceeds
  <2>9. TypeInv' /\ SectorInv' /\ Setting' /\ flash'[write'] = T /\ T \in Sector /\ OneEach(T)
        /\ T.version # NoMagic
    BY <1>1, <1>2, <2>8, ProceedsKept
  <2>10. DOMAIN T.items = DOMAIN S.items /\ T.items[j] = x
    BY <1>1, <1>4, <2>3, WriteSector, EditedFields, SMT
  <2>11. j \in Live(T)
    BY <1>3, <1>4, <2>3, <2>10, KeysAssumption DEF Live
  <2>12. FindItem(T, local.key) = j /\ NorcowGet(T, local.key) = u
    BY <1>3, <2>3, <2>9, <2>10, <2>11, GetOne
  <2>13. local'.key = local.key /\ local'.val = local.val /\ local'.caller = local.caller /\ local'.ok = local.ok
    BY <2>6 DEF Writes
  <2> HIDE DEF S, j, T, i, v, y
  <2>14. CASE i = Len(local.val)
    <3>1. x = [key |-> local.key, val |-> local.val]
      BY <2>1, <2>3, <2>14 DEF Item
    <3>2. Result'
      BY <1>2, <2>9, <2>10, <2>11, <2>13, <3>1 DEF Result, Entries
    <3>3. ReturnInv'
      BY <1>2, <2>8, <2>9, <2>13, <3>2 DEF ReturnInv, Setting, Setters
    <3> QED
      BY <2>5, <2>9, <2>14, <3>3 DEF Inv, PhaseInv
  <2>15. CASE i # Len(local.val)
    <3>1. UpdateInv'
      BY <1>2, <2>3, <2>8, <2>9, <2>10, <2>11, <2>12, <2>13, <2>6, <2>1 DEF UpdateInv, Found, FoundVal
    <3> QED
      BY <2>5, <2>9, <2>15, <3>1 DEF Inv, PhaseInv
  <2> QED
    BY <2>14, <2>15
<1>7. CASE ~(local.val[i] <= S.items[j].val[i])
  <2>1. flash' = flash /\ local' = local /\ pc' = "delete"
    BY <1>7 DEF UpdateByte
  <2>2. GoesOn /\ pc' \in Labels
    BY <2>1 DEF GoesOn, Labels
  <2>3. Proceeds(S) /\ Tracked'
    BY <1>1, <1>2, <1>3, <1>5, <2>1, <2>2, StayProceeds
  <2>4. TypeInv' /\ SectorInv' /\ Setting'
    BY <1>1, <1>2, <2>3, ProceedsKept
  <2>5. Found'
    BY <1>2, <1>5, <2>1 DEF Found, Rest
  <2>6. DeleteInv'
    BY <2>3, <2>4, <2>5 DEF DeleteInv
  <2> QED
    BY <2>1, <2>4, <2>6 DEF Inv, PhaseInv
<1> QED
  BY <1>6, <1>7

(* norcow_delete_item is done: no item has the key.                        *)
LEMMA AfterDeletePhase ==
  ASSUME TypeInv, SectorInv, Setting, NEW T, Proceeds(T), Tracked', NoKey(T, local.key),
         pc' = AfterDelete
  PROVE  Inv'
<1>1. TypeInv' /\ SectorInv' /\ Setting' /\ flash'[write'] = T /\ T \in Sector
  BY ProceedsKept
<1>2. local'.key = local.key /\ local'.val = local.val /\ local'.caller = local.caller
      /\ (local.caller = "delete" => local'.ok = local.ok)
  BY DEF Proceeds, GoesOn
<1>3. local.key \in Keys
  BY LocalTypes DEF TypeInv
<1>4. CASE local.caller = "delete"
  <2>1. Result'
    BY <1>1, <1>2, <1>4 DEF Result
  <2>2. ReturnInv'
    BY <1>1, <1>2, <1>4, <2>1 DEF ReturnInv, Setters
  <2> QED
    BY <1>1, <1>4, <2>2 DEF Inv, PhaseInv, AfterDelete
<1>5. CASE local.caller # "delete"
  <2>1. RoomInv'
    BY <1>1, <1>2, <1>5 DEF RoomInv
  <2> QED
    BY <1>1, <1>5, <2>1 DEF Inv, PhaseInv, AfterDelete
<1> QED
  BY <1>4, <1>5

(* It goes on at a label.                                                  *)
LEMMA AfterDeleteLabel == AfterDelete \in Labels
  BY DEF AfterDelete, Labels

(* norcow_delete_item, clearing the key, or the first element where the    *)
(* key cannot be cleared first.                                            *)
LEMMA DeleteItemInv ==
  ASSUME Inv, DeleteItem
  PROVE  Inv'
<1> DEFINE S == flash[write]
           j == FindItem(S, local.key)
           y == S.items[j]
           v == y.val
<1>1. TypeInv /\ SectorInv /\ DeleteInv
  BY DEF Inv, PhaseInv, DeleteItem
<1>2. Setting /\ Tracked /\ Found
  BY <1>1 DEF DeleteInv
<1>3. local \in Local /\ local.key \in Keys /\ S \in Sector /\ OneEach(S)
  BY <1>1, LocalTypes, WriteSector DEF TypeInv
<1>4. j \in Live(S) /\ j \in DOMAIN S.items /\ y \in Item /\ y.key = local.key /\ v \in Seq(Element)
  BY <1>1, <1>2, FoundItem
<1>5. Rest
  BY DEF DeleteItem, Rest, nor, installed, ghost
<1>6. 0 \in Element /\ 2 \in Nat /\ 1 \in Nat /\ j \in Nat
  BY <1>3, <1>4, SectorType, SMT DEF Element
<1> HIDE DEF j, y, v
<1>7. CASE /\ ~device.blockwise
           /\ flash' = [flash EXCEPT ![write].items[j].key = Deleted]
           /\ local' = [local EXCEPT !.i = j]
           /\ pc' = "zero"
  <2> DEFINE x == [y EXCEPT !.key = Deleted]
             T == Edited(S, j, x)
  <2>1. x \in Item /\ x.val = v /\ x.key = Deleted
    BY <1>4, NewKey DEF v
  <2>2. flash' = [flash EXCEPT ![write] = T]
    BY <1>7 DEF Edited, y
  <2>3. local' \in Local /\ local'.i = j /\ Writes(local, local')
    BY <1>3, <1>6, <1>7, CountLocal
  <2>4. GoesOn /\ pc' \in Labels
    BY <1>7, <2>3 DEF GoesOn, Writes, Labels
  <2> HIDE DEF x
  <2>5. Proceeds(T) /\ Tracked'
    BY <1>1, <1>2, <1>4, <1>5, <2>1, <2>2, <2>3, <2>4, EditProceeds DEF y, v
  <2>6. TypeInv' /\ SectorInv' /\ Setting' /\ flash'[write'] = T /\ device' = device
    BY <1>1, <1>2, <2>5, ProceedsKept
  <2>7. NoKey(T, local.key)
    BY <1>3, <1>4, <2>1, EditedGone DEF y
  <2>8. j \in DOMAIN T.items /\ T.items[j].key = Deleted
    BY <1>3, <1>4, <2>1, EditedFields, SMT
  <2>9. local'.key = local.key
    BY <2>3 DEF Writes
  <2> HIDE DEF T
  <2>10. ZeroInv'
    BY <1>7, <2>3, <2>5, <2>6, <2>7, <2>8, <2>9 DEF ZeroInv
  <2> QED
    BY <1>7, <2>6, <2>10 DEF Inv, PhaseInv
<1>8. CASE /\ Atomic(v)
           /\ flash' = [flash EXCEPT ![write].items[j] = [key |-> Deleted, val |-> Zeroed(v)]]
           /\ pc' = AfterDelete
           /\ local' = local
  <2> DEFINE x == [key |-> Deleted, val |-> Zeroed(v)]
             T == Edited(S, j, x)
  <2>1. Zeroed(v) \in Seq(Element) /\ Len(Zeroed(v)) = Len(v)
    BY <1>4, <1>6, FillValue DEF Zeroed
  <2>2. x \in Item /\ x.key = Deleted /\ x.val = Zeroed(v)
    BY <2>1, NewItem
  <2>3. flash' = [flash EXCEPT ![write] = T]
    BY <1>8 DEF Edited
  <2>4. GoesOn /\ pc' \in Labels
    BY <1>8, AfterDeleteLabel DEF GoesOn
  <2> HIDE DEF x
  <2>5. Proceeds(T) /\ Tracked'
    BY <1>1, <1>2, <1>3, <1>4, <1>5, <1>8, <2>1, <2>2, <2>3, <2>4, EditProceeds DEF y, v
  <2>6. NoKey(T, local.key)
    BY <1>3, <1>4, <2>2, EditedGone DEF y
  <2> HIDE DEF T
  <2> QED
    BY <1>1, <1>2, <1>8, <2>5, <2>6, AfterDeletePhase
<1>9. CASE /\ device.blockwise /\ ~Atomic(v)
           /\ flash' = [flash EXCEPT ![write].items[j].val[1] = 0]
           /\ local' = [local EXCEPT !.i = 2]
           /\ pc' = "zero"
  <2> DEFINE u == [v EXCEPT ![1] = 0]
             x == [y EXCEPT !.val = u]
             T == Edited(S, j, x)
  <2>1. u \in Seq(Element) /\ Len(u) = Len(v)
    BY <1>4, <1>6, PutElement
  <2>2. flash' = [flash EXCEPT ![write] = T]
    BY <1>9 DEF Edited, y, v
  <2> HIDE DEF u
  <2>3. x \in Item /\ x.key = local.key /\ x.val = u
    BY <1>4, <2>1, NewVal
  <2>4. local' \in Local /\ Writes(local, local')
    BY <1>3, <1>6, <1>9, CountLocal
  <2>5. GoesOn /\ pc' \in Labels
    BY <1>9, <2>4 DEF GoesOn, Writes, Labels
  <2> HIDE DEF x
  <2>6. Proceeds(T) /\ Tracked'
    BY <1>1, <1>2, <1>4, <1>5, <2>1, <2>2, <2>3, <2>4, <2>5, EditProceeds DEF y, v
  <2>7. TypeInv' /\ SectorInv' /\ Setting' /\ flash'[write'] = T /\ device' = device
        /\ T \in Sector /\ OneEach(T) /\ T.version # NoMagic
    BY <1>1, <1>2, <2>6, ProceedsKept
  <2>8. DOMAIN T.items = DOMAIN S.items /\ T.items[j] = x
    BY <1>3, <1>4, <2>3, EditedFields, SMT
  <2>9. j \in Live(T)
    BY <1>3, <1>4, <2>3, <2>8, KeysAssumption DEF Live
  <2>10. FindItem(T, local.key) = j
    BY <1>3, <2>3, <2>7, <2>8, <2>9, GetOne, SMT
  <2>11. local'.key = local.key
    BY <2>4 DEF Writes
  <2> HIDE DEF T
  <2>12. ZeroInv'
    BY <1>9, <2>6, <2>7, <2>9, <2>10, <2>11 DEF ZeroInv, Found
  <2> QED
    BY <1>9, <2>7, <2>12 DEF Inv, PhaseInv
<1> QED
  BY <1>7, <1>8, <1>9 DEF DeleteItem, j, y, v

(* norcow_delete_item, clearing the data.                                  *)
LEMMA DeleteDataInv ==
  ASSUME Inv, DeleteData
  PROVE  Inv'
<1> DEFINE S == flash[write]
<1>1. TypeInv /\ SectorInv /\ ZeroInv
  BY DEF Inv, PhaseInv, DeleteData
<1>2. Setting /\ Tracked
  BY <1>1 DEF ZeroInv
<1>3. /\ local \in Local /\ local.key \in Keys /\ local.i \in Nat /\ S \in Sector /\ OneEach(S)
      /\ device.blockwise \in BOOLEAN
  BY <1>1, LocalTypes, WriteSector, DeviceFacts DEF TypeInv
<1>4. Rest
  BY DEF DeleteData, Rest, nor, installed, ghost
<1>5. 0 \in Element
  BY SMT DEF Element
<1>6. CASE ~device.blockwise
  <2> DEFINE j == local.i
             y == S.items[j]
             v == y.val
             x == [y EXCEPT !.val = Zeroed(v)]
             T == Edited(S, j, x)
  <2>1. j \in DOMAIN S.items /\ y.key = Deleted /\ NoKey(S, local.key)
    BY <1>1, <1>6 DEF ZeroInv
  <2>2. y \in Item /\ v \in Seq(Element)
    BY <1>3, <2>1, SectorType DEF Item
  <2>3. pc' = AfterDelete /\ local' = local
    BY <1>6 DEF DeleteData
  <2>4. flash' = [flash EXCEPT ![write] = T]
    BY <1>6 DEF DeleteData, Edited
  <2> HIDE DEF j, y, v
  <2>5. Zeroed(v) \in Seq(Element) /\ Len(Zeroed(v)) = Len(v)
    BY <2>2, <1>5, FillValue DEF Zeroed
  <2>6. x \in Item /\ x.key = Deleted /\ x.val = Zeroed(v)
    BY <2>1, <2>2, <2>5, NewVal
  <2>7. GoesOn /\ pc' \in Labels
    BY <2>3, AfterDeleteLabel DEF GoesOn
  <2> HIDE DEF x
  <2>8. Proceeds(T) /\ Tracked'
    BY <1>1, <1>2, <1>3, <1>4, <2>1, <2>3, <2>4, <2>5, <2>6, <2>7, EditProceeds DEF y, v
  <2>9. NoKey(T, local.key)
    <3>1. DOMAIN T.items = DOMAIN S.items /\ T.items[j] = x
      BY <1>3, <2>1, <2>6, EditedFields, SMT
    <3>2. \A n \in DOMAIN S.items : n # j => T.items[n] = S.items[n]
      BY <1>3, <2>1, <2>6, EditedFields, SMT
    <3> HIDE DEF T
    <3> QED
      BY <2>1, <2>6, <3>1, <3>2 DEF NoKey, Live
  <2> HIDE DEF T
  <2> QED
    BY <1>1, <1>2, <2>3, <2>8, <2>9, AfterDeletePhase
<1>7. CASE device.blockwise
  <2> DEFINE j == FindItem(S, local.key)
             y == S.items[j]
             v == y.val
             i == local.i
             u == [v EXCEPT ![i] = 0]
             k == IF i = Len(v) THEN Deleted ELSE y.key
             x == [key |-> k, val |-> u]
             T == Edited(S, j, x)
  <2>1. Found
    BY <1>1, <1>7 DEF ZeroInv
  <2>2. j \in Live(S) /\ j \in DOMAIN S.items /\ y \in Item /\ y.key = local.key /\ v \in Seq(Element)
    BY <1>1, <2>1, FoundItem
  <2>3. flash' = [flash EXCEPT ![write] = T]
    BY <1>7 DEF DeleteData, Edited
  <2>4. /\ pc' = IF i = Len(v) THEN AfterDelete ELSE "zero"
        /\ local' = [local EXCEPT !.i = i + 1]
    BY <1>7 DEF DeleteData
  <2> HIDE DEF j, y, v, i
  <2>5. u \in Seq(Element) /\ Len(u) = Len(v)
    BY <2>2, <1>3, <1>5, PutElement DEF i
  <2> HIDE DEF u
  <2>6. x \in Item /\ x.key = k /\ x.val = u /\ k \in {local.key, Deleted}
    BY <2>2, <2>5, <1>3, NewItem
  <2>7. local' \in Local /\ Writes(local, local')
    <3>1. i + 1 \in Nat
      BY <1>3, SMT DEF i
    <3> QED
      BY <1>3, <2>4, <3>1, CountLocal
  <2>8. GoesOn /\ pc' \in Labels
    BY <2>4, <2>7, AfterDeleteLabel DEF GoesOn, Writes, Labels
  <2> HIDE DEF x
  <2>9. Proceeds(T) /\ Tracked'
    BY <1>1, <1>2, <1>4, <2>2, <2>3, <2>5, <2>6, <2>7, <2>8, EditProceeds DEF y, v
  <2>10. CASE i = Len(v)
    <3>1. NoKey(T, local.key)
      BY <1>3, <2>2, <2>6, <2>10, EditedGone DEF y
    <3> HIDE DEF T
    <3> QED
      BY <1>1, <1>2, <2>4, <2>9, <2>10, <3>1, AfterDeletePhase
  <2>11. CASE i # Len(v)
    <3>1. TypeInv' /\ SectorInv' /\ Setting' /\ flash'[write'] = T /\ device' = device
          /\ T \in Sector /\ OneEach(T) /\ T.version # NoMagic
      BY <1>1, <1>2, <2>9, ProceedsKept
    <3>2. DOMAIN T.items = DOMAIN S.items /\ T.items[j] = x
      BY <1>3, <2>2, <2>6, EditedFields, SMT
    <3>3. j \in Live(T) /\ x.key = local.key
      BY <1>3, <2>2, <2>6, <2>11, <3>2, KeysAssumption DEF Live
    <3>4. FindItem(T, local.key) = j
      BY <1>3, <3>1, <3>2, <3>3, GetOne
    <3>5. local'.key = local.key
      BY <2>7 DEF Writes
    <3> HIDE DEF T
    <3>6. ZeroInv'
      BY <1>7, <2>9, <3>1, <3>3, <3>4, <3>5 DEF ZeroInv, Found
    <3> QED
      BY <2>4, <2>11, <3>1, <3>6 DEF Inv, PhaseInv
  <2> QED
    BY <2>10, <2>11
<1> QED
  BY <1>3, <1>6, <1>7

(* The application calls norcow_set or norcow_delete.                      *)
LEMMA BeginSet ==
  ASSUME Inv, pc = "idle", NEW k \in Keys, flash' = flash, active' = active, write' = write,
         version' = version, free' = free, model' = model, firmware' = firmware,
         store' = store, losses' = losses, at' = {k}, local' \in Local, pc' \in Labels,
         local'.key = k, local'.caller \in {"set", "delete"}, local'.ok,
         local'.caller = "delete" => local'.val = NoValue
  PROVE  TypeInv' /\ SectorInv' /\ Setting' /\ Tracked' /\ device' = device
<1>1. device' = device
  BY DEF device
<1>2. TypeInv'
  BY <1>1, IdleFacts DEF TypeInv
<1>3. SectorInv'
  BY <1>1, IdleFacts DEF SectorInv
<1>4. Tracked'
  BY <1>1, IdleFacts DEF Tracked
<1>5. InPlace'
  BY IdleFacts DEF InPlace, Preferred, Holds
<1>6. Setting'
  BY <1>5 DEF Setting, Setters
<1> QED
  BY <1>1, <1>2, <1>3, <1>4, <1>6

(* norcow_set, up to its first write.                                      *)
LEMMA NorcowSetInv ==
  ASSUME Inv, NEW k \in Keys, NEW v \in device.values[k], NorcowSet(k, v)
  PROVE  Inv'
<1>1. pc = "idle" /\ CallSet(local, k, v, "set") /\ at' = {k}
  BY DEF NorcowSet
<1>2. /\ flash' = flash /\ active' = active /\ write' = write /\ version' = version /\ free' = free
      /\ model' = model /\ firmware' = firmware /\ store' = store /\ losses' = losses
  BY DEF NorcowSet, nor, installed
<1>3. local \in Local /\ v \in Seq(Element) /\ "set" \in Callers
  BY <1>1, IdleFacts, DeviceFacts DEF TypeInv, Callers
<1>4. /\ local' \in Local /\ pc' = FirstStep(k, v)
      /\ local'.key = k /\ local'.val = v /\ local'.caller = "set" /\ local'.i = 1 /\ local'.ok = TRUE
  BY <1>1, <1>3, CallSetLocal
<1>5. pc' \in Labels
  BY <1>4, FirstStepLabel, LabelFacts
<1>6. TypeInv' /\ SectorInv' /\ Setting' /\ Tracked' /\ device' = device
  BY <1>1, <1>2, <1>4, <1>5, BeginSet
<1> QED
  BY <1>1, <1>2, <1>3, <1>4, <1>6, IdleFacts, FirstStepInv

(* norcow_delete, up to its first write.                                   *)
LEMMA NorcowDeleteInv ==
  ASSUME Inv, NEW k \in Keys, NorcowDelete(k)
  PROVE  Inv'
<1>1. pc = "idle" /\ FindItem(flash[write], k) # 0 /\ at' = {k} /\ pc' = "delete"
  BY DEF NorcowDelete
<1>2. /\ flash' = flash /\ active' = active /\ write' = write /\ version' = version /\ free' = free
      /\ model' = model /\ firmware' = firmware /\ store' = store /\ losses' = losses
  BY DEF NorcowDelete, nor, installed
<1>3. local \in Local /\ NoValue \in Seq(Element) /\ "delete" \in Callers
  BY <1>1, IdleFacts, SeqEmpty DEF TypeInv, Callers, NoValue
<1> DEFINE y == [local EXCEPT !.key = k, !.val = NoValue, !.caller = "delete", !.ok = TRUE]
<1>4. y \in Local /\ y.key = k /\ y.val = NoValue /\ y.caller = "delete" /\ y.ok = TRUE
  BY <1>3 DEF Local
<1>5. local' = y
  BY DEF NorcowDelete
<1> HIDE DEF y
<1>6. pc' \in Labels
  BY <1>1 DEF Labels
<1>7. TypeInv' /\ SectorInv' /\ Setting' /\ Tracked'
  BY <1>1, <1>2, <1>4, <1>5, <1>6, BeginSet
<1>8. FindItem(flash[write], k) \in Live(flash[write])
  BY <1>1, IdleFacts, FindItemFacts
<1>9. DeleteInv'
  BY <1>2, <1>4, <1>5, <1>7, <1>8 DEF DeleteInv, Found
<1> QED
  BY <1>1, <1>7, <1>9 DEF Inv, PhaseInv

(* A step of write_item while compact is copying: it leaves T of the write *)
(* sector.                                                                 *)
Copies(T) ==
  /\ Changes(T, local.item.key)
  /\ Room(device.blockwise, T.items) <= device.size
  /\ local' \in Local /\ pc' \in Labels /\ free' = free /\ losses' = losses
  /\ local'.caller = local.caller /\ local'.key = local.key /\ local'.r = local.r
  /\ local'.item = local.item

(* What every such step keeps.                                             *)
LEMMA CopiesKept ==
  ASSUME TypeInv, SectorInv, CopyingItem, NEW T, Copies(T)
  PROVE  TypeInv' /\ SectorInv' /\ CopyingItem' /\ flash'[write'] = T /\ T \in Sector /\ OneEach(T)
         /\ flash'[active'] = flash[active]
<1>0. Changes(T, local.item.key)
  BY DEF Copies
<1>1. /\ active' = active /\ write' = write /\ version' = version
      /\ model' = model /\ firmware' = firmware /\ at' = at /\ store' = store
  BY <1>0 DEF Changes
<1>2. device' = device
  BY <1>1 DEF device
<1>3. flash' \in [Sectors -> Sector] /\ flash'[write'] = T /\ T \in Sector /\ OneEach(T)
      /\ T.version = flash[write].version
  BY <1>0, ChangesFlash
<1>4. TypeInv'
  BY <1>1, <1>2, <1>3 DEF TypeInv, Copies
<1>5. active \in Sectors /\ write = 1 - active /\ write # active /\ flash[write].version = firmware
  BY Other DEF TypeInv, CopyingItem, Compacting, Filled
<1>6. SectorInv'
  <2>1. ASSUME NEW s \in Sectors
        PROVE  /\ OneEach(flash'[s])
               /\ flash'[s].version \in {0, NoMagic} => flash'[s].items = <<>>
               /\ Room(device.blockwise, flash'[s].items) <= device.size
    <3>1. CASE s = write
      BY <3>1, <1>1, <1>3, <1>5, Numbers DEF Copies
    <3>2. CASE s # write
      BY <3>2, <1>0, ChangesFlash DEF SectorInv
    <3> QED
      BY <3>1, <3>2
  <2> QED
    BY <2>1, <1>2 DEF SectorInv
<1>7. flash'[active'] = flash[active]
  BY <1>0, <1>1, <1>5, ChangesFlash
<1>8. Compacting'
  BY <1>1, <1>7, CompactingKept DEF CopyingItem, Copies
<1>9. But(Entries(T), local.item.key) = But(Taken(flash[active], local.r), local.item.key)
  BY <1>0, ChangesFlash DEF CopyingItem
<1>10. Filled'
  BY <1>1, <1>3, <1>5 DEF Filled
<1>11. \E j \in Live(flash[active]) : local.r = j + 1 /\ flash[active].items[j] = local.item
  BY DEF CopyingItem
<1>12. local'.r = local.r /\ local'.item = local.item
  BY DEF Copies
<1>13. CopyingItem'
  BY <1>3, <1>7, <1>8, <1>9, <1>10, <1>11, <1>12 DEF CopyingItem
<1> QED
  BY <1>3, <1>4, <1>6, <1>7, <1>13

(* The item that was copied last is complete.                              *)
LEMMA CopiedItem ==
  ASSUME TypeInv', SectorInv', CopyingItem', NEW n \in Live(flash'[write']),
         flash'[write'].items[n] = local'.item, pc' = "copy"
  PROVE  Inv'
<1>1. PICK j \in Live(flash'[active']) : local'.r = j + 1 /\ flash'[active'].items[j] = local'.item
  BY DEF CopyingItem
<1> DEFINE A == flash'[active']
           T == flash'[write']
           k == local'.item.key
<1>2. A \in Sector /\ OneEach(A) /\ OneEach(T)
  BY DEF TypeInv, SectorInv
<1>3. But(Entries(T), k) = But(Taken(A, local'.r), k)
  BY DEF CopyingItem
<1>4. local'.item \in Entries(T)
  BY DEF Entries
<1>5. \A e \in Entries(T) : e.key = k => e = local'.item
  BY <1>2, OneEntry
<1>a. j \in Live(A) /\ A.items[j] = local'.item /\ A.items[j].key = k /\ local'.r = j + 1
  BY <1>1
<1> DEFINE E == Entries(T)
<1> HIDE DEF A, T, k, E
<1>6. E = Taken(A, local'.r)
  <2>1. \A e \in E : e.key = k => e = A.items[j]
    BY <1>5, <1>a DEF E
  <2>2. But(E, k) = But(Taken(A, local'.r), k) /\ A.items[j] \in E
    BY <1>3, <1>4, <1>a DEF E
  <2> QED
    BY <1>2, <1>a, <2>1, <2>2, LoopDone, SMT
<1> QED
  BY <1>6 DEF Inv, PhaseInv, CopyingItem, A, T, E

(* What write_item finds.                                                  *)
LEMMA WriteFacts ==
  ASSUME Inv, pc \in {"prefix", "data"}
  PROVE  /\ TypeInv /\ SectorInv /\ local \in Local /\ local.copying \in BOOLEAN /\ local.i \in Nat
         /\ local.item \in Item /\ local.item.key \in Keys /\ local.item.val \in Seq(Element)
         /\ flash[write] \in Sector /\ OneEach(flash[write]) /\ flash[write].version # NoMagic
         /\ IF local.copying THEN CopyingItem ELSE Adding
         /\ Room(device.blockwise, flash[write].items) \in Nat
         /\ Room(device.blockwise, flash[write].items) <= device.size
<1>1. TypeInv /\ SectorInv /\ (IF local.copying THEN CopyingItem ELSE Adding)
  BY DEF Inv, PhaseInv, PrefixInv, DataInv
<1>2. local \in Local /\ local.copying \in BOOLEAN /\ local.item \in [key : Keys, val : Seq(Element)]
      /\ local.i \in Nat
  BY <1>1, LocalTypes DEF TypeInv
<1>3. local.item \in Item /\ local.item.key \in Keys /\ local.item.val \in Seq(Element)
  BY <1>2 DEF Item
<1>4. flash[write].version = firmware
  BY <1>1, SettingFilled DEF CopyingItem, Adding, Filled
<1> QED
  BY <1>1, <1>2, <1>3, <1>4, WriteSector, Numbers

(* write_item writes at the end of the items, whether it is given          *)
(* norcow_free_offset or the offset that compact keeps.                    *)
LEMMA PrefixOffset ==
  ASSUME Inv, pc = "prefix"
  PROVE  (IF local.copying THEN FindFreeOffset(flash[write]) ELSE free)
           = Room(device.blockwise, flash[write].items)
  BY WriteFacts, UsedIsRoom DEF FindFreeOffset, Inv, PhaseInv, PrefixInv, Tracked

(* The elements of an item whose data is not written yet agree with none   *)
(* of it, or with all where prefix and data are one block.                 *)
LEMMA ErasedValue ==
  ASSUME NEW v \in Seq(Element)
  PROVE  LET e == IF Atomic(v) THEN v ELSE Erased(v)
         IN  e \in Seq(Element) /\ Len(e) = Len(v) /\ Agree(e, v, 1)
<1> DEFINE e == IF Atomic(v) THEN v ELSE Erased(v)
<1>1. 1 \in Element
  BY SMT DEF Element
<1>2. e \in Seq(Element) /\ Len(e) = Len(v)
  BY <1>1, FillValue DEF Erased
<1>3. \A n \in 1..Len(v) : ~(n < 1)
  BY SeqType, SMT
<1>4. 1 >= 1
  BY SMT
<1> QED
  BY <1>2, <1>3, <1>4 DEF Agree

(* write_item returns.                                                     *)
LEMMA WrittenLocal ==
  ASSUME local \in Local, Written
  PROVE  /\ local' \in Local /\ local'.item = local.item /\ local'.key = local.key
         /\ local'.val = local.val /\ local'.caller = local.caller /\ local'.r = local.r
         /\ local'.then = local.then
         /\ IF local.copying THEN free' = free /\ pc' = "copy" /\ local' = local
            ELSE free' = free + Size(local.item.val) /\ pc' = "return" /\ local'.ok = TRUE
<1>1. CASE local.copying
  BY <1>1 DEF Written
<1>2. CASE ~local.copying
  <2>1. /\ local' = [local EXCEPT !.ok = TRUE] /\ free' = free + Size(local.item.val)
        /\ pc' = "return"
    BY <1>2 DEF Written
  <2>2. TRUE \in BOOLEAN
    OBVIOUS
  <2> QED
    BY <1>2, <2>1, <2>2, OkLocal DEF Erases
<1> QED
  BY <1>1, <1>2

(* The set is done: the item is in the write sector.                       *)
LEMMA SetDone ==
  ASSUME TypeInv', SectorInv', Setting', Tracked', local'.caller # "delete", local'.ok = TRUE,
         NEW n \in Live(flash'[write']),
         flash'[write'].items[n] = [key |-> local'.key, val |-> local'.val], pc' = "return"
  PROVE  Inv'
<1>1. Result'
  BY DEF Result, Entries
<1>2. ReturnInv'
  BY <1>1 DEF ReturnInv, Setting, Setters
<1> QED
  BY <1>2 DEF Inv, PhaseInv

(* write_item, without room.                                               *)
LEMMA PrefixFails ==
  ASSUME Inv, WritePrefix,
         pc' = IF local.copying THEN "fault" ELSE "return",
         local' = [local EXCEPT !.ok = FALSE], flash' = flash, free' = free
  PROVE  Inv'
<1>1. pc = "prefix" /\ Rest
  BY DEF WritePrefix, Rest, installed, ghost
<1>2. TypeInv /\ SectorInv /\ PrefixInv /\ local \in Local
  BY <1>1, WriteFacts DEF Inv, PhaseInv
<1>3. /\ local' \in Local /\ local'.ok = FALSE /\ local'.then = local.then /\ Erases(local, local')
      /\ local'.item = local.item
  BY <1>2, OkLocal
<1>4. pc' \in Labels
  BY DEF Labels
<1>5. CASE local.copying
  <2>1. CopyingItem
    BY <1>2, <1>5 DEF PrefixInv
  <2>2. Copies(flash[write])
    <3>1. Changes(flash[write], local.item.key)
      BY <1>1, <1>2, ChangesNothing DEF Rest
    <3> QED
      BY <1>1, <1>2, <1>3, <1>4, <3>1, WriteSector DEF Copies, Rest, Erases
  <2>3. TypeInv' /\ SectorInv' /\ CopyingItem'
    BY <1>2, <2>1, <2>2, CopiesKept
  <2>4. Holds(active)'
    BY <2>3 DEF CopyingItem, Compacting
  <2>5. pc' = "fault"
    BY <1>5
  <2> QED
    BY <2>3, <2>4, <2>5 DEF Inv, PhaseInv
<1>6. CASE ~local.copying
  <2>1. Setting /\ local.caller # "delete" /\ Tracked /\ local.item.key = local.key /\ NoKey(flash[write], local.key)
    <3>1. Setting /\ local.caller # "delete" /\ Tracked /\ local.item = [key |-> local.key, val |-> local.val]
      BY <1>2, <1>6 DEF PrefixInv, Adding
    <3>2. local.item.key = local.key
      BY <3>1, SMT
    <3> QED
      BY <1>2, <3>1, <3>2 DEF PrefixInv
  <2>2. GoesOn
    BY <1>3, <2>1 DEF GoesOn, Erases
  <2>3. Proceeds(flash[write]) /\ Tracked'
    BY <1>1, <1>2, <1>3, <1>4, <2>1, <2>2, StayProceeds
  <2>4. TypeInv' /\ SectorInv' /\ Setting' /\ flash'[write'] = flash[write]
    BY <1>2, <2>1, <2>3, ProceedsKept
  <2>5. local'.key = local.key /\ local'.caller = local.caller
    BY <1>3 DEF Erases
  <2>6. Result'
    BY <1>3, <2>1, <2>4, <2>5 DEF Result
  <2>7. ReturnInv'
    BY <2>3, <2>4, <2>6 DEF ReturnInv, Setting, Setters
  <2> QED
    BY <1>6, <2>4, <2>7 DEF Inv, PhaseInv
<1> QED
  BY <1>5, <1>6

(* write_item, writing the prefix.                                         *)
LEMMA PrefixWritten ==
  ASSUME Inv, WritePrefix,
         LET v == local.item.val
         IN  /\ Fits(IF local.copying THEN FindFreeOffset(flash[write]) ELSE free, v)
             /\ flash' = [flash EXCEPT ![write].items =
                  Append(@, [local.item EXCEPT !.val = IF Atomic(v) THEN v ELSE Erased(v)])]
             /\ IF Atomic(v) THEN Written ELSE pc' = "data" /\ free' = free /\ local' = local
  PROVE  Inv'
<1> DEFINE S == flash[write]
           item == local.item
           v == item.val
           e == IF Atomic(v) THEN v ELSE Erased(v)
           x == [item EXCEPT !.val = e]
           T == Extended(S, x)
           n == Len(S.items) + 1
           b == device.blockwise
<1>1. /\ pc = "prefix" /\ losses' = losses /\ active' = active /\ write' = write /\ version' = version
      /\ model' = model /\ firmware' = firmware /\ store' = store /\ at' = at
  BY DEF WritePrefix, installed, ghost
<1>2. /\ TypeInv /\ SectorInv /\ local \in Local /\ local.copying \in BOOLEAN
      /\ item \in Item /\ item.key \in Keys /\ v \in Seq(Element) /\ S \in Sector /\ OneEach(S)
      /\ Room(b, S.items) \in Nat
  BY <1>1, WriteFacts
<1>3. PrefixInv /\ NoKey(S, item.key) /\ local.i = 1
  BY <1>1 DEF Inv, PhaseInv, PrefixInv
<1>4. e \in Seq(Element) /\ Len(e) = Len(v) /\ Agree(e, v, 1)
  BY <1>2, ErasedValue
<1>5. flash' = [flash EXCEPT ![write] = T]
  BY DEF Extended
<1>6. Takes(b, v) \in Nat /\ Room(b, S.items) + Takes(b, v) <= device.size /\ device.size \in Nat
  BY <1>1, <1>2, PrefixOffset, UsedIsRoom, TakesType, DeviceFacts DEF Fits
<1>7. IF Atomic(v) THEN Written ELSE pc' = "data" /\ free' = free /\ local' = local
  OBVIOUS
<1> HIDE DEF item, v, e, S, b
<1>8. x \in Item /\ x.key = item.key /\ x.val = e
  BY <1>2, <1>4, NewVal DEF v
<1>9. Atomic(v) => x = item
  BY <1>2, <1>8 DEF e, v, Item
<1> HIDE DEF x
<1>10. NoKey(S, x.key) /\ x.key \in Keys
  BY <1>2, <1>3, <1>8
<1>11. Apart(S, T, item.key) /\ n \in Live(T)
  BY <1>2, <1>8, <1>10, ExtendedApart
<1>12. T.items = Append(S.items, x) /\ T.items[n] = x /\ Len(T.items) = n
  BY <1>2, <1>8, ExtendedFields, SMT
<1>13. Room(b, T.items) = Room(b, S.items) + Takes(b, v)
  <2>1. Takes(b, x.val) = Takes(b, v)
    BY <1>4, <1>8 DEF Takes
  <2> QED
    BY <1>2, <1>8, <1>12, <2>1, RoomAppend, SectorType, SMT
<1>14. Room(b, T.items) <= device.size
  BY <1>6, <1>13
<1>15. Changes(T, item.key)
  BY <1>1, <1>5, <1>11 DEF Changes, S
<1>16. flash'[write'] = T
  BY <1>2, <1>15, ChangesFlash
<1>17. device' = device
  BY <1>1 DEF device
<1> HIDE DEF T, n
<1>18. CASE local.copying
  <2>1. CopyingItem
    BY <1>3, <1>18 DEF PrefixInv
  <2>2. CASE Atomic(v)
    <3>1. pc' = "copy" /\ local' = local /\ free' = free
      BY <1>2, <1>7, <1>18, <2>2, WrittenLocal
    <3>2. Copies(T)
      BY <1>1, <1>2, <1>14, <1>15, <3>1 DEF Copies, Labels, item, b
    <3>3. TypeInv' /\ SectorInv' /\ CopyingItem'
      BY <1>2, <2>1, <3>2, CopiesKept
    <3>4. n \in Live(flash'[write']) /\ flash'[write'].items[n] = local'.item
      BY <1>9, <1>11, <1>12, <1>16, <2>2, <3>1 DEF item
    <3> QED
      BY <3>1, <3>3, <3>4, CopiedItem
  <2>3. CASE ~Atomic(v)
    <3>1. pc' = "data" /\ local' = local /\ free' = free
      BY <1>7, <2>3
    <3>2. Copies(T)
      BY <1>1, <1>2, <1>14, <1>15, <3>1 DEF Copies, Labels, item, b
    <3>3. TypeInv' /\ SectorInv' /\ CopyingItem'
      BY <1>2, <2>1, <3>2, CopiesKept
    <3>4. DataInv'
      BY <1>3, <1>4, <1>8, <1>11, <1>12, <1>16, <1>18, <3>1, <3>3 DEF DataInv, LastItem, item, v
    <3> QED
      BY <3>1, <3>3, <3>4 DEF Inv, PhaseInv
  <2> QED
    BY <2>2, <2>3
<1>19. CASE ~local.copying
  <2>1. /\ Setting /\ local.caller # "delete" /\ Tracked
        /\ item = [key |-> local.key, val |-> local.val] /\ item.key = local.key
    <3>1. /\ Setting /\ local.caller # "delete" /\ Tracked
          /\ item = [key |-> local.key, val |-> local.val]
      BY <1>3, <1>19 DEF PrefixInv, Adding, item
    <3> QED
      BY <3>1
  <2>2. CASE Atomic(v)
    <3>1. /\ pc' = "return" /\ free' = free + Takes(b, v) /\ local' \in Local /\ local'.ok = TRUE /\ GoesOn
      BY <1>2, <1>7, <1>19, <2>1, <2>2, WrittenLocal, UsedIsRoom DEF GoesOn, item, v, b
    <3>2. free' = Room(b, T.items) /\ free' \in 0..device.size
      <4>1. free' = Room(b, T.items)
        BY <1>13, <2>1, <3>1 DEF Tracked, S, b
      <4> QED
        BY <4>1, <1>2, <1>6, <1>13, SMT
    <3>3. Proceeds(T)
      BY <1>1, <1>14, <1>15, <2>1, <3>1, <3>2 DEF Proceeds, Labels, b
    <3>4. TypeInv' /\ SectorInv' /\ Setting'
      BY <1>2, <2>1, <3>3, ProceedsKept
    <3>5. Tracked'
      BY <1>16, <1>17, <3>2 DEF Tracked, b
    <3>6. n \in Live(flash'[write']) /\ flash'[write'].items[n] = [key |-> local'.key, val |-> local'.val]
      BY <1>9, <1>11, <1>12, <1>16, <2>1, <2>2, <3>1 DEF GoesOn
    <3>7. local'.caller # "delete"
      BY <2>1, <3>1 DEF GoesOn
    <3> QED
      BY <3>1, <3>4, <3>5, <3>6, <3>7, SetDone
  <2>3. CASE ~Atomic(v)
    <3>1. pc' = "data" /\ local' = local /\ free' = free
      BY <1>7, <2>3
    <3>2. GoesOn /\ free' \in 0..device.size
      BY <1>2, <3>1 DEF GoesOn, TypeInv
    <3>3. Proceeds(T)
      BY <1>1, <1>2, <1>14, <1>15, <2>1, <3>1, <3>2 DEF Proceeds, Labels, b
    <3>4. TypeInv' /\ SectorInv' /\ Setting'
      BY <1>2, <2>1, <3>3, ProceedsKept
    <3>5. free' + Takes(device.blockwise, v)' = Room(device.blockwise, flash[write].items)'
      BY <1>13, <1>16, <1>17, <2>1, <3>1 DEF Tracked, S, b, v, item
    <3>6. Adding'
      BY <2>1, <3>1, <3>4 DEF Adding, item
    <3>7. DataInv'
      BY <1>3, <1>4, <1>8, <1>11, <1>12, <1>16, <1>19, <3>1, <3>5, <3>6 DEF DataInv, LastItem, item, v
    <3> QED
      BY <3>1, <3>4, <3>7 DEF Inv, PhaseInv
  <2> QED
    BY <2>2, <2>3
<1> QED
  BY <1>2, <1>18, <1>19

(* write_item, both ways.                                                  *)
LEMMA WritePrefixInv ==
  ASSUME Inv, WritePrefix
  PROVE  Inv'
  BY PrefixFails, PrefixWritten DEF WritePrefix

(* write_item, writing the data.                                           *)
LEMMA WriteDataInv ==
  ASSUME Inv, WriteData
  PROVE  Inv'
<1> DEFINE S == flash[write]
           item == local.item
           n == Len(S.items)
           i == local.i
           y == S.items[n]
           v == y.val
           w == item.val
           u == [v EXCEPT ![i] = w[i]]
           x == [y EXCEPT !.val = u]
           T == Edited(S, n, x)
           b == device.blockwise
<1>1. /\ pc = "data" /\ losses' = losses /\ active' = active /\ write' = write /\ version' = version
      /\ model' = model /\ firmware' = firmware /\ store' = store /\ at' = at
  BY DEF WriteData, installed, ghost
<1>2. /\ TypeInv /\ SectorInv /\ local \in Local /\ local.copying \in BOOLEAN
      /\ item \in Item /\ item.key \in Keys /\ w \in Seq(Element) /\ S \in Sector /\ OneEach(S)
      /\ Room(b, S.items) \in Nat /\ Room(b, S.items) <= device.size /\ i \in Nat
  BY <1>1, WriteFacts
<1>3. /\ IF local.copying THEN CopyingItem ELSE Adding /\ free + Takes(b, w) = Room(b, S.items)
      /\ n \in Live(S) /\ y.key = item.key /\ Agree(v, w, i)
  BY <1>1 DEF Inv, PhaseInv, DataInv, LastItem
<1>4. n \in DOMAIN S.items /\ y \in Item /\ v \in Seq(Element)
  BY <1>2, <1>3, SectorType
<1>5. flash' = [flash EXCEPT ![write] = T]
  BY DEF WriteData, Edited
<1>6. IF i = Len(w) THEN Written
      ELSE local' = [local EXCEPT !.i = @ + 1] /\ pc' = pc /\ free' = free
  BY DEF WriteData
<1> HIDE DEF v, w, i, y, S, item, n, b
<1>7. /\ u \in Seq(Element) /\ Len(u) = Len(v)
      /\ Agree(u, w, i + 1) /\ (i = Len(w) => u = w)
  BY <1>2, <1>3, <1>4, AgreeMore
<1> HIDE DEF u
<1>8. x \in Item /\ x.val = u /\ x.key = item.key
  BY <1>3, <1>4, <1>7, NewVal
<1>9. i = Len(w) => x = item
  BY <1>2, <1>7, <1>8 DEF Item, w
<1> HIDE DEF x
<1>10. Apart(S, T, item.key)
  BY <1>2, <1>3, <1>4, <1>8, EditedApart DEF y
<1>11. Room(b, T.items) = Room(b, S.items)
  <2>1. Len(x.val) = Len(S.items[n].val)
    BY <1>7, <1>8 DEF v, y
  <2> QED
    BY <1>2, <1>4, <1>8, <2>1, EditedRoom
<1>12. DOMAIN T.items = DOMAIN S.items /\ T.items[n] = x /\ Len(T.items) = Len(S.items)
  BY <1>2, <1>4, <1>8, EditedFields, SMT
<1>13. n \in Live(T) /\ Len(T.items) = n
  BY <1>2, <1>4, <1>8, <1>12, KeysAssumption DEF Live, n
<1>14. Changes(T, item.key)
  BY <1>1, <1>5, <1>10 DEF Changes, S
<1>15. flash'[write'] = T
  BY <1>2, <1>14, ChangesFlash
<1>16. device' = device
  BY <1>1 DEF device
<1>17. Room(b, T.items) <= device.size
  BY <1>2, <1>11
<1>18. local.i + 1 \in Nat
  BY <1>2, SMT DEF i
<1> HIDE DEF T
<1>19. CASE i = Len(w) /\ local.copying
  <2>1. pc' = "copy" /\ local' = local /\ free' = free
    BY <1>2, <1>6, <1>19, WrittenLocal
  <2>2. Copies(T) /\ CopyingItem
    BY <1>1, <1>2, <1>3, <1>14, <1>17, <1>19, <2>1 DEF Copies, Labels, item, b
  <2>3. TypeInv' /\ SectorInv' /\ CopyingItem'
    BY <1>2, <2>2, CopiesKept
  <2>4. n \in Live(flash'[write']) /\ flash'[write'].items[n] = local'.item
    BY <1>9, <1>12, <1>13, <1>15, <1>19, <2>1 DEF item
  <2> QED
    BY <2>1, <2>3, <2>4, CopiedItem
<1>20. CASE i # Len(w) /\ local.copying
  <2>1. /\ local' \in Local /\ pc' = "data" /\ free' = free /\ local'.i = i + 1 /\ Writes(local, local')
        /\ local'.item = local.item /\ local'.copying = local.copying
    <3>1. local' = [local EXCEPT !.i = local.i + 1] /\ pc' = pc /\ free' = free
      BY <1>6, <1>20
    <3> QED
      BY <1>1, <1>2, <1>18, <3>1, CountLocal DEF i
  <2>2. Copies(T) /\ CopyingItem
    BY <1>1, <1>2, <1>3, <1>14, <1>17, <1>20, <2>1 DEF Copies, Labels, Writes, item, b
  <2>3. TypeInv' /\ SectorInv' /\ CopyingItem'
    BY <1>2, <2>2, CopiesKept
  <2>4. DataInv'
    BY <1>7, <1>8, <1>12, <1>13, <1>15, <1>20, <2>1, <2>3 DEF DataInv, LastItem, item, w
  <2> QED
    BY <2>1, <2>3, <2>4 DEF Inv, PhaseInv
<1>21. ASSUME ~local.copying
       PROVE  /\ Setting /\ local.caller # "delete"
              /\ item = [key |-> local.key, val |-> local.val] /\ item.key = local.key
  <2>1. /\ Setting /\ local.caller # "delete"
        /\ item = [key |-> local.key, val |-> local.val]
    BY <1>3, <1>21 DEF Adding, item
  <2> QED
    BY <2>1
<1>22. CASE i = Len(w) /\ ~local.copying
  <2>1. pc' = "return" /\ free' = free + Takes(b, w) /\ local' \in Local /\ local'.ok = TRUE /\ GoesOn
    BY <1>2, <1>6, <1>21, <1>22, WrittenLocal, UsedIsRoom DEF GoesOn, item, w, b
  <2>2. free' = Room(b, T.items) /\ free' \in 0..device.size
    <3>1. free' = Room(b, T.items)
      BY <1>3, <1>11, <1>22, <2>1
    <3>2. device.size \in Nat
      BY <1>2, DeviceFacts
    <3> QED
      BY <3>1, <3>2, <1>2, <1>11, SMT
  <2>3. Proceeds(T) /\ Setting
    BY <1>1, <1>14, <1>17, <1>21, <1>22, <2>1, <2>2 DEF Proceeds, Labels, b
  <2>4. TypeInv' /\ SectorInv' /\ Setting'
    BY <1>2, <2>3, ProceedsKept
  <2>5. Tracked'
    BY <1>15, <1>16, <2>2 DEF Tracked, b
  <2>6. n \in Live(flash'[write']) /\ flash'[write'].items[n] = [key |-> local'.key, val |-> local'.val]
    BY <1>9, <1>12, <1>13, <1>15, <1>21, <1>22, <2>1 DEF GoesOn
  <2>7. local'.caller # "delete"
    BY <1>21, <1>22, <2>1 DEF GoesOn
  <2> QED
    BY <2>1, <2>4, <2>5, <2>6, <2>7, SetDone
<1>23. CASE i # Len(w) /\ ~local.copying
  <2>1. /\ local' \in Local /\ pc' = "data" /\ free' = free /\ local'.i = i + 1 /\ Writes(local, local')
        /\ local'.item = local.item /\ local'.copying = local.copying
    <3>1. local' = [local EXCEPT !.i = local.i + 1] /\ pc' = pc /\ free' = free
      BY <1>6, <1>23
    <3> QED
      BY <1>1, <1>2, <1>18, <3>1, CountLocal DEF i
  <2>2. GoesOn /\ free' \in 0..device.size
    BY <1>2, <2>1 DEF GoesOn, TypeInv, Writes
  <2>3. Proceeds(T) /\ Setting
    BY <1>1, <1>14, <1>17, <1>21, <1>23, <2>1, <2>2 DEF Proceeds, Labels, b
  <2>4. TypeInv' /\ SectorInv' /\ Setting'
    BY <1>2, <2>3, ProceedsKept
  <2>5. free' + Takes(device.blockwise, local.item.val)' = Room(device.blockwise, flash[write].items)'
    BY <1>3, <1>11, <1>15, <1>16, <1>23, <2>1 DEF b, w, item
  <2>6. Adding'
    BY <1>21, <1>23, <2>1, <2>2, <2>4 DEF Adding, GoesOn, item
  <2>7. DataInv'
    BY <1>7, <1>8, <1>12, <1>13, <1>15, <1>23, <2>1, <2>5, <2>6 DEF DataInv, LastItem, item, w
  <2> QED
    BY <2>1, <2>4, <2>7 DEF Inv, PhaseInv
<1> QED
  BY <1>2, <1>19, <1>20, <1>22, <1>23

(* norcow_set, checking for room.  This is where RoomToUpgrade is needed:  *)
(* compact would erase the sector that the upgrade fills.                  *)
LEMMA EnsureRoomInv ==
  ASSUME Inv, RoomToUpgrade, EnsureRoom
  PROVE  Inv'
<1>1. TypeInv /\ SectorInv /\ RoomInv /\ pc = "room" /\ local \in Local /\ active \in Sectors
  BY DEF Inv, PhaseInv, EnsureRoom, TypeInv
<1>2. Setting /\ local.caller # "delete" /\ Tracked /\ NoKey(flash[write], local.key)
  BY <1>1 DEF RoomInv
<1>3. /\ flash' = flash /\ active' = active /\ version' = version /\ free' = free
      /\ model' = model /\ firmware' = firmware /\ store' = store /\ at' = at /\ losses' = losses
  BY DEF EnsureRoom, installed, ghost
<1>4. CASE free + Need(local.val) > device.size /\ flash[active].version # NoMagic
  <2>1. write' = 1 - active /\ CallErase([local EXCEPT !.r = 1], 1 - active, TRUE, "copy")
    BY <1>4 DEF EnsureRoom
  <2>2. local.caller = "set"
    BY <1>1, <1>2, <1>4 DEF RoomToUpgrade, Setting, Setters
  <2>3. at = {local.key} /\ InPlace
    BY <1>2, <2>2 DEF Setting
  <2> DEFINE loc == [local EXCEPT !.r = 1]
  <2>4. loc \in Local /\ loc.r = 1 /\ loc.key = local.key /\ loc.caller = local.caller
    <3>1. 1 \in Nat
      BY SMT
    <3> QED
      BY <1>1, <3>1 DEF Local
  <2> HIDE DEF loc
  <2>5. /\ local' \in Local /\ pc' = "erase" /\ local'.sector = 1 - active /\ local'.magic = TRUE
        /\ local'.then = "copy" /\ Erases(loc, local')
    <3>1. 1 - active \in Sectors /\ TRUE \in BOOLEAN /\ "copy" \in Labels
      BY <1>1, Other DEF Labels
    <3> QED
      BY <2>1, <2>4, <3>1, CallEraseLocal DEF loc
  <2>6. local'.r = 1 /\ local'.key = local.key /\ local'.caller = "set"
    BY <2>2, <2>4, <2>5 DEF Erases
  <2>7. TypeInv' /\ SectorInv'
    <3>1. StillFlash
      BY <1>1, <1>3, <2>1, <2>5, Other DEF StillFlash, TypeInv, Labels
    <3> QED
      BY <1>1, <3>1, StillTyped
  <2>8. Compacting'
    <3>1. Holds(active)'
      BY <1>3, <2>3 DEF InPlace, Holds
    <3>2. NoKey(flash[active], local.key)
      BY <1>2, <2>3 DEF InPlace
    <3> QED
      BY <1>3, <2>1, <2>3, <2>6, <3>1, <3>2 DEF Compacting, InPlace
  <2>9. Preferred(active)'
    BY <1>3, <2>3 DEF InPlace, Preferred
  <2>10. EraseInv'
    BY <2>1, <2>5, <2>6, <2>8, <2>9, <1>3 DEF EraseInv
  <2> QED
    BY <2>5, <2>7, <2>10 DEF Inv, PhaseInv
<1>5. CASE ~(free + Need(local.val) > device.size /\ flash[active].version # NoMagic)
  <2> DEFINE x == [key |-> local.key, val |-> local.val]
  <2>1. CallWrite(local, x, FALSE) /\ write' = write
    BY <1>5 DEF EnsureRoom
  <2>2. x \in [key : Keys, val : Seq(Element)] /\ x.key = local.key /\ x.val = local.val
    BY <1>1, LocalTypes
  <2> HIDE DEF x
  <2>3. /\ local' \in Local /\ pc' = "prefix" /\ local'.item = x /\ local'.copying = FALSE /\ local'.i = 1
        /\ Writes(local, local')
    BY <1>1, <2>1, <2>2, CallWriteLocal
  <2>4. GoesOn /\ pc' \in Labels /\ Rest
    BY <1>3, <2>1, <2>3 DEF GoesOn, Writes, Labels, Rest
  <2>5. Proceeds(flash[write]) /\ Tracked'
    BY <1>1, <1>2, <1>3, <2>3, <2>4, StayProceeds
  <2>6. TypeInv' /\ SectorInv' /\ Setting' /\ flash'[write'] = flash[write]
    BY <1>1, <1>2, <2>5, ProceedsKept
  <2>7. local'.key = local.key /\ local'.val = local.val /\ local'.caller = local.caller
    BY <2>3 DEF Writes
  <2>8. PrefixInv'
    BY <1>2, <2>2, <2>3, <2>5, <2>6, <2>7 DEF PrefixInv, Adding, x
  <2> QED
    BY <2>3, <2>6, <2>8 DEF Inv, PhaseInv
<1> QED
  BY <1>4, <1>5

===============================================================================
