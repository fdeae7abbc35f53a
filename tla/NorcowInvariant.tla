--------------------------- MODULE NorcowInvariant ----------------------------
(***************************************************************************)
(* The inductive invariant of NORCOW, and the lemmas about items, sectors  *)
(* and calls that its preservation rests on.                               *)
(*                                                                         *)
(* The induction over the items of a sector is made with the least-number  *)
(* lemma LeastNumber: a set of positions at which something is wrong has a *)
(* first one.                                                              *)
(***************************************************************************)
EXTENDS Norcow, WellFoundedInduction, TLAPS

USE Zenon

(* What find_item can meet in a sector: an item, live or deleted.          *)
Item == [key : Keys \cup {Deleted}, val : Seq(Element)]

(* What sequences are to the provers: functions on their positions.        *)
LEMMA SeqType ==
  ASSUME NEW S, NEW s \in Seq(S)
  PROVE  /\ Len(s) \in Nat /\ DOMAIN s = 1..Len(s) /\ s \in [1..Len(s) -> S]
         /\ \A n \in 1..Len(s) : s[n] \in S
BY SMT

(* The empty sequence, the only one of length 0.                           *)
LEMMA SeqEmpty ==
  ASSUME NEW S
  PROVE  <<>> \in Seq(S) /\ Len(<<>>) = 0 /\ \A s \in Seq(S) : s # <<>> => Len(s) \in Nat \ {0}
BY SMT

(* A set of natural numbers that is not empty has a least element.         *)
LEMMA LeastNumber ==
  ASSUME NEW T, T \subseteq Nat, T # {}
  PROVE  \E x \in T : \A y \in T : x <= y
<1>1. PICK x \in T : \A y \in T : ~(<<y, x>> \in OpToRel(<, Nat))
  BY WFMin, NatLessThanWellFounded
<1>2. \A y \in T : ~(y < x)
  BY <1>1 DEF OpToRel
<1> QED
  BY <1>2, SMT

(* The same for the greatest of the numbers up to N.                       *)
LEMMA GreatestNumber ==
  ASSUME NEW N \in Nat, NEW T, T \subseteq 0..N, T # {}
  PROVE  \E x \in T : \A y \in T : x >= y
<1> DEFINE U == {n \in Nat : \E x \in T : n = N - x}
<1>1. U # {}
  <2>1. PICK x \in T : TRUE
    OBVIOUS
  <2>2. N - x \in U
    BY <2>1, SMT
  <2> QED
    BY <2>2
<1>2. U \subseteq Nat
  OBVIOUS
<1> HIDE DEF U
<1>3. PICK u \in U : \A y \in U : u <= y
  BY <1>1, <1>2, LeastNumber
<1>4. PICK x \in T : u = N - x
  BY <1>3 DEF U
<1>5. ASSUME NEW y \in T PROVE x >= y
  <2>1. N - y \in U
    BY SMT DEF U
  <2> QED
    BY <2>1, <1>3, <1>4, <1>2, SMT
<1> QED
  BY <1>5

(* What a value takes and what the items take, as functions of the kind of *)
(* flash b.  f[n] is the room that the first n items of the sequence take. *)
Takes(b, v) == IF b /\ Len(v) = 1 THEN 1 ELSE 1 + Len(v)

(* f is the running sum that Used computes over the items.                 *)
Sums(b, items, f) == f = [n \in 0..Len(items) |-> IF n = 0 THEN 0 ELSE f[n - 1] + Takes(b, items[n].val)]

(* Used for the kind of flash b: a constant expression, so that the lemmas *)
(* about it hold in the next state as well.                                *)
Room(b, items) ==
  LET upTo[n \in 0..Len(items)] == IF n = 0 THEN 0 ELSE upTo[n - 1] + Takes(b, items[n].val)
  IN  upTo[Len(items)]

(* The recursive function in Room is some f that satisfies its own         *)
(* equation.                                                               *)
LEMMA RoomIsSum ==
  ASSUME NEW b, NEW items
  PROVE  Room(b, items) = (CHOOSE f : Sums(b, items, f))[Len(items)]
  BY DEF Room, Sums

(* What a value takes is a number.                                         *)
LEMMA TakesType == ASSUME NEW b, NEW v \in Seq(Element) PROVE Takes(b, v) \in Nat
  BY SeqType, SMT DEF Takes

(* There is a running sum up to every position: otherwise take the first   *)
(* position without one and extend the sum before it.                      *)
LEMMA SumsUpTo ==
  ASSUME NEW b, NEW items \in Seq(Item), NEW m \in 0..Len(items)
  PROVE  \E f \in [0..m -> Nat] : f[0] = 0 /\ \A n \in 1..m : f[n] = f[n - 1] + Takes(b, items[n].val)
<1> DEFINE P(k) == \E f \in [0..k -> Nat] : f[0] = 0 /\ \A n \in 1..k : f[n] = f[n - 1] + Takes(b, items[n].val)
           T == {k \in 0..Len(items) : ~P(k)}
<1>0. Len(items) \in Nat
  BY SeqType
<1>1. P(0)
  <2> DEFINE f == [n \in 0..0 |-> 0]
  <2>1. f \in [0..0 -> Nat] /\ f[0] = 0
    BY SMT
  <2>2. \A n \in 1..0 : f[n] = f[n - 1] + Takes(b, items[n].val)
    BY SMT
  <2> HIDE DEF f
  <2> QED
    BY <2>1, <2>2
<1>2. ASSUME NEW k \in 1..Len(items), P(k - 1) PROVE P(k)
  <2>1. PICK f \in [0..(k - 1) -> Nat] :
          f[0] = 0 /\ \A n \in 1..(k - 1) : f[n] = f[n - 1] + Takes(b, items[n].val)
    BY <1>2
  <2> DEFINE g == [n \in 0..k |-> IF n = k THEN f[k - 1] + Takes(b, items[k].val) ELSE f[n]]
  <2>2. items[k].val \in Seq(Element)
    <3>1. items[k] \in Item
      BY SeqType
    <3> QED
      BY <3>1 DEF Item
  <2>3. Takes(b, items[k].val) \in Nat
    BY <2>2, TakesType
  <2>4. g \in [0..k -> Nat]
    BY <2>3, <1>0, SMT
  <2>5. g[0] = 0
    BY <2>1, <1>0, SMT
  <2>6. \A n \in 1..k : g[n] = g[n - 1] + Takes(b, items[n].val)
    BY <2>1, <1>0, SMT
  <2> HIDE DEF g
  <2> QED
    BY <2>4, <2>5, <2>6
<1>3. T = {}
  <2>1. SUFFICES ASSUME T # {} PROVE FALSE
    OBVIOUS
  <2>2. PICK k \in T : \A y \in T : k <= y
    <3>1. T \subseteq Nat
      BY <1>0, SMT
    <3> HIDE DEF T
    <3> QED
      BY <2>1, <3>1, LeastNumber
  <2>3. k # 0
    BY <1>1
  <2>4. k - 1 \in 0..Len(items) /\ k \in 1..Len(items) /\ ~(k <= k - 1)
    BY <2>3, <1>0, SMT
  <2>5. P(k - 1)
    BY <2>2, <2>4
  <2> QED
    BY <2>5, <2>4, <1>2
<1> QED
  BY <1>3

(* So the recursive definition of Room defines a function.                 *)
LEMMA SumsExist ==
  ASSUME NEW b, NEW items \in Seq(Item)
  PROVE  \E f \in [0..Len(items) -> Nat] : Sums(b, items, f)
<1>0. Len(items) \in Nat /\ Len(items) \in 0..Len(items)
  BY SeqType, SMT
<1>1. PICK f \in [0..Len(items) -> Nat] :
        f[0] = 0 /\ \A n \in 1..Len(items) : f[n] = f[n - 1] + Takes(b, items[n].val)
  BY <1>0, SumsUpTo
<1>2. ASSUME NEW n \in 0..Len(items)
      PROVE  f[n] = IF n = 0 THEN 0 ELSE f[n - 1] + Takes(b, items[n].val)
  BY <1>0, <1>1, SMT
<1> QED
  BY <1>2 DEF Sums

(* The items of s take the room that the first items of t take.            *)
Starts(b, s, t) ==
  Len(s) <= Len(t) /\ \A n \in 1..Len(s) : Takes(b, s[n].val) = Takes(b, t[n].val)

(* It defines only one: two running sums of items that take the same room  *)
(* differ at no position, for there is no first one.                       *)
LEMMA SumsUnique ==
  ASSUME NEW b, NEW s \in Seq(Item), NEW t \in Seq(Item), Starts(b, s, t),
         NEW f, Sums(b, s, f), NEW g, Sums(b, t, g)
  PROVE  \A m \in 0..Len(s) : f[m] = g[m]
<1> DEFINE T == {n \in 0..Len(s) : f[n] # g[n]}
<1>0. Len(s) \in Nat /\ Len(t) \in Nat
  BY SeqType
<1>a. Len(s) <= Len(t) /\ \A n \in 1..Len(s) : Takes(b, s[n].val) = Takes(b, t[n].val)
  BY DEF Starts
<1>1. ASSUME NEW n \in 0..Len(s)
      PROVE  /\ f[n] = IF n = 0 THEN 0 ELSE f[n - 1] + Takes(b, s[n].val)
             /\ g[n] = IF n = 0 THEN 0 ELSE g[n - 1] + Takes(b, t[n].val)
  <2>1. n \in 0..Len(t)
    BY <1>0, <1>a, SMT
  <2> QED
    BY <2>1 DEF Sums
<1>2. T = {}
  <2>1. SUFFICES ASSUME T # {} PROVE FALSE
    OBVIOUS
  <2>2. PICK k \in T : \A y \in T : k <= y
    <3>1. T \subseteq Nat
      BY <1>0, SMT
    <3> HIDE DEF T
    <3> QED
      BY <2>1, <3>1, LeastNumber
  <2>3. k # 0
    BY <1>1
  <2>4. k - 1 \in 0..Len(s) /\ k \in 1..Len(s) /\ ~(k <= k - 1)
    BY <2>3, <1>0, SMT
  <2>5. f[k - 1] = g[k - 1]
    BY <2>2, <2>4
  <2> QED
    BY <2>5, <2>4, <2>3, <1>1, <1>a
<1> QED
  BY <1>2

(* What Used computes: nothing for no items, the size of one more item for *)
(* an item that is appended, and the same for items of the same sizes.     *)
LEMMA RoomType ==
  ASSUME NEW b, NEW items \in Seq(Item)
  PROVE  Room(b, items) \in Nat
<1>1. PICK f \in [0..Len(items) -> Nat] : Sums(b, items, f)
  BY SumsExist
<1> DEFINE h == CHOOSE g : Sums(b, items, g)
<1>2. Sums(b, items, h)
  BY <1>1
<1>3. Room(b, items) = h[Len(items)]
  BY RoomIsSum
<1>4. Len(items) \in Nat /\ Len(items) \in 0..Len(items) /\ Len(items) <= Len(items)
  BY SeqType, SMT
<1> HIDE DEF h
<1>5. Starts(b, items, items)
  BY <1>4 DEF Starts
<1>6. h[Len(items)] = f[Len(items)]
  <2>1. \A m \in 0..Len(items) : h[m] = f[m]
    BY <1>1, <1>2, <1>5, SumsUnique, SMT
  <2> QED
    BY <2>1, <1>4
<1> QED
  BY <1>3, <1>4, <1>6

(* Used and Size of the model are Room and Takes on the flash of this      *)
(* device.                                                                 *)
LEMMA UsedIsRoom ==
  ASSUME NEW items, NEW v
  PROVE  Used(items) = Room(device.blockwise, items) /\ Size(v) = Takes(device.blockwise, v)
  BY DEF Used, Room, Size, Takes

-------------------------------------------------------------------------------
(* A sector, its items as they lie in the flash.                           *)
Sector == [version : 0..NoMagic, items : Seq(Item)]

(* No two live items of the sector have the same key.                      *)
OneEach(sector) ==
  \A m, n \in Live(sector) : sector.items[m].key = sector.items[n].key => m = n

(* No live item of the sector has key k.                                   *)
NoKey(sector, k) == \A j \in Live(sector) : sector.items[j].key # k

(* The live items of the sector, as a set.                                 *)
Entries(sector) == {sector.items[j] : j \in Live(sector)}

(* The entries of other keys than k.                                       *)
But(entries, k) == {e \in entries : e.key # k}

(* The types of the parts of a sector.                                     *)
LEMMA SectorType ==
  ASSUME NEW S \in Sector
  PROVE  /\ S.items \in Seq(Item) /\ S.version \in 0..NoMagic /\ Len(S.items) \in Nat
         /\ DOMAIN S.items = 1..Len(S.items)
         /\ Live(S) \subseteq DOMAIN S.items
         /\ \A j \in DOMAIN S.items : S.items[j] \in Item
         /\ \A j \in Live(S) : j # 0 /\ j \in Nat /\ S.items[j].key \in Keys /\ S.items[j].val \in Seq(Element)
<1>1. S.items \in Seq(Item) /\ S.version \in 0..NoMagic
  BY DEF Sector
<1>2. DOMAIN S.items = 1..Len(S.items) /\ Len(S.items) \in Nat
  BY <1>1, SeqType
<1>3. \A j \in DOMAIN S.items : S.items[j] \in Item
  BY <1>1, <1>2, SeqType
<1>4. Live(S) \subseteq DOMAIN S.items
  BY DEF Live
<1>5. \A j \in DOMAIN S.items : j # 0 /\ j \in Nat
  BY <1>2, SMT
<1>6. \A j \in Live(S) : S.items[j].key \in Keys /\ S.items[j].val \in Seq(Element)
  BY <1>3 DEF Live, Item
<1> QED
  BY <1>1, <1>2, <1>3, <1>4, <1>5, <1>6

(* find_item finds a live item with the key, or nothing when there is      *)
(* none.                                                                   *)
LEMMA FindItemFacts ==
  ASSUME NEW S \in Sector, NEW k \in Keys
  PROVE  \/ FindItem(S, k) = 0 /\ (S.version = NoMagic \/ NoKey(S, k))
         \/ S.version # NoMagic /\ FindItem(S, k) \in Live(S) /\ S.items[FindItem(S, k)].key = k
<1> DEFINE I == {0} \cup {j \in 1..Len(S.items) : S.items[j].key = k}
<1>1. CASE S.version = NoMagic
  BY <1>1 DEF FindItem
<1>2. CASE S.version # NoMagic
  <2>1. I \subseteq 0..Len(S.items) /\ I # {}
    BY SectorType, SMT
  <2>2. FindItem(S, k) = Last(I)
    BY <1>2 DEF FindItem
  <2> HIDE DEF I
  <2>3. PICK x \in I : \A y \in I : x >= y
    BY <2>1, SectorType, GreatestNumber
  <2>4. Last(I) \in I /\ \A y \in I : Last(I) >= y
    BY <2>3 DEF Last
  <2>5. CASE Last(I) = 0
    BY <2>1, <2>2, <2>4, <2>5, SectorType, SMT DEF I, NoKey
  <2>6. CASE Last(I) # 0
    BY <1>2, <2>2, <2>4, <2>6, KeysAssumption, SectorType DEF I, Live
  <2> QED
    BY <2>5, <2>6
<1> QED
  BY <1>1, <1>2

(* If a live item has the key, and no other has, then norcow_get returns   *)
(* that one.                                                               *)
LEMMA GetOne ==
  ASSUME NEW S \in Sector, OneEach(S), S.version # NoMagic,
         NEW j \in Live(S), NEW k \in Keys, S.items[j].key = k
  PROVE  FindItem(S, k) = j /\ NorcowGet(S, k) = S.items[j].val
<1>1. FindItem(S, k) \in Live(S) /\ S.items[FindItem(S, k)].key = k
  BY FindItemFacts DEF NoKey
<1>2. FindItem(S, k) = j
  BY <1>1 DEF OneEach
<1> QED
  BY <1>2, SectorType DEF NorcowGet

(* If none has it, norcow_get returns nothing.                             *)
LEMMA GetNone ==
  ASSUME NEW S \in Sector, NEW k \in Keys, NoKey(S, k) \/ S.version = NoMagic
  PROVE  FindItem(S, k) = 0 /\ NorcowGet(S, k) = NoValue
<1>1. FindItem(S, k) = 0
  BY FindItemFacts DEF NoKey, FindItem
<1> QED
  BY <1>1 DEF NorcowGet

(* norcow_get returns a value or nothing.                                  *)
LEMMA GetType ==
  ASSUME NEW S \in Sector, NEW k \in Keys
  PROVE  NorcowGet(S, k) \in Seq(Element)
<1>1. <<>> \in Seq(Element)
  BY SeqEmpty
<1>2. CASE FindItem(S, k) = 0
  BY <1>1, <1>2 DEF NorcowGet, NoValue
<1>3. CASE FindItem(S, k) \in Live(S)
  BY <1>3, SectorType DEF NorcowGet
<1> QED
  BY <1>2, <1>3, FindItemFacts

(* An entry that is also in the other sector is returned from both.        *)
LEMMA GetFromBut ==
  ASSUME NEW S \in Sector, NEW T \in Sector, OneEach(S), OneEach(T),
         S.version # NoMagic, T.version # NoMagic, NEW K, NEW k \in Keys, k # K,
         But(Entries(S), K) \subseteq But(Entries(T), K), ~NoKey(S, k)
  PROVE  NorcowGet(S, k) = NorcowGet(T, k)
<1>1. PICK j \in Live(S) : S.items[j].key = k
  BY DEF NoKey
<1>2. S.items[j] \in But(Entries(S), K)
  BY <1>1 DEF But, Entries
<1>3. S.items[j] \in Entries(T)
  BY <1>2 DEF But
<1>4. PICK i \in Live(T) : T.items[i] = S.items[j]
  BY <1>3 DEF Entries
<1> QED
  BY <1>1, <1>4, GetOne, SMT

(* Sectors with the same entries but for key K answer alike for any other  *)
(* key.                                                                    *)
LEMMA GetSame ==
  ASSUME NEW S \in Sector, NEW T \in Sector, OneEach(S), OneEach(T),
         S.version # NoMagic, T.version # NoMagic, NEW K, NEW k \in Keys, k # K,
         But(Entries(S), K) = But(Entries(T), K)
  PROVE  NorcowGet(S, k) = NorcowGet(T, k)
<1>1. CASE NoKey(S, k) /\ NoKey(T, k)
  BY <1>1, GetNone
<1>2. CASE ~NoKey(S, k)
  BY <1>2, GetFromBut
<1>3. CASE ~NoKey(T, k)
  BY <1>3, GetFromBut
<1> QED
  BY <1>1, <1>2, <1>3

-------------------------------------------------------------------------------
(* The types of the local variables.                                       *)
LEMMA LocalTypes ==
  ASSUME NEW loc \in Local
  PROVE  /\ loc.key \in Keys /\ loc.val \in Seq(Element) /\ loc.caller \in Callers
         /\ loc.ok \in BOOLEAN /\ loc.item \in [key : Keys, val : Seq(Element)]
         /\ loc.copying \in BOOLEAN /\ loc.i \in Nat /\ loc.r \in Nat
         /\ loc.sector \in Sectors /\ loc.magic \in BOOLEAN /\ loc.then \in Labels
  BY DEF Local

(* What the calls leave of the local variables.                            *)
Erases(loc, l) ==
  /\ l.key = loc.key /\ l.val = loc.val /\ l.caller = loc.caller /\ l.r = loc.r

(* erase_sector is called: its arguments, and the variables of the callers *)
(* stay.                                                                   *)
LEMMA CallEraseLocal ==
  ASSUME NEW loc \in Local, NEW s \in Sectors, NEW m \in BOOLEAN, NEW l \in Labels,
         CallErase(loc, s, m, l)
  PROVE  /\ local' \in Local /\ pc' = "erase"
         /\ local'.sector = s /\ local'.magic = m /\ local'.then = l
         /\ Erases(loc, local')
<1> DEFINE x == [loc EXCEPT !.sector = s, !.magic = m, !.then = l]
<1>1. x \in Local
  BY DEF Local
<1>2. /\ x.sector = s /\ x.magic = m /\ x.then = l
  BY DEF Local
<1>3. Erases(loc, x)
  BY DEF Local, Erases
<1>4. local' = x /\ pc' = "erase"
  BY DEF CallErase
<1> HIDE DEF x
<1> QED
  BY <1>1, <1>2, <1>3, <1>4

(* What write_item leaves of the local variables of its caller.            *)
Writes(loc, l) ==
  /\ l.key = loc.key /\ l.val = loc.val /\ l.caller = loc.caller /\ l.r = loc.r
  /\ l.ok = loc.ok /\ l.then = loc.then

(* write_item is called.                                                   *)
LEMMA CallWriteLocal ==
  ASSUME NEW loc \in Local, NEW x \in [key : Keys, val : Seq(Element)], NEW c \in BOOLEAN,
         CallWrite(loc, x, c)
  PROVE  /\ local' \in Local /\ pc' = "prefix"
         /\ local'.item = x /\ local'.copying = c /\ local'.i = 1
         /\ Writes(loc, local')
<1> DEFINE y == [loc EXCEPT !.item = x, !.copying = c, !.i = 1]
<1>0. 1 \in Nat
  BY SMT
<1>1. y \in Local
  BY <1>0 DEF Local
<1>2. /\ y.item = x /\ y.copying = c /\ y.i = 1
  BY DEF Local
<1>3. Writes(loc, y)
  BY DEF Local, Writes
<1>4. local' = y /\ pc' = "prefix"
  BY DEF CallWrite
<1> HIDE DEF y
<1> QED
  BY <1>1, <1>2, <1>3, <1>4

(* norcow_set is called.                                                   *)
LEMMA CallSetLocal ==
  ASSUME NEW loc \in Local, NEW k \in Keys, NEW v \in Seq(Element), NEW c \in Callers,
         CallSet(loc, k, v, c)
  PROVE  /\ local' \in Local /\ pc' = FirstStep(k, v)
         /\ local'.key = k /\ local'.val = v /\ local'.caller = c
         /\ local'.i = 1 /\ local'.ok = TRUE /\ local'.r = loc.r /\ local'.then = loc.then
<1> DEFINE y == [loc EXCEPT !.key = k, !.val = v, !.caller = c, !.i = 1, !.ok = TRUE]
<1>0. 1 \in Nat
  BY SMT
<1>1. y \in Local
  BY <1>0 DEF Local
<1>2. y.key = k /\ y.val = v /\ y.caller = c
  BY DEF Local
<1>3. y.i = 1 /\ y.ok = TRUE /\ y.r = loc.r /\ y.then = loc.then
  BY DEF Local
<1>4. local' = y /\ pc' = FirstStep(k, v)
  BY DEF CallSet
<1> HIDE DEF y
<1> QED
  BY <1>1, <1>2, <1>3, <1>4

-------------------------------------------------------------------------------
(* norcow_init takes sector s as the active one.                           *)
Preferred(s) ==
  /\ flash[s].version # NoMagic
  /\ \/ flash[1 - s].version = NoMagic
     \/ flash[1 - s].version < flash[s].version
     \/ flash[1 - s].version = flash[s].version /\ s = 1

(* Sector s has every entry that is not at stake.                          *)
Holds(s) == \A k \in Keys \ at : NorcowGet(flash[s], k) = store[k]

(* A device that starts in this state finds every such entry in sector s.  *)
Safe(s) == at = Keys \/ (Preferred(s) /\ flash[s].version # 0 /\ Holds(s))

(* The entries of the sector at positions before r: what a loop over it    *)
(* read.                                                                   *)
Taken(sector, r) == {sector.items[j] : j \in {m \in Live(sector) : m < r}}

(* The write sector has its header.                                        *)
Filled == flash[write].version = firmware

(* norcow_free_offset is the end of the items of the write sector.         *)
Tracked == free = Room(device.blockwise, flash[write].items)

(* One sector is in use, and a restart finds it.                           *)
InPlace ==
  /\ write = active /\ flash[active].version = firmware
  /\ Preferred(active) /\ Holds(active)

(* An upgrade is moving the entries to the other sector.                   *)
Moving ==
  /\ write = 1 - active /\ flash[active].version < firmware
  /\ Holds(active) /\ UpgradedKey \in at

(* compact is copying the active sector; the entry that is being set is in *)
(* neither sector.                                                         *)
Compacting ==
  /\ local.caller = "set" /\ at = {local.key}
  /\ write = 1 - active /\ flash[active].version = firmware
  /\ Holds(active) /\ NoKey(flash[active], local.key)

(* compact has copied everything.                                          *)
Compact ==
  /\ local.caller = "set" /\ at = {local.key}
  /\ write = 1 - active /\ Filled
  /\ Holds(write) /\ NoKey(flash[write], local.key)

(* The upgrade has copied everything and marked the new sector.            *)
Moved ==
  /\ local.caller = "flag" /\ write = 1 - active /\ Filled
  /\ Preferred(write) /\ Holds(write) /\ Tracked

(* A wipe: of norcow_wipe, of a start without a sector or of an upgrade    *)
(* that failed.                                                            *)
Wiping ==
  /\ at = Keys /\ local.caller \in {"wipe", "boot", "upgrade"}
  /\ local.caller = "wipe" => local.val = NoValue

(* The wipe has written the sector that stays.                             *)
Emptied == Wiping /\ flash[active].version = firmware /\ flash[active].items = <<>>

(* The callers of norcow_set and norcow_delete.                            *)
Setters == {"set", "delete", "upgrade", "flag"}

(* The loop of the upgrade, in the call for the entry with key local.key:  *)
(* for the other keys the write sector has what was read so far.           *)
InLoop ==
  /\ Moving /\ Filled /\ local.then = "next"
  /\ But(Entries(flash[write]), local.key) = But(Taken(flash[active], local.r), local.key)

(* A call of norcow_set or norcow_delete is in progress, by the            *)
(* application or by the upgrade, which has just read the entry that it    *)
(* sets.                                                                   *)
Setting ==
  /\ local.caller \in Setters
  /\ local.caller \in {"set", "delete"} => at = {local.key} /\ InPlace
  /\ local.caller = "delete" => local.val = NoValue /\ local.ok
  /\ local.caller \in {"upgrade", "flag"} => InLoop
  /\ local.caller = "upgrade" =>
       \E j \in Live(flash[active]) :
         local.r = j + 1 /\ flash[active].items[j] = [key |-> local.key, val |-> local.val]
  /\ local.caller = "flag" =>
       local.key = UpgradedKey /\ \A j \in Live(flash[active]) : j < local.r

(* norcow_set appends its item.                                            *)
Adding == Setting /\ local.caller # "delete" /\ local.item = [key |-> local.key, val |-> local.val]

(* compact copies the item that it read last.                              *)
CopyingItem ==
  /\ Compacting /\ Filled
  /\ But(Entries(flash[write]), local.item.key) = But(Taken(flash[active], local.r), local.item.key)
  /\ \E j \in Live(flash[active]) : local.r = j + 1 /\ flash[active].items[j] = local.item

(* The first i - 1 elements of v are those of w, which has the same        *)
(* length.                                                                 *)
Agree(v, w, i) == Len(v) = Len(w) /\ i >= 1 /\ \A n \in 1..Len(w) : n < i => v[n] = w[n]

(* norcow_set or norcow_delete works on the item that find_item found.     *)
Found == FindItem(flash[write], local.key) \in Live(flash[write])

(* The value of that item.                                                 *)
FoundVal == flash[write].items[FindItem(flash[write], local.key)].val

(* The item that write_item is writing.                                    *)
LastItem == flash[write].items[Len(flash[write].items)]

(* The invariant in norcow_set while it updates the value in place: the    *)
(* elements before i are those of the new value.                           *)
UpdateInv == Setting /\ local.caller # "delete" /\ local.ok /\ Tracked /\ Found /\ Agree(FoundVal, local.val, local.i)

(* Before norcow_delete_item: the item is there.                           *)
DeleteInv == Setting /\ Tracked /\ Found

(* While norcow_delete_item clears the data: of an item that has lost its  *)
(* key already where bits can be cleared in place, and otherwise of one    *)
(* that still has it.                                                      *)
ZeroInv ==
  /\ Setting /\ Tracked
  /\ IF device.blockwise
     THEN Found
     ELSE /\ local.i \in DOMAIN flash[write].items
          /\ flash[write].items[local.i].key = Deleted
          /\ NoKey(flash[write], local.key)

(* Before the check for room: no item has the key.                         *)
RoomInv == Setting /\ local.caller # "delete" /\ Tracked /\ NoKey(flash[write], local.key)

(* Before write_item writes the prefix.                                    *)
PrefixInv ==
  /\ IF local.copying THEN CopyingItem ELSE Adding /\ Tracked
  /\ NoKey(flash[write], local.item.key) /\ local.i = 1

(* While write_item writes the data: the item is the last one, and its     *)
(* elements before i are written.                                          *)
DataInv ==
  /\ IF local.copying THEN CopyingItem
     ELSE Adding /\ free + Takes(device.blockwise, local.item.val) = Room(device.blockwise, flash[write].items)
  /\ Len(flash[write].items) \in Live(flash[write])
  /\ LastItem.key = local.item.key
  /\ Agree(LastItem.val, local.item.val, local.i)

(* What norcow_set and norcow_delete have done when they return.           *)
Result ==
  IF local.ok /\ local.caller # "delete"
  THEN [key |-> local.key, val |-> local.val] \in Entries(flash[write])
  ELSE NoKey(flash[write], local.key)

(* The invariant where an operation returns.                               *)
ReturnInv ==
  /\ Tracked /\ local.caller \in Setters \cup {"boot", "wipe"}
  /\ local.caller \in Setters => Setting /\ Result
  /\ local.caller \in {"boot", "wipe"} => InPlace
  /\ local.caller = "wipe" => Wiping /\ flash[active].items = <<>>

(* The invariant in erase_sector, by where it returns to: which sector it  *)
(* erases and why the entries do not need that one.                        *)
EraseInv ==
  /\ local.then \in {"copy", "compacted", "wipeOthers", "wiped", "next", "upgraded"}
  /\ local.then = "copy" =>
       Compacting /\ Preferred(active) /\ local.sector = write /\ local.magic /\ local.r = 1
  /\ local.then = "compacted" => Compacting /\ Compact /\ local.sector = active /\ ~local.magic
  /\ local.then = "wipeOthers" => Wiping /\ local.sector = active /\ local.magic
  /\ local.then = "wiped" => Emptied /\ local.sector = 1 - active /\ ~local.magic
  /\ local.then = "next" =>
       /\ Moving /\ Safe(active) /\ local.sector = write /\ local.magic
       /\ local.caller = "boot" /\ local.r = 1 /\ free = 0
  /\ local.then = "upgraded" => Moved /\ local.sector = active /\ ~local.magic

(* Between two entries of the upgrade the write sector has exactly those   *)
(* that were read.                                                         *)
NextInv ==
  /\ Moving /\ Filled /\ local.caller \in {"boot", "upgrade"} /\ local.then = "next"
  /\ Entries(flash[write]) = Taken(flash[active], local.r) /\ Tracked

(* The invariant at each label.  Where the device is off it must find the  *)
(* entries with nothing but the flash.                                     *)
PhaseInv ==
  /\ pc = "idle" => local = Quiet /\ at = {} /\ InPlace /\ Tracked
  /\ pc = "off" => local = Quiet /\ \E s \in Sectors : Safe(s)
  /\ pc = "update" => UpdateInv
  /\ pc = "delete" => DeleteInv
  /\ pc = "zero" => ZeroInv
  /\ pc = "room" => RoomInv
  /\ pc = "prefix" => PrefixInv
  /\ pc = "data" => DataInv
  /\ pc = "return" => ReturnInv
  /\ pc = "erase" => EraseInv
  /\ pc = "magic" => EraseInv /\ local.magic /\ flash[local.sector] = Blank
  /\ pc = "version" => EraseInv /\ local.magic /\ flash[local.sector] = [Blank EXCEPT !.version = 0]
  /\ pc = "copy" => Compacting /\ Filled /\ Entries(flash[write]) = Taken(flash[active], local.r)
  /\ pc = "compacted" => Compact /\ flash[active] = Blank
  /\ pc = "wipeOthers" => Emptied
  /\ pc = "wiped" => Emptied /\ flash[1 - active] = Blank
  /\ pc = "next" => NextInv
  /\ pc = "finish" => Moved
  /\ pc = "upgraded" => Moved /\ flash[active] = Blank
  /\ pc = "failed" => Moving /\ local.caller = "upgrade" /\ local.then = "next"
  /\ pc = "fault" => at = Keys \/ Holds(active)

(* Both sectors at all times: one item for a key, no items without a       *)
(* header, and no more items than fit.                                     *)
SectorInv ==
  \A s \in Sectors :
    /\ OneEach(flash[s])
    /\ flash[s].version \in {0, NoMagic} => flash[s].items = <<>>
    /\ Room(device.blockwise, flash[s].items) <= device.size

(* The types of the variables, without the room of the sectors.            *)
TypeInv ==
  /\ flash \in [Sectors -> Sector]
  /\ active \in Sectors /\ write \in Sectors
  /\ version \in 0..MaxFirmware /\ free \in 0..device.size
  /\ model \in DOMAIN Devices /\ firmware \in 1..device.firmware
  /\ pc \in Labels /\ local \in Local
  /\ store \in [Keys -> Seq(Element)]
  /\ at \subseteq Keys
  /\ losses \in 0..device.losses

(* The inductive invariant.                                                *)
Inv == TypeInv /\ SectorInv /\ PhaseInv

-------------------------------------------------------------------------------
(* The assumptions on the device that is in use.                           *)
LEMMA DeviceFacts ==
  ASSUME TypeInv
  PROVE  /\ device.size \in Nat /\ device.blockwise \in BOOLEAN /\ device.losses \in Nat
         /\ device.firmware \in 1..MaxFirmware /\ MaxFirmware \in Nat
         /\ device.values \in [Keys -> SUBSET Seq(Element)]
  BY DevicesAssumption DEF TypeInv, device, Element

(* Versions and offsets as numbers; NoMagic is none of the versions.       *)
LEMMA Numbers ==
  ASSUME TypeInv
  PROVE  /\ firmware \in Nat /\ firmware # 0 /\ 0 < firmware
         /\ firmware # NoMagic /\ firmware \in 0..NoMagic /\ firmware \in 0..MaxFirmware
         /\ 0 # NoMagic /\ 0 \in 0..NoMagic /\ NoMagic \in 0..NoMagic
         /\ version \in Nat /\ version # NoMagic /\ version \in 0..NoMagic
         /\ 0 \in 0..MaxFirmware /\ 0 \in 0..device.size
<1>1. firmware \in 1..device.firmware /\ version \in 0..MaxFirmware
  BY DEF TypeInv
<1> QED
  BY <1>1, DeviceFacts, SMT DEF NoMagic

(* There are two sectors.                                                  *)
LEMMA Other ==
  ASSUME NEW s \in Sectors
  PROVE  /\ 1 - s \in Sectors /\ 1 - s # s /\ 1 - (1 - s) = s
         /\ \A t \in Sectors : t = s \/ t = 1 - s
  BY SMT DEF Sectors

(* Each is a sector.                                                       *)
LEMMA FlashType ==
  ASSUME TypeInv, NEW s \in Sectors
  PROVE  flash[s] \in Sector
  BY DEF TypeInv

-------------------------------------------------------------------------------
(* The variables that the steps of norcow_set_ex before write_item leave.  *)
Rest ==
  /\ active' = active /\ write' = write /\ version' = version /\ free' = free
  /\ model' = model /\ firmware' = firmware
  /\ store' = store /\ at' = at /\ losses' = losses

(* The write sector is one with unique keys and has the room it takes.     *)
LEMMA WriteSector ==
  ASSUME TypeInv, SectorInv
  PROVE  /\ flash[write] \in Sector /\ OneEach(flash[write])
         /\ Room(device.blockwise, flash[write].items) \in Nat
         /\ Room(device.blockwise, flash[write].items) <= device.size
<1>1. write \in Sectors
  BY DEF TypeInv
<1>2. flash[write] \in Sector /\ OneEach(flash[write])
  BY <1>1, FlashType DEF SectorInv
<1>3. flash[write].items \in Seq(Item)
  BY <1>2 DEF Sector
<1> QED
  BY <1>1, <1>2, <1>3, RoomType DEF SectorInv

-------------------------------------------------------------------------------
(* How a call of norcow_set begins.                                        *)
LEMMA FirstStepInv ==
  ASSUME TypeInv', SectorInv', Setting', Tracked', flash' = flash, write' = write,
         local'.caller # "delete", local'.ok, local'.i = 1, device' = device,
         NEW k \in Keys, NEW v \in Seq(Element), local'.key = k, local'.val = v,
         flash[write] \in Sector, OneEach(flash[write]),
         flash[write].version # NoMagic, pc' = FirstStep(k, v)
  PROVE  Inv'
<1> DEFINE S == flash[write]
           j == FindItem(S, k)
           old == NorcowGet(S, k)
<1>1. CASE j = 0
  <2>1. pc' = "room"
    BY <1>1 DEF FirstStep
  <2>a. NoKey(S, k)
    BY <1>1, FindItemFacts, SectorType
  <2>2. RoomInv'
    BY <2>a DEF RoomInv
  <2> QED
    BY <2>1, <2>2 DEF Inv, PhaseInv
<1>2. CASE j # 0
  <2>1. j \in Live(S) /\ S.items[j].key = k
    BY <1>2, FindItemFacts
  <2>2. old = S.items[j].val /\ old \in Seq(Element)
    BY <2>1, GetOne, GetType
  <2>3. Found'
    BY <2>1 DEF Found
  <2>4. CASE pc' = "delete"
    <3>1. DeleteInv'
      BY <2>3 DEF DeleteInv
    <3> QED
      BY <2>4, <3>1 DEF Inv, PhaseInv
  <2>5. CASE pc' = "return" /\ old = v
    <3>1. S.items[j] = [key |-> k, val |-> v]
      BY <2>1, <2>2, <2>5, SectorType DEF Item
    <3>2. Result'
      BY <2>1, <3>1 DEF Result, Entries
    <3>3. ReturnInv'
      BY <3>2 DEF ReturnInv, Setting, Setters
    <3> QED
      BY <2>5, <3>3 DEF Inv, PhaseInv
  <2>6. CASE pc' = "update" /\ Len(old) = Len(v)
    <3>1. Agree(old, v, 1)
      <4>1. \A n \in 1..Len(v) : ~(n < 1)
        BY SeqType, SMT
      <4>2. 1 >= 1
        BY SMT
      <4> QED
        BY <2>6, <4>1, <4>2 DEF Agree
    <3>2. UpdateInv'
      BY <2>2, <2>3, <3>1 DEF UpdateInv, FoundVal
    <3> QED
      BY <2>6, <3>2 DEF Inv, PhaseInv
  <2> QED
    BY <1>2, <2>4, <2>5, <2>6 DEF FirstStep
<1> QED
  BY <1>1, <1>2

(* What is true between two operations.                                    *)
LEMMA IdleFacts ==
  ASSUME Inv, pc = "idle"
  PROVE  /\ TypeInv /\ SectorInv /\ local = Quiet /\ at = {} /\ InPlace /\ Tracked
         /\ flash[write] \in Sector /\ OneEach(flash[write])
         /\ flash[write].version = firmware /\ flash[write].version # NoMagic
<1>1. TypeInv /\ SectorInv /\ local = Quiet /\ at = {} /\ InPlace /\ Tracked
  BY DEF Inv, PhaseInv
<1> QED
  BY <1>1, WriteSector, Numbers DEF InPlace

(* Where norcow_set goes first.                                            *)
LEMMA FirstStepLabel == \A k, v : FirstStep(k, v) \in {"room", "delete", "return", "update"}
  BY DEF FirstStep

(* These are labels.                                                       *)
LEMMA LabelFacts == {"room", "delete", "return", "update"} \subseteq Labels
  BY DEF Labels

-------------------------------------------------------------------------------
(* compact goes on as long as the active sector stays.                     *)
LEMMA CompactingKept ==
  ASSUME Compacting, flash'[active'] = flash[active], active' = active, write' = write,
         firmware' = firmware, at' = at, store' = store,
         local'.caller = local.caller, local'.key = local.key
  PROVE  Compacting'
<1>1. Holds(active)'
  BY DEF Compacting, Holds
<1> QED
  BY <1>1 DEF Compacting

(* With the item that was missing the sector has all items before r.       *)
LEMMA LoopDone ==
  ASSUME NEW A \in Sector, OneEach(A), NEW j \in Live(A), NEW r, r = j + 1, NEW k, A.items[j].key = k,
         NEW E, But(E, k) = But(Taken(A, r), k), A.items[j] \in E,
         \A e \in E : e.key = k => e = A.items[j]
  PROVE  E = Taken(A, r)
<1>1. j < r
  BY SectorType, SMT
<1>2. A.items[j] \in Taken(A, r)
  BY <1>1 DEF Taken
<1>3. ASSUME NEW e \in Taken(A, r), e.key = k PROVE e = A.items[j]
  <2>1. PICK m \in Live(A) : e = A.items[m]
    BY DEF Taken
  <2> QED
    BY <1>3, <2>1 DEF OneEach
<1>4. \A e \in E : e.key # k => e \in But(E, k)
  BY DEF But
<1>5. \A e \in Taken(A, r) : e.key # k => e \in But(Taken(A, r), k)
  BY DEF But
<1>6. \A e : e \in But(E, k) => e \in E
  BY DEF But
<1>7. \A e : e \in But(Taken(A, r), k) => e \in Taken(A, r)
  BY DEF But
<1> HIDE DEF Taken, But
<1>8. \A e \in E : e \in Taken(A, r)
  BY <1>2, <1>4, <1>7
<1>9. \A e \in Taken(A, r) : e \in E
  BY <1>3, <1>5, <1>6
<1> QED
  BY <1>8, <1>9

(* A live item is the only entry with its key.                             *)
LEMMA OneEntry ==
  ASSUME NEW T, OneEach(T), NEW n \in Live(T), NEW k, T.items[n].key = k
  PROVE  \A e \in Entries(T) : e.key = k => e = T.items[n]
  BY DEF OneEach, Entries

-------------------------------------------------------------------------------
(* Steps that leave the flash alone.                                       *)
StillFlash ==
  /\ flash' = flash /\ model' = model /\ firmware' = firmware /\ store' = store /\ losses' = losses
  /\ active' \in Sectors /\ write' \in Sectors
  /\ version' \in 0..MaxFirmware /\ free' \in 0..device.size
  /\ pc' \in Labels /\ local' \in Local /\ at' \subseteq Keys

(* Such a step keeps the types and the sectors.                            *)
LEMMA StillTyped ==
  ASSUME TypeInv, SectorInv, StillFlash
  PROVE  TypeInv' /\ SectorInv' /\ device' = device
<1>1. device' = device
  BY DEF device, StillFlash
<1> QED
  BY <1>1 DEF TypeInv, SectorInv, StillFlash

===============================================================================
