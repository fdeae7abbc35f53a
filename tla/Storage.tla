-------------------------------- MODULE Storage --------------------------------
(***************************************************************************)
(* The protected storage (storage/storage.c): PIN, wipe code, PIN failure  *)
(* counter, authentication of the list of entries, and the version checks  *)
(* after an upgrade, on builds without a secure element.                   *)
(*                                                                         *)
(* An operation is a chain of steps, and every norcow_set is one of them:  *)
(* todo holds the writes that are due before the operation goes on at pc.  *)
(* Power can be lost at every step.  The module Norcow shows what a loss   *)
(* in the middle of norcow_set, norcow_wipe or an upgrade leaves: the      *)
(* entry that is being written has its old value, none, a part of the new  *)
(* one or the new one; while a sector is copied, other entries may be      *)
(* lost, and the sector that is not used keeps what it held.  It is erased *)
(* after the other one, so that an interrupted wipe can bring it back.     *)
(*                                                                         *)
(* Keys derived from random numbers are compared only with each other, so  *)
(* that a fresh one is any that is not in use.                             *)
(***************************************************************************)
EXTENDS Naturals, Sequences, FiniteSets, FiniteSetsExt

CONSTANTS
  Items,        \* keys of protected application entries
  Pins,         \* PINs that may be entered
  EmptyPin,     \* PIN_EMPTY
  NoCode,       \* WIPE_CODE_EMPTY
  MaxTries,     \* PIN_MAX_TRIES
  MaxCount,     \* the largest count the PIN log can hold
  HwKey,        \* USE_STORAGE_HWKEY
  Builds,       \* the builds of the firmware to consider
  Copies        \* a bound, how far an interrupted copy of a sector may get

(* blockwise: the flash is not FLASH_BIT_ACCESS; min: NORCOW_MIN_VERSION;  *)
(* old: the storage version that an older firmware left; and two bounds,   *)
(* pins: the PINs that are entered, losses: the power losses while an      *)
(* operation is running.                                                   *)
ASSUME BuildAssumption ==
  /\ Builds \subseteq [blockwise : BOOLEAN, min : Nat, old : 3..6,
                      pins : SUBSET Pins, losses : Nat]
  /\ \A b \in Builds : b.min <= b.old

ASSUME TriesAssumption == MaxTries \in Nat

ASSUME HwKeyAssumption == HwKey \in BOOLEAN

VARIABLES
  build,      \* the build that is installed
  flash,      \* entry of each key in the sector in use
  other,      \* what the other sector still holds
  norcow,     \* norcow_active_version
  unlocked,
  cached,     \* cached_keys
  sum,        \* authentication_sum: the keys it stands for
  pc,         \* where the operation in progress goes on
  todo,       \* the writes that come before that
  arg,        \* arguments of the operation
  guesses,    \* wrong PINs since the last right one or the start of a wipe
  losses      \* power losses so far

ram == <<unlocked, cached, sum>>
ghost == <<build, guesses, losses>>
vars == <<flash, other, norcow, ram, pc, todo, arg, ghost>>

Version == 6                         \* NORCOW_VERSION
Versions == {b.old : b \in Builds} \cup {Version}
Internal == {"logs", "edek", "notSet", "version", "tag", "wipeCode", "upgraded", "unauth"}
Keys == Internal \cup Items

(* Protected entries have other keys than those of APP_STORAGE.            *)
ASSUME ItemsAssumption == Items \cap Internal = {}

(* The entries that were copied, and the one that was being copied.        *)
ASSUME CopiesAssumption == Copies \subseteq [whole : SUBSET Keys, torn : SUBSET Keys]

Secrets == 1..(2 * Cardinality(Items) + 7)
NoSecret == 0
Missing == <<>>
Torn == <<"torn", "torn">>
Value(v) == <<v>>

Of(S) == {Missing, Torn} \cup {Value(v) : v \in S}
Entry ==
  [logs     |-> Of(0..MaxCount),
   edek     |-> Of([pin : Pins, scheme : 4..6, secret : Secrets]),
   notSet   |-> Of(BOOLEAN),
   version  |-> Of([secret : Secrets, number : Versions]),
   tag      |-> Of([secret : Secrets, keys : SUBSET Items]),
   wipeCode |-> Of((Pins \ {EmptyPin}) \cup {NoCode}),
   upgraded |-> Of(BOOLEAN),
   unauth   |-> Of(Versions)]
EntryOf(k) == IF k \in Items THEN Of(Secrets) ELSE Entry[k]

Calls == {"none", "unlock", "changeWipeCode", "ensure", "changePin"}
(* The entries of a wiped sector, and a sector without NORCOW_MAGIC.       *)
Factory == [k \in Keys |-> Missing]
Erased == [version |-> 0, entries |-> Factory]

Labels == {"idle", "off", "halt", "fault", "wipe", "wipeOther", "wipeCode", "fails", "decrypt",
           "upgrade", "version", "accept", "setWipeCode"}
Quiet == [pin |-> EmptyPin, code |-> NoCode, call |-> "none", then |-> "idle"]

(* Every variable, and every entry and pending write, keeps its type.      *)
TypeOK ==
  /\ build \in Builds
  /\ DOMAIN flash = Keys /\ DOMAIN other.entries = Keys
  /\ \A k \in Keys : flash[k] \in EntryOf(k) /\ other.entries[k] \in EntryOf(k)
  /\ other.version \in {0} \cup Versions
  /\ norcow \in Versions
  /\ unlocked \in BOOLEAN
  /\ cached \in Secrets \cup {NoSecret}
  /\ sum \subseteq Items
  /\ pc \in Labels
  /\ \A i \in DOMAIN todo : todo[i].key \in Keys /\ todo[i].val \in EntryOf(todo[i].key)
  /\ arg \in [pin : Pins, code : Pins \cup {NoCode}, call : Calls, then : Labels]
  /\ guesses \in Nat
  /\ losses \in 0..build.losses

-------------------------------------------------------------------------------
(***************************************************************************)
(* Entries and writes.                                                     *)
(***************************************************************************)
Whole(k) == Len(flash[k]) = 1
Write(k, v) == [key |-> k, val |-> v]
Set(k, v) == Write(k, Value(v))

(* The operation goes on at l when the writes are done.                    *)
Do(writes, l) == todo' = writes /\ pc' = l

Ready(l) == pc = l /\ todo = <<>>

(* Deleting an entry and filling allocated space (norcow_update_bytes) do  *)
(* not append to the sector, and with bit access neither does counting a   *)
(* failure nor clearing PIN_NOT_SET.                                       *)
InPlace(k, old, new) ==
  \/ new \in {old, Missing}
  \/ k \in Items \cup {"version"} /\ new # Torn
  \/ ~build.blockwise /\ k = "logs" /\ Len(old) = 1 /\ new # Value(0)
  \/ ~build.blockwise /\ k = "notSet" /\ old = Value(TRUE)

(* norcow_set.  If the sector is full it is compacted first, which erases  *)
(* the other one.                                                          *)
NorcowWrite ==
  LET k == Head(todo).key
  IN  /\ todo # <<>>
      /\ flash' = [flash EXCEPT ![k] = Head(todo).val]
      /\ \/ UNCHANGED other
         \/ ~InPlace(k, flash[k], Head(todo).val) /\ other' = Erased
      /\ todo' = Tail(todo)
      /\ UNCHANGED <<norcow, ram, pc, arg, ghost>>

(* Protected entries that are present, be they complete or not.            *)
Present == {k \in Items : flash[k] # Missing}

(* The keys that derive_kek_set and decrypt_dek agree on differ between    *)
(* version 4 and later ones, and with a hardware key between 5 and 6.      *)
Scheme(v) ==
  CASE v <= 4                       -> 4
    [] v > 4 /\ (v = 5 \/ ~HwKey)   -> 5
    [] v > 5 /\ HwKey               -> 6

(* get_lock_version reads any word that is there: a torn one is large.     *)
LockVersion == IF Whole("unauth") THEN flash["unauth"][1] ELSE Version + 1

(* set_pin: the keys locked with the PIN, then whether there is one.       *)
MutantSetPin(pin, secret) ==
  <<Set("edek", [pin |-> pin, scheme |-> Scheme(Version), secret |-> secret])>>

SetPin(pin, secret) ==
  <<Set("edek", [pin |-> pin, scheme |-> Scheme(Version), secret |-> secret]),
    Set("notSet", pin = EmptyPin)>>

(* storage_set_encrypted of VERSION_KEY: space first, then the value.      *)
SetVersion(secret) ==
  <<Write("version", Torn), Set("version", [secret |-> secret, number |-> Version])>>

Tag(secret, keys) == Set("tag", [secret |-> secret, keys |-> keys])

(* Whether auth_get finds the tag that belongs to the entries.             *)
Authentic == flash["tag"] = Value([secret |-> cached, keys |-> Present])

-------------------------------------------------------------------------------
(***************************************************************************)
(* Wiping.                                                                 *)
(***************************************************************************)
Known(entries) ==
  {entries[k][1] : k \in {x \in Items : Len(entries[x]) = 1}}
    \cup {entries[k][1].secret : k \in {x \in {"edek", "version", "tag"} : Len(entries[x]) = 1}}

(* rng_fill_buffer_strong *)
Fresh == Min(Secrets \ (Known(flash) \cup Known(other.entries)))

(* init_wiped_storage: the EDEK, which storage_init looks for, comes last  *)
(* but one.                                                                *)
InitWiped(secret) ==
  <<Tag(secret, {})>>
    \o SetVersion(secret)
    \o <<Set("unauth", Version), Set("upgraded", FALSE), Set("logs", 0),
         Set("wipeCode", NoCode)>>
    \o SetPin(EmptyPin, secret)

Opened(secret) == unlocked' = TRUE /\ cached' = secret /\ sum' = {}

(* storage_wipe: norcow_wipe erases the sector in use and gives it a magic *)
(* again, then it erases the other one.                                    *)
StorageWipe ==
  /\ Ready("wipe")
  /\ flash' = Factory
  /\ pc' = "wipeOther"
  /\ guesses' = 0
  /\ UNCHANGED <<other, norcow, ram, todo, arg, build, losses>>

WipeOther ==
  /\ Ready("wipeOther")
  /\ other' = Erased
  /\ norcow' = Version
  /\ Opened(1)
  /\ Do(InitWiped(1), arg.then)
  /\ UNCHANGED <<flash, arg, ghost>>

Wipe(then) == pc' = "wipe" /\ arg' = [arg EXCEPT !.then = then]

(* storage_init.  norcow_init and storage_upgrade, which copies the        *)
(* entries to the other sector, marks the storage as upgraded and erases   *)
(* the first one, are the subject of Norcow.                               *)
StorageInit ==
  LET upgrade == norcow < Version
      started == [flash EXCEPT !["upgraded"] = IF upgrade THEN Value(TRUE) ELSE @]
  IN  /\ pc = "off"
      /\ flash' = started
      /\ other' = IF upgrade THEN Erased ELSE other
      /\ norcow' = Version
      /\ IF flash["edek"] = Missing
         THEN /\ Opened(Fresh)
              /\ Do(InitWiped(Fresh), "idle")
              /\ guesses' = 0
         ELSE /\ Do(<<>>, "idle")
              /\ UNCHANGED <<ram, guesses>>
      /\ UNCHANGED <<arg, build, losses>>

-------------------------------------------------------------------------------
(***************************************************************************)
(* __handle_fault: count the fault as a failed PIN and halt; wipe if the   *)
(* counter cannot be read, which is a fault within a fault.                *)
(***************************************************************************)
MutantHandleFault ==
  /\ Ready("fault")
  /\ IF ~Whole("logs") \/ flash["logs"] = Value(MaxCount)
     THEN pc' = "fault" /\ UNCHANGED <<todo, arg>>
     ELSE Do(<<Set("logs", flash["logs"][1] + 1)>>, "halt") /\ UNCHANGED arg
  /\ UNCHANGED <<flash, other, norcow, ram, ghost>>

HandleFault ==
  /\ Ready("fault")
  /\ IF ~Whole("logs") \/ flash["logs"] = Value(MaxCount)
     THEN Wipe("halt") /\ UNCHANGED todo
     ELSE Do(<<Set("logs", flash["logs"][1] + 1)>>, "halt") /\ UNCHANGED arg
  /\ UNCHANGED <<flash, other, norcow, ram, ghost>>

(* Without power the contents of RAM are lost.                             *)
Off ==
  /\ Do(<<>>, "off")
  /\ unlocked' = FALSE /\ cached' = NoSecret /\ sum' = {}
  /\ arg' = Quiet

(* __fatal_error and the screens after a wipe do not return.               *)
Halt ==
  /\ Ready("halt")
  /\ Off
  /\ UNCHANGED <<flash, other, norcow, ghost>>

-------------------------------------------------------------------------------
(***************************************************************************)
(* unlock, step by step.  It is called by storage_unlock and, before it    *)
(* sets a new wipe code, by storage_change_wipe_code.                      *)
(***************************************************************************)
Call(call, pin, code) ==
  /\ Ready("idle")
  /\ arg' = [pin |-> pin, code |-> code, call |-> call, then |-> "idle"]
  /\ pc' = "wipeCode"
  /\ UNCHANGED <<flash, other, norcow, ram, todo, ghost>>

StorageUnlock(pin) == Call("unlock", pin, NoCode)

StorageChangeWipeCode(pin, code) ==
  /\ pin = EmptyPin \/ pin # code
  /\ Call("changeWipeCode", pin, code)

StorageEnsureNotWipeCode(pin) == Call("ensure", pin, NoCode)

StorageChangePin(pin) ==
  /\ unlocked
  /\ Call("changePin", pin, NoCode)

(* is_not_wipe_code, and what its callers make of the answer.  Builds that *)
(* can upgrade from version 2 ask for the lock version first, to encode    *)
(* the PIN.                                                                *)
Unreadable ==
  \/ ~Whole("wipeCode")
  \/ build.min <= 2 /\ flash["unauth"] = Missing /\ arg.call # "changePin"

IsNotWipeCode ==
  /\ Ready("wipeCode")
  /\ \/ /\ Unreadable
        /\ pc' = "fault"
        /\ UNCHANGED <<todo, arg>>
     \/ /\ ~Unreadable /\ flash["wipeCode"] = Value(arg.pin)
        /\ IF arg.call = "changePin"
           THEN pc' = "idle" /\ UNCHANGED arg
           ELSE Wipe("halt")
        /\ UNCHANGED todo
     \/ /\ ~Unreadable /\ flash["wipeCode"] # Value(arg.pin)
        /\ CASE arg.call = "changePin" -> Do(SetPin(arg.pin, cached), "idle")
             [] arg.call = "ensure"    -> Do(<<>>, "idle")
             [] OTHER                  -> Do(<<>>, "fails")
        /\ UNCHANGED arg
  /\ UNCHANGED <<flash, other, norcow, ram, ghost>>

(* "Wipe storage if too many failures"                                     *)
MutantTooMany(fails) == fails > MaxTries
TooMany(fails) == fails >= MaxTries

(* "First, we increase PIN fail counter in storage, even before checking   *)
(* the PIN."  While the device waits, which it does after a failure, the   *)
(* operation may be cancelled.                                             *)
MutantCountAttempt ==
  /\ Ready("fails")
  /\ IF ~Whole("logs") THEN pc' = "fault" /\ UNCHANGED <<todo, arg>>
     ELSE IF TooMany(flash["logs"][1]) THEN Wipe("halt") /\ UNCHANGED todo
     ELSE Do(<<>>, "decrypt") /\ UNCHANGED arg
  /\ UNCHANGED <<flash, other, norcow, ram, ghost>>

CountAttempt ==
  /\ Ready("fails")
  /\ \/ /\ ~Whole("logs")
        /\ pc' = "fault"
        /\ UNCHANGED <<todo, arg>>
     \/ /\ Whole("logs") /\ TooMany(flash["logs"][1])
        /\ Wipe("halt")
        /\ UNCHANGED todo
     \/ /\ Whole("logs") /\ ~TooMany(flash["logs"][1])
        /\ \/ Do(<<Set("logs", flash["logs"][1] + 1)>>, "decrypt")
           \/ flash["logs"][1] > 0 /\ Do(<<>>, "idle")
        /\ UNCHANGED arg
  /\ UNCHANGED <<flash, other, norcow, ram, ghost>>

(* decrypt_dek: a PIN fits if it was set with the keys that the lock       *)
(* version stands for.  A torn EDEK has the right length and fits none.    *)
Fits(pin) ==
  /\ Whole("edek")
  /\ flash["edek"][1].pin = pin
  /\ flash["edek"][1].scheme = Scheme(LockVersion)

DecryptDek ==
  /\ Ready("decrypt")
  /\ IF Missing \in {flash["edek"], flash["unauth"]}
     THEN pc' = "fault" /\ UNCHANGED <<cached, guesses, arg>>
     ELSE \/ /\ Fits(arg.pin)
             /\ cached' = flash["edek"][1].secret
             /\ guesses' = 0
             /\ pc' = "upgrade"
             /\ UNCHANGED arg
          \/ /\ ~Fits(arg.pin)
             /\ guesses' = guesses + 1
             /\ IF TooMany(flash["logs"][1])
                THEN Wipe("halt")
                ELSE pc' = "idle" /\ UNCHANGED arg
             /\ UNCHANGED cached
  /\ UNCHANGED <<flash, other, norcow, unlocked, sum, todo, build, losses>>

(* What storage_get_encrypted needs to return the version.                 *)
VersionRead ==
  /\ Authentic
  /\ Whole("version")
  /\ flash["version"][1].secret = cached

Number == flash["version"][1].number

(* storage_upgrade_unlocked: keys of an older version are locked anew.     *)
MutantRelock == IF Number <= 3 THEN SetPin(arg.pin, cached) ELSE <<>>
Relock == IF Number <= 5 THEN SetPin(arg.pin, cached) ELSE <<>>

UpgradeUnlocked ==
  /\ Ready("upgrade")
  /\ IF VersionRead THEN Do(Relock, "version") ELSE Do(<<>>, "fault")
  /\ sum' = Present
  /\ UNCHANGED <<flash, other, norcow, unlocked, cached, arg, ghost>>

(* check_storage_version: what looks like an attack wipes the storage.     *)
Suspicious ==
  flash["upgraded"] # Value(Number < norcow) \/ Number > norcow

MutantRaiseVersion == <<Set("upgraded", FALSE), Set("unauth", Version)>>
RaiseVersion ==
  <<Set("upgraded", FALSE)>> \o SetVersion(cached) \o <<Set("unauth", Version)>>

CheckStorageVersion ==
  /\ Ready("version")
  /\ \/ /\ ~VersionRead \/ Number # LockVersion \/ flash["upgraded"] = Missing
        /\ pc' = "fault"
        /\ UNCHANGED <<todo, arg>>
     \/ /\ VersionRead /\ Number = LockVersion /\ flash["upgraded"] # Missing /\ Suspicious
        /\ Wipe("fault")
        /\ UNCHANGED todo
     \/ /\ VersionRead /\ Number = LockVersion /\ flash["upgraded"] # Missing /\ ~Suspicious
        /\ Do(IF Number < norcow THEN RaiseVersion ELSE <<>>, "accept")
        /\ UNCHANGED arg
  /\ UNCHANGED <<flash, other, norcow, ram, ghost>>

(* "Finally set the counter to 0 to indicate success."                     *)
Accept ==
  /\ Ready("accept")
  /\ unlocked' = TRUE
  /\ Do(<<Set("logs", 0)>>, IF arg.call = "changeWipeCode" THEN "setWipeCode" ELSE "idle")
  /\ UNCHANGED <<flash, other, norcow, cached, sum, arg, ghost>>

(* set_wipe_code: no code is kept as one that no PIN equals.               *)
MutantSetWipeCode ==
  /\ Ready("setWipeCode")
  /\ Do(<<Set("wipeCode", IF arg.code = NoCode THEN EmptyPin ELSE arg.code)>>, "idle")
  /\ UNCHANGED <<flash, other, norcow, ram, arg, ghost>>

SetWipeCode ==
  /\ Ready("setWipeCode")
  /\ Do(<<Set("wipeCode", arg.code)>>, "idle")
  /\ UNCHANGED <<flash, other, norcow, ram, arg, ghost>>

-------------------------------------------------------------------------------
(***************************************************************************)
(* Protected entries.                                                      *)
(***************************************************************************)

(* auth_update *)
MutantAuthUpdate(k) == <<Tag(cached, {k})>>
AuthUpdate(k) == <<Tag(cached, SymDiff(sum, {k}))>>

(* storage_set: space for the entry, the tag if the entry is new, then the *)
(* value.                                                                  *)
StorageSet(k) ==
  LET new == flash[k] = Missing
  IN  /\ Ready("idle") /\ unlocked
      /\ Do(<<Write(k, Torn)>> \o (IF new THEN AuthUpdate(k) ELSE <<>>) \o <<Set(k, cached)>>, "idle")
      /\ sum' = IF new THEN SymDiff(sum, {k}) ELSE sum
      /\ UNCHANGED <<flash, other, norcow, unlocked, cached, arg, ghost>>

(* storage_delete *)
StorageDelete(k) ==
  /\ Ready("idle") /\ unlocked
  /\ flash[k] # Missing
  /\ Do(<<Write(k, Missing)>> \o AuthUpdate(k), "idle")
  /\ sum' = SymDiff(sum, {k})
  /\ UNCHANGED <<flash, other, norcow, unlocked, cached, arg, ghost>>

(* storage_get: the tag is checked, then the entry is decrypted.           *)
StorageGet(k) ==
  /\ Ready("idle") /\ unlocked
  /\ pc' = IF Authentic /\ flash[k] \in {Missing, Value(cached)} THEN "idle" ELSE "fault"
  /\ sum' = Present
  /\ UNCHANGED <<flash, other, norcow, unlocked, cached, todo, arg, ghost>>

MutantStorageLock ==
  /\ Ready("idle")
  /\ unlocked' = FALSE
  /\ UNCHANGED <<flash, other, norcow, cached, sum, pc, todo, arg, ghost>>

StorageLock ==
  /\ Ready("idle")
  /\ unlocked' = FALSE /\ cached' = NoSecret /\ sum' = {}
  /\ UNCHANGED <<flash, other, norcow, pc, todo, arg, ghost>>

WipeDevice ==
  /\ Ready("idle")
  /\ Wipe("idle")
  /\ UNCHANGED <<flash, other, norcow, ram, todo, ghost>>

-------------------------------------------------------------------------------
(***************************************************************************)
(* Power.                                                                  *)
(***************************************************************************)

(* The PIN log of bitwise flash only clears bits, so that an interrupted   *)
(* increase or reset leaves a count in between; but when it is used up it  *)
(* is written anew.  PIN_NOT_SET is cleared in place.  On blockwise flash  *)
(* an entry that fits into a block is never torn.                          *)
Small == {"logs", "notSet", "upgraded", "unauth"}
Between(x, y) == {Value(n) : n \in x..y}

Interrupted(k, old, new) ==
  CASE old = new -> {old}
    [] ~build.blockwise /\ k = "logs" /\ Whole(k) ->
         IF new = Value(0)
         THEN Between(0, old[1]) \cup {Missing, Torn}
         ELSE {old, new}
    [] ~build.blockwise /\ k = "notSet" /\ old = Value(TRUE) -> {old, new}
    [] OTHER -> {old, Missing, new} \cup IF build.blockwise /\ k \in Small THEN {} ELSE {Torn}

Copied(entries, copy) ==
  [k \in Keys |->
     CASE k \in copy.whole -> entries[k]
       [] /\ k \in copy.torn \ copy.whole /\ entries[k] # Missing
          /\ ~(build.blockwise /\ k \in Small) -> Torn
       [] OTHER -> Missing]

(* In norcow_set: before or after the sector is compacted, if it is full,  *)
(* or in the middle, when the old entry is deleted already.  norcow_init   *)
(* takes the last of two sectors of one version: a copy that is not        *)
(* finished if it is sector 1, and then sector 0 is the one that stays.    *)
LossInWrite ==
  LET k == Head(todo).key
      val == Head(todo).val
      source == [flash EXCEPT ![k] = Missing]
  IN  /\ todo # <<>>
      /\ \/ \E x \in Interrupted(k, flash[k], val) :
              /\ flash' = [flash EXCEPT ![k] = x]
              /\ \/ UNCHANGED other
                 \/ ~InPlace(k, flash[k], val) /\ x # flash[k] /\ other' = Erased
         \/ /\ ~InPlace(k, flash[k], val)
            /\ \E copy \in Copies :
                 \/ /\ other.version # Version
                    /\ flash' = Copied(source, copy)
                    /\ other' = [version |-> Version, entries |-> source]
                 \/ /\ flash' = source
                    /\ other' = [version |-> Version, entries |-> Copied(source, copy)]
      /\ UNCHANGED norcow

(* In norcow_wipe, before or after the erased sector has its magic again.  *)
LossInWipe ==
  /\ Ready("wipeOther")
  /\ \/ UNCHANGED <<flash, other, norcow>>
     \/ /\ other.version # 0
        /\ flash' = other.entries
        /\ norcow' = other.version
        /\ other' = Erased

(* In storage_upgrade: the new sector has the higher version from the      *)
(* start, so that it is used although it is not complete, is not marked or *)
(* the old one is not erased yet.                                          *)
LossInUpgrade ==
  /\ pc = "off" /\ norcow < Version
  /\ \/ \E copy \in Copies : flash' = Copied(flash, copy)
     \/ \E x \in Interrupted("upgraded", flash["upgraded"], Value(TRUE)) :
          flash' = [flash EXCEPT !["upgraded"] = x]
  /\ other' = [version |-> norcow, entries |-> flash]
  /\ norcow' = Version

(* Between two writes.                                                     *)
LossBetween ==
  /\ todo = <<>> /\ pc \notin {"idle", "off", "wipeOther"}
  /\ UNCHANGED <<flash, other, norcow>>

PowerLoss ==
  /\ losses < build.losses
  /\ losses' = losses + 1
  /\ LossInWrite \/ LossInWipe \/ LossInUpgrade \/ LossBetween
  /\ Off
  /\ UNCHANGED <<build, guesses>>

TurnOff ==
  /\ Ready("idle")
  /\ Off
  /\ UNCHANGED <<flash, other, norcow, ghost>>

(* A new device, or the storage that an older firmware left, which may     *)
(* have lost power before it erased the sector it had copied.              *)
Old(pin, keys) ==
  [k \in Keys |->
     CASE k = "logs"     -> Value(0)
       [] k = "edek"     -> Value([pin |-> pin, scheme |-> Scheme(build.old), secret |-> 1])
       [] k = "notSet"   -> Value(pin = EmptyPin)
       [] k = "version"  -> Value([secret |-> 1, number |-> build.old])
       [] k = "tag"      -> Value([secret |-> 1, keys |-> keys])
       [] k = "wipeCode" -> Value(NoCode)
       [] k = "upgraded" -> Value(FALSE)
       [] k = "unauth"   -> Value(build.old)
       [] OTHER          -> IF k \in keys THEN Value(1) ELSE Missing]

Init ==
  /\ build \in Builds
  /\ \/ flash = Factory /\ norcow = Version /\ other = Erased
     \/ /\ flash \in {Old(pin, keys) : pin \in build.pins, keys \in SUBSET Items}
        /\ norcow = build.old
        /\ other \in {Erased, [version |-> norcow, entries |-> flash]}
  /\ unlocked = FALSE /\ cached = NoSecret /\ sum = {}
  /\ pc = "off" /\ todo = <<>> /\ arg = Quiet
  /\ guesses = 0 /\ losses = 0

Step ==
  \/ NorcowWrite \/ StorageInit \/ StorageWipe \/ WipeOther \/ HandleFault \/ Halt
  \/ IsNotWipeCode \/ CountAttempt \/ DecryptDek \/ UpgradeUnlocked
  \/ CheckStorageVersion \/ Accept \/ SetWipeCode

Next ==
  \/ Step
  \/ \E pin \in build.pins :
       \/ StorageUnlock(pin) \/ StorageEnsureNotWipeCode(pin) \/ StorageChangePin(pin)
       \/ \E code \in (build.pins \ {EmptyPin}) \cup {NoCode} : StorageChangeWipeCode(pin, code)
  \/ \E k \in Items : StorageSet(k) \/ StorageDelete(k) \/ StorageGet(k)
  \/ StorageLock \/ WipeDevice
  \/ PowerLoss \/ TurnOff

Spec == Init /\ [][Next]_vars

(* The processor runs the operation it started.                            *)
FairSpec == Spec /\ WF_vars(Step)

-------------------------------------------------------------------------------
(***************************************************************************)
(* Properties.                                                             *)
(***************************************************************************)

(* Every wrong PIN is in the counter before it is tried, and stays in it   *)
(* through any faults and power losses until the right PIN is entered or   *)
(* storage_wipe begins to erase.                                           *)
GuessesCounted == Whole("logs") => guesses <= flash["logs"][1]

(* No more than PIN_MAX_TRIES wrong PINs are tried before storage_wipe     *)
(* begins to erase, whenever power is lost.  A loss in the middle of       *)
(* norcow_wipe may bring back a sector that an interrupted compaction or   *)
(* upgrade left, with the counter it had, and the tries begin again.       *)
GuessesBounded == guesses <= MaxTries

(* The keys in RAM are those of the storage exactly while it is unlocked.  *)
KeysMatchLock ==
  Ready("idle") =>
    IF unlocked
    THEN Whole("edek") /\ cached = flash["edek"][1].secret
    ELSE cached = NoSecret

(* Power was never lost in the middle of an operation.  The properties     *)
(* below that assume it fail after a loss between two writes.              *)
NoLoss == losses = 0

(* Without a power loss none of the consistency checks ever fails: no      *)
(* sequence of calls, wipes and upgrades ends in __handle_fault.           *)
NoFaults == NoLoss => pc # "fault"

(* "When a new protected entry is added to the storage or when a protected *)
(* entry is deleted from the storage, the value of the SAT will be         *)
(* updated." (docs/storage/index.md:148)                                   *)
TagCurrent ==
  NoLoss /\ Ready("idle") /\ Whole("edek") =>
    flash["tag"] = Value([secret |-> flash["edek"][1].secret, keys |-> Present])

(* get_lock_version "Returns the storage version that was used to lock the *)
(* storage." (storage/storage.c:1006)                                      *)
LockVersionRight ==
  NoLoss /\ Ready("idle") /\ Whole("edek") => flash["edek"][1].scheme = Scheme(LockVersion)

(* storage_has_pin returns "sectrue if the PIN is set and not empty,       *)
(* secfalse otherwise" (storage/storage.h:205).                            *)
HasPin == flash["notSet"] = Value(FALSE)
HasPinRight ==
  NoLoss /\ Ready("idle") /\ Whole("edek") => (HasPin <=> flash["edek"][1].pin # EmptyPin)


(* Every operation ends: the device is ready for the next call or off.     *)
AlwaysEnds == []<>(Ready("idle") \/ pc = "off")
===============================================================================
