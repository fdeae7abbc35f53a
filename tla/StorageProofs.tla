----------------------------- MODULE StorageProofs -----------------------------
(***************************************************************************)
(* For any PINs, entries, builds and number of power losses: no wrong PIN  *)
(* escapes the counter, no more than PIN_MAX_TRIES are tried before a wipe *)
(* begins, and the keys in RAM are those of the storage exactly while it   *)
(* is unlocked.                                                            *)
(*                                                                         *)
(* None of the three is inductive.  A try is counted because CountAttempt  *)
(* has written the counter before DecryptDek runs, and a reset is harmless *)
(* because the right PIN came first: Counting says so of the steps and of  *)
(* the writes that are due.  Locking does the same for the EDEK.           *)
(***************************************************************************)
EXTENDS Storage, TLAPS

(* Most leaves are first-order; the others cite SMT.                       *)
USE Zenon

-------------------------------------------------------------------------------
(***************************************************************************)
(* Sequences, as the provers need them.                                    *)
(***************************************************************************)

(* A sequence is a function on its positions, ...                          *)
LEMMA SeqType ==
  ASSUME NEW S, NEW s \in Seq(S)
  PROVE  Len(s) \in Nat /\ DOMAIN s = 1..Len(s) /\ s \in [1..Len(s) -> S]
BY SMT

(* ... and every such function is one.                                     *)
LEMMA SeqMade ==
  ASSUME NEW S, NEW n \in Nat, NEW f \in [1..n -> S]
  PROVE  f \in Seq(S)
BY SMT

(* The empty sequence, the only one of length 0.                           *)
LEMMA SeqEmpty ==
  ASSUME NEW S
  PROVE  <<>> \in Seq(S) /\ Len(<<>>) = 0 /\ \A s \in Seq(S) : s # <<>> => Len(s) \in Nat \ {0}
BY SMT

(* One sequence after another.                                             *)
LEMMA SeqConcat ==
  ASSUME NEW S, NEW s \in Seq(S), NEW t \in Seq(S)
  PROVE  /\ s \o t \in Seq(S) /\ Len(s \o t) = Len(s) + Len(t)
         /\ \A n \in 1..Len(s) + Len(t) : (s \o t)[n] = IF n <= Len(s) THEN s[n] ELSE t[n - Len(s)]
BY SMT

(* The first element and the others.                                       *)
LEMMA SeqTail ==
  ASSUME NEW S, NEW s \in Seq(S), s # <<>>
  PROVE  /\ Head(s) \in S /\ Tail(s) \in Seq(S) /\ Len(Tail(s)) = Len(s) - 1
         /\ \A n \in 1..Len(Tail(s)) : Tail(s)[n] = s[n + 1]
BY SMT

(* Two sequences with the same elements are the same.                      *)
LEMMA SeqSame ==
  ASSUME NEW S, NEW s \in Seq(S), NEW t \in Seq(S), Len(s) = Len(t),
         \A n \in 1..Len(s) : s[n] = t[n]
  PROVE  s = t
BY SMT

-------------------------------------------------------------------------------
Sequence(s) == s \in Seq(Range(s))
Count == flash["logs"][1]

Shape ==
  /\ DOMAIN flash = Keys
  /\ flash["logs"] \in Of(Nat)
  /\ Sequence(todo)
  /\ arg = [pin |-> arg.pin, code |-> arg.code, call |-> arg.call, then |-> arg.then]
  /\ arg.then \notin {"decrypt", "off", "wipeOther"}
  /\ pc = "off" => todo = <<>>
  /\ pc = "wipeOther" => todo = <<>> /\ \A k \in Keys : flash[k] = Missing

(* The other sector has a counter that can come back.                      *)
Leftover == DOMAIN other.entries = Keys /\ other.entries["logs"] \in Of(Nat)

(* Where unlock goes on after the right PIN was entered.                   *)
Trusted == {"upgrade", "version", "accept"}

(* A write of the counter that is due resets it after the right PIN or a   *)
(* wipe, or adds one.                                                      *)
LogWrites ==
  \A w \in Range(todo) : w.key = "logs" =>
    \/ w.val = Value(0) /\ guesses = 0
    \/ Whole("logs") /\ todo = <<Set("logs", Count + 1)>>

(* The PIN is tried after the write that counts it.                        *)
Attempt ==
  /\ Whole("logs")
  /\ \/ todo = <<>> /\ guesses < Count /\ Count <= MaxTries
     \/ todo = <<Set("logs", Count + 1)>> /\ Count < MaxTries

Counting ==
  /\ guesses \in Nat
  /\ GuessesBounded
  /\ GuessesCounted
  /\ LogWrites
  /\ pc = "decrypt" => Attempt
  /\ pc \in Trusted \/ pc = "wipeOther" => guesses = 0

(* The EDEK, once the writes that are due are done, holds the cached keys. *)
Locks(entry) == Len(entry) = 1 /\ entry[1].secret = cached
Held ==
  /\ \A w \in Range(todo) : w.key = "edek" => Locks(w.val)
  /\ Locks(flash["edek"]) \/ \E w \in Range(todo) : w.key = "edek"

Closing == {"fault", "wipe", "wipeOther", "halt"}
Locking ==
  /\ (unlocked /\ pc # "wipeOther") \/ pc \in Trusted => Held
  /\ ~unlocked /\ pc \notin Trusted \cup Closing => cached = NoSecret

Inv == Shape /\ Counting /\ Locking

-------------------------------------------------------------------------------
(***************************************************************************)
(* Sequences of writes.                                                    *)
(***************************************************************************)

(* A sequence is one of its own elements.                                  *)
LEMMA SequenceOf ==
  ASSUME NEW S, NEW s \in Seq(S)
  PROVE  Sequence(s)
<1>1. Len(s) \in Nat /\ s \in [1..Len(s) -> S] /\ DOMAIN s = 1..Len(s)
  BY SeqType
<1>2. s \in [1..Len(s) -> Range(s)]
  BY <1>1 DEF Range
<1> QED
  BY <1>1, <1>2, SeqMade, SMTT(30) DEF Sequence

(* No writes, one and two.                                                 *)
LEMMA NoWrites == Sequence(<<>>) /\ Range(<<>>) = {}
<1>1. <<>> \in Seq({})
  BY SeqEmpty
<1>2. Range(<<>>) = {}
  BY SMTT(30) DEF Range
<1> QED
  BY <1>1, <1>2, SequenceOf

LEMMA OneWrite ==
  ASSUME NEW a
  PROVE  Sequence(<<a>>) /\ Range(<<a>>) = {a} /\ <<a>> # <<>>
<1>1. <<a>> \in Seq({a})
  BY SMTT(30)
<1>2. Range(<<a>>) = {a}
  BY SMTT(30) DEF Range
<1> QED
  BY <1>1, <1>2, SequenceOf

LEMMA TwoWrites ==
  ASSUME NEW a, NEW b
  PROVE  Sequence(<<a, b>>) /\ Range(<<a, b>>) = {a, b}
<1>1. <<a, b>> \in Seq({a, b})
  BY SMTT(30)
<1>2. Range(<<a, b>>) = {a, b}
  BY SMTT(30) DEF Range
<1> QED
  BY <1>1, <1>2, SequenceOf

LEMMA FourWrites ==
  ASSUME NEW a, NEW b, NEW c, NEW d
  PROVE  Sequence(<<a, b, c, d>>) /\ Range(<<a, b, c, d>>) = {a, b, c, d}
<1>1. <<a, b, c, d>> \in Seq({a, b, c, d})
  BY SMTT(30)
<1>2. Range(<<a, b, c, d>>) = {a, b, c, d}
  BY SMTT(30) DEF Range
<1> QED
  BY <1>1, <1>2, SequenceOf

(* Writes one after the other.                                             *)
LEMMA Joined ==
  ASSUME NEW s, NEW t, Sequence(s), Sequence(t)
  PROVE  Sequence(s \o t) /\ Range(s \o t) = Range(s) \cup Range(t)
<1> DEFINE S == Range(s) \cup Range(t)
<1>1. s \in Seq(S) /\ t \in Seq(S)
  <2>1. ASSUME NEW A, NEW B, A \subseteq B, NEW x \in Seq(A)
        PROVE  x \in Seq(B)
    <3>1. Len(x) \in Nat /\ x \in [1..Len(x) -> A]
      BY SeqType
    <3>2. x \in [1..Len(x) -> B]
      BY <2>1, <3>1
    <3> QED
      BY <3>1, <3>2, SeqMade, SMTT(30)
  <2> QED
    BY <2>1 DEF Sequence
<1>2. /\ s \o t \in Seq(S)
      /\ Len(s \o t) = Len(s) + Len(t)
      /\ \A i \in 1 .. Len(s) + Len(t) :
           (s \o t)[i] = IF i <= Len(s) THEN s[i] ELSE t[i - Len(s)]
  BY <1>1, SeqConcat
<1>3. /\ DOMAIN s = 1..Len(s) /\ DOMAIN t = 1..Len(t)
      /\ DOMAIN (s \o t) = 1..(Len(s) + Len(t))
      /\ Len(s) \in Nat /\ Len(t) \in Nat
  BY <1>1, <1>2, SeqType
<1>4. Range(s \o t) \subseteq S
  BY <1>2, <1>3, SMTT(30) DEF Range
<1>5. Range(s) \subseteq Range(s \o t)
  BY <1>2, <1>3, SMTT(30) DEF Range
<1>6. ASSUME NEW w \in Range(t)
      PROVE  w \in Range(s \o t)
  <2>1. PICK j \in 1..Len(t) : w = t[j]
    BY <1>3 DEF Range
  <2>2. Len(s) + j \in DOMAIN (s \o t) /\ (s \o t)[Len(s) + j] = t[j]
    BY <1>2, <1>3, SMTT(30)
  <2> QED
    BY <2>1, <2>2 DEF Range
<1> QED
  BY <1>2, <1>4, <1>5, <1>6, SequenceOf

(* The write that is next, and the others.                                 *)
LEMMA FirstWrite ==
  ASSUME NEW s, Sequence(s), s # <<>>
  PROVE  Sequence(Tail(s)) /\ Range(s) = {Head(s)} \cup Range(Tail(s))
<1>1. s \in Seq(Range(s))
  BY DEF Sequence
<1>2. /\ Head(s) \in Range(s)
      /\ Tail(s) \in Seq(Range(s))
      /\ Len(Tail(s)) = Len(s) - 1
      /\ \A i \in 1 .. Len(Tail(s)) : Tail(s)[i] = s[i + 1]
  BY <1>1, SeqTail
<1>3. Len(s) \in Nat \ {0} /\ DOMAIN s = 1..Len(s) /\ DOMAIN Tail(s) = 1..Len(Tail(s))
  BY <1>1, <1>2, SeqType, SeqEmpty
<1>4. Head(s) = s[1]
  BY <1>1, SMTT(30)
<1>5. Range(Tail(s)) \subseteq Range(s)
  BY <1>2, <1>3, SMTT(30) DEF Range
<1>6. ASSUME NEW w \in Range(s), w # Head(s)
      PROVE  w \in Range(Tail(s))
  <2>1. PICK j \in 1..Len(s) : w = s[j]
    BY <1>3 DEF Range
  <2>2. j - 1 \in DOMAIN Tail(s) /\ Tail(s)[j - 1] = s[j]
    BY <1>2, <1>3, <1>4, <1>6, <2>1, SMTT(30)
  <2> QED
    BY <2>1, <2>2 DEF Range
<1> QED
  BY <1>2, <1>5, <1>6, SequenceOf

(* What set_pin writes: the EDEK with the keys, and no counter.            *)
LEMMA SetPinWrites ==
  ASSUME NEW pin, NEW c
  PROVE  /\ Sequence(SetPin(pin, c))
         /\ \A w \in Range(SetPin(pin, c)) :
              /\ w.key # "logs"
              /\ w.key = "edek" => Len(w.val) = 1 /\ w.val[1].secret = c
         /\ \E w \in Range(SetPin(pin, c)) : w.key = "edek"
<1> DEFINE edek == Set("edek", [pin |-> pin, scheme |-> Scheme(Version), secret |-> c])
           notSet == Set("notSet", pin = EmptyPin)
<1>1. SetPin(pin, c) = <<edek, notSet>>
  BY DEF SetPin
<1>2. edek.key = "edek" /\ Len(edek.val) = 1 /\ edek.val[1].secret = c
  BY DEF Set, Write, Value
<1>3. notSet.key = "notSet"
  BY DEF Set, Write
<1> HIDE DEF edek, notSet
<1>4. Sequence(SetPin(pin, c)) /\ Range(SetPin(pin, c)) = {edek, notSet}
  BY <1>1, TwoWrites, SMTT(30)
<1> QED
  BY <1>2, <1>3, <1>4

(* What init_wiped_storage writes: the counter is 0, and the EDEK holds    *)
(* the new keys.                                                           *)
LEMMA InitWipedWrites ==
  ASSUME NEW c
  PROVE  /\ Sequence(InitWiped(c))
         /\ \A w \in Range(InitWiped(c)) :
              /\ w.key = "logs" => w.val = Value(0)
              /\ w.key = "edek" => Len(w.val) = 1 /\ w.val[1].secret = c
         /\ \E w \in Range(InitWiped(c)) : w.key = "edek"
<1> DEFINE tag == Tag(c, {})
           space == Write("version", Torn)
           version == Set("version", [secret |-> c, number |-> Version])
           unauth == Set("unauth", Version)
           upgraded == Set("upgraded", FALSE)
           logs == Set("logs", 0)
           code == Set("wipeCode", NoCode)
           first == <<tag>>
           rest == <<unauth, upgraded, logs, code>>
<1>1. /\ tag.key = "tag" /\ space.key = "version" /\ version.key = "version"
      /\ unauth.key = "unauth" /\ upgraded.key = "upgraded" /\ code.key = "wipeCode"
      /\ logs.key = "logs" /\ logs.val = Value(0)
  BY DEF Tag, Set, Write
<1>2. /\ InitWiped(c) = first \o SetVersion(c) \o rest \o SetPin(EmptyPin, c)
      /\ SetVersion(c) = <<space, version>>
  BY DEF InitWiped, SetVersion
<1> HIDE DEF tag, space, version, unauth, upgraded, logs, code
<1>3. /\ Sequence(first) /\ Range(first) = {tag}
      /\ Sequence(SetVersion(c)) /\ Range(SetVersion(c)) = {space, version}
      /\ Sequence(rest) /\ Range(rest) = {unauth, upgraded, logs, code}
  BY <1>2, OneWrite, TwoWrites, FourWrites, SMTT(30)
<1> HIDE DEF first, rest
<1>4. /\ Sequence(SetPin(EmptyPin, c))
      /\ \A w \in Range(SetPin(EmptyPin, c)) :
           /\ w.key # "logs"
           /\ w.key = "edek" => Len(w.val) = 1 /\ w.val[1].secret = c
      /\ \E w \in Range(SetPin(EmptyPin, c)) : w.key = "edek"
  BY SetPinWrites, ZenonT(30)
<1>5. /\ Sequence(first \o SetVersion(c))
      /\ Range(first \o SetVersion(c)) = {tag, space, version}
  BY <1>3, Joined, SMTT(30)
<1>6. /\ Sequence(first \o SetVersion(c) \o rest)
      /\ Range(first \o SetVersion(c) \o rest) =
           {tag, space, version, unauth, upgraded, logs, code}
  BY <1>3, <1>5, Joined, SMTT(30)
<1>7. /\ Sequence(InitWiped(c))
      /\ Range(InitWiped(c)) =
           {tag, space, version, unauth, upgraded, logs, code} \cup Range(SetPin(EmptyPin, c))
  BY <1>2, <1>4, <1>6, Joined
<1> QED
  BY <1>1, <1>4, <1>7

-------------------------------------------------------------------------------
(***************************************************************************)
(* What the steps have in common.                                          *)
(***************************************************************************)

(* The keys of the counter and of the EDEK, and no other entry's.          *)
LEMMA KeyFacts ==
  /\ "logs" \in Keys /\ "edek" \in Keys
  /\ \A k \in Items : k # "logs" /\ k # "edek"
BY ItemsAssumption DEF Keys, Internal

(* A counter that can be read.                                             *)
LEMMA LogFacts ==
  ASSUME NEW e \in Of(Nat)
  PROVE  /\ Len(e) = 1 => e[1] \in Nat /\ e = Value(e[1])
         /\ e # Missing /\ e # Torn => Len(e) = 1
BY SMTT(30) DEF Of, Missing, Torn, Value

LEMMA ValueFacts ==
  ASSUME NEW n \in Nat
  PROVE  Value(n) \in Of(Nat) /\ Len(Value(n)) = 1 /\ Value(n)[1] = n
BY DEF Of, Value

(* Wiping changes one argument.                                            *)
LEMMA WipeArg ==
  ASSUME Shape, NEW then, then \notin {"decrypt", "off", "wipeOther"}, arg' = [arg EXCEPT !.then = then]
  PROVE  /\ arg' = [pin |-> arg'.pin, code |-> arg'.code, call |-> arg'.call, then |-> arg'.then]
         /\ arg'.then \notin {"decrypt", "off", "wipeOther"}
BY DEF Shape

(* A step that has nothing to do with the counter.                         *)
LEMMA NoCounting ==
  ASSUME Inv, DOMAIN flash' = Keys, flash'["logs"] = flash["logs"], guesses' = guesses,
         Sequence(todo'), \A w \in Range(todo') : w.key # "logs",
         pc' \notin {"decrypt", "wipeOther"}, pc' \in Trusted => guesses = 0
  PROVE  Counting' /\ DOMAIN flash' = Keys /\ flash'["logs"] \in Of(Nat) /\ Sequence(todo')
BY DEF Inv, Shape, Counting, GuessesBounded, GuessesCounted, LogWrites, Whole

(* A step that leaves the keys in RAM alone.                               *)
LEMMA SameKeys ==
  ASSUME Inv, todo = <<>>, pc # "wipeOther", flash'["edek"] = flash["edek"], cached' = cached,
         \A w \in Range(todo') : w.key = "edek" => Len(w.val) = 1 /\ w.val[1].secret = cached,
         unlocked' \/ pc' \in Trusted => unlocked \/ pc \in Trusted,
         unlocked' \/ pc' \in Trusted \cup Closing \/ (~unlocked /\ pc \notin Trusted \cup Closing)
  PROVE  Locking'
<1>1. Range(todo) = {}
  BY NoWrites
<1>2. unlocked' \/ pc' \in Trusted => Held'
  BY <1>1 DEF Inv, Locking, Held, Locks
<1>3. ~unlocked' /\ pc' \notin Trusted \cup Closing => cached' = NoSecret
  BY DEF Inv, Locking
<1> QED
  BY <1>2, <1>3 DEF Locking

(* The power is off: the keys are gone, the counter is not.                *)
LEMMA OffInv ==
  ASSUME Inv, Off, DOMAIN flash' = Keys, flash'["logs"] \in Of(Nat), guesses' = guesses,
         GuessesCounted'
  PROVE  Inv'
<1>1. /\ todo' = <<>> /\ pc' = "off" /\ unlocked' = FALSE /\ cached' = NoSecret
      /\ arg' = Quiet
  BY DEF Off, Do
<1>2. Sequence(todo') /\ Range(todo') = {}
  BY <1>1, NoWrites
<1>3. Shape'
  BY <1>1, <1>2 DEF Shape, Quiet
<1>4. Counting'
  BY <1>1, <1>2 DEF Inv, Counting, GuessesBounded, LogWrites, Trusted
<1>5. Locking'
  BY <1>1 DEF Locking, Trusted
<1> QED
  BY <1>3, <1>4, <1>5 DEF Inv

(* New keys: nothing was tried against them yet.                           *)
LEMMA OpenedInv ==
  ASSUME Inv, NEW c, Opened(c), NEW l, l \notin {"decrypt", "off", "wipeOther"}, Do(InitWiped(c), l),
         DOMAIN flash' = Keys, flash'["logs"] \in Of(Nat), guesses' = 0, arg' = arg
  PROVE  Inv'
<1>1. unlocked' = TRUE /\ cached' = c /\ todo' = InitWiped(c) /\ pc' = l
  BY DEF Opened, Do
<1>2. /\ Sequence(todo')
      /\ \A w \in Range(todo') :
           /\ w.key = "logs" => w.val = Value(0)
           /\ w.key = "edek" => Len(w.val) = 1 /\ w.val[1].secret = c
      /\ \E w \in Range(todo') : w.key = "edek"
  BY <1>1, InitWipedWrites
<1>3. Shape'
  BY <1>1, <1>2 DEF Inv, Shape
<1>4. Counting'
  <2>1. GuessesBounded'
    BY TriesAssumption, SMTT(30) DEF GuessesBounded
  <2>2. GuessesCounted'
    BY LogFacts, SMTT(30) DEF GuessesCounted, Whole
  <2> QED
    BY <1>1, <1>2, <2>1, <2>2 DEF Counting, LogWrites
<1>5. Locking'
  BY <1>1, <1>2 DEF Locking, Held, Locks
<1> QED
  BY <1>3, <1>4, <1>5 DEF Inv

-------------------------------------------------------------------------------
(***************************************************************************)
(* The steps.                                                              *)
(***************************************************************************)

(* A new device and an old storage.                                        *)
LEMMA InitInv == Init => Inv
<1> SUFFICES ASSUME Init
             PROVE  Inv
  OBVIOUS
<1>1. /\ todo = <<>> /\ pc = "off" /\ arg = Quiet /\ guesses = 0
      /\ unlocked = FALSE /\ cached = NoSecret
  BY DEF Init
<1>2. Sequence(todo) /\ Range(todo) = {}
  BY <1>1, NoWrites
<1>3. DOMAIN flash = Keys /\ flash["logs"] \in Of(Nat)
  <2>1. CASE flash = Factory
    BY <2>1, KeyFacts DEF Factory, Of
  <2>2. CASE flash \in {Old(pin, keys) : pin \in build.pins, keys \in SUBSET Items}
    <3>1. PICK pin \in build.pins, keys \in SUBSET Items : flash = Old(pin, keys)
      BY <2>2, SMTT(30)
    <3>2. DOMAIN flash = Keys
      BY <3>1 DEF Old
    <3>3. flash["logs"] = Value(0)
      BY <3>1, KeyFacts DEF Old
    <3> QED
      BY <3>2, <3>3, ValueFacts
  <2> QED
    BY <2>1, <2>2, SMTT(30) DEF Init
<1>4. GuessesCounted
  BY <1>1, <1>3, LogFacts, SMTT(30) DEF GuessesCounted, Whole
<1>5. Shape
  BY <1>1, <1>2, <1>3 DEF Shape, Quiet
<1>6. Counting
  BY <1>1, <1>2, <1>4, TriesAssumption, SMTT(30) DEF Counting, GuessesBounded, LogWrites, Trusted
<1>7. Locking
  BY <1>1 DEF Locking, Trusted
<1> QED
  BY <1>5, <1>6, <1>7 DEF Inv

(* norcow_set of the write that is next.                                   *)
LEMMA NorcowWriteInv ==
  ASSUME Inv, NorcowWrite
  PROVE  Inv'
<1> DEFINE w == Head(todo)
<1>1. /\ todo # <<>> /\ todo' = Tail(todo)
      /\ flash' = [flash EXCEPT ![w.key] = w.val]
      /\ UNCHANGED <<unlocked, cached, pc, arg, guesses>>
  BY DEF NorcowWrite, ram, ghost
<1>2. Sequence(todo') /\ Range(todo) = {w} \cup Range(todo')
  BY <1>1, FirstWrite DEF Inv, Shape
<1>3. /\ DOMAIN flash' = Keys
      /\ \A k \in {"logs", "edek"} : flash'[k] = IF w.key = k THEN w.val ELSE flash[k]
  BY <1>1, KeyFacts DEF Inv, Shape
<1> HIDE DEF w
<1>4. Shape' /\ Counting'
  <2>1. CASE w.key # "logs"
    <3>1. flash'["logs"] = flash["logs"]
      BY <1>3, <2>1
    <3>2. ASSUME NEW n
          PROVE  todo # <<Set("logs", n)>>
      <4>1. Head(<<Set("logs", n)>>).key = "logs"
        BY SMTT(30) DEF Set, Write
      <4> QED
        BY <2>1, <4>1 DEF w
    <3>3. LogWrites'
      BY <1>1, <1>2, <3>2 DEF Inv, Counting, LogWrites
    <3>4. pc # "decrypt"
      BY <1>1, <3>2 DEF Inv, Counting, Attempt
    <3> QED
      BY <1>1, <1>2, <1>3, <3>1, <3>3, <3>4
      DEF Inv, Shape, Counting, GuessesBounded, GuessesCounted, Whole
  <2>2. CASE w.key = "logs" /\ w.val = Value(0) /\ guesses = 0
    <3>1. flash'["logs"] = Value(0)
      BY <1>3, <2>2
    <3>2. pc # "decrypt"
      <4> SUFFICES ASSUME pc = "decrypt"
                   PROVE  FALSE
        OBVIOUS
      <4>1. todo = <<Set("logs", Count + 1)>> /\ Count \in Nat
        BY <1>1, LogFacts DEF Inv, Shape, Counting, Attempt, Whole, Count
      <4>2. w.val = Value(Count + 1)
        BY <4>1, SMTT(30) DEF w, Set, Write
      <4> QED
        BY <2>2, <4>1, <4>2, ValueFacts, SMTT(30)
    <3>3. LogWrites'
      <4>1. ASSUME NEW n, todo = <<Set("logs", n)>>
            PROVE  todo' = <<>>
        BY <1>1, <4>1, SMTT(30)
      <4> QED
        BY <1>1, <1>2, <4>1, NoWrites, <2>2 DEF Inv, Counting, LogWrites
    <3>4. GuessesCounted'
      BY <1>1, <2>2, <3>1, ValueFacts, SMTT(30) DEF GuessesCounted
    <3> QED
      BY <1>1, <1>2, <1>3, <3>1, <3>2, <3>3, <3>4, ValueFacts, SMTT(30)
      DEF Inv, Shape, Counting, GuessesBounded
  <2>3. CASE w.key = "logs" /\ Whole("logs") /\ todo = <<Set("logs", Count + 1)>>
    <3>1. Count \in Nat
      BY <2>3, LogFacts DEF Inv, Shape, Whole, Count
    <3>2. w.val = Value(Count + 1) /\ todo' = <<>>
      BY <1>1, <2>3, SMTT(30) DEF w, Set, Write
    <3>3. flash'["logs"] = Value(Count + 1)
      BY <1>3, <2>3, <3>2
    <3>4. flash'["logs"] \in Of(Nat) /\ Len(flash'["logs"]) = 1 /\ flash'["logs"][1] = Count + 1
      BY <3>1, <3>3, ValueFacts, SMTT(30)
    <3>5. GuessesCounted'
      BY <1>1, <2>3, <3>1, <3>4, SMTT(30) DEF Inv, Counting, GuessesCounted, Count
    <3>6. pc = "decrypt" => Attempt'
      <4>1. pc = "decrypt" => Count < MaxTries /\ guesses <= Count
        BY <1>1, <2>3 DEF Inv, Counting, Attempt, GuessesCounted, Count
      <4> QED
        BY <1>1, <3>1, <3>2, <3>4, <4>1, TriesAssumption, SMTT(30) DEF Inv, Counting, Attempt, Whole, Count
    <3>7. LogWrites'
      BY <3>2, NoWrites DEF LogWrites
    <3> QED
      BY <1>1, <1>2, <1>3, <3>4, <3>5, <3>6, <3>7 DEF Inv, Shape, Counting, GuessesBounded
  <2> QED
    BY <1>2, <2>1, <2>2, <2>3 DEF Inv, Counting, LogWrites
<1>5. Locking'
  <2>1. (unlocked /\ pc # "wipeOther") \/ pc \in Trusted => Held'
    BY <1>1, <1>2, <1>3, ZenonT(30) DEF Inv, Locking, Held, Locks
  <2> QED
    BY <1>1, <2>1 DEF Inv, Locking
<1> QED
  BY <1>4, <1>5 DEF Inv

(* storage_init.                                                           *)
LEMMA StorageInitInv ==
  ASSUME Inv, StorageInit
  PROVE  Inv'
<1>1. /\ pc = "off" /\ arg' = arg
      /\ DOMAIN flash' = Keys /\ flash'["logs"] = flash["logs"] /\ flash'["edek"] = flash["edek"]
  BY KeyFacts DEF StorageInit, Inv, Shape
<1>2. CASE flash["edek"] = Missing
  <2>1. Opened(Fresh) /\ Do(InitWiped(Fresh), "idle") /\ guesses' = 0
    BY <1>2 DEF StorageInit
  <2> QED
    BY <1>1, <2>1, OpenedInv DEF Inv, Shape
<1>3. CASE flash["edek"] # Missing
  <2>1. /\ todo' = <<>> /\ pc' = "idle" /\ guesses' = guesses
        /\ UNCHANGED <<unlocked, cached>>
    BY <1>3 DEF StorageInit, Do, ram
  <2>2. todo = <<>>
    BY <1>1 DEF Inv, Shape
  <2> QED
    BY <1>1, <2>1, <2>2, NoCounting, SameKeys, NoWrites DEF Inv, Shape, Trusted, Closing
<1> QED
  BY <1>2, <1>3

(* storage_wipe erases the sector in use, ...                              *)
LEMMA StorageWipeInv ==
  ASSUME Inv, StorageWipe
  PROVE  Inv'
<1>1. /\ flash' = Factory /\ todo = <<>> /\ todo' = <<>> /\ pc = "wipe" /\ pc' = "wipeOther"
      /\ guesses' = 0 /\ UNCHANGED <<arg, unlocked, cached>>
  BY DEF StorageWipe, Ready, ram
<1>2. /\ DOMAIN flash' = Keys /\ \A k \in Keys : flash'[k] = Missing
      /\ flash'["logs"] = Missing
  BY <1>1, KeyFacts DEF Factory
<1>3. Range(todo') = {} /\ Sequence(todo')
  BY <1>1, NoWrites
<1>4. Shape'
  BY <1>1, <1>2, <1>3 DEF Inv, Shape, Of
<1>5. GuessesBounded' /\ GuessesCounted'
  BY <1>1, <1>2, TriesAssumption, SMTT(30) DEF GuessesBounded, GuessesCounted, Whole, Missing
<1>6. Counting'
  BY <1>1, <1>3, <1>5 DEF Counting, LogWrites
<1>7. Locking'
  BY <1>1 DEF Locking, Trusted, Closing
<1> QED
  BY <1>4, <1>6, <1>7 DEF Inv

(* ... then the other one.                                                 *)
LEMMA WipeOtherInv ==
  ASSUME Inv, WipeOther
  PROVE  Inv'
<1>1. /\ pc = "wipeOther" /\ flash' = flash /\ Opened(1) /\ Do(InitWiped(1), arg.then)
      /\ guesses' = guesses /\ arg' = arg
  BY DEF WipeOther, Ready, ghost
<1>2. arg.then \notin {"decrypt", "off", "wipeOther"} /\ guesses = 0
  BY <1>1 DEF Inv, Shape, Counting
<1> QED
  BY <1>1, <1>2, OpenedInv DEF Inv, Shape

(* A step of unlock, or of another operation, that changes no entry and    *)
(* neither unlocks nor locks, and goes on without new writes.              *)
LEMMA GoOn ==
  ASSUME Inv, todo = <<>>, todo' = <<>>, flash' = flash, guesses' = guesses,
         UNCHANGED <<unlocked, cached>>,
         pc # "wipeOther", pc' \notin Trusted \cup {"decrypt", "off", "wipeOther"},
         pc' \in Closing \/ unlocked \/ pc \notin Trusted \cup Closing,
         \/ arg' = arg
         \/ \E then : then \notin {"decrypt", "off", "wipeOther"} /\ arg' = [arg EXCEPT !.then = then]
  PROVE  Inv'
<1>1. /\ arg' = [pin |-> arg'.pin, code |-> arg'.code, call |-> arg'.call, then |-> arg'.then]
      /\ arg'.then \notin {"decrypt", "off", "wipeOther"}
  BY WipeArg DEF Inv, Shape
<1>2. Range(todo') = {} /\ Sequence(todo')
  BY NoWrites
<1>3. Counting' /\ flash'["logs"] \in Of(Nat) /\ DOMAIN flash' = Keys
  BY <1>2, NoCounting DEF Inv, Shape
<1>4. Locking'
  BY <1>2, SameKeys
<1> QED
  BY <1>1, <1>2, <1>3, <1>4 DEF Inv, Shape

(* The counter is to be increased.                                         *)
LEMMA Increased ==
  ASSUME Inv, todo = <<>>, Whole("logs"), pc # "wipeOther",
         NEW l, l \notin Trusted \cup {"off", "wipeOther"},
         Do(<<Set("logs", flash["logs"][1] + 1)>>, l),
         l = "decrypt" => Count < MaxTries,
         l \in Closing \/ pc \notin Trusted \cup Closing,
         UNCHANGED <<flash, unlocked, cached, arg, guesses>>
  PROVE  Inv'
<1> DEFINE w == Set("logs", Count + 1)
<1>1. todo' = <<w>> /\ pc' = l /\ w.key = "logs"
  BY DEF Do, Count, Set, Write
<1>2. Sequence(todo') /\ Range(todo') = {w}
  BY <1>1, OneWrite
<1>3. Count' = Count /\ Whole("logs")'
  BY DEF Count, Whole
<1>4. Shape'
  BY <1>1, <1>2 DEF Inv, Shape
<1>5. LogWrites'
  BY <1>1, <1>2, <1>3 DEF LogWrites
<1>6. l = "decrypt" => Attempt'
  BY <1>1, <1>3 DEF Attempt
<1>7. Counting'
  BY <1>1, <1>5, <1>6 DEF Inv, Counting, GuessesBounded, GuessesCounted, Whole
<1>8. Locking'
  <2>1. \A x \in Range(todo') : x.key # "edek"
    BY <1>1, <1>2
  <2> QED
    BY <1>1, <2>1, SameKeys DEF Trusted, Closing
<1> QED
  BY <1>4, <1>7, <1>8 DEF Inv

(* __handle_fault.                                                         *)
LEMMA HandleFaultInv ==
  ASSUME Inv, HandleFault
  PROVE  Inv'
<1>1. /\ pc = "fault" /\ todo = <<>>
      /\ UNCHANGED <<flash, unlocked, cached, guesses>>
  BY DEF HandleFault, Ready, ram, ghost
<1>2. CASE ~Whole("logs") \/ flash["logs"] = Value(MaxCount)
  <2>1. pc' = "wipe" /\ arg' = [arg EXCEPT !.then = "halt"] /\ todo' = todo
    BY <1>2 DEF HandleFault, Wipe
  <2> QED
    BY <1>1, <2>1, GoOn DEF Trusted, Closing
<1>3. CASE ~(~Whole("logs") \/ flash["logs"] = Value(MaxCount))
  <2>1. Do(<<Set("logs", flash["logs"][1] + 1)>>, "halt") /\ arg' = arg
    BY <1>3 DEF HandleFault
  <2> QED
    BY <1>1, <1>3, <2>1, Increased, SMTT(30) DEF Trusted, Closing
<1> QED
  BY <1>2, <1>3

(* The device halts, or is turned off between operations.                  *)
LEMMA TurnedOffInv ==
  ASSUME Inv, Halt \/ TurnOff
  PROVE  Inv'
<1>1. Off /\ flash' = flash /\ guesses' = guesses
  BY DEF Halt, TurnOff, ghost
<1>2. GuessesCounted'
  BY <1>1 DEF Inv, Counting, GuessesCounted, Whole
<1> QED
  BY <1>1, <1>2, OffInv DEF Inv, Shape

(* A call begins.                                                          *)
LEMMA CallInv ==
  ASSUME Inv, NEW call, NEW pin, NEW code, Call(call, pin, code)
  PROVE  Inv'
<1>1. /\ pc = "idle" /\ todo = <<>> /\ todo' = <<>> /\ pc' = "wipeCode"
      /\ arg' = [pin |-> pin, code |-> code, call |-> call, then |-> "idle"]
      /\ UNCHANGED <<flash, unlocked, cached, guesses>>
  BY DEF Call, Ready, ram, ghost
<1>2. Range(todo') = {} /\ Sequence(todo')
  BY <1>1, NoWrites
<1>3. Counting' /\ flash'["logs"] \in Of(Nat) /\ DOMAIN flash' = Keys
  BY <1>1, <1>2, NoCounting DEF Inv, Shape, Trusted
<1>4. Locking'
  BY <1>1, <1>2, SameKeys DEF Trusted, Closing
<1> QED
  BY <1>1, <1>2, <1>3, <1>4 DEF Inv, Shape

(* New writes of an operation on an unlocked storage, none of them to the  *)
(* counter, and none of other keys to the EDEK.                            *)
LEMMA NewWrites ==
  ASSUME Inv, todo = <<>>, Sequence(todo'),
         \A w \in Range(todo') :
           /\ w.key # "logs"
           /\ w.key = "edek" => Len(w.val) = 1 /\ w.val[1].secret = cached,
         pc # "wipeOther", pc' \notin {"decrypt", "off", "wipeOther"},
         pc' \in Trusted => pc \in Trusted,
         pc' \in Trusted \/ pc \notin Trusted \cup Closing,
         UNCHANGED <<flash, unlocked, cached, arg, guesses>>
  PROVE  Inv'
<1>1. Counting' /\ flash'["logs"] \in Of(Nat) /\ DOMAIN flash' = Keys
  BY NoCounting DEF Inv, Shape, Counting
<1>2. Locking'
  BY SameKeys
<1> QED
  BY <1>1, <1>2 DEF Inv, Shape

(* is_not_wipe_code and its callers.                                       *)
LEMMA IsNotWipeCodeInv ==
  ASSUME Inv, IsNotWipeCode
  PROVE  Inv'
<1>1. /\ pc = "wipeCode" /\ todo = <<>>
      /\ UNCHANGED <<flash, unlocked, cached, guesses>>
  BY DEF IsNotWipeCode, Ready, ram, ghost
<1>2. CASE pc' = "fault" /\ UNCHANGED <<todo, arg>>
  BY <1>1, <1>2, GoOn DEF Trusted, Closing
<1>3. CASE pc' = "idle" /\ UNCHANGED <<todo, arg>>
  BY <1>1, <1>3, GoOn DEF Trusted, Closing
<1>4. CASE Wipe("halt") /\ UNCHANGED todo
  BY <1>1, <1>4, GoOn DEF Wipe, Trusted, Closing
<1>5. CASE Do(SetPin(arg.pin, cached), "idle") /\ UNCHANGED arg
  <2>1. todo' = SetPin(arg.pin, cached) /\ pc' = "idle"
    BY <1>5 DEF Do
  <2> QED
    BY <1>1, <1>5, <2>1, SetPinWrites, NewWrites DEF Trusted, Closing
<1>6. CASE (Do(<<>>, "idle") \/ Do(<<>>, "fails")) /\ UNCHANGED arg
  BY <1>1, <1>6, GoOn DEF Do, Trusted, Closing
<1> QED
  BY <1>2, <1>3, <1>4, <1>5, <1>6 DEF IsNotWipeCode

(* The counter goes up before the PIN is tried.                            *)
LEMMA CountAttemptInv ==
  ASSUME Inv, CountAttempt
  PROVE  Inv'
<1>1. /\ pc = "fails" /\ todo = <<>>
      /\ UNCHANGED <<flash, unlocked, cached, guesses>>
  BY DEF CountAttempt, Ready, ram, ghost
<1>2. CASE pc' = "fault" /\ UNCHANGED <<todo, arg>>
  BY <1>1, <1>2, GoOn DEF Trusted, Closing
<1>3. CASE Wipe("halt") /\ UNCHANGED todo
  BY <1>1, <1>3, GoOn DEF Wipe, Trusted, Closing
<1>4. CASE /\ Whole("logs") /\ ~TooMany(flash["logs"][1])
           /\ Do(<<Set("logs", flash["logs"][1] + 1)>>, "decrypt") /\ UNCHANGED arg
  <2>1. Count \in Nat
    BY <1>4, LogFacts DEF Inv, Shape, Whole, Count
  <2>2. Count < MaxTries
    BY <1>4, <2>1, TriesAssumption, SMTT(30) DEF TooMany, Count
  <2> QED
    BY <1>1, <1>4, <2>2, Increased, SMTT(30) DEF Trusted, Closing
<1>5. CASE Do(<<>>, "idle") /\ UNCHANGED arg
  BY <1>1, <1>5, GoOn DEF Do, Trusted, Closing
<1> QED
  BY <1>2, <1>3, <1>4, <1>5 DEF CountAttempt

(* The PIN is tried.                                                       *)
LEMMA DecryptDekInv ==
  ASSUME Inv, DecryptDek
  PROVE  Inv'
<1>1. /\ pc = "decrypt" /\ todo = <<>> /\ todo' = <<>>
      /\ UNCHANGED <<flash, unlocked>>
  BY DEF DecryptDek, Ready
<1>2. CASE pc' = "fault" /\ UNCHANGED <<cached, guesses, arg>>
  BY <1>1, <1>2, GoOn DEF Trusted, Closing
<1>3. Range(todo') = {} /\ Sequence(todo') /\ Range(todo) = {}
  BY <1>1, NoWrites
<1>4. /\ Count \in Nat /\ guesses \in Nat /\ guesses < Count /\ Count <= MaxTries
      /\ Count' = Count
  <2>1. Attempt /\ guesses \in Nat
    BY <1>1 DEF Inv, Counting
  <2>2. todo # <<Set("logs", Count + 1)>>
    BY <1>1
  <2> QED
    BY <1>1, <2>1, <2>2, LogFacts DEF Attempt, Inv, Shape, Whole, Count
<1>5. CASE /\ Fits(arg.pin) /\ cached' = flash["edek"][1].secret /\ guesses' = 0
           /\ pc' = "upgrade" /\ UNCHANGED arg
  <2>1. Shape'
    BY <1>1, <1>3, <1>5 DEF Inv, Shape
  <2>2. Counting'
    BY <1>1, <1>3, <1>4, <1>5, TriesAssumption, SMTT(30)
    DEF Counting, GuessesBounded, GuessesCounted, LogWrites, Whole, Count
  <2>3. Locks(flash["edek"])'
    BY <1>1, <1>5 DEF Fits, Locks, Whole
  <2>4. Locking'
    BY <1>3, <1>5, <2>3 DEF Locking, Held, Trusted
  <2> QED
    BY <2>1, <2>2, <2>4 DEF Inv
<1>6. CASE /\ guesses' = guesses + 1 /\ cached' = cached
           /\ \/ Wipe("halt")
              \/ pc' = "idle" /\ UNCHANGED arg
  <2>1. pc' \in {"wipe", "idle"}
    BY <1>6 DEF Wipe
  <2>2. /\ arg' = [pin |-> arg'.pin, code |-> arg'.code, call |-> arg'.call, then |-> arg'.then]
        /\ arg'.then \notin {"decrypt", "off", "wipeOther"}
    BY <1>6, WipeArg DEF Wipe, Inv, Shape
  <2>3. Shape'
    BY <1>1, <1>3, <2>1, <2>2 DEF Inv, Shape
  <2>4. GuessesCounted' /\ GuessesBounded' /\ guesses' \in Nat
    BY <1>4, <1>6, TriesAssumption, SMTT(30) DEF GuessesCounted, GuessesBounded, Count
  <2>5. Counting'
    BY <1>3, <2>1, <2>4 DEF Counting, LogWrites, Trusted
  <2>6. Locking'
    BY <1>1, <1>3, <1>6, <2>1, SameKeys DEF Trusted, Closing
  <2> QED
    BY <2>3, <2>5, <2>6 DEF Inv
<1> QED
  BY <1>2, <1>5, <1>6 DEF DecryptDek

(* storage_upgrade_unlocked.                                               *)
LEMMA UpgradeUnlockedInv ==
  ASSUME Inv, UpgradeUnlocked
  PROVE  Inv'
<1>1. /\ pc = "upgrade" /\ todo = <<>>
      /\ UNCHANGED <<flash, unlocked, cached, arg, guesses>>
  BY DEF UpgradeUnlocked, Ready, ghost
<1>2. CASE Do(Relock, "version")
  <2>1. todo' = Relock /\ pc' = "version"
    BY <1>2 DEF Do
  <2>2. todo' = SetPin(arg.pin, cached) \/ todo' = <<>>
    BY <2>1 DEF Relock
  <2>3. /\ Sequence(todo')
        /\ \A w \in Range(todo') :
             /\ w.key # "logs"
             /\ w.key = "edek" => Len(w.val) = 1 /\ w.val[1].secret = cached
    BY <2>2, SetPinWrites, NoWrites, SMTT(30)
  <2> QED
    BY <1>1, <2>1, <2>3, NewWrites DEF Trusted, Closing
<1>3. CASE Do(<<>>, "fault")
  BY <1>1, <1>3, GoOn DEF Do, Trusted, Closing
<1> QED
  BY <1>2, <1>3 DEF UpgradeUnlocked

(* What check_storage_version writes: neither the counter nor the EDEK.    *)
LEMMA RaiseVersionWrites ==
  /\ Sequence(RaiseVersion)
  /\ \A w \in Range(RaiseVersion) : w.key # "logs" /\ w.key # "edek"
<1> DEFINE upgraded == Set("upgraded", FALSE)
           space == Write("version", Torn)
           version == Set("version", [secret |-> cached, number |-> Version])
           unauth == Set("unauth", Version)
<1>1. /\ upgraded.key = "upgraded" /\ space.key = "version"
      /\ version.key = "version" /\ unauth.key = "unauth"
  BY DEF Set, Write
<1>2. /\ RaiseVersion = <<upgraded>> \o SetVersion(cached) \o <<unauth>>
      /\ SetVersion(cached) = <<space, version>>
  BY DEF RaiseVersion, SetVersion
<1> HIDE DEF upgraded, space, version, unauth
<1>3. /\ Sequence(<<upgraded>>) /\ Range(<<upgraded>>) = {upgraded}
      /\ Sequence(SetVersion(cached)) /\ Range(SetVersion(cached)) = {space, version}
      /\ Sequence(<<unauth>>) /\ Range(<<unauth>>) = {unauth}
  BY <1>2, OneWrite, TwoWrites, SMTT(30)
<1> DEFINE first == <<upgraded>>
           last == <<unauth>>
<1> HIDE DEF first, last
<1>4. /\ Sequence(first) /\ Range(first) = {upgraded}
      /\ Sequence(last) /\ Range(last) = {unauth}
  BY <1>3 DEF first, last
<1>5. /\ Sequence(first \o SetVersion(cached))
      /\ Range(first \o SetVersion(cached)) = {upgraded, space, version}
  BY <1>3, <1>4, Joined, SMTT(30)
<1>6. /\ Sequence(first \o SetVersion(cached) \o last)
      /\ Range(first \o SetVersion(cached) \o last) = {upgraded, space, version, unauth}
  BY <1>4, <1>5, Joined, SMTT(30)
<1> QED
  BY <1>1, <1>2, <1>6 DEF first, last

(* check_storage_version.                                                  *)
LEMMA CheckStorageVersionInv ==
  ASSUME Inv, CheckStorageVersion
  PROVE  Inv'
<1>1. /\ pc = "version" /\ todo = <<>>
      /\ UNCHANGED <<flash, unlocked, cached, guesses>>
  BY DEF CheckStorageVersion, Ready, ram, ghost
<1>2. CASE pc' = "fault" /\ UNCHANGED <<todo, arg>>
  BY <1>1, <1>2, GoOn DEF Trusted, Closing
<1>3. CASE Wipe("fault") /\ UNCHANGED todo
  BY <1>1, <1>3, GoOn DEF Wipe, Trusted, Closing
<1>4. CASE Do(IF Number < norcow THEN RaiseVersion ELSE <<>>, "accept") /\ UNCHANGED arg
  <2>1. (todo' = RaiseVersion \/ todo' = <<>>) /\ pc' = "accept"
    BY <1>4 DEF Do
  <2>2. Sequence(todo') /\ \A w \in Range(todo') : w.key # "logs" /\ w.key # "edek"
    BY <2>1, RaiseVersionWrites, NoWrites
  <2> QED
    BY <1>1, <1>4, <2>1, <2>2, NewWrites DEF Trusted, Closing
<1> QED
  BY <1>2, <1>3, <1>4 DEF CheckStorageVersion

(* The right PIN unlocks, and the counter is to be reset.                  *)
LEMMA AcceptInv ==
  ASSUME Inv, Accept
  PROVE  Inv'
<1> DEFINE w == Set("logs", 0)
<1>1. /\ pc = "accept" /\ todo = <<>> /\ unlocked' = TRUE
      /\ todo' = <<w>> /\ pc' \in {"setWipeCode", "idle"}
      /\ UNCHANGED <<flash, cached, arg, guesses>>
  BY DEF Accept, Ready, Do, ghost
<1>2. w.key = "logs" /\ w.val = Value(0)
  BY DEF Set, Write
<1> HIDE DEF w
<1>3. Sequence(todo') /\ Range(todo') = {w}
  BY <1>1, OneWrite
<1>4. guesses = 0
  BY <1>1 DEF Inv, Counting, Trusted
<1>5. Shape'
  BY <1>1, <1>3 DEF Inv, Shape
<1>6. LogWrites'
  BY <1>1, <1>2, <1>3, <1>4 DEF LogWrites
<1>7. Counting'
  BY <1>1, <1>4, <1>6 DEF Inv, Counting, GuessesBounded, GuessesCounted, Whole, Trusted
<1>8. Locking'
  BY <1>1, <1>2, <1>3, SameKeys DEF Trusted, Closing
<1> QED
  BY <1>5, <1>7, <1>8 DEF Inv

(* set_wipe_code.                                                          *)
LEMMA SetWipeCodeInv ==
  ASSUME Inv, SetWipeCode
  PROVE  Inv'
<1> DEFINE w == Set("wipeCode", arg.code)
<1>1. /\ pc = "setWipeCode" /\ todo = <<>> /\ todo' = <<w>> /\ pc' = "idle"
      /\ UNCHANGED <<flash, unlocked, cached, arg, guesses>>
  BY DEF SetWipeCode, Ready, Do, ram, ghost
<1>2. w.key = "wipeCode"
  BY DEF Set, Write
<1> HIDE DEF w
<1>3. Sequence(todo') /\ Range(todo') = {w}
  BY <1>1, OneWrite
<1> QED
  BY <1>1, <1>2, <1>3, NewWrites DEF Trusted, Closing

(* storage_set and storage_delete write entries and the tag.               *)
LEMMA EntryInv ==
  ASSUME Inv, NEW k \in Items, StorageSet(k) \/ StorageDelete(k)
  PROVE  Inv'
<1> DEFINE space == Write(k, Torn)
           value == Set(k, cached)
           gone == Write(k, Missing)
           tag == Tag(cached, SymDiff(sum, {k}))
<1>1. /\ pc = "idle" /\ pc' = "idle" /\ todo = <<>>
      /\ UNCHANGED <<flash, unlocked, cached, arg, guesses>>
  BY DEF StorageSet, StorageDelete, Ready, Do, ghost
<1>2. \A w \in {space, value, gone, tag} : w.key # "logs" /\ w.key # "edek"
  BY KeyFacts, SMTT(30) DEF Write, Set, Tag
<1>3. \/ todo' = <<space>> \o <<tag>> \o <<value>>
      \/ todo' = <<space>> \o <<>> \o <<value>>
      \/ todo' = <<gone>> \o <<tag>>
  BY DEF StorageSet, StorageDelete, Do, AuthUpdate
<1> HIDE DEF space, value, gone, tag
<1>4. ASSUME NEW s, NEW t, Sequence(s), Sequence(t),
             Range(s) \subseteq {space, value, gone, tag},
             Range(t) \subseteq {space, value, gone, tag}
      PROVE  Sequence(s \o t) /\ Range(s \o t) \subseteq {space, value, gone, tag}
  BY <1>4, Joined
<1>5. \A s \in {<<space>>, <<value>>, <<gone>>, <<tag>>, <<>>} :
        Sequence(s) /\ Range(s) \subseteq {space, value, gone, tag}
  BY OneWrite, NoWrites, SMTT(30)
<1>6. Sequence(todo') /\ Range(todo') \subseteq {space, value, gone, tag}
  <2>1. CASE todo' = <<gone>> \o <<tag>>
    BY <1>4, <1>5, <2>1
  <2>2. CASE todo' = <<space>> \o <<tag>> \o <<value>>
    <3>1. /\ Sequence(<<space>> \o <<tag>>)
          /\ Range(<<space>> \o <<tag>>) \subseteq {space, value, gone, tag}
      BY <1>4, <1>5
    <3> QED
      BY <1>4, <1>5, <2>2, <3>1
  <2>3. CASE todo' = <<space>> \o <<>> \o <<value>>
    <3>1. /\ Sequence(<<space>> \o <<>>)
          /\ Range(<<space>> \o <<>>) \subseteq {space, value, gone, tag}
      BY <1>4, <1>5
    <3> QED
      BY <1>4, <1>5, <2>3, <3>1
  <2> QED
    BY <1>3, <2>1, <2>2, <2>3
<1> QED
  BY <1>1, <1>2, <1>6, NewWrites DEF Trusted, Closing

(* storage_get, and the beginning of a wipe.                               *)
LEMMA GetInv ==
  ASSUME Inv, WipeDevice \/ \E k \in Items : StorageGet(k)
  PROVE  Inv'
<1>1. /\ pc = "idle" /\ todo = <<>> /\ todo' = <<>>
      /\ UNCHANGED <<flash, unlocked, cached, guesses>>
      /\ pc' \in {"idle", "fault", "wipe"}
      /\ arg' = arg \/ arg' = [arg EXCEPT !.then = "idle"]
  BY DEF WipeDevice, StorageGet, Ready, Wipe, ram, ghost
<1> QED
  BY <1>1, GoOn DEF Trusted, Closing

(* storage_lock forgets the keys.                                          *)
LEMMA LockInv ==
  ASSUME Inv, StorageLock
  PROVE  Inv'
<1>1. /\ pc = "idle" /\ pc' = "idle" /\ todo = <<>> /\ todo' = <<>>
      /\ unlocked' = FALSE /\ cached' = NoSecret
      /\ UNCHANGED <<flash, arg, guesses>>
  BY DEF StorageLock, Ready, ghost
<1>2. Range(todo') = {} /\ Sequence(todo')
  BY <1>1, NoWrites
<1>3. Counting' /\ flash'["logs"] \in Of(Nat) /\ DOMAIN flash' = Keys
  BY <1>1, <1>2, NoCounting DEF Inv, Shape, Trusted
<1>4. Locking'
  BY <1>1 DEF Locking, Trusted
<1> QED
  BY <1>1, <1>2, <1>3, <1>4 DEF Inv, Shape

(* An interrupted write of the counter loses no try, or the counter.       *)
LEMMA InterruptedCount ==
  ASSUME Inv, NEW n \in Nat,
         (n = 0 /\ guesses = 0) \/ (Whole("logs") /\ n = Count + 1),
         NEW x \in Interrupted("logs", flash["logs"], Value(n))
  PROVE  x \in Of(Nat) /\ (Len(x) = 1 => guesses <= x[1])
<1>1. /\ flash["logs"] \in Of(Nat) /\ guesses \in Nat
      /\ Whole("logs") => Count \in Nat /\ guesses <= Count
  BY LogFacts DEF Inv, Shape, Counting, GuessesCounted, Whole, Count
<1>2. \/ x \in {flash["logs"], Missing, Torn, Value(n)}
      \/ Whole("logs") /\ Value(n) = Value(0) /\ x \in Between(0, Count)
  BY DEF Interrupted, Count
<1>3. CASE x = flash["logs"]
  BY <1>1, <1>3 DEF Whole, Count
<1>4. CASE x \in {Missing, Torn}
  <2>1. x \in Of(Nat)
    BY <1>4 DEF Of
  <2>2. Len(Missing) = 0 /\ Len(Torn) = 2
    BY DEF Missing, Torn
  <2> QED
    BY <1>4, <2>1, <2>2, SMTT(30)
<1>5. CASE x = Value(n)
  BY <1>1, <1>5, ValueFacts, SMTT(30)
<1>6. CASE Whole("logs") /\ Value(n) = Value(0) /\ x \in Between(0, Count)
  <2>1. n = 0
    BY <1>6, ValueFacts
  <2>2. guesses = 0
    BY <1>1, <2>1, SMTT(30)
  <2>3. PICK m \in 0..Count : x = Value(m)
    BY <1>6 DEF Between
  <2> QED
    BY <1>1, <1>6, <2>2, <2>3, ValueFacts, SMTT(30)
<1> QED
  BY <1>2, <1>3, <1>4, <1>5, <1>6

(* What is left of a counter that was being copied.                        *)
LEMMA CopiedCount ==
  ASSUME NEW entries, NEW copy, entries["logs"] \in Of(Nat)
  PROVE  /\ DOMAIN Copied(entries, copy) = Keys
         /\ Copied(entries, copy)["logs"] \in {entries["logs"], Missing, Torn}
<1>1. DOMAIN Copied(entries, copy) = Keys
  BY DEF Copied
<1>2. Copied(entries, copy)["logs"] \in {entries["logs"], Missing, Torn}
  BY KeyFacts DEF Copied
<1> QED
  BY <1>1, <1>2

(* The power goes while the counter is as it was, or lost.                 *)
LEMMA LostInv ==
  ASSUME Inv, Off, DOMAIN flash' = Keys, flash'["logs"] \in {flash["logs"], Missing, Torn},
         guesses' = guesses
  PROVE  Inv'
<1>1. Len(Missing) = 0 /\ Len(Torn) = 2
  BY DEF Missing, Torn
<1>2. flash'["logs"] \in Of(Nat)
  BY DEF Inv, Shape, Of
<1>3. GuessesCounted'
  BY <1>1, SMTT(30) DEF Inv, Counting, GuessesCounted, Whole
<1> QED
  BY <1>2, <1>3, OffInv

(* The write that power interrupts keeps the count.                        *)
LEMMA LossInWriteInv ==
  ASSUME Inv, LossInWrite, Off, guesses' = guesses
  PROVE  Inv'
<1> DEFINE w == Head(todo)
           source == [flash EXCEPT ![w.key] = Missing]
<1>1. todo # <<>> /\ w \in Range(todo)
  BY FirstWrite DEF LossInWrite, Inv, Shape
<1>2. /\ DOMAIN source = Keys
      /\ source["logs"] = IF w.key = "logs" THEN Missing ELSE flash["logs"]
  BY KeyFacts DEF Inv, Shape
<1>3. CASE \E x \in Interrupted(w.key, flash[w.key], w.val) : flash' = [flash EXCEPT ![w.key] = x]
  <2>1. PICK x \in Interrupted(w.key, flash[w.key], w.val) : flash' = [flash EXCEPT ![w.key] = x]
    BY <1>3
  <2>2. DOMAIN flash' = Keys /\ flash'["logs"] = IF w.key = "logs" THEN x ELSE flash["logs"]
    BY <2>1, KeyFacts DEF Inv, Shape
  <2>3. CASE w.key # "logs"
    BY <2>2, <2>3, LostInv
  <2>4. CASE w.key = "logs"
    <3>1. PICK n \in Nat : /\ w.val = Value(n)
                           /\ (n = 0 /\ guesses = 0) \/ (Whole("logs") /\ n = Count + 1)
      <4>1. CASE w.val = Value(0) /\ guesses = 0
        BY <4>1
      <4>2. CASE Whole("logs") /\ todo = <<Set("logs", Count + 1)>>
        <5>1. Count \in Nat
          BY <4>2, LogFacts DEF Inv, Shape, Whole, Count
        <5>2. w.val = Value(Count + 1)
          BY <4>2, SMTT(30) DEF Set, Write
        <5> QED
          BY <4>2, <5>1, <5>2, SMTT(30)
      <4> QED
        BY <1>1, <2>4, <4>1, <4>2 DEF Inv, Counting, LogWrites
    <3>2. x \in Of(Nat) /\ (Len(x) = 1 => guesses <= x[1])
      BY <2>1, <2>4, <3>1, InterruptedCount
    <3>3. GuessesCounted'
      BY <2>2, <2>4, <3>2 DEF GuessesCounted, Whole
    <3> QED
      BY <2>2, <2>4, <3>2, <3>3, OffInv
  <2> QED
    BY <2>3, <2>4
<1>4. CASE flash' = source \/ \E copy \in Copies : flash' = Copied(source, copy)
  <2>1. source["logs"] \in Of(Nat)
    BY <1>2 DEF Inv, Shape, Of
  <2> HIDE DEF source
  <2>2. DOMAIN flash' = Keys /\ flash'["logs"] \in {source["logs"], Missing, Torn}
    BY <1>2, <1>4, <2>1, CopiedCount
  <2> QED
    BY <1>2, <2>2, LostInv
<1> QED
  BY <1>3, <1>4 DEF LossInWrite

(* Power is lost.  In a wipe nothing was tried since it began, so that a   *)
(* sector that comes back has no try to count.                             *)
LEMMA PowerLossInv ==
  ASSUME Inv, Leftover, PowerLoss
  PROVE  Inv'
<1>1. Off /\ guesses' = guesses
  BY DEF PowerLoss
<1>2. CASE LossInWrite
  BY <1>1, <1>2, LossInWriteInv
<1>3. CASE flash' = flash
  BY <1>1, <1>3, LostInv DEF Inv, Shape
<1>4. CASE pc = "wipeOther" /\ flash' = other.entries
  <2>1. DOMAIN flash' = Keys /\ flash'["logs"] \in Of(Nat) /\ guesses = 0
    BY <1>4 DEF Leftover, Inv, Counting
  <2>2. GuessesCounted'
    BY <1>1, <2>1, LogFacts, SMTT(30) DEF GuessesCounted, Whole
  <2> QED
    BY <1>1, <2>1, <2>2, OffInv
<1>5. CASE \E copy \in Copies : flash' = Copied(flash, copy)
  BY <1>1, <1>5, CopiedCount, LostInv DEF Inv, Shape
<1>6. CASE \E x : flash' = [flash EXCEPT !["upgraded"] = x]
  BY <1>1, <1>6, LostInv, KeyFacts DEF Inv, Shape
<1> QED
  BY <1>2, <1>3, <1>4, <1>5, <1>6 DEF PowerLoss, LossInWipe, LossInUpgrade, LossBetween, Ready

(* The other sector is erased, is left alone or holds what the one in use  *)
(* held, or a part of it.                                                  *)
LEMMA NextLeftover == Inv /\ Leftover /\ [Next]_vars => Leftover'
<1> SUFFICES ASSUME Inv, Leftover, [Next]_vars
             PROVE  Leftover'
  OBVIOUS
<1>1. CASE other' = other
  BY <1>1 DEF Leftover
<1>2. CASE other' = Erased
  BY <1>2, KeyFacts DEF Leftover, Erased, Factory, Of
<1>3. CASE LossInWrite
  <2> DEFINE source == [flash EXCEPT ![Head(todo).key] = Missing]
  <2>1. DOMAIN source = Keys /\ source["logs"] \in Of(Nat)
    BY KeyFacts DEF Inv, Shape, Of
  <2> HIDE DEF source
  <2>2. CASE other'.entries = source
    BY <2>1, <2>2 DEF Leftover
  <2>3. CASE \E copy \in Copies : other'.entries = Copied(source, copy)
    BY <2>1, <2>3, CopiedCount, ZenonT(60) DEF Leftover, Of
  <2>4. \/ other' \in {other, Erased} \/ other' = [version |-> Version, entries |-> source]
        \/ \E copy \in Copies : other' = [version |-> Version, entries |-> Copied(source, copy)]
    BY <1>3 DEF LossInWrite, source
  <2>5. \A v, e : [version |-> v, entries |-> e].entries = e
    BY SMT
  <2> QED
    BY <1>1, <1>2, <2>2, <2>3, <2>4, <2>5
<1>4. CASE LossInUpgrade
  <2>1. other'.entries = flash
    BY <1>4 DEF LossInUpgrade
  <2> QED
    BY <2>1 DEF Leftover, Inv, Shape
<1>5. \/ UNCHANGED vars \/ Step \/ PowerLoss \/ TurnOff \/ StorageLock \/ WipeDevice
      \/ \E call, pin, code : Call(call, pin, code)
      \/ \E k : StorageSet(k) \/ StorageDelete(k) \/ StorageGet(k)
  BY DEF Next, StorageUnlock, StorageEnsureNotWipeCode, StorageChangePin, StorageChangeWipeCode
<1>6. CASE Step
  <2>1. other' \in {other, Erased}
    BY <1>6
    DEF Step, NorcowWrite, StorageInit, StorageWipe, WipeOther, HandleFault, Halt, IsNotWipeCode,
        CountAttempt, DecryptDek, UpgradeUnlocked, CheckStorageVersion, Accept, SetWipeCode
  <2> QED
    BY <1>1, <1>2, <2>1
<1>7. CASE PowerLoss
  BY <1>1, <1>2, <1>3, <1>4, <1>7 DEF PowerLoss, LossInWipe, LossBetween
<1>8. CASE \/ UNCHANGED vars \/ TurnOff \/ StorageLock \/ WipeDevice
           \/ \E call, pin, code : Call(call, pin, code)
           \/ \E k : StorageSet(k) \/ StorageDelete(k) \/ StorageGet(k)
  BY <1>1, <1>8
  DEF vars, TurnOff, StorageLock, WipeDevice, Call, StorageSet, StorageDelete, StorageGet
<1> QED
  BY <1>5, <1>6, <1>7, <1>8

-------------------------------------------------------------------------------
(* Every step preserves the invariant.                                     *)
LEMMA NextInv == Inv /\ Leftover /\ [Next]_vars => Inv'
<1> SUFFICES ASSUME Inv, Leftover, [Next]_vars
             PROVE  Inv'
  OBVIOUS
<1>1. CASE Step
  BY <1>1, NorcowWriteInv, StorageInitInv, StorageWipeInv, WipeOtherInv, HandleFaultInv, TurnedOffInv,
     IsNotWipeCodeInv, CountAttemptInv, DecryptDekInv, UpgradeUnlockedInv,
     CheckStorageVersionInv, AcceptInv, SetWipeCodeInv
  DEF Step
<1>2. ASSUME NEW pin \in build.pins,
             \/ StorageUnlock(pin) \/ StorageEnsureNotWipeCode(pin) \/ StorageChangePin(pin)
             \/ \E code \in (build.pins \ {EmptyPin}) \cup {NoCode} : StorageChangeWipeCode(pin, code)
      PROVE  Inv'
  BY <1>2, CallInv
  DEF StorageUnlock, StorageEnsureNotWipeCode, StorageChangePin, StorageChangeWipeCode
<1>3. ASSUME NEW k \in Items, StorageSet(k) \/ StorageDelete(k) \/ StorageGet(k)
      PROVE  Inv'
  BY <1>3, EntryInv, GetInv
<1>4. CASE StorageLock \/ WipeDevice
  BY <1>4, LockInv, GetInv
<1>5. CASE PowerLoss \/ TurnOff
  BY <1>5, PowerLossInv, TurnedOffInv
<1>6. CASE UNCHANGED vars
  <2>1. UNCHANGED <<flash, unlocked, cached, pc, todo, arg, guesses>>
    BY <1>6 DEF vars, ram, ghost
  <2>2. Shape'
    BY <2>1 DEF Inv, Shape
  <2>3. Counting'
    BY <2>1 DEF Inv, Counting, GuessesBounded, GuessesCounted, LogWrites, Attempt, Whole, Count
  <2>4. Locking'
    BY <2>1 DEF Inv, Locking, Held, Locks
  <2> QED
    BY <2>2, <2>3, <2>4 DEF Inv
<1> QED
  BY <1>1, <1>2, <1>3, <1>4, <1>5, <1>6 DEF Next

(* Inv is an invariant of the storage.                                     *)
LEMMA Invariance == Spec => [](Inv /\ Leftover)
<1>1. Init => Leftover
  <2> SUFFICES ASSUME Init
               PROVE  Leftover
    OBVIOUS
  <2>1. CASE other = Erased
    BY <2>1, KeyFacts DEF Leftover, Erased, Factory, Of
  <2>2. CASE other.entries = flash
    BY <2>2, InitInv DEF Leftover, Inv, Shape
  <2>3. [version |-> norcow, entries |-> flash].entries = flash
    BY SMT
  <2>4. other = Erased \/ other = [version |-> norcow, entries |-> flash]
    BY SMT DEF Init
  <2> QED
    BY <2>1, <2>2, <2>3, <2>4
<1> QED
  BY <1>1, InitInv, NextInv, NextLeftover, PTL DEF Spec

(* Every wrong PIN is in the counter before it is tried and stays in it,   *)
(* through any power losses, until the right PIN is entered or a wipe      *)
(* begins; for any number of tries, PINs and entries.                      *)
THEOREM Counted == Spec => []GuessesCounted
<1>1. Inv => GuessesCounted
  BY DEF Inv, Counting
<1> QED
  BY <1>1, Invariance, PTL

(* No more than PIN_MAX_TRIES wrong PINs are tried before storage_wipe     *)
(* begins to erase.  A wipe that loses power may bring back the sector     *)
(* that an interrupted copy left; tries are counted from the wipe again.   *)
THEOREM Bounded == Spec => []GuessesBounded
<1>1. Inv => GuessesBounded
  BY DEF Inv, Counting
<1> QED
  BY <1>1, Invariance, PTL

(* Between operations the keys in RAM are those in the EDEK if the storage *)
(* is unlocked, and none if it is locked.                                  *)
THEOREM KeysMatch == Spec => []KeysMatchLock
<1>1. Inv => KeysMatchLock
  <2> SUFFICES ASSUME Inv, Ready("idle")
               PROVE  IF unlocked
                      THEN Whole("edek") /\ cached = flash["edek"][1].secret
                      ELSE cached = NoSecret
    BY DEF KeysMatchLock
  <2>1. pc = "idle" /\ Range(todo) = {}
    BY NoWrites DEF Ready
  <2>2. CASE unlocked
    BY <2>1, <2>2 DEF Inv, Locking, Held, Locks, Whole
  <2>3. CASE ~unlocked
    BY <2>1, <2>3 DEF Inv, Locking, Trusted, Closing
  <2> QED
    BY <2>2, <2>3
<1> QED
  BY <1>1, Invariance, PTL

-------------------------------------------------------------------------------
(* The value v that the writes s leave of an entry k that was old.         *)
Ends(k, old, s, v) ==
  \/ \E i \in DOMAIN s :
       s[i].key = k /\ s[i].val = v /\ \A j \in DOMAIN s : j > i => s[j].key # k
  \/ (\A i \in DOMAIN s : s[i].key # k) /\ v = old

Settling(f, s, g) == \A k \in Keys : Ends(k, f[k], s, g[k])
Settles(f) == Settling(flash, todo, f)

After(f, w) == [k \in Keys |-> IF k = w.key THEN w.val ELSE f[k]]

(* Entries of a storage with PIN p, whose keys s are locked with scheme e, *)
(* of version n, on a flash of version m.                                  *)
Filled(f) == {k \in Items : f[k] # Missing}
Stored(f, p, e, s, n, m) ==
  /\ f["edek"] = Value([pin |-> p, scheme |-> e, secret |-> s])
  /\ f["notSet"] = Value(p = EmptyPin)
  /\ f["version"] = Value([secret |-> s, number |-> n])
  /\ f["unauth"] = Value(n)
  /\ f["upgraded"] = IF n < m THEN Value(TRUE) ELSE Value(FALSE)
  /\ f["tag"] = Value([secret |-> s, keys |-> Filled(f)])
  /\ \A k \in Items : f[k] \in {Missing, Value(s)}
  /\ Len(f["logs"]) = 1 /\ Len(f["wipeCode"]) = 1

(* storage_upgrade_unlocked has locked the keys anew when the version is   *)
(* still to be raised.                                                     *)
KeyScheme(n) == IF pc = "version" THEN Scheme(Version) ELSE Scheme(n)

Consistent(f, p, s, n) ==
  /\ Stored(f, p, KeyScheme(n), s, n, norcow)
  /\ n \in Nat /\ norcow \in Nat /\ n <= norcow /\ norcow <= Version
  /\ pc # "off" => norcow = Version
  /\ unlocked \/ pc \in Trusted => cached = s
  /\ unlocked \/ pc = "accept" => n = Version
  /\ unlocked \/ pc \in {"version", "accept"} => sum = Filled(f)

(* A device that was never started, or a sector that was just erased.      *)
Blank ==
  /\ (pc = "off" /\ norcow = Version) \/ Ready("wipeOther")
  /\ \A k \in Keys : flash[k] = Missing

Calm ==
  /\ pc # "fault"
  /\ arg.then \in {"idle", "halt"}
  /\ pc = "wipeCode" /\ arg.call = "changePin" => unlocked

Lossless ==
  /\ losses \in Nat
  /\ NoLoss => Calm /\ (Blank \/ \E f, p, s, n : Settles(f) /\ Consistent(f, p, s, n))

-------------------------------------------------------------------------------
(***************************************************************************)
(* What a sequence of writes leaves.                                       *)
(***************************************************************************)

(* No writes change nothing.                                               *)
LEMMA SettleNone ==
  ASSUME NEW f, NEW g
  PROVE  Settling(f, <<>>, g) <=> \A k \in Keys : g[k] = f[k]
<1>1. DOMAIN <<>> = {}
  BY SMTT(30)
<1> QED
  BY <1>1 DEF Settling, Ends

(* One write changes one entry.                                            *)
LEMMA SettleOne ==
  ASSUME NEW f, NEW w
  PROVE  Settling(f, <<w>>, After(f, w))
<1> DEFINE s == <<w>>
           g == After(f, w)
<1>1. DOMAIN s = {1} /\ s[1] = w
  BY SMTT(30)
<1>2. ASSUME NEW k \in Keys
      PROVE  g[k] = IF k = w.key THEN w.val ELSE f[k]
  BY DEF After
<1> HIDE DEF s, g
<1>3. \A j \in DOMAIN s : ~(j > 1)
  BY <1>1, SMTT(30)
<1>4. ASSUME NEW k \in Keys
      PROVE  Ends(k, f[k], s, g[k])
  <2>1. CASE k = w.key
    <3>1. g[k] = w.val
      BY <1>2, <2>1
    <3>2. 1 \in DOMAIN s /\ s[1].key = k /\ s[1].val = g[k]
      BY <1>1, <2>1, <3>1
    <3> QED
      BY <1>3, <3>2 DEF Ends
  <2>2. CASE k # w.key
    <3>1. g[k] = f[k]
      BY <1>2, <2>2
    <3>2. \A i \in DOMAIN s : s[i].key # k
      BY <1>1, <2>2
    <3> QED
      BY <3>1, <3>2 DEF Ends
  <2> QED
    BY <2>1, <2>2
<1> QED
  BY <1>4 DEF Settling, s, g

(* Writes one after the other.                                             *)
LEMMA SettleJoin ==
  ASSUME NEW f, NEW g, NEW h, NEW s, NEW t, Sequence(s), Sequence(t),
         Settling(f, s, g), Settling(g, t, h)
  PROVE  Settling(f, s \o t, h)
<1> DEFINE S == Range(s) \cup Range(t)
<1>1. s \in Seq(S) /\ t \in Seq(S)
  <2>1. ASSUME NEW A, NEW B, A \subseteq B, NEW x \in Seq(A)
        PROVE  x \in Seq(B)
    <3>1. Len(x) \in Nat /\ x \in [1..Len(x) -> A]
      BY SeqType
    <3>2. x \in [1..Len(x) -> B]
      BY <2>1, <3>1
    <3> QED
      BY <3>1, <3>2, SeqMade, SMTT(30)
  <2> QED
    BY <2>1 DEF Sequence
<1> DEFINE r == s \o t
           l == Len(s)
           m == Len(t)
<1>2. /\ r \in Seq(S)
      /\ Len(r) = l + m
      /\ \A i \in 1 .. l + m : r[i] = IF i <= l THEN s[i] ELSE t[i - l]
  BY <1>1, SeqConcat
<1>3. /\ DOMAIN s = 1..l /\ DOMAIN t = 1..m /\ DOMAIN r = 1..(l + m)
      /\ l \in Nat /\ m \in Nat
  BY <1>1, <1>2, SeqType
<1> HIDE DEF r, l, m, S
<1>4. \A i \in 1..l : i \in DOMAIN r /\ r[i] = s[i]
  BY <1>2, <1>3, SMTT(30)
<1>5. \A i \in 1..m : l + i \in DOMAIN r /\ r[l + i] = t[i]
  BY <1>2, <1>3, SMTT(30)
<1>6. \A i \in DOMAIN r : i \in 1..l \/ \E j \in 1..m : i = l + j
  <2> SUFFICES ASSUME NEW i \in DOMAIN r, i \notin 1..l
               PROVE  i - l \in 1..m /\ i = l + (i - l)
    OBVIOUS
  <2> QED
    BY <1>3, SMTT(30)
<1>7. ASSUME NEW k \in Keys
      PROVE  Ends(k, f[k], r, h[k])
  <2>1. Ends(k, f[k], s, g[k]) /\ Ends(k, g[k], t, h[k])
    BY DEF Settling
  <2>2. CASE \E i \in 1..m :
               t[i].key = k /\ t[i].val = h[k] /\ \A j \in 1..m : j > i => t[j].key # k
    <3>1. PICK i \in 1..m :
             t[i].key = k /\ t[i].val = h[k] /\ \A j \in 1..m : j > i => t[j].key # k
      BY <2>2
    <3>2. ASSUME NEW j \in DOMAIN r, j > l + i
          PROVE  r[j].key # k
      <4>1. j \notin 1..l
        BY <1>3, <3>2, SMTT(30)
      <4>2. PICK x \in 1..m : j = l + x
        BY <1>6, <4>1
      <4>3. x > i
        BY <1>3, <3>2, <4>2, SMTT(30)
      <4> QED
        BY <1>5, <3>1, <4>2, <4>3
    <3>3. l + i \in DOMAIN r /\ r[l + i].key = k /\ r[l + i].val = h[k]
      BY <1>5, <3>1
    <3> QED
      BY <3>2, <3>3 DEF Ends
  <2>3. CASE (\A i \in 1..m : t[i].key # k) /\ h[k] = g[k]
    <3>1. CASE \E i \in 1..l :
                 s[i].key = k /\ s[i].val = g[k] /\ \A j \in 1..l : j > i => s[j].key # k
      <4>1. PICK i \in 1..l :
               s[i].key = k /\ s[i].val = g[k] /\ \A j \in 1..l : j > i => s[j].key # k
        BY <3>1
      <4>2. ASSUME NEW j \in DOMAIN r, j > i
            PROVE  r[j].key # k
        BY <1>4, <1>5, <1>6, <2>3, <4>1, <4>2, SMTT(30)
      <4> QED
        BY <1>4, <2>3, <4>1, <4>2 DEF Ends
    <3>2. CASE (\A i \in 1..l : s[i].key # k) /\ g[k] = f[k]
      <4>1. \A i \in DOMAIN r : r[i].key # k
        BY <1>4, <1>5, <1>6, <2>3, <3>2, SMTT(30)
      <4> QED
        BY <2>3, <3>2, <4>1 DEF Ends
    <3> QED
      BY <1>3, <2>1, <3>1, <3>2 DEF Ends
  <2> QED
    BY <1>3, <2>1, <2>2, <2>3 DEF Ends
<1> QED
  BY <1>7 DEF Settling, r

(* Two writes, and four.                                                   *)
LEMMA SettleTwo ==
  ASSUME NEW f, NEW a, NEW b
  PROVE  Settling(f, <<a, b>>, After(After(f, a), b))
<1> DEFINE g == After(f, a)
           h == After(g, b)
           s == <<a>>
           t == <<b>>
<1>1. s \in Seq({a, b}) /\ t \in Seq({a, b})
  BY SMTT(30)
<1>2. s \o t = <<a, b>>
  <2>1. <<a, b>> \in Seq({a, b}) /\ Len(<<a, b>>) = 2 /\ <<a, b>>[1] = a /\ <<a, b>>[2] = b
    BY SMTT(30)
  <2>2. Len(s) = 1 /\ Len(t) = 1 /\ s[1] = a /\ t[1] = b
    OBVIOUS
  <2> HIDE DEF s, t
  <2> DEFINE r == s \o t
             S == {a, b}
  <2>3. /\ r \in Seq(S)
        /\ Len(r) = Len(s) + Len(t)
        /\ \A i \in 1 .. Len(s) + Len(t) : r[i] = IF i <= Len(s) THEN s[i] ELSE t[i - Len(s)]
    BY <1>1, SeqConcat
  <2>4. Len(r) = 2 /\ r[1] = a /\ r[2] = b
    BY <2>2, <2>3, SMTT(30)
  <2>5. \A i \in 1..2 : i = 1 \/ i = 2
    BY SMTT(30)
  <2> HIDE DEF r, S
  <2> DEFINE q == <<a, b>>
  <2>6. q \in Seq(S) /\ Len(q) = 2 /\ q[1] = a /\ q[2] = b
    BY <2>1 DEF S
  <2> HIDE DEF q
  <2>7. r = q
    BY <2>3, <2>4, <2>5, <2>6, SeqSame
  <2> QED
    BY <2>7 DEF q, r
<1>3. Settling(f, s, g) /\ Settling(g, t, h) /\ Sequence(s) /\ Sequence(t)
  BY SettleOne, OneWrite
<1> HIDE DEF g, h, s, t
<1>4. Settling(f, s \o t, h)
  BY <1>3, SettleJoin
<1> QED
  BY <1>2, <1>4 DEF g, h

LEMMA SettleFour ==
  ASSUME NEW f, NEW a, NEW b, NEW c, NEW d
  PROVE  Settling(f, <<a, b, c, d>>, After(After(After(After(f, a), b), c), d))
<1> DEFINE g == After(After(f, a), b)
           h == After(After(g, c), d)
           s == <<a, b>>
           t == <<c, d>>
<1>1. s \o t = <<a, b, c, d>>
  <2> DEFINE S == {a, b, c, d}
             q == <<a, b, c, d>>
             r == s \o t
  <2>1. q \in Seq(S) /\ Len(q) = 4 /\ q[1] = a /\ q[2] = b /\ q[3] = c /\ q[4] = d
    BY SMTT(30)
  <2>2. /\ s \in Seq(S) /\ Len(s) = 2 /\ s[1] = a /\ s[2] = b
        /\ t \in Seq(S) /\ Len(t) = 2 /\ t[1] = c /\ t[2] = d
    BY SMTT(30)
  <2> HIDE DEF s, t, q, S
  <2>3. /\ r \in Seq(S)
        /\ Len(r) = Len(s) + Len(t)
        /\ \A i \in 1 .. Len(s) + Len(t) : r[i] = IF i <= Len(s) THEN s[i] ELSE t[i - Len(s)]
    BY <2>2, SeqConcat
  <2>4. Len(r) = 4 /\ r[1] = a /\ r[2] = b /\ r[3] = c /\ r[4] = d
    BY <2>2, <2>3, SMTT(30)
  <2>5. \A i \in 1..4 : i = 1 \/ i = 2 \/ i = 3 \/ i = 4
    BY SMTT(30)
  <2> HIDE DEF r
  <2>6. r = q
    BY <2>1, <2>3, <2>4, <2>5, SeqSame, ZenonT(30)
  <2> QED
    BY <2>6 DEF q, r
<1>2. Settling(f, s, g) /\ Settling(g, t, h) /\ Sequence(s) /\ Sequence(t)
  BY SettleTwo, TwoWrites
<1> HIDE DEF g, h, s, t
<1>3. Settling(f, s \o t, h)
  BY <1>2, SettleJoin
<1> QED
  BY <1>1, <1>3 DEF g, h

(* The write that is next is done: the others leave the same.              *)
LEMMA SettleNext ==
  ASSUME NEW f, NEW e, NEW s, Sequence(s), s # <<>>, NEW g, Settling(f, s, g),
         \A k \in Keys : e[k] = IF k = Head(s).key THEN Head(s).val ELSE f[k]
  PROVE  Settling(e, Tail(s), g)
<1> DEFINE t == Tail(s)
           l == Len(s)
<1>1. s \in Seq(Range(s))
  BY DEF Sequence
<1>2. /\ t \in Seq(Range(s))
      /\ Len(t) = l - 1
      /\ \A i \in 1 .. Len(t) : t[i] = s[i + 1]
  BY <1>1, SeqTail
<1>3. l \in Nat \ {0} /\ DOMAIN s = 1..l /\ DOMAIN t = 1..(l - 1) /\ Head(s) = s[1]
  BY <1>1, <1>2, SeqType, SeqEmpty, SMTT(30)
<1> HIDE DEF t, l
<1>4. \A i \in 1..(l - 1) : t[i] = s[i + 1]
  BY <1>2
<1>5. ASSUME NEW k \in Keys
      PROVE  Ends(k, e[k], t, g[k])
  <2>1. Ends(k, f[k], s, g[k])
    BY DEF Settling
  <2>2. CASE \E i \in 1..l :
               s[i].key = k /\ s[i].val = g[k] /\ \A j \in 1..l : j > i => s[j].key # k
    <3>1. PICK i \in 1..l :
             s[i].key = k /\ s[i].val = g[k] /\ \A j \in 1..l : j > i => s[j].key # k
      BY <2>2
    <3>2. \A j \in 1..(l - 1) : j + 1 \in 1..l
      BY <1>3, SMTT(30)
    <3>3. CASE i = 1
      <4>1. \A j \in DOMAIN t : t[j].key # k
        BY <1>3, <1>4, <3>1, <3>2, <3>3, SMTT(30)
      <4>2. e[k] = g[k]
        BY <1>3, <3>1, <3>3
      <4> QED
        BY <4>1, <4>2 DEF Ends
    <3>4. CASE i # 1
      <4>1. i - 1 \in DOMAIN t /\ t[i - 1] = s[i]
        BY <1>3, <1>4, <3>4, SMTT(30)
      <4>2. ASSUME NEW j \in DOMAIN t, j > i - 1
            PROVE  t[j].key # k
        <5>1. j + 1 \in 1..l /\ j + 1 > i /\ t[j] = s[j + 1]
          BY <1>3, <1>4, <4>2, SMTT(30)
        <5> QED
          BY <3>1, <5>1
      <4> QED
        BY <3>1, <4>1, <4>2 DEF Ends
    <3> QED
      BY <3>3, <3>4
  <2>3. CASE (\A i \in 1..l : s[i].key # k) /\ g[k] = f[k]
    <3>1. \A j \in DOMAIN t : t[j].key # k
      <4> SUFFICES ASSUME NEW j \in DOMAIN t
                   PROVE  t[j].key # k
        OBVIOUS
      <4>1. j + 1 \in 1..l /\ t[j] = s[j + 1]
        BY <1>3, <1>4, SMTT(30)
      <4> QED
        BY <2>3, <4>1
    <3>2. e[k] = g[k]
      BY <1>3, <2>3, SMTT(30)
    <3> QED
      BY <3>1, <3>2 DEF Ends
  <2> QED
    BY <1>3, <2>1, <2>2, <2>3 DEF Ends
<1> QED
  BY <1>5 DEF Settling, t

(* An entry after a write.                                                 *)
LEMMA AfterWrite ==
  ASSUME NEW f, NEW x, NEW v, NEW k \in Keys
  PROVE  /\ k = x => After(f, Write(x, v))[k] = v /\ After(f, Set(x, v))[k] = Value(v)
         /\ k # x => After(f, Write(x, v))[k] = f[k] /\ After(f, Set(x, v))[k] = f[k]
<1>1. ASSUME NEW y
      PROVE  Write(x, y).key = x /\ Write(x, y).val = y
  BY DEF Write
<1>2. ASSUME NEW w
      PROVE  After(f, w)[k] = IF k = w.key THEN w.val ELSE f[k]
  BY DEF After
<1> QED
  BY <1>1, <1>2 DEF Set

(* The keys of the entries are different.                                  *)
LEMMA KeysDiffer ==
  /\ Internal \subseteq Keys /\ Items \subseteq Keys
  /\ \A k \in Items : k \notin Internal
BY ItemsAssumption DEF Keys

(* What set_pin leaves.                                                    *)
LEMMA SetPinSettles ==
  ASSUME NEW f, NEW p, NEW c
  PROVE  \E g :
           /\ Settling(f, SetPin(p, c), g)
           /\ g["edek"] = Value([pin |-> p, scheme |-> Scheme(Version), secret |-> c])
           /\ g["notSet"] = Value(p = EmptyPin)
           /\ \A k \in Keys : k \notin {"edek", "notSet"} => g[k] = f[k]
<1> DEFINE e == [pin |-> p, scheme |-> Scheme(Version), secret |-> c]
           b == p = EmptyPin
           g == After(f, Set("edek", e))
           h == After(g, Set("notSet", b))
<1>1. SetPin(p, c) = <<Set("edek", e), Set("notSet", b)>>
  BY DEF SetPin
<1> HIDE DEF e, b
<1>2. Settling(f, SetPin(p, c), h)
  BY <1>1, SettleTwo
<1>3. {"edek", "notSet"} \subseteq Keys
  BY DEF Keys, Internal
<1>4. \A k \in Keys : /\ k = "edek" => g[k] = Value(e)
                      /\ k # "edek" => g[k] = f[k]
  BY AfterWrite, SMTT(30)
<1> HIDE DEF g
<1>5. \A k \in Keys : /\ k = "notSet" => h[k] = Value(b)
                      /\ k # "notSet" => h[k] = g[k]
  BY AfterWrite, SMTT(30)
<1> HIDE DEF h
<1>6. /\ h["edek"] = Value(e) /\ h["notSet"] = Value(b)
      /\ \A k \in Keys : k \notin {"edek", "notSet"} => h[k] = f[k]
  BY <1>3, <1>4, <1>5
<1>7. /\ h["edek"] = Value([pin |-> p, scheme |-> Scheme(Version), secret |-> c])
      /\ h["notSet"] = Value(p = EmptyPin)
  BY <1>6 DEF e, b
<1> QED
  BY <1>2, <1>6, <1>7

(* What storage_set_encrypted of the version leaves.                       *)
LEMMA SetVersionSettles ==
  ASSUME NEW f, NEW c
  PROVE  \E g :
           /\ Settling(f, SetVersion(c), g)
           /\ g["version"] = Value([secret |-> c, number |-> Version])
           /\ \A k \in Keys : k # "version" => g[k] = f[k]
<1> DEFINE v == [secret |-> c, number |-> Version]
           g == After(f, Write("version", Torn))
           h == After(g, Set("version", v))
<1>1. SetVersion(c) = <<Write("version", Torn), Set("version", v)>>
  BY DEF SetVersion
<1> HIDE DEF v
<1>2. Settling(f, SetVersion(c), h)
  BY <1>1, SettleTwo
<1>3. "version" \in Keys
  BY DEF Keys, Internal
<1>4. \A k \in Keys : k # "version" => g[k] = f[k]
  BY AfterWrite, SMTT(30)
<1> HIDE DEF g
<1>5. \A k \in Keys : /\ k = "version" => h[k] = Value(v)
                      /\ k # "version" => h[k] = g[k]
  BY AfterWrite, SMTT(30)
<1> HIDE DEF h
<1>6. h["version"] = Value(v) /\ \A k \in Keys : k # "version" => h[k] = f[k]
  BY <1>3, <1>4, <1>5
<1> QED
  BY <1>2, <1>6 DEF v

(* What one write leaves.                                                  *)
LEMMA WriteSettles ==
  ASSUME NEW f, NEW x \in Keys, NEW v
  PROVE  \E g :
           /\ Settling(f, <<Write(x, v)>>, g)
           /\ g[x] = v
           /\ \A k \in Keys : k # x => g[k] = f[k]
<1> DEFINE g == After(f, Write(x, v))
<1>1. Settling(f, <<Write(x, v)>>, g)
  BY SettleOne
<1>2. g[x] = v /\ \A k \in Keys : k # x => g[k] = f[k]
  BY AfterWrite, SMTT(30)
<1> QED
  BY <1>1, <1>2

(* What init_wiped_storage leaves of a flash that was erased.              *)
LEMMA InitWipedSettles ==
  ASSUME NEW f, \A k \in Keys : f[k] = Missing, NEW c
  PROVE  \E g :
           /\ Settling(f, InitWiped(c), g)
           /\ Stored(g, EmptyPin, Scheme(Version), c, Version, Version)
           /\ Filled(g) = {}
<1> DEFINE tag == <<Tag(c, {})>>
<1>1. PICK f1 :
         /\ Settling(f, <<Tag(c, {})>>, f1)
         /\ f1["tag"] = Value([secret |-> c, keys |-> {}])
         /\ \A k \in Keys : k # "tag" => f1[k] = f[k]
  <2>1. "tag" \in Keys
    BY DEF Keys, Internal
  <2>2. Tag(c, {}) = Write("tag", Value([secret |-> c, keys |-> {}]))
    BY DEF Tag, Set
  <2> QED
    BY <2>1, <2>2, WriteSettles, SMTT(30)
<1>2. PICK f2 :
         /\ Settling(f1, SetVersion(c), f2)
         /\ f2["version"] = Value([secret |-> c, number |-> Version])
         /\ \A k \in Keys : k # "version" => f2[k] = f1[k]
  BY SetVersionSettles
<1> DEFINE no == FALSE
           rest == <<Set("unauth", Version), Set("upgraded", no), Set("logs", 0),
                     Set("wipeCode", NoCode)>>
<1>3. PICK f3 :
         /\ Settling(f2, rest, f3)
         /\ f3["unauth"] = Value(Version) /\ f3["upgraded"] = Value(no)
         /\ f3["logs"] = Value(0) /\ f3["wipeCode"] = Value(NoCode)
         /\ \A k \in Keys :
              k \notin {"unauth", "upgraded", "logs", "wipeCode"} => f3[k] = f2[k]
  <2> DEFINE a == After(f2, Set("unauth", Version))
             b == After(a, Set("upgraded", no))
             d == After(b, Set("logs", 0))
             e == After(d, Set("wipeCode", NoCode))
  <2> HIDE DEF no
  <2>1. Settling(f2, rest, e)
    BY SettleFour
  <2>2. {"unauth", "upgraded", "logs", "wipeCode"} \subseteq Keys
    BY DEF Keys, Internal
  <2>3. \A k \in Keys : /\ k = "unauth" => a[k] = Value(Version)
                        /\ k # "unauth" => a[k] = f2[k]
    BY AfterWrite, SMTT(30)
  <2> HIDE DEF a
  <2>4. \A k \in Keys : /\ k = "upgraded" => b[k] = Value(no)
                        /\ k # "upgraded" => b[k] = a[k]
    BY AfterWrite, SMTT(30)
  <2> HIDE DEF b
  <2>5. \A k \in Keys : /\ k = "logs" => d[k] = Value(0)
                        /\ k # "logs" => d[k] = b[k]
    BY AfterWrite, SMTT(30)
  <2> HIDE DEF d
  <2>6. \A k \in Keys : /\ k = "wipeCode" => e[k] = Value(NoCode)
                        /\ k # "wipeCode" => e[k] = d[k]
    BY AfterWrite, SMTT(30)
  <2> HIDE DEF e
  <2>7. /\ e["unauth"] = Value(Version) /\ e["upgraded"] = Value(no)
        /\ e["logs"] = Value(0) /\ e["wipeCode"] = Value(NoCode)
        /\ \A k \in Keys :
             k \notin {"unauth", "upgraded", "logs", "wipeCode"} => e[k] = f2[k]
    BY <2>2, <2>3, <2>4, <2>5, <2>6, ZenonT(30)
  <2> QED
    BY <2>1, <2>7
<1>4. PICK g :
         /\ Settling(f3, SetPin(EmptyPin, c), g)
         /\ g["edek"] = Value([pin |-> EmptyPin, scheme |-> Scheme(Version), secret |-> c])
         /\ g["notSet"] = Value(EmptyPin = EmptyPin)
         /\ \A k \in Keys : k \notin {"edek", "notSet"} => g[k] = f3[k]
  BY SetPinSettles, SMTT(30)
<1>5. Settling(f, InitWiped(c), g)
  <2>1. InitWiped(c) = tag \o SetVersion(c) \o rest \o SetPin(EmptyPin, c)
    BY DEF InitWiped
  <2> HIDE DEF no
  <2>2. Sequence(tag) /\ Sequence(rest)
    BY OneWrite, FourWrites
  <2>3. Settling(f, tag, f1) /\ Settling(f2, rest, f3)
    BY <1>1, <1>3
  <2> HIDE DEF tag, rest
  <2>4. Sequence(SetVersion(c)) /\ Sequence(SetPin(EmptyPin, c))
    BY TwoWrites, SetPinWrites DEF SetVersion
  <2>5. Settling(f, tag \o SetVersion(c), f2) /\ Sequence(tag \o SetVersion(c))
    BY <1>2, <2>2, <2>3, <2>4, SettleJoin, Joined
  <2>6. /\ Settling(f, tag \o SetVersion(c) \o rest, f3)
        /\ Sequence(tag \o SetVersion(c) \o rest)
    BY <2>2, <2>3, <2>5, SettleJoin, Joined
  <2> QED
    BY <1>4, <2>1, <2>4, <2>6, SettleJoin, SMTT(30)
<1>6. \A k \in Items : g[k] = Missing
  <2>1. \A k \in Items : k \in Keys /\ k \notin Internal
    BY KeysDiffer
  <2> QED
    BY <1>1, <1>2, <1>3, <1>4, <2>1, SMTT(30) DEF Internal
<1>7. Filled(g) = {}
  BY <1>6 DEF Filled
<1>8. Stored(g, EmptyPin, Scheme(Version), c, Version, Version)
  <2>1. /\ g["version"] = Value([secret |-> c, number |-> Version])
        /\ g["tag"] = Value([secret |-> c, keys |-> {}])
        /\ g["unauth"] = Value(Version) /\ g["upgraded"] = Value(no)
        /\ g["logs"] = Value(0) /\ g["wipeCode"] = Value(NoCode)
    BY <1>1, <1>2, <1>3, <1>4, ZenonT(30) DEF Keys, Internal
  <2>2. g["upgraded"] = Value(FALSE)
    BY <2>1
  <2>3. Len(g["logs"]) = 1 /\ Len(g["wipeCode"]) = 1
    BY <2>1 DEF Value
  <2>4. ~(Version < Version)
    BY SMTT(30) DEF Version
  <2> QED
    BY <1>4, <1>6, <1>7, <2>1, <2>2, <2>3, <2>4 DEF Stored
<1> QED
  BY <1>5, <1>7, <1>8

-------------------------------------------------------------------------------
(***************************************************************************)
(* What a consistent storage answers to the checks.                        *)
(***************************************************************************)

(* Only the entries matter.                                                *)
LEMMA StoredSame ==
  ASSUME NEW f, NEW g, \A k \in Keys : g[k] = f[k],
         NEW p, NEW e, NEW s, NEW n, NEW m, Stored(f, p, e, s, n, m)
  PROVE  Stored(g, p, e, s, n, m) /\ Filled(g) = Filled(f)
<1>1. \A k \in Internal \cup Items : g[k] = f[k]
  BY KeysDiffer
<1>2. Filled(g) = Filled(f)
  BY <1>1 DEF Filled
<1>3. /\ g["edek"] = f["edek"] /\ g["notSet"] = f["notSet"] /\ g["version"] = f["version"]
      /\ g["unauth"] = f["unauth"] /\ g["upgraded"] = f["upgraded"] /\ g["tag"] = f["tag"]
      /\ g["logs"] = f["logs"] /\ g["wipeCode"] = f["wipeCode"]
      /\ \A k \in Items : g[k] = f[k]
  BY <1>1 DEF Internal
<1> QED
  BY <1>2, <1>3 DEF Stored

(* The counter and the wipe code may have any value.                       *)
LEMMA StoredBut ==
  ASSUME NEW f, NEW g, NEW x \in {"logs", "wipeCode"}, NEW v,
         \A k \in Keys : k # x => g[k] = f[k], g[x] = Value(v),
         NEW p, NEW e, NEW s, NEW n, NEW m, Stored(f, p, e, s, n, m)
  PROVE  Stored(g, p, e, s, n, m) /\ Filled(g) = Filled(f)
<1>1. Len(g[x]) = 1
  BY SMTT(30) DEF Value
<1>2. \A k \in Items : g[k] = f[k]
  BY KeysDiffer DEF Internal
<1>3. Filled(g) = Filled(f)
  BY <1>2 DEF Filled
<1>4. /\ g["edek"] = f["edek"] /\ g["notSet"] = f["notSet"] /\ g["version"] = f["version"]
      /\ g["unauth"] = f["unauth"] /\ g["upgraded"] = f["upgraded"] /\ g["tag"] = f["tag"]
  BY DEF Keys, Internal
<1>5. Len(g["logs"]) = 1 /\ Len(g["wipeCode"]) = 1
  <2>1. Len(f["logs"]) = 1 /\ Len(f["wipeCode"]) = 1
    BY DEF Stored
  <2>2. g["logs"] = f["logs"] \/ x = "logs"
    BY DEF Keys, Internal
  <2>3. g["wipeCode"] = f["wipeCode"] \/ x = "wipeCode"
    BY DEF Keys, Internal
  <2> QED
    BY <1>1, <2>1, <2>2, <2>3
<1> QED
  BY <1>2, <1>3, <1>4, <1>5 DEF Stored

(* Every entry can be read.                                                *)
LEMMA StoredFacts ==
  ASSUME NEW f, NEW p, NEW e, NEW s, NEW n, NEW m, Stored(f, p, e, s, n, m)
  PROVE  /\ Len(f["edek"]) = 1 /\ f["edek"] # Missing
         /\ f["edek"][1].pin = p /\ f["edek"][1].scheme = e /\ f["edek"][1].secret = s
         /\ Len(f["version"]) = 1
         /\ f["version"][1].secret = s /\ f["version"][1].number = n
         /\ Len(f["unauth"]) = 1 /\ f["unauth"] # Missing /\ f["unauth"][1] = n
         /\ f["upgraded"] # Missing
         /\ f["tag"] = Value([secret |-> s, keys |-> Filled(f)])
         /\ \A k \in Items : f[k] \in {Missing, Value(s)}
         /\ Len(f["logs"]) = 1 /\ Len(f["wipeCode"]) = 1
<1>1. /\ f["edek"] = Value([pin |-> p, scheme |-> e, secret |-> s])
      /\ f["version"] = Value([secret |-> s, number |-> n])
      /\ f["unauth"] = Value(n)
  BY DEF Stored
<1>2. ASSUME NEW v
      PROVE  Len(Value(v)) = 1 /\ Value(v) # Missing /\ Value(v)[1] = v
  BY DEF Value, Missing
<1>3. f["upgraded"] = IF n < m THEN Value(TRUE) ELSE Value(FALSE)
  BY DEF Stored
<1>4. f["upgraded"] # Missing
  BY <1>3, SMTT(30) DEF Value, Missing
<1> DEFINE r == [pin |-> p, scheme |-> e, secret |-> s]
           q == [secret |-> s, number |-> n]
<1>5. r.pin = p /\ r.scheme = e /\ r.secret = s /\ q.secret = s /\ q.number = n
  OBVIOUS
<1>6. f["edek"] = Value(r) /\ f["version"] = Value(q)
  BY <1>1
<1> HIDE DEF r, q
<1>7. /\ f["tag"] = Value([secret |-> s, keys |-> Filled(f)])
      /\ \A k \in Items : f[k] \in {Missing, Value(s)}
      /\ Len(f["logs"]) = 1 /\ Len(f["wipeCode"]) = 1
  BY DEF Stored
<1>8. /\ Len(f["edek"]) = 1 /\ f["edek"] # Missing /\ f["edek"][1] = r
      /\ Len(f["version"]) = 1 /\ f["version"][1] = q
      /\ Len(f["unauth"]) = 1 /\ f["unauth"] # Missing /\ f["unauth"][1] = n
  BY <1>1, <1>2, <1>6
<1> QED
  BY <1>4, <1>5, <1>7, <1>8

(* Between two writes of an operation the entries are as they will be.     *)
LEMMA ReadyFacts ==
  ASSUME Inv, Lossless, NoLoss, todo = <<>>, pc \notin {"off", "wipeOther"}
  PROVE  Calm /\ \E p, s, n : Consistent(flash, p, s, n)
<1>1. Calm /\ \E f, p, s, n : Settles(f) /\ Consistent(f, p, s, n)
  BY DEF Lossless, Blank, Ready
<1>2. PICK f, p, s, n : Settles(f) /\ Consistent(f, p, s, n)
  BY <1>1
<1>3. \A k \in Keys : flash[k] = f[k]
  BY <1>2, SettleNone DEF Settles
<1>4. Stored(f, p, KeyScheme(n), s, n, norcow)
  BY <1>2 DEF Consistent
<1>5. Stored(flash, p, KeyScheme(n), s, n, norcow) /\ Filled(flash) = Filled(f)
  BY <1>3, <1>4, StoredSame
<1>6. Consistent(flash, p, s, n)
  BY <1>2, <1>5 DEF Consistent
<1> QED
  BY <1>1, <1>6

(* No power loss has been so far if there was none after the step.         *)
LEMMA LosslessStep ==
  ASSUME Lossless, losses' = losses,
         NoLoss => Calm' /\ \E f, p, s, n : Settles(f)' /\ Consistent(f, p, s, n)'
  PROVE  Lossless'
BY DEF Lossless, NoLoss

-------------------------------------------------------------------------------
(***************************************************************************)
(* What the steps have in common.                                          *)
(***************************************************************************)

(* The entries of new keys are to be written to an erased flash.           *)
LEMMA OpenedLossless ==
  ASSUME Inv, Lossless, NEW c, Opened(c), NEW l \in {"idle", "halt"}, Do(InitWiped(c), l),
         NoLoss => \A k \in Keys : flash'[k] = Missing,
         norcow' = Version, arg' = arg, losses' = losses
  PROVE  Lossless'
<1>1. /\ unlocked' = TRUE /\ cached' = c /\ sum' = {} /\ todo' = InitWiped(c) /\ pc' = l
  BY DEF Opened, Do
<1>2. SUFFICES ASSUME NoLoss
               PROVE  Calm' /\ \E f, p, s, n : Settles(f)' /\ Consistent(f, p, s, n)'
  BY LosslessStep
<1>3. PICK g :
         /\ Settling(flash', InitWiped(c), g)
         /\ Stored(g, EmptyPin, Scheme(Version), c, Version, Version)
         /\ Filled(g) = {}
  BY <1>2, InitWipedSettles
<1>4. Settles(g)'
  BY <1>1, <1>3 DEF Settles
<1>5. KeyScheme(Version)' = Scheme(Version)
  BY <1>1 DEF KeyScheme
<1>6. Consistent(g, EmptyPin, c, Version)'
  BY <1>1, <1>3, <1>5, SMTT(30) DEF Consistent, Version, Trusted
<1>7. Calm'
  BY <1>1, <1>2 DEF Lossless, Calm
<1> QED
  BY <1>4, <1>6, <1>7

(* Wiping is due, or the operation ends.                                   *)
LEMMA CalmStep ==
  ASSUME Inv, Calm, pc' \in {"idle", "fails", "wipe", "upgrade", "version", "accept", "decrypt",
                             "setWipeCode"},
         \/ arg' = arg
         \/ arg' = [arg EXCEPT !.then = "halt"]
         \/ arg' = [arg EXCEPT !.then = "idle"]
  PROVE  Calm'
BY DEF Inv, Shape, Calm

(* A step of an operation that writes nothing.                             *)
LEMMA GoesOn ==
  ASSUME Inv, Lossless, todo = <<>>, todo' = <<>>, UNCHANGED <<flash, norcow, losses>>,
         pc \notin {"off", "wipeOther", "version"}, pc' \notin Trusted,
         unlocked' => unlocked /\ cached' = cached /\ sum' \in {sum, Filled(flash)},
         NoLoss => Calm'
  PROVE  Lossless'
<1>1. SUFFICES ASSUME NoLoss
               PROVE  Calm' /\ \E f, p, s, n : Settles(f)' /\ Consistent(f, p, s, n)'
  BY LosslessStep
<1>2. PICK p, s, n : Consistent(flash, p, s, n)
  BY <1>1, ReadyFacts
<1>3. PICK g : g = flash
  OBVIOUS
<1>4. KeyScheme(n) = Scheme(n) /\ KeyScheme(n)' = Scheme(n)
  BY DEF KeyScheme, Trusted
<1>5. Consistent(g, p, s, n)'
  BY <1>2, <1>3, <1>4 DEF Consistent, Trusted
<1>6. Settles(g)'
  BY <1>3, SettleNone DEF Settles
<1> QED
  BY <1>1, <1>5, <1>6

(* A step that writes the counter or the wipe code.                        *)
LEMMA WritesOne ==
  ASSUME Inv, Lossless, todo = <<>>, UNCHANGED <<flash, norcow, losses>>,
         NEW x \in {"logs", "wipeCode"}, NEW v, NEW l, Do(<<Set(x, v)>>, l),
         pc \notin {"off", "wipeOther", "version"}, l \notin Trusted,
         unlocked' => (unlocked \/ pc = "accept") /\ cached' = cached /\ sum' = sum,
         NoLoss => Calm'
  PROVE  Lossless'
<1>1. SUFFICES ASSUME NoLoss
               PROVE  Calm' /\ \E f, p, s, n : Settles(f)' /\ Consistent(f, p, s, n)'
  BY LosslessStep
<1>2. PICK p, s, n : Consistent(flash, p, s, n)
  BY <1>1, ReadyFacts
<1>3. x \in Keys /\ todo' = <<Write(x, Value(v))>> /\ pc' = l
  BY DEF Keys, Internal, Do, Set
<1>4. PICK g :
         /\ Settling(flash, <<Write(x, Value(v))>>, g)
         /\ g[x] = Value(v)
         /\ \A k \in Keys : k # x => g[k] = flash[k]
  <2>1. PICK g : g = After(flash, Write(x, Value(v)))
    OBVIOUS
  <2>2. Settling(flash, <<Write(x, Value(v))>>, g)
    BY <2>1, SettleOne
  <2>3. g[x] = Value(v) /\ \A k \in Keys : k # x => g[k] = flash[k]
    BY <1>3, <2>1, AfterWrite, SMTT(30)
  <2> QED
    BY <2>2, <2>3
<1>5. KeyScheme(n) = Scheme(n) /\ KeyScheme(n)' = Scheme(n)
  BY <1>3 DEF KeyScheme, Trusted
<1>6. Stored(g, p, Scheme(n), s, n, norcow) /\ Filled(g) = Filled(flash)
  <2>1. Stored(flash, p, Scheme(n), s, n, norcow)
    BY <1>2, <1>5 DEF Consistent
  <2> QED
    BY <1>4, <2>1, StoredBut
<1>7. Consistent(g, p, s, n)'
  BY <1>2, <1>3, <1>5, <1>6 DEF Consistent, Trusted
<1>8. Settles(g)'
  BY <1>3, <1>4 DEF Settles
<1> QED
  BY <1>1, <1>7, <1>8

(* A step that sets the PIN: on an unlocked storage, or when the keys are  *)
(* locked anew before the version is checked.                              *)
LEMMA WritesPin ==
  ASSUME Inv, Lossless, todo = <<>>, UNCHANGED <<flash, norcow, losses, unlocked, cached>>,
         NEW pin, NEW l, Do(SetPin(pin, cached), l), pc \notin {"off", "wipeOther", "version"},
         \/ unlocked /\ l \notin Trusted /\ sum' = sum
         \/ pc \in Trusted /\ l = "version" /\ sum' = Filled(flash),
         NoLoss => Calm'
  PROVE  Lossless'
<1>1. SUFFICES ASSUME NoLoss
               PROVE  Calm' /\ \E f, p, s, n : Settles(f)' /\ Consistent(f, p, s, n)'
  BY LosslessStep
<1>2. PICK p, s, n : Consistent(flash, p, s, n)
  BY <1>1, ReadyFacts
<1>3. todo' = SetPin(pin, cached) /\ pc' = l
  BY DEF Do
<1>4. PICK g :
         /\ Settling(flash, SetPin(pin, cached), g)
         /\ g["edek"] = Value([pin |-> pin, scheme |-> Scheme(Version), secret |-> cached])
         /\ g["notSet"] = Value(pin = EmptyPin)
         /\ \A k \in Keys : k \notin {"edek", "notSet"} => g[k] = flash[k]
  BY SetPinSettles, SMTT(30)
<1>5. cached = s
  BY <1>2 DEF Consistent
<1>6. KeyScheme(n)' = Scheme(Version)
  BY <1>2, <1>3 DEF Consistent, KeyScheme, Trusted
<1>7. Stored(flash, p, KeyScheme(n), s, n, norcow)
  BY <1>2 DEF Consistent
<1>8. Filled(g) = Filled(flash) /\ \A k \in Items : g[k] = flash[k]
  <2>1. \A k \in Items : g[k] = flash[k]
    BY <1>4, KeysDiffer DEF Internal
  <2> QED
    BY <2>1 DEF Filled
<1>9. Stored(g, pin, Scheme(Version), s, n, norcow)
  <2>1. \A k \in Internal \ {"edek", "notSet"} : g[k] = flash[k]
    BY <1>4, KeysDiffer
  <2>2. /\ g["version"] = flash["version"] /\ g["unauth"] = flash["unauth"]
        /\ g["upgraded"] = flash["upgraded"] /\ g["tag"] = flash["tag"]
        /\ g["logs"] = flash["logs"] /\ g["wipeCode"] = flash["wipeCode"]
    BY <2>1 DEF Internal
  <2>3. g["edek"] = Value([pin |-> pin, scheme |-> Scheme(Version), secret |-> s])
    BY <1>4, <1>5
  <2> QED
    BY <1>4, <1>7, <1>8, <2>2, <2>3 DEF Stored
<1>10. Consistent(g, pin, s, n)'
  BY <1>2, <1>3, <1>5, <1>6, <1>8, <1>9 DEF Consistent, Trusted
<1>11. Settles(g)'
  BY <1>3, <1>4 DEF Settles
<1> QED
  BY <1>1, <1>10, <1>11

(* A protected entry and the tag change together.                          *)
LEMMA StoredEntry ==
  ASSUME NEW f, NEW g, NEW p, NEW e, NEW s, NEW n, NEW m, Stored(f, p, e, s, n, m),
         NEW k \in Items, g[k] \in {Missing, Value(s)},
         \A x \in Keys : x \notin {k, "tag"} => g[x] = f[x],
         g["tag"] = Value([secret |-> s, keys |-> Filled(g)])
  PROVE  Stored(g, p, e, s, n, m)
<1>1. \A x \in Items : x # k => g[x] = f[x]
  BY KeysDiffer DEF Internal
<1>2. \A x \in Internal \ {"tag"} : g[x] = f[x]
  BY KeysDiffer
<1>3. /\ g["edek"] = f["edek"] /\ g["notSet"] = f["notSet"] /\ g["version"] = f["version"]
      /\ g["unauth"] = f["unauth"] /\ g["upgraded"] = f["upgraded"]
      /\ g["logs"] = f["logs"] /\ g["wipeCode"] = f["wipeCode"]
  BY <1>2 DEF Internal
<1>4. \A x \in Items : f[x] \in {Missing, Value(s)}
  BY DEF Stored
<1>5. \A x \in Items : g[x] \in {Missing, Value(s)}
  BY <1>1, <1>4
<1> QED
  BY <1>3, <1>5 DEF Stored

(* What storage_set and storage_delete are going to write: the entry k,    *)
(* and the tag if they add or remove it.                                   *)
EntryWrites(k, g) ==
  /\ Settling(flash, todo', g)
  /\ g[k] \in {Missing, Value(cached)}
  /\ \A x \in Keys : x \notin {k, "tag"} => g[x] = flash[x]
  /\ sum = Filled(flash) => sum' = Filled(g)
  /\ \/ g["tag"] = Value([secret |-> cached, keys |-> sum'])
     \/ g["tag"] = flash["tag"] /\ Filled(g) = Filled(flash)

(* Those writes keep the storage consistent while it is unlocked.          *)
LEMMA EntryLossless ==
  ASSUME Inv, Lossless, pc = "idle", todo = <<>>, unlocked, pc' = "idle",
         UNCHANGED <<flash, norcow, unlocked, cached, arg, losses>>,
         NEW k \in Items, NEW g, EntryWrites(k, g)
  PROVE  Lossless'
<1>1. SUFFICES ASSUME NoLoss
               PROVE  Calm' /\ \E f, p, s, n : Settles(f)' /\ Consistent(f, p, s, n)'
  BY LosslessStep
<1>2. PICK p, s, n : Consistent(flash, p, s, n)
  BY <1>1, ReadyFacts
<1>3. cached = s /\ sum = Filled(flash)
  BY <1>2 DEF Consistent
<1>4. sum' = Filled(g)
  BY <1>3 DEF EntryWrites
<1>5. KeyScheme(n) = Scheme(n) /\ KeyScheme(n)' = Scheme(n)
  BY DEF KeyScheme
<1>6. Stored(flash, p, Scheme(n), s, n, norcow)
  BY <1>2, <1>5 DEF Consistent
<1>7. flash["tag"] = Value([secret |-> s, keys |-> Filled(flash)])
  BY <1>6 DEF Stored
<1>8. g["tag"] = Value([secret |-> s, keys |-> Filled(g)])
  BY <1>3, <1>4, <1>7 DEF EntryWrites
<1>9. /\ g[k] \in {Missing, Value(s)}
      /\ \A x \in Keys : x \notin {k, "tag"} => g[x] = flash[x]
  BY <1>3 DEF EntryWrites
<1>10. Stored(g, p, Scheme(n), s, n, norcow)
  BY <1>6, <1>8, <1>9, StoredEntry
<1>11. Consistent(g, p, s, n)'
  BY <1>2, <1>3, <1>4, <1>5, <1>10 DEF Consistent
<1>12. Settles(g)'
  BY DEF Settles, EntryWrites
<1>13. Calm'
  BY <1>1, ReadyFacts, CalmStep
<1> QED
  BY <1>11, <1>12, <1>13

(* The version can be read, is the lock version, and nothing looks like an *)
(* attack.                                                                 *)
LEMMA VersionFacts ==
  ASSUME NEW p, NEW s, NEW n, Consistent(flash, p, s, n), cached = s, pc # "off"
  PROVE  /\ VersionRead /\ Number = n /\ LockVersion = n
         /\ flash["upgraded"] # Missing /\ ~Suspicious
<1>1. /\ Stored(flash, p, KeyScheme(n), s, n, norcow)
      /\ n \in Nat /\ norcow \in Nat /\ n <= norcow
  BY DEF Consistent
<1>2. /\ Len(flash["version"]) = 1
      /\ flash["version"][1].secret = s /\ flash["version"][1].number = n
      /\ Len(flash["unauth"]) = 1 /\ flash["unauth"][1] = n
      /\ flash["tag"] = Value([secret |-> s, keys |-> Filled(flash)])
      /\ flash["upgraded"] # Missing
  BY <1>1, StoredFacts, SMTT(30)
<1>3. flash["upgraded"] = Value(n < norcow)
  <2>1. flash["upgraded"] = IF n < norcow THEN Value(TRUE) ELSE Value(FALSE)
    BY <1>1 DEF Stored
  <2>2. CASE n < norcow
    <3>1. (n < norcow) = TRUE
      BY <2>2
    <3> QED
      BY <2>1, <2>2, <3>1
  <2>3. CASE ~(n < norcow)
    <3>1. (n < norcow) = FALSE
      BY <2>3, SMTT(30)
    <3> QED
      BY <2>1, <2>3, <3>1
  <2> QED
    BY <2>2, <2>3
<1>4. Filled(flash) = Present
  BY DEF Filled, Present
<1>5. VersionRead
  BY <1>2, <1>4 DEF VersionRead, Authentic, Whole
<1>6. Number = n /\ LockVersion = n
  BY <1>2 DEF Number, LockVersion, Whole
<1>7. ~Suspicious
  <2>1. ~(n > norcow)
    BY <1>1, SMTT(30)
  <2>2. flash["upgraded"] = Value(Number < norcow)
    BY <1>3, <1>6
  <2> QED
    BY <1>6, <2>1, <2>2 DEF Suspicious
<1> QED
  BY <1>2, <1>5, <1>6, <1>7

(* What raising the version leaves.                                        *)
LEMMA RaiseVersionSettles ==
  \E g :
    /\ Settling(flash, RaiseVersion, g)
    /\ g["upgraded"] = Value(FALSE) /\ g["unauth"] = Value(Version)
    /\ g["version"] = Value([secret |-> cached, number |-> Version])
    /\ \A k \in Keys : k \notin {"upgraded", "version", "unauth"} => g[k] = flash[k]
<1> DEFINE no == FALSE
           s == <<Set("upgraded", no)>>
           t == <<Set("unauth", Version)>>
<1>1. RaiseVersion = s \o SetVersion(cached) \o t
  BY DEF RaiseVersion
<1>2. {"upgraded", "version", "unauth"} \subseteq Keys
  BY DEF Keys, Internal
<1> HIDE DEF no
<1>3. ASSUME NEW f, NEW y \in Keys, NEW v
      PROVE  \E g :
               /\ Settling(f, <<Set(y, v)>>, g)
               /\ g[y] = Value(v)
               /\ \A k \in Keys : k # y => g[k] = f[k]
  BY WriteSettles, SMTT(30) DEF Set
<1>4. PICK f1 :
         /\ Settling(flash, s, f1)
         /\ f1["upgraded"] = Value(no)
         /\ \A k \in Keys : k # "upgraded" => f1[k] = flash[k]
  BY <1>2, <1>3, SMTT(30)
<1>5. PICK f2 :
         /\ Settling(f1, SetVersion(cached), f2)
         /\ f2["version"] = Value([secret |-> cached, number |-> Version])
         /\ \A k \in Keys : k # "version" => f2[k] = f1[k]
  BY SetVersionSettles
<1>6. PICK f3 :
         /\ Settling(f2, t, f3)
         /\ f3["unauth"] = Value(Version)
         /\ \A k \in Keys : k # "unauth" => f3[k] = f2[k]
  BY <1>2, <1>3, SMTT(30)
<1>7. Sequence(s) /\ Sequence(SetVersion(cached)) /\ Sequence(t)
  BY OneWrite, TwoWrites DEF SetVersion
<1> HIDE DEF s, t
<1>8. Settling(flash, s \o SetVersion(cached), f2) /\ Sequence(s \o SetVersion(cached))
  BY <1>4, <1>5, <1>7, SettleJoin, Joined
<1>9. Settling(flash, RaiseVersion, f3)
  BY <1>1, <1>6, <1>7, <1>8, SettleJoin
<1>10. /\ f3["upgraded"] = Value(no)
       /\ f3["version"] = Value([secret |-> cached, number |-> Version])
       /\ \A k \in Keys : k \notin {"upgraded", "version", "unauth"} => f3[k] = flash[k]
  BY <1>2, <1>4, <1>5, <1>6
<1>11. f3["upgraded"] = Value(FALSE)
  BY <1>10 DEF no
<1> QED
  BY <1>6, <1>9, <1>10, <1>11

-------------------------------------------------------------------------------
(***************************************************************************)
(* The steps.                                                              *)
(***************************************************************************)

(* A new device, or what an older firmware left.                           *)
LEMMA InitLossless == Init => Lossless
<1> SUFFICES ASSUME Init
             PROVE  Lossless
  OBVIOUS
<1>1. /\ todo = <<>> /\ pc = "off" /\ arg = Quiet /\ losses = 0 /\ unlocked = FALSE
      /\ build \in Builds
  BY SMTT(30) DEF Init
<1>2. Calm
  BY <1>1 DEF Calm, Quiet
<1>3. CASE flash = Factory /\ norcow = Version
  BY <1>1, <1>2, <1>3 DEF Lossless, Blank, Factory
<1>4. CASE /\ flash \in {Old(pin, keys) : pin \in build.pins, keys \in SUBSET Items}
           /\ norcow = build.old
  <2>1. PICK pin \in build.pins, keys \in SUBSET Items : flash = Old(pin, keys)
    BY <1>4, SMTT(30)
  <2> DEFINE n == build.old
  <2>2. n \in Nat /\ n <= Version
    BY <1>1, BuildAssumption, SMTT(30) DEF Version
  <2>3. \A k \in Items : flash[k] = IF k \in keys THEN Value(1) ELSE Missing
    BY <2>1, KeysDiffer DEF Old, Internal
  <2>4. Filled(flash) = keys
    BY <2>3, SMTT(30) DEF Filled, Value, Missing
  <2>5. /\ flash["edek"] = Value([pin |-> pin, scheme |-> Scheme(n), secret |-> 1])
        /\ flash["version"] = Value([secret |-> 1, number |-> n])
        /\ flash["unauth"] = Value(n)
        /\ flash["tag"] = Value([secret |-> 1, keys |-> keys])
        /\ flash["logs"] = Value(0) /\ flash["wipeCode"] = Value(NoCode)
    BY <2>1 DEF Old, Keys, Internal
  <2>6. flash["upgraded"] = Value(FALSE)
    BY <2>1 DEF Old, Keys, Internal
  <2>7. flash["notSet"] = Value(pin = EmptyPin)
    BY <2>1 DEF Old, Keys, Internal
  <2>8. Len(flash["logs"]) = 1 /\ Len(flash["wipeCode"]) = 1
    BY <2>5 DEF Value
  <2>9. ~(n < n)
    BY <2>2, SMTT(30)
  <2> HIDE DEF n
  <2>10. Stored(flash, pin, Scheme(n), 1, n, n)
    BY <2>3, <2>4, <2>5, <2>6, <2>7, <2>8, <2>9 DEF Stored
  <2>11. norcow = n /\ KeyScheme(n) = Scheme(n)
    BY <1>1, <1>4 DEF KeyScheme, n
  <2>12. Consistent(flash, pin, 1, n)
    BY <1>1, <2>2, <2>10, <2>11, SMTT(30) DEF Consistent, Trusted
  <2>13. Settles(flash)
    BY <1>1, SettleNone DEF Settles
  <2> QED
    BY <1>1, <1>2, <2>12, <2>13 DEF Lossless
<1> QED
  BY <1>3, <1>4, SMTT(30) DEF Init

(* norcow_set of the write that is next brings the entries closer to what  *)
(* they will be.                                                           *)
LEMMA NorcowWriteLossless ==
  ASSUME Inv, Lossless, NorcowWrite
  PROVE  Lossless'
<1>1. /\ todo # <<>> /\ todo' = Tail(todo)
      /\ flash' = [flash EXCEPT ![Head(todo).key] = Head(todo).val]
      /\ UNCHANGED <<norcow, unlocked, cached, sum, pc, arg, losses>>
  BY DEF NorcowWrite, ram, ghost
<1>2. pc # "off" /\ Sequence(todo) /\ DOMAIN flash = Keys
  BY <1>1 DEF Inv, Shape
<1>3. \A k \in Keys : flash'[k] = IF k = Head(todo).key THEN Head(todo).val ELSE flash[k]
  BY <1>1, <1>2
<1>4. SUFFICES ASSUME NoLoss
               PROVE  Calm' /\ \E f, p, s, n : Settles(f)' /\ Consistent(f, p, s, n)'
  BY <1>1, LosslessStep
<1>5. PICK f, p, s, n : Settles(f) /\ Consistent(f, p, s, n)
  BY <1>1, <1>2, <1>4 DEF Lossless, Blank, Ready
<1>6. Settling(flash', Tail(todo), f)
  BY <1>1, <1>2, <1>3, <1>5, SettleNext DEF Settles
<1>7. Settles(f)'
  BY <1>1, <1>6 DEF Settles
<1>8. Consistent(f, p, s, n)'
  BY <1>1, <1>5 DEF Consistent, KeyScheme
<1>9. Calm'
  BY <1>1, <1>4 DEF Lossless, Calm
<1> QED
  BY <1>7, <1>8, <1>9

(* storage_wipe erases the entries ...                                     *)
LEMMA StorageWipeLossless ==
  ASSUME Inv, Lossless, StorageWipe
  PROVE  Lossless'
<1>1. /\ flash' = Factory /\ Ready("wipe") /\ pc' = "wipeOther"
      /\ UNCHANGED <<todo, arg, losses, unlocked>>
  BY DEF StorageWipe, ram
<1>2. Ready("wipeOther")' /\ \A k \in Keys : flash'[k] = Missing
  BY <1>1 DEF Ready, Factory
<1>3. NoLoss => Calm'
  BY <1>1 DEF Lossless, Calm
<1> QED
  BY <1>1, <1>2, <1>3 DEF Lossless, NoLoss, Blank

(* ... and then makes new ones.                                            *)
LEMMA WipeOtherLossless ==
  ASSUME Inv, Lossless, WipeOther
  PROVE  Lossless'
<1>1. /\ Ready("wipeOther") /\ flash' = flash /\ norcow' = Version /\ Opened(1)
      /\ Do(InitWiped(1), arg.then) /\ arg' = arg /\ losses' = losses
  BY DEF WipeOther, ghost
<1>2. CASE NoLoss
  <2>1. arg.then \in {"idle", "halt"}
    BY <1>2 DEF Lossless, Calm
  <2>2. \A k \in Keys : flash'[k] = Missing
    BY <1>1 DEF Inv, Shape, Ready
  <2> QED
    BY <1>1, <2>1, <2>2, OpenedLossless
<1>3. CASE ~NoLoss
  BY <1>1, <1>3, LosslessStep
<1> QED
  BY <1>2, <1>3

(* storage_init: a new device gets keys, an old storage is marked as       *)
(* upgraded.                                                               *)
LEMMA StorageInitLossless ==
  ASSUME Inv, Lossless, StorageInit
  PROVE  Lossless'
<1> DEFINE mark == IF norcow < Version THEN Value(TRUE) ELSE flash["upgraded"]
<1>1. /\ pc = "off" /\ todo = <<>> /\ arg' = arg /\ losses' = losses /\ norcow' = Version
      /\ DOMAIN flash = Keys
      /\ flash' = [flash EXCEPT !["upgraded"] = mark]
  BY DEF StorageInit, Inv, Shape
<1>2. /\ flash'["upgraded"] = mark
      /\ \A k \in Keys : k # "upgraded" => flash'[k] = flash[k]
  BY <1>1 DEF Keys, Internal
<1>3. CASE ~NoLoss
  BY <1>1, <1>3, LosslessStep
<1>4. CASE NoLoss /\ Blank
  <2>1. flash["edek"] = Missing
    BY <1>4 DEF Blank, Keys, Internal
  <2>2. Opened(Fresh) /\ Do(InitWiped(Fresh), "idle")
    BY <2>1 DEF StorageInit
  <2>3. ~(norcow < Version)
    BY <1>1, <1>4, SMTT(30) DEF Blank, Ready, Version
  <2>4. \A k \in Keys : flash'[k] = Missing
    BY <1>2, <1>4, <2>3 DEF Blank
  <2> QED
    BY <1>1, <2>2, <2>4, OpenedLossless
<1>5. CASE NoLoss /\ \E f, p, s, n : Settles(f) /\ Consistent(f, p, s, n)
  <2>1. PICK f, p, s, n : Settles(f) /\ Consistent(f, p, s, n)
    BY <1>5
  <2>2. \A k \in Keys : f[k] = flash[k]
    BY <1>1, <2>1, SettleNone DEF Settles
  <2>3. Stored(f, p, Scheme(n), s, n, norcow)
    BY <1>1, <2>1 DEF Consistent, KeyScheme
  <2>4. Stored(flash, p, Scheme(n), s, n, norcow) /\ Filled(flash) = Filled(f)
    BY <2>2, <2>3, StoredSame
  <2>5. flash["edek"] # Missing
    BY <2>4, StoredFacts
  <2>6. todo' = <<>> /\ pc' = "idle" /\ UNCHANGED <<unlocked, cached, sum>>
    BY <2>5 DEF StorageInit, Do, ram
  <2>7. n \in Nat /\ norcow \in Nat /\ n <= norcow /\ norcow <= Version
    BY <2>1 DEF Consistent
  <2>8. flash'["upgraded"] = IF n < Version THEN Value(TRUE) ELSE Value(FALSE)
    <3>1. flash["upgraded"] = IF n < norcow THEN Value(TRUE) ELSE Value(FALSE)
      BY <2>4 DEF Stored
    <3>2. CASE norcow < Version
      <4>1. n < Version
        BY <2>7, <3>2, SMTT(30) DEF Version
      <4>2. flash'["upgraded"] = Value(TRUE)
        BY <1>2, <3>2
      <4> QED
        BY <4>1, <4>2
    <3>3. CASE ~(norcow < Version)
      <4>1. norcow = Version
        BY <2>7, <3>3, SMTT(30) DEF Version
      <4>2. flash'["upgraded"] = flash["upgraded"]
        BY <1>2, <3>3
      <4> QED
        BY <3>1, <4>1, <4>2
    <3> QED
      BY <3>2, <3>3
  <2>9. Stored(flash', p, Scheme(n), s, n, Version) /\ Filled(flash') = Filled(flash)
    <3>1. \A k \in Items : flash'[k] = flash[k]
      BY <1>2, KeysDiffer DEF Internal
    <3>2. Filled(flash') = Filled(flash)
      BY <3>1 DEF Filled
    <3>3. \A k \in Internal \ {"upgraded"} : flash'[k] = flash[k]
      BY <1>2, KeysDiffer
    <3>4. /\ flash'["edek"] = flash["edek"] /\ flash'["notSet"] = flash["notSet"]
          /\ flash'["version"] = flash["version"] /\ flash'["unauth"] = flash["unauth"]
          /\ flash'["tag"] = flash["tag"] /\ flash'["logs"] = flash["logs"]
          /\ flash'["wipeCode"] = flash["wipeCode"]
      BY <3>3 DEF Internal
    <3> QED
      BY <2>4, <2>8, <3>1, <3>2, <3>4 DEF Stored
  <2>10. KeyScheme(n)' = Scheme(n)
    BY <2>6 DEF KeyScheme
  <2>11. PICK g : g = flash'
    OBVIOUS
  <2>12. Consistent(g, p, s, n)'
    <3>1. Stored(g, p, KeyScheme(n)', s, n, norcow') /\ Filled(g) = Filled(f)
      BY <1>1, <2>4, <2>9, <2>10, <2>11
    <3> QED
      BY <1>1, <2>1, <2>6, <2>7, <3>1, SMTT(30) DEF Consistent, Trusted, Version
  <2>13. Settles(g)'
    BY <2>6, <2>11, SettleNone DEF Settles
  <2>14. Calm'
    BY <1>1, <1>5, <2>6 DEF Lossless, Calm
  <2> QED
    BY <1>1, <2>12, <2>13, <2>14, LosslessStep
<1> QED
  BY <1>3, <1>4, <1>5 DEF Lossless

(* __handle_fault runs only after a power loss.                            *)
LEMMA HandleFaultLossless ==
  ASSUME Inv, Lossless, HandleFault
  PROVE  Lossless'
<1>1. pc = "fault" /\ losses' = losses
  BY DEF HandleFault, Ready, ghost
<1>2. ~NoLoss
  BY <1>1 DEF Lossless, Calm
<1> QED
  BY <1>1, <1>2, LosslessStep

(* The device halts, or is turned off between operations.                  *)
LEMMA TurnedOffLossless ==
  ASSUME Inv, Lossless, Halt \/ TurnOff
  PROVE  Lossless'
<1>1. /\ pc \in {"halt", "idle"} /\ todo = <<>> /\ todo' = <<>> /\ pc' = "off"
      /\ unlocked' = FALSE /\ arg' = Quiet
      /\ UNCHANGED <<flash, norcow, losses>>
  BY DEF Halt, TurnOff, Ready, Off, Do, ghost
<1>2. Calm'
  BY <1>1 DEF Calm, Quiet
<1> QED
  BY <1>1, <1>2, GoesOn DEF Trusted

(* A call begins: storage_change_pin on an unlocked storage.               *)
LEMMA CallLossless ==
  ASSUME Inv, Lossless, NEW call, NEW pin, NEW code, Call(call, pin, code),
         call = "changePin" => unlocked
  PROVE  Lossless'
<1>1. /\ pc = "idle" /\ todo = <<>> /\ todo' = <<>> /\ pc' = "wipeCode"
      /\ arg' = [pin |-> pin, code |-> code, call |-> call, then |-> "idle"]
      /\ UNCHANGED <<flash, norcow, unlocked, cached, sum, losses>>
  BY DEF Call, Ready, ram, ghost
<1>2. Calm'
  BY <1>1 DEF Calm
<1> QED
  BY <1>1, <1>2, GoesOn DEF Trusted

(* is_not_wipe_code: the wipe code and the lock version can be read.       *)
LEMMA IsNotWipeCodeLossless ==
  ASSUME Inv, Lossless, IsNotWipeCode
  PROVE  Lossless'
<1>1. /\ pc = "wipeCode" /\ todo = <<>>
      /\ UNCHANGED <<flash, norcow, unlocked, cached, sum, losses>>
  BY DEF IsNotWipeCode, Ready, ram, ghost
<1>2. NoLoss => Calm /\ ~Unreadable
  <2> SUFFICES ASSUME NoLoss
               PROVE  Calm /\ ~Unreadable
    OBVIOUS
  <2>1. Calm
    BY <1>1, ReadyFacts
  <2>2. PICK p, s, n : Consistent(flash, p, s, n)
    BY <1>1, ReadyFacts
  <2>3. Stored(flash, p, KeyScheme(n), s, n, norcow)
    BY <2>2 DEF Consistent
  <2>4. Len(flash["wipeCode"]) = 1 /\ flash["unauth"] # Missing
    BY <2>3, StoredFacts
  <2> QED
    BY <2>1, <2>4 DEF Unreadable, Whole
<1>3. CASE Unreadable
  BY <1>1, <1>2, <1>3, LosslessStep
<1>4. CASE ~Unreadable
  <2>1. CASE /\ pc' \in {"idle", "fails", "wipe"} /\ todo' = todo
             /\ arg' = arg \/ arg' = [arg EXCEPT !.then = "halt"]
    <3>1. NoLoss => Calm'
      BY <1>2, <2>1, CalmStep
    <3> QED
      BY <1>1, <2>1, <3>1, GoesOn DEF Trusted
  <2>2. CASE /\ arg.call = "changePin"
             /\ Do(SetPin(arg.pin, cached), "idle") /\ arg' = arg
    <3>1. NoLoss => unlocked
      BY <1>1, <1>2, <2>2 DEF Calm
    <3>2. NoLoss => Calm'
      BY <1>2, <2>2, CalmStep DEF Do
    <3>3. CASE NoLoss
      BY <1>1, <2>2, <3>1, <3>2, <3>3, WritesPin DEF Trusted
    <3>4. CASE ~NoLoss
      BY <1>1, <3>4, LosslessStep
    <3> QED
      BY <3>3, <3>4
  <2> QED
    BY <1>1, <1>4, <2>1, <2>2 DEF IsNotWipeCode, Wipe, Do
<1> QED
  BY <1>3, <1>4

(* The counter can be read.                                                *)
LEMMA CountAttemptLossless ==
  ASSUME Inv, Lossless, CountAttempt
  PROVE  Lossless'
<1>1. /\ pc = "fails" /\ todo = <<>>
      /\ UNCHANGED <<flash, norcow, unlocked, cached, sum, losses>>
  BY DEF CountAttempt, Ready, ram, ghost
<1>2. NoLoss => Calm /\ Whole("logs")
  <2> SUFFICES ASSUME NoLoss
               PROVE  Calm /\ Whole("logs")
    OBVIOUS
  <2>1. Calm
    BY <1>1, ReadyFacts
  <2>2. PICK p, s, n : Consistent(flash, p, s, n)
    BY <1>1, ReadyFacts
  <2>3. Stored(flash, p, KeyScheme(n), s, n, norcow)
    BY <2>2 DEF Consistent
  <2>4. Len(flash["logs"]) = 1
    BY <2>3, StoredFacts
  <2> QED
    BY <2>1, <2>4 DEF Whole
<1>3. CASE ~Whole("logs")
  BY <1>1, <1>2, <1>3, LosslessStep
<1>4. CASE /\ pc' \in {"idle", "wipe"} /\ todo' = <<>>
           /\ arg' = arg \/ arg' = [arg EXCEPT !.then = "halt"]
  <2>1. NoLoss => Calm'
    BY <1>2, <1>4, CalmStep
  <2> QED
    BY <1>1, <1>4, <2>1, GoesOn DEF Trusted
<1>5. CASE Do(<<Set("logs", flash["logs"][1] + 1)>>, "decrypt") /\ arg' = arg
  <2>1. NoLoss => Calm'
    BY <1>2, <1>5, CalmStep DEF Do
  <2> DEFINE v == flash["logs"][1] + 1
  <2>2. Do(<<Set("logs", v)>>, "decrypt")
    BY <1>5
  <2> HIDE DEF v
  <2> QED
    BY <1>1, <2>1, <2>2, WritesOne DEF Trusted
<1> QED
  BY <1>1, <1>3, <1>4, <1>5 DEF CountAttempt, Wipe, Do

(* decrypt_dek: the keys that the PIN unlocks are those of the storage.    *)
LEMMA DecryptDekLossless ==
  ASSUME Inv, Lossless, DecryptDek
  PROVE  Lossless'
<1>1. /\ pc = "decrypt" /\ todo = <<>> /\ todo' = <<>>
      /\ UNCHANGED <<flash, norcow, unlocked, sum, losses>>
  BY DEF DecryptDek, Ready
<1>2. CASE ~NoLoss
  BY <1>1, <1>2, LosslessStep
<1>3. CASE NoLoss
  <2>1. Calm
    BY <1>1, <1>3, ReadyFacts
  <2>2. PICK p, s, n : Consistent(flash, p, s, n)
    BY <1>1, <1>3, ReadyFacts
  <2>3. Stored(flash, p, KeyScheme(n), s, n, norcow)
    BY <2>2 DEF Consistent
  <2>4. flash["edek"] # Missing /\ flash["unauth"] # Missing /\ flash["edek"][1].secret = s
    <3>1. flash["edek"] # Missing /\ flash["unauth"] # Missing
      BY <2>3, StoredFacts
    <3>2. flash["edek"] = Value([pin |-> p, scheme |-> KeyScheme(n), secret |-> s])
      BY <2>3 DEF Stored
    <3>3. flash["edek"][1].secret = s
      BY <3>2, SMTT(30) DEF Value
    <3> QED
      BY <3>1, <3>3
  <2>5. CASE cached' = s /\ pc' = "upgrade" /\ arg' = arg
    <3>1. PICK g : g = flash
      OBVIOUS
    <3>2. KeyScheme(n)' = KeyScheme(n)
      BY <1>1, <2>5 DEF KeyScheme
    <3>3. Consistent(g, p, s, n)'
      BY <1>1, <2>2, <2>5, <3>1, <3>2 DEF Consistent
    <3>4. Settles(g)'
      BY <1>1, <3>1, SettleNone DEF Settles
    <3>5. Calm'
      BY <2>1, <2>5, CalmStep
    <3> QED
      BY <1>1, <3>3, <3>4, <3>5, LosslessStep
  <2>6. CASE /\ cached' = cached /\ pc' \in {"idle", "wipe"}
             /\ arg' = arg \/ arg' = [arg EXCEPT !.then = "halt"]
    <3>1. Calm'
      BY <2>1, <2>6, CalmStep
    <3> QED
      BY <1>1, <2>6, <3>1, GoesOn DEF Trusted
  <2> QED
    BY <2>4, <2>5, <2>6 DEF DecryptDek, Wipe
<1> QED
  BY <1>2, <1>3

(* storage_upgrade_unlocked: keys of an older version are locked anew, and *)
(* those of this version fit already.                                      *)
LEMMA UpgradeUnlockedLossless ==
  ASSUME Inv, Lossless, UpgradeUnlocked
  PROVE  Lossless'
<1>1. /\ pc = "upgrade" /\ todo = <<>> /\ sum' = Filled(flash)
      /\ UNCHANGED <<flash, norcow, unlocked, cached, arg, losses>>
  BY DEF UpgradeUnlocked, Ready, ghost, Present, Filled
<1>2. CASE ~NoLoss
  BY <1>1, <1>2, LosslessStep
<1>3. CASE NoLoss
  <2>1. Calm
    BY <1>1, <1>3, ReadyFacts
  <2>2. PICK p, s, n : Consistent(flash, p, s, n)
    BY <1>1, <1>3, ReadyFacts
  <2>3. cached = s /\ n \in Nat /\ n <= Version
    BY <1>1, <2>2 DEF Consistent, Trusted, Version
  <2>4. VersionRead /\ Number = n
    BY <1>1, <2>2, <2>3, VersionFacts
  <2>5. Do(IF n <= 5 THEN SetPin(arg.pin, cached) ELSE <<>>, "version")
    BY <2>4 DEF UpgradeUnlocked, Relock
  <2>6. Calm'
    BY <1>1, <2>1, <2>5, CalmStep DEF Do
  <2>7. CASE n <= 5
    <3>1. Do(SetPin(arg.pin, cached), "version")
      BY <2>5, <2>7
    <3> QED
      BY <1>1, <2>6, <3>1, WritesPin DEF Trusted
  <2>8. CASE ~(n <= 5)
    <3>1. todo' = <<>> /\ pc' = "version"
      BY <2>5, <2>8 DEF Do
    <3>2. n = Version
      BY <2>3, <2>8, SMTT(30) DEF Version
    <3>3. KeyScheme(n) = Scheme(n) /\ KeyScheme(n)' = Scheme(n)
      BY <1>1, <3>1, <3>2 DEF KeyScheme
    <3>4. PICK g : g = flash
      OBVIOUS
    <3>5. Consistent(g, p, s, n)'
      BY <1>1, <2>2, <2>3, <3>1, <3>3, <3>4 DEF Consistent
    <3>6. Settles(g)'
      BY <1>1, <3>1, <3>4, SettleNone DEF Settles
    <3> QED
      BY <1>1, <2>6, <3>5, <3>6, LosslessStep
  <2> QED
    BY <2>7, <2>8
<1> QED
  BY <1>2, <1>3

(* check_storage_version: the checks pass, and the version is raised if    *)
(* it is an older one.                                                     *)
LEMMA CheckStorageVersionLossless ==
  ASSUME Inv, Lossless, CheckStorageVersion
  PROVE  Lossless'
<1>1. /\ pc = "version" /\ todo = <<>>
      /\ UNCHANGED <<flash, norcow, unlocked, cached, sum, losses>>
  BY DEF CheckStorageVersion, Ready, ram, ghost
<1>2. CASE ~NoLoss
  BY <1>1, <1>2, LosslessStep
<1>3. CASE NoLoss
  <2>1. Calm
    BY <1>1, <1>3, ReadyFacts
  <2>2. PICK p, s, n : Consistent(flash, p, s, n)
    BY <1>1, <1>3, ReadyFacts
  <2>3. /\ cached = s /\ n \in Nat /\ n <= Version /\ norcow = Version
        /\ sum = Filled(flash)
    BY <1>1, <2>2 DEF Consistent, Trusted, Version
  <2>4. VersionRead /\ Number = n /\ LockVersion = n /\ flash["upgraded"] # Missing /\ ~Suspicious
    BY <1>1, <2>2, <2>3, VersionFacts, SMTT(30)
  <2>5. Do(IF n < norcow THEN RaiseVersion ELSE <<>>, "accept") /\ arg' = arg
    BY <2>4 DEF CheckStorageVersion
  <2>6. pc' = "accept"
    BY <2>5 DEF Do
  <2>7. Calm'
    BY <1>1, <2>1, <2>5, <2>6, CalmStep
  <2>8. Stored(flash, p, Scheme(Version), s, n, Version)
    BY <1>1, <2>2, <2>3 DEF Consistent, KeyScheme
  <2>9. KeyScheme(Version)' = Scheme(Version)
    BY <2>6 DEF KeyScheme
  <2>10. CASE n < norcow
    <3>1. todo' = RaiseVersion
      BY <2>5, <2>10 DEF Do
    <3>2. PICK g :
             /\ Settling(flash, RaiseVersion, g)
             /\ g["upgraded"] = Value(FALSE) /\ g["unauth"] = Value(Version)
             /\ g["version"] = Value([secret |-> cached, number |-> Version])
             /\ \A k \in Keys : k \notin {"upgraded", "version", "unauth"} => g[k] = flash[k]
      BY RaiseVersionSettles
    <3>3. \A k \in Items : g[k] = flash[k]
      BY <3>2, KeysDiffer DEF Internal
    <3>4. Filled(g) = Filled(flash)
      BY <3>3 DEF Filled
    <3>5. \A k \in Internal \ {"upgraded", "version", "unauth"} : g[k] = flash[k]
      BY <3>2, KeysDiffer
    <3>6. /\ g["edek"] = flash["edek"] /\ g["notSet"] = flash["notSet"]
          /\ g["tag"] = flash["tag"] /\ g["logs"] = flash["logs"]
          /\ g["wipeCode"] = flash["wipeCode"]
      BY <3>5 DEF Internal
    <3>7. g["version"] = Value([secret |-> s, number |-> Version])
      BY <2>3, <3>2
    <3>8. ~(Version < Version)
      BY SMTT(30) DEF Version
    <3>9. Stored(g, p, Scheme(Version), s, Version, Version)
      BY <2>8, <3>2, <3>3, <3>4, <3>6, <3>7, <3>8 DEF Stored
    <3>10. Consistent(g, p, s, Version)'
      BY <1>1, <2>3, <2>6, <2>9, <3>4, <3>9, SMTT(30) DEF Consistent, Version
    <3>11. Settles(g)'
      BY <1>1, <3>1, <3>2 DEF Settles
    <3> QED
      BY <1>1, <2>7, <3>10, <3>11, LosslessStep
  <2>11. CASE ~(n < norcow)
    <3>1. todo' = <<>> /\ n = Version
      BY <2>3, <2>5, <2>11, SMTT(30) DEF Do, Version
    <3>2. PICK g : g = flash
      OBVIOUS
    <3>3. Consistent(g, p, s, Version)'
      BY <1>1, <2>3, <2>6, <2>8, <2>9, <3>1, <3>2 DEF Consistent, Version
    <3>4. Settles(g)'
      BY <1>1, <3>1, <3>2, SettleNone DEF Settles
    <3> QED
      BY <1>1, <2>7, <3>3, <3>4, LosslessStep
  <2> QED
    BY <2>10, <2>11
<1> QED
  BY <1>2, <1>3

(* The counter is reset: unlock is done.                                   *)
LEMMA AcceptLossless ==
  ASSUME Inv, Lossless, Accept
  PROVE  Lossless'
<1> DEFINE l == IF arg.call = "changeWipeCode" THEN "setWipeCode" ELSE "idle"
<1>1. /\ pc = "accept" /\ todo = <<>> /\ Do(<<Set("logs", 0)>>, l) /\ unlocked' = TRUE
      /\ UNCHANGED <<flash, norcow, cached, sum, arg, losses>>
  BY DEF Accept, Ready, ghost
<1>2. pc' = l /\ l \in {"setWipeCode", "idle"}
  BY <1>1 DEF Do
<1> HIDE DEF l
<1>3. NoLoss => Calm'
  BY <1>1, <1>2, ReadyFacts, CalmStep
<1> QED
  BY <1>1, <1>2, <1>3, WritesOne DEF Trusted

(* set_wipe_code.                                                          *)
LEMMA SetWipeCodeLossless ==
  ASSUME Inv, Lossless, SetWipeCode
  PROVE  Lossless'
<1>1. /\ pc = "setWipeCode" /\ todo = <<>> /\ Do(<<Set("wipeCode", arg.code)>>, "idle")
      /\ pc' = "idle" /\ UNCHANGED <<flash, norcow, unlocked, cached, sum, arg, losses>>
  BY DEF SetWipeCode, Ready, Do, ram, ghost
<1>2. NoLoss => Calm'
  BY <1>1, ReadyFacts, CalmStep
<1> QED
  BY <1>1, <1>2, WritesOne, SMTT(30) DEF Trusted

(* storage_set.                                                            *)
LEMMA StorageSetLossless ==
  ASSUME Inv, Lossless, NEW k \in Items, StorageSet(k)
  PROVE  Lossless'
<1> DEFINE new == flash[k] = Missing
           space == <<Write(k, Torn)>>
           tag == AuthUpdate(k)
           value == <<Set(k, cached)>>
<1>1. /\ pc = "idle" /\ todo = <<>> /\ unlocked /\ pc' = "idle"
      /\ UNCHANGED <<flash, norcow, unlocked, cached, arg, losses>>
      /\ new => todo' = space \o tag \o value /\ sum' = SymDiff(sum, {k})
      /\ ~new => todo' = space \o <<>> \o value /\ sum' = sum
  BY DEF StorageSet, Ready, Do, ghost
<1>2. k \in Keys /\ "tag" \in Keys /\ k # "tag"
  BY KeysDiffer DEF Internal
<1>3. ASSUME NEW f, NEW y \in Keys, NEW v
      PROVE  \E g :
               /\ Settling(f, <<Write(y, v)>>, g)
               /\ g[y] = v
               /\ \A x \in Keys : x # y => g[x] = f[x]
  BY WriteSettles, SMTT(30)
<1>4. PICK f1 :
         /\ Settling(flash, space, f1)
         /\ \A x \in Keys : x # k => f1[x] = flash[x]
  BY <1>2, <1>3, SMTT(30)
<1>5. Sequence(space) /\ Sequence(tag) /\ Sequence(value) /\ Sequence(<<>>)
  BY OneWrite, NoWrites DEF AuthUpdate
<1>6. ASSUME NEW f
      PROVE  \E g :
               /\ Settling(f, value, g)
               /\ g[k] = Value(cached)
               /\ \A x \in Keys : x # k => g[x] = f[x]
  BY <1>2, <1>3, SMTT(30) DEF Set
<1>7. Value(cached) # Missing
  BY DEF Value, Missing
<1>8. CASE new
  <2>1. PICK f2 :
           /\ Settling(f1, tag, f2)
           /\ f2["tag"] = Value([secret |-> cached, keys |-> SymDiff(sum, {k})])
           /\ \A x \in Keys : x # "tag" => f2[x] = f1[x]
    <3> DEFINE v == Value([secret |-> cached, keys |-> SymDiff(sum, {k})])
    <3>1. tag = <<Write("tag", v)>>
      BY DEF AuthUpdate, Tag, Set
    <3> HIDE DEF tag, v
    <3>2. PICK f2 : f2 = After(f1, Write("tag", v))
      OBVIOUS
    <3>3. Settling(f1, tag, f2)
      BY <3>1, <3>2, SettleOne
    <3>4. f2["tag"] = v /\ \A x \in Keys : x # "tag" => f2[x] = f1[x]
      BY <1>2, <3>2, AfterWrite, SMTT(30)
    <3> QED
      BY <3>3, <3>4 DEF v
  <2>2. PICK g :
           /\ Settling(f2, value, g)
           /\ g[k] = Value(cached)
           /\ \A x \in Keys : x # k => g[x] = f2[x]
    BY <1>6
  <2> HIDE DEF space, tag, value
  <2>3. Settling(flash, space \o tag, f2) /\ Sequence(space \o tag)
    BY <1>4, <1>5, <2>1, SettleJoin, Joined
  <2>4. Settling(flash, todo', g)
    BY <1>1, <1>5, <1>8, <2>2, <2>3, SettleJoin
  <2>5. g["tag"] = Value([secret |-> cached, keys |-> sum'])
    BY <1>1, <1>2, <1>8, <2>1, <2>2
  <2>6. \A x \in Keys : x \notin {k, "tag"} => g[x] = flash[x]
    BY <1>4, <2>1, <2>2
  <2>7. Filled(g) = Filled(flash) \cup {k} /\ k \notin Filled(flash)
    <3>1. \A x \in Items : x # k => g[x] = flash[x]
      BY <2>6, KeysDiffer DEF Internal
    <3> QED
      BY <1>7, <1>8, <2>2, <3>1 DEF Filled
  <2>8. sum = Filled(flash) => sum' = Filled(g)
    BY <1>1, <1>8, <2>7 DEF SymDiff
  <2>9. EntryWrites(k, g)
    BY <2>2, <2>4, <2>5, <2>6, <2>8 DEF EntryWrites
  <2> HIDE DEF new
  <2> QED
    BY <1>1, <2>9, EntryLossless
<1>9. CASE ~new
  <2>1. PICK g :
           /\ Settling(f1, value, g)
           /\ g[k] = Value(cached)
           /\ \A x \in Keys : x # k => g[x] = f1[x]
    BY <1>6
  <2> HIDE DEF space, tag, value
  <2>2. Settling(f1, <<>>, f1)
    BY SettleNone
  <2>3. Settling(flash, space \o <<>>, f1) /\ Sequence(space \o <<>>)
    BY <1>4, <1>5, <2>2, SettleJoin, Joined
  <2>4. Settling(flash, todo', g)
    BY <1>1, <1>5, <1>9, <2>1, <2>3, SettleJoin
  <2>5. g["tag"] = flash["tag"] /\ \A x \in Keys : x \notin {k, "tag"} => g[x] = flash[x]
    BY <1>2, <1>4, <2>1
  <2>6. Filled(g) = Filled(flash)
    <3>1. \A x \in Items : x # k => g[x] = flash[x]
      BY <2>5, KeysDiffer DEF Internal
    <3> QED
      BY <1>7, <1>9, <2>1, <3>1 DEF Filled
  <2>7. sum = Filled(flash) => sum' = Filled(g)
    BY <1>1, <1>9, <2>6
  <2>8. EntryWrites(k, g)
    BY <2>1, <2>4, <2>5, <2>6, <2>7 DEF EntryWrites
  <2> HIDE DEF new
  <2> QED
    BY <1>1, <2>8, EntryLossless
<1> QED
  BY <1>8, <1>9

(* storage_delete.                                                         *)
LEMMA StorageDeleteLossless ==
  ASSUME Inv, Lossless, NEW k \in Items, StorageDelete(k)
  PROVE  Lossless'
<1> DEFINE gone == <<Write(k, Missing)>>
           tag == AuthUpdate(k)
<1>1. /\ pc = "idle" /\ todo = <<>> /\ unlocked /\ pc' = "idle" /\ flash[k] # Missing
      /\ UNCHANGED <<flash, norcow, unlocked, cached, arg, losses>>
      /\ todo' = gone \o tag /\ sum' = SymDiff(sum, {k})
  BY DEF StorageDelete, Ready, Do, ghost
<1>2. k \in Keys /\ "tag" \in Keys /\ k # "tag"
  BY KeysDiffer DEF Internal
<1>3. ASSUME NEW f, NEW y \in Keys, NEW v
      PROVE  \E g :
               /\ Settling(f, <<Write(y, v)>>, g)
               /\ g[y] = v
               /\ \A x \in Keys : x # y => g[x] = f[x]
  BY WriteSettles, SMTT(30)
<1>4. PICK f1 :
         /\ Settling(flash, gone, f1)
         /\ f1[k] = Missing
         /\ \A x \in Keys : x # k => f1[x] = flash[x]
  BY <1>2, <1>3, SMTT(30)
<1>5. PICK g :
         /\ Settling(f1, tag, g)
         /\ g["tag"] = Value([secret |-> cached, keys |-> SymDiff(sum, {k})])
         /\ \A x \in Keys : x # "tag" => g[x] = f1[x]
  <2> DEFINE v == Value([secret |-> cached, keys |-> SymDiff(sum, {k})])
  <2>1. tag = <<Write("tag", v)>>
    BY DEF AuthUpdate, Tag, Set
  <2> HIDE DEF tag, v
  <2>2. PICK f2 : f2 = After(f1, Write("tag", v))
    OBVIOUS
  <2>3. Settling(f1, tag, f2)
    BY <2>1, <2>2, SettleOne
  <2>4. f2["tag"] = v /\ \A x \in Keys : x # "tag" => f2[x] = f1[x]
    BY <1>2, <2>2, AfterWrite, SMTT(30)
  <2> QED
    BY <2>3, <2>4 DEF v
<1>6. Sequence(gone) /\ Sequence(tag)
  BY OneWrite DEF AuthUpdate
<1> HIDE DEF gone, tag
<1>7. Settling(flash, todo', g)
  BY <1>1, <1>4, <1>5, <1>6, SettleJoin
<1>8. g["tag"] = Value([secret |-> cached, keys |-> sum']) /\ g[k] = Missing
  BY <1>1, <1>2, <1>4, <1>5
<1>9. \A x \in Keys : x \notin {k, "tag"} => g[x] = flash[x]
  BY <1>4, <1>5
<1>10. Filled(g) = Filled(flash) \ {k} /\ k \in Filled(flash)
  <2>1. \A x \in Items : x # k => g[x] = flash[x]
    BY <1>9, KeysDiffer DEF Internal
  <2> QED
    BY <1>1, <1>8, <2>1 DEF Filled
<1>11. sum = Filled(flash) => sum' = Filled(g)
  BY <1>1, <1>10 DEF SymDiff
<1>12. EntryWrites(k, g)
  BY <1>7, <1>8, <1>9, <1>11 DEF EntryWrites
<1> QED
  BY <1>1, <1>12, EntryLossless

(* storage_get: the tag and the entry are right.                           *)
LEMMA StorageGetLossless ==
  ASSUME Inv, Lossless, NEW k \in Items, StorageGet(k)
  PROVE  Lossless'
<1>1. /\ pc = "idle" /\ todo = <<>> /\ todo' = <<>> /\ unlocked
      /\ pc' = IF Authentic /\ flash[k] \in {Missing, Value(cached)} THEN "idle" ELSE "fault"
      /\ sum' = Filled(flash)
      /\ UNCHANGED <<flash, norcow, unlocked, cached, arg, losses>>
  BY DEF StorageGet, Ready, ghost, Present, Filled
<1>2. CASE ~NoLoss
  BY <1>1, <1>2, LosslessStep
<1>3. CASE NoLoss
  <2>1. PICK p, s, n : Consistent(flash, p, s, n)
    BY <1>1, <1>3, ReadyFacts
  <2>2. Stored(flash, p, KeyScheme(n), s, n, norcow) /\ cached = s
    BY <1>1, <2>1 DEF Consistent
  <2>3. /\ flash["tag"] = Value([secret |-> s, keys |-> Filled(flash)])
        /\ \A x \in Items : flash[x] \in {Missing, Value(s)}
    BY <2>2 DEF Stored
  <2>4. Authentic
    BY <2>2, <2>3 DEF Authentic, Present, Filled
  <2>5. pc' = "idle"
    BY <1>1, <2>2, <2>3, <2>4
  <2>6. Calm'
    BY <1>1, <1>3, <2>5, ReadyFacts, CalmStep
  <2> QED
    BY <1>1, <2>5, <2>6, GoesOn DEF Trusted
<1> QED
  BY <1>2, <1>3

(* storage_lock, and a wipe that the user asks for.                        *)
LEMMA LockLossless ==
  ASSUME Inv, Lossless, StorageLock \/ WipeDevice
  PROVE  Lossless'
<1>1. /\ pc = "idle" /\ todo = <<>> /\ todo' = <<>> /\ pc' \in {"idle", "wipe"}
      /\ arg' = arg \/ arg' = [arg EXCEPT !.then = "idle"]
      /\ unlocked' => unlocked /\ cached' = cached /\ sum' = sum
      /\ UNCHANGED <<flash, norcow, losses>>
  BY SMTT(30) DEF StorageLock, WipeDevice, Wipe, Ready, ram, ghost
<1>2. NoLoss => Calm'
  BY <1>1, ReadyFacts, CalmStep
<1> QED
  BY <1>1, <1>2, GoesOn DEF Trusted

(* A power loss in the middle of an operation is counted.                  *)
LEMMA PowerLossLossless ==
  ASSUME Lossless, PowerLoss
  PROVE  Lossless'
<1>1. losses \in Nat /\ losses' = losses + 1
  BY DEF Lossless, PowerLoss
<1> QED
  BY <1>1, SMTT(30) DEF Lossless, NoLoss

LEMMA NextLossless == Inv /\ Lossless /\ [Next]_vars => Lossless'
<1> SUFFICES ASSUME Inv, Lossless, [Next]_vars
             PROVE  Lossless'
  OBVIOUS
<1>1. ASSUME NEW pin \in build.pins,
             \/ StorageUnlock(pin) \/ StorageEnsureNotWipeCode(pin) \/ StorageChangePin(pin)
             \/ \E code \in (build.pins \ {EmptyPin}) \cup {NoCode} : StorageChangeWipeCode(pin, code)
      PROVE  Lossless'
  BY <1>1, CallLossless
  DEF StorageUnlock, StorageEnsureNotWipeCode, StorageChangePin, StorageChangeWipeCode
<1>2. ASSUME NEW k \in Items, StorageSet(k) \/ StorageDelete(k) \/ StorageGet(k)
      PROVE  Lossless'
  BY <1>2, StorageSetLossless, StorageDeleteLossless, StorageGetLossless
<1>3. CASE NorcowWrite \/ StorageInit \/ StorageWipe \/ WipeOther
  BY <1>3, NorcowWriteLossless, StorageInitLossless, StorageWipeLossless, WipeOtherLossless
<1>4. CASE HandleFault \/ Halt \/ TurnOff
  BY <1>4, HandleFaultLossless, TurnedOffLossless
<1>5. CASE IsNotWipeCode \/ CountAttempt \/ DecryptDek
  BY <1>5, IsNotWipeCodeLossless, CountAttemptLossless, DecryptDekLossless
<1>6. CASE UpgradeUnlocked \/ CheckStorageVersion \/ Accept \/ SetWipeCode
  BY <1>6, UpgradeUnlockedLossless, CheckStorageVersionLossless, AcceptLossless,
     SetWipeCodeLossless
<1>7. CASE StorageLock \/ WipeDevice \/ PowerLoss
  BY <1>7, LockLossless, PowerLossLossless
<1>8. CASE UNCHANGED vars
  BY <1>8, SMTT(30) DEF vars, ram, ghost, Lossless, NoLoss, Calm, Blank, Ready,
      Settles, Consistent, KeyScheme
<1> QED
  BY <1>1, <1>2, <1>3, <1>4, <1>5, <1>6, <1>7, <1>8 DEF Next, Step

LEMMA LosslessInvariance == Spec => [](Inv /\ Lossless)
<1>1. Spec => []Inv
  BY Invariance, PTL
<1> QED
  BY <1>1, InitLossless, NextLossless, PTL DEF Spec

-------------------------------------------------------------------------------
(***************************************************************************)
(* The theorems.                                                           *)
(***************************************************************************)

(* Without a power loss in the middle of an operation no consistency check *)
(* fails: nothing that the firmware calls ends in __handle_fault.          *)
THEOREM Faultless == Spec => []NoFaults
<1>1. Lossless => NoFaults
  BY DEF Lossless, Calm, NoFaults
<1> QED
  BY <1>1, LosslessInvariance, PTL

(* What the invariant says between operations.                             *)
LEMMA IdleFacts ==
  ASSUME Inv, Lossless, NoLoss, Ready("idle")
  PROVE  \E p, s, n : Stored(flash, p, Scheme(n), s, n, norcow) /\ n \in Nat
<1>1. pc = "idle" /\ todo = <<>>
  BY DEF Ready
<1>2. PICK p, s, n : Consistent(flash, p, s, n)
  BY <1>1, ReadyFacts
<1>3. Stored(flash, p, Scheme(n), s, n, norcow) /\ n \in Nat
  BY <1>1, <1>2 DEF Consistent, KeyScheme
<1> QED
  BY <1>3

(* auth_update: between operations the storage authentication tag is that  *)
(* of the protected entries that are there, under the keys of the EDEK.    *)
THEOREM TagIsCurrent == Spec => []TagCurrent
<1>1. Inv /\ Lossless => TagCurrent
  <2> SUFFICES ASSUME Inv, Lossless, NoLoss, Ready("idle")
               PROVE  flash["tag"] = Value([secret |-> flash["edek"][1].secret, keys |-> Present])
    BY DEF TagCurrent
  <2>1. PICK p, s, n : Stored(flash, p, Scheme(n), s, n, norcow)
    BY IdleFacts
  <2>2. /\ flash["tag"] = Value([secret |-> s, keys |-> Filled(flash)])
        /\ flash["edek"] = Value([pin |-> p, scheme |-> Scheme(n), secret |-> s])
    BY <2>1 DEF Stored
  <2>3. flash["edek"][1].secret = s
    BY <2>2, SMTT(30) DEF Value
  <2> QED
    BY <2>2, <2>3 DEF Filled, Present
<1> QED
  BY <1>1, LosslessInvariance, PTL

(* get_lock_version: between operations the unauthenticated version is     *)
(* the one that the keys were locked with, through upgrades as well.       *)
THEOREM LockVersionIsRight == Spec => []LockVersionRight
<1>1. Inv /\ Lossless => LockVersionRight
  <2> SUFFICES ASSUME Inv, Lossless, NoLoss, Ready("idle")
               PROVE  flash["edek"][1].scheme = Scheme(LockVersion)
    BY DEF LockVersionRight
  <2>1. PICK p, s, n : Stored(flash, p, Scheme(n), s, n, norcow)
    BY IdleFacts
  <2>2. /\ flash["edek"] = Value([pin |-> p, scheme |-> Scheme(n), secret |-> s])
        /\ flash["unauth"] = Value(n)
    BY <2>1 DEF Stored
  <2> DEFINE e == Scheme(n)
  <2>3. flash["edek"] = Value([pin |-> p, scheme |-> e, secret |-> s])
    BY <2>2
  <2> HIDE DEF e
  <2>4. flash["edek"][1].scheme = e
    BY <2>3, SMTT(30) DEF Value
  <2>5. LockVersion = n
    BY <2>2, SMTT(30) DEF LockVersion, Whole, Value
  <2> QED
    BY <2>4, <2>5 DEF e
<1> QED
  BY <1>1, LosslessInvariance, PTL

(* storage_has_pin: between operations the answer is whether the EDEK is   *)
(* locked with a PIN that is not empty.                                    *)
THEOREM HasPinIsRight == Spec => []HasPinRight
<1>1. Inv /\ Lossless => HasPinRight
  <2> SUFFICES ASSUME Inv, Lossless, NoLoss, Ready("idle")
               PROVE  HasPin <=> flash["edek"][1].pin # EmptyPin
    BY DEF HasPinRight
  <2>1. PICK p, s, n : Stored(flash, p, Scheme(n), s, n, norcow)
    BY IdleFacts
  <2>2. /\ flash["edek"] = Value([pin |-> p, scheme |-> Scheme(n), secret |-> s])
        /\ flash["notSet"] = Value(p = EmptyPin)
    BY <2>1 DEF Stored
  <2>3. flash["edek"][1].pin = p
    BY <2>2, SMTT(30) DEF Value
  <2>4. CASE p = EmptyPin
    <3>1. (p = EmptyPin) = TRUE
      BY <2>4
    <3>2. flash["notSet"] = Value(TRUE)
      BY <2>2, <3>1
    <3>3. Value(TRUE) # Value(FALSE)
      BY DEF Value
    <3> QED
      BY <2>3, <2>4, <3>2, <3>3 DEF HasPin
  <2>5. CASE p # EmptyPin
    <3>1. (p = EmptyPin) = FALSE
      BY <2>5
    <3>2. flash["notSet"] = Value(FALSE)
      BY <2>2, <3>1
    <3> QED
      BY <2>3, <2>5, <3>2 DEF HasPin
  <2> QED
    BY <2>4, <2>5
<1> QED
  BY <1>1, LosslessInvariance, PTL
===============================================================================
