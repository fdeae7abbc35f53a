------------------------------- MODULE MCNorcow -------------------------------
(* Devices for model-checking Norcow.                                      *)
EXTENDS Norcow

CONSTANTS a, upgraded

TwoKeys == {a, upgraded}
False2 == <<0, 1>>
True2 == <<1, 0>>

Device(blockwise, size, forA, forUpgraded, latest, power) ==
  [blockwise |-> blockwise, size |-> size, firmware |-> latest, losses |-> power,
   values |-> [k \in TwoKeys |-> IF k = a THEN forA ELSE forUpgraded]]

(* Flash with bit access and one firmware, to which both keys are ordinary *)
(* ones: a value that clears a bit of the other one in place, values that  *)
(* cannot be updated in place, and values of two lengths.                  *)
Bits == Device(FALSE, 5, {<<1, 0>>, <<0, 1>>, <<0>>}, {<<1>>, <<0, 0>>}, 1, 2)

(* Flash with block access and two firmwares: an ordinary key beside the   *)
(* mark of an upgraded storage, which check_storage_version resets.        *)
ShortBlocks == Device(TRUE, 8, {<<1>>, <<0>>}, {False2}, 2, 1)
LongBlocks == Device(TRUE, 9, {<<1, 0>>, <<0, 1>>}, {False2}, 2, 1)

BitsOrBlocks == <<Bits, ShortBlocks, LongBlocks>>
SmallDevices == <<Bits, Device(TRUE, 4, {<<0>>}, {False2}, 2, 1)>>
FullBits == <<Device(FALSE, 8, {<<1, 0>>, <<0>>}, {False2}, 2, 0)>>
===============================================================================
