------------------------------- MODULE MCStorage -------------------------------
(* PINs and entries for model-checking Storage.                            *)
EXTENDS Storage

CONSTANTS empty, p, q, none, seed

OnePin == {empty, p}
TwoPins == {empty, p, q}
OneItem == {seed}

(* Bit access (T2T1, T2B1) with an upgrade from version 4 or 5; block      *)
(* access (T3B1) with an upgrade from version 5.  Only the latter has a    *)
(* hardware key; from version 4 on bit access the scheme changes in any    *)
(* case, so that one value of HwKey serves both.                           *)
Bits(v, pins) ==
  [blockwise |-> FALSE, min |-> 0, old |-> v, pins |-> pins, losses |-> 1]
Blocks ==
  [blockwise |-> TRUE, min |-> 5, old |-> 5, pins |-> OnePin, losses |-> 1]
From5 == {Bits(5, OnePin)}
Bits4OrBlocks == {Bits(4, TwoPins), Blocks}

(* Copies that are complete, miss an entry written late, or break off at   *)
(* the EDEK.                                                               *)
SomeCopies ==
  {[whole |-> Keys, torn |-> {}],
   [whole |-> Keys \ {"logs"}, torn |-> {}],
   [whole |-> Keys \ {"edek", "notSet"}, torn |-> {"edek"}]}
===============================================================================
