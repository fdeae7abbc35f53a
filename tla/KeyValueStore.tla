---------------------------- MODULE KeyValueStore ----------------------------
(***************************************************************************)
(* What NORCOW promises the storage layer above it: a map from keys to     *)
(* values that one operation at a time changes, and that a power loss      *)
(* changes only in the entries that were at stake.                         *)
(*                                                                         *)
(* store is the map as the last finished operation left it, at the set of  *)
(* keys the current operation (or the one a power loss cut short) may      *)
(* change, and wanted the value it is to give them.                        *)
(***************************************************************************)
CONSTANTS Keys, Stored, NoValue

VARIABLES store, at, wanted, up

vars == <<store, at, wanted, up>>

Init ==
  /\ store = [k \in Keys |-> NoValue]
  /\ at = {}
  /\ wanted = NoValue
  /\ up = TRUE

Begin(S) ==
  /\ up
  /\ at = {}
  /\ at' = S
  /\ wanted' \in Stored
  /\ UNCHANGED <<store, up>>

Assigned(v) == [k \in Keys |-> IF k \in at THEN v ELSE store[k]]

(* Either the operation succeeds, or its key is left without a value.      *)
Complete ==
  /\ up
  /\ store' \in {Assigned(wanted), Assigned(NoValue)}
  /\ at' = {}
  /\ wanted' = NoValue
  /\ UNCHANGED up

(* Power may be lost in the middle of an operation, and again while the    *)
(* device starts.  At some moments it puts the whole map at stake.         *)
PowerLoss ==
  /\ up' = FALSE
  /\ at' \in {at, Keys}
  /\ wanted' = NoValue
  /\ UNCHANGED store

(* Starting may itself change entries: a new firmware marks the storage as *)
(* upgraded, an older one erases it.                                       *)
Repair(S) ==
  /\ ~up
  /\ at' = at \cup S
  /\ UNCHANGED <<store, wanted, up>>

Restart ==
  /\ ~up
  /\ up' = TRUE
  /\ store' \in [Keys -> Stored]
  /\ \A k \in Keys \ at : store'[k] = store[k]
  /\ at' = {}
  /\ UNCHANGED wanted

Next ==
  \/ \E k \in Keys : Begin({k})
  \/ Begin(Keys) /\ wanted' = NoValue
  \/ Complete
  \/ PowerLoss
  \/ \E k \in Keys : Repair({k})
  \/ Repair(Keys)
  \/ Restart

Spec == Init /\ [][Next]_vars
===============================================================================
