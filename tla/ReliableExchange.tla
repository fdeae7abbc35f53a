--------------------------- MODULE ReliableExchange ---------------------------
(***************************************************************************)
(* What a THP channel promises its application: in each direction the      *)
(* messages submitted are delivered once each and in order, and a message  *)
(* is confirmed to its sender only after it was delivered.  A sender has   *)
(* at most one unconfirmed message (stop and wait).                        *)
(*                                                                         *)
(* submitted[p], delivered[p] and confirmed[p] count the messages that p   *)
(* submitted, that p's peer picked up, and whose delivery p was told of.   *)
(***************************************************************************)
EXTENDS Naturals

CONSTANT Peer

VARIABLES submitted, delivered, confirmed

vars == <<submitted, delivered, confirmed>>

Init ==
  /\ submitted = [p \in Peer |-> 0]
  /\ delivered = [p \in Peer |-> 0]
  /\ confirmed = [p \in Peer |-> 0]

Submit(p) ==
  /\ submitted[p] = confirmed[p]
  /\ submitted' = [submitted EXCEPT ![p] = @ + 1]
  /\ UNCHANGED <<delivered, confirmed>>

Deliver(p) ==
  /\ delivered[p] < submitted[p]
  /\ delivered' = [delivered EXCEPT ![p] = @ + 1]
  /\ UNCHANGED <<submitted, confirmed>>

Confirm(p) ==
  /\ confirmed[p] < delivered[p]
  /\ confirmed' = [confirmed EXCEPT ![p] = @ + 1]
  /\ UNCHANGED <<submitted, delivered>>

Next == \E p \in Peer : Submit(p) \/ Deliver(p) \/ Confirm(p)

Spec == Init /\ [][Next]_vars
===============================================================================
