----------------------------- MODULE MCThpChannel -----------------------------
(* Bounds for model-checking ThpChannel.                                   *)
EXTENDS ThpChannel

Messages(h, d) == [p \in Peer |-> IF p = "host" THEN h ELSE d]
Msgs11 == Messages(1, 1)
Msgs21 == Messages(2, 1)
Msgs22 == Messages(2, 2)
Msgs31 == Messages(3, 1)
===============================================================================
