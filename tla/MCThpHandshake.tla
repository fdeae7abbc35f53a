---------------------------- MODULE MCThpHandshake ----------------------------
(* Bounds for model-checking ThpHandshake.                                 *)
EXTENDS ThpHandshake

(* The first message of a host without piggybacking, or of any host.       *)
FirstWithout == [piggy \in BOOLEAN |-> IF piggy THEN {} ELSE AppMessage]
FirstAny == [piggy \in BOOLEAN |-> AppMessage]
===============================================================================
