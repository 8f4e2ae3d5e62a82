------------------------- MODULE MCSessionLifetime -------------------------
(* A small instance of SessionLifetime. *)
EXTENDS SessionLifetime

\* A chain of three, of which the last is like the first.
ChainKeys == {1, 2, 3}
ChainTags == {"conv", "dense"}
ChainTag == [k \in ChainKeys |-> IF k = 2 THEN "dense" ELSE "conv"]
ChainSucc == [k \in ChainKeys |-> {k + 1} \cap ChainKeys]
ChainCallOrder == <<1, 2, 3>>
=============================================================================
