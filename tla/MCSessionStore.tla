--------------------------- MODULE MCSessionStore ---------------------------
(* SessionStore on a small instance: expiration limits per type.           *)
EXTENDS SessionStore, TLC

CONSTANTS SlidingLimit, AbsoluteLimit

MCSliding == [t \in Type |-> SlidingLimit]
MCAbsolute == [t \in Type |-> AbsoluteLimit]

Symmetry == Permutations(Call) \cup Permutations(Key) \cup Permutations(Value)
=============================================================================
