--------------------------- MODULE MCSessionState ---------------------------
(* SessionState on a small instance.                                       *)
EXTENDS SessionState, TLC

Symmetry == Permutations(Scope) \cup Permutations(Obj) \cup Permutations(Call)
            \cup Permutations(Key)
=============================================================================
