-------------------------- MODULE MCSessionManager --------------------------
(* SessionManager with a few browsers, scopes, keys and items.             *)
EXTENDS SessionManager, TLC

Symmetry ==
    Permutations(Browser) \cup Permutations(Scope)
      \cup Permutations(Key) \cup Permutations(Item)
=============================================================================
