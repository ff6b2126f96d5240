----------------------------- MODULE MCPublish ------------------------------
(* Publish with a library and a project that references it.                *)
EXTENDS Publish, TopologicalSorter, TLC

CONSTANTS lib, app

MCDep == (lib :> {}) @@ (app :> {lib})
MCOrder == Sort(<<app, lib>>, (lib :> <<>>) @@ (app :> <<lib>>))

Symmetry == Permutations(Job) \cup Permutations(Content)
=============================================================================
