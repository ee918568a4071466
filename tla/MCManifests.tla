---------------------------- MODULE MCManifests ----------------------------
(* A root and one module that it depends on; an editor's process that runs *)
(* every command, and another that synchronizes.                           *)
EXTENDS Manifests, TLC
CONSTANTS root, lib, main, other
RootAndLib == <<root, lib>>
UsesLib == (root :> {root, lib}) @@ (lib :> {lib})
AllAndSync == (main :> Kinds) @@ (other :> {"sync"})
=============================================================================
