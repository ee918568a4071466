------------------------- MODULE MCWorkspaceBuild -------------------------
(***************************************************************************)
(* An instance of WorkspaceBuild for TLC.  "base" and "side" share the    *)
(* first layer; "app" compiles against "base" and only tests against       *)
(* "side".                                                                 *)
(***************************************************************************)
EXTENDS WorkspaceBuild, TLC

CONSTANTS base, side, app

MCDeps == base :> {} @@ side :> {} @@ app :> {base, side}
MCCompileDeps == base :> {} @@ side :> {} @@ app :> {base}
===========================================================================
