---------------------------- MODULE MCTestRuns ----------------------------
(***************************************************************************)
(* Instances of TestRuns for TLC: "app" has unit and integration tests     *)
(* that use "kit", and "kit" needs "base", where the instance has it, when *)
(* it runs.  No production code compiles against another module: only the  *)
(* scopes that tests follow bring "kit" and "base" to the tests of "app".  *)
(***************************************************************************)
EXTENDS TestRuns, TLC

CONSTANTS base, kit, app

Needs == base :> {} @@ kit :> {base} @@ app :> {kit}
MCDeps == [m \in Module |-> Needs[m] \cap Module]
MCCompileDeps == [m \in Module |-> {}]
MCSourceSet == {"unit", "integration"}
MCInitialTests ==
    [m \in Module |-> [s \in MCSourceSet |-> IF m = app THEN 1 ELSE 0]]
MCRequests ==
    {[modules |-> Module, sets |-> MCSourceSet],
     [modules |-> {app}, sets |-> {"unit"}]}
===========================================================================
