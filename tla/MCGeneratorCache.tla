------------------------- MODULE MCGeneratorCache -------------------------
(***************************************************************************)
(* An instance of GeneratorCache for TLC: the generator "client" depends   *)
(* on the generator "schema".                                              *)
(***************************************************************************)
EXTENDS GeneratorCache, TLC

CONSTANTS schema, client

MCDependsOn == schema :> {} @@ client :> {schema}
===========================================================================
