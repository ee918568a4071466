----------------------- MODULE MCAnnotationProcessors -----------------------
(* Two compile units, one compiled against the other.                      *)
EXTENDS AnnotationProcessors, TLC

CONSTANTS base, app

MCDependsOn == [u \in Unit |-> IF u = app THEN {base} ELSE {}]

\* The second version of base does not compile, nor does the third of app.
MCBroken == {<<base, 2>>, <<app, 3>>}

MCSymmetry == Permutations(Server)
=============================================================================
