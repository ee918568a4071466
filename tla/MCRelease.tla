----------------------------- MODULE MCRelease -----------------------------
(***************************************************************************)
(* One module.  Either one process builds once and publishes twice, so     *)
(* that a publication meets what an earlier one has left, or one publishes *)
(* while another builds.                                                   *)
(***************************************************************************)
EXTENDS Release, TLC
CONSTANTS app
AllThree == <<"thin", "sources", "javadoc">>
OnlyApp == <<app>>
NoUpstream == app :> {}
Runs(b, p) == [build |-> b, publish |-> p]
AtOnce == {1 :> Runs(0, 1) @@ 2 :> Runs(1, 0)}
AloneOrAtOnce == {1 :> Runs(1, 2) @@ 2 :> Runs(0, 0)} \cup AtOnce
ThinWithSources == {<<"thin", "sources">>}
=============================================================================
