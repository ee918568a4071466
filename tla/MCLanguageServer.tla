-------------------------- MODULE MCLanguageServer --------------------------
(* One workspace folder or two, with a source in each. *)
EXTENDS LanguageServer, TLC
CONSTANTS r1, r2, u1, u2
OneRoot == u1 :> r1
TwoRoots == (u1 :> r1) @@ (u2 :> r2)
AllKinds == {"open", "change", "close", "save", "pull", "watched", "sync", "settings",
             "otherSettings", "files", "rebuildIndex", "clearWorkspaceCache", "cancel"}
=============================================================================
