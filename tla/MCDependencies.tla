--------------------------- MODULE MCDependencies ---------------------------
(* Three kinds of situations.  Mediated: one module over POMs with conflicts,  *)
(* cycles, exclusions and relocations.  Shared: two modules of one import    *)
(* over a repository that changes, with failures and another process.        *)
(* Reactor: the files of a Maven workspace, of which effective POMs are made *)
(* before anything is resolved.                                              *)
EXTENDS Dependencies, MCEffectivePoms
CONSTANTS app, tool

a1 == [name |-> "a", version |-> 1]
b1 == [name |-> "b", version |-> 1]
b2 == [name |-> "b", version |-> 2]
c1 == [name |-> "c", version |-> 1]
c2 == [name |-> "c", version |-> 2]
Coordinates == {a1, b1, b2, c1, c2}

Dep(c, scope) == [to |-> c, scope |-> scope, optional |-> FALSE, exclusions |-> {}]
Without(d, name) == [d EXCEPT !.exclusions = {name}]
Optional(d) == [d EXCEPT !.optional = TRUE]
Deps(s) == [deps |-> s, moved |-> Nowhere]
Moved(c, s) == [deps |-> s, moved |-> c]
Both(pom) == <<pom, pom>>
Nothing == [r \in 1..Repositories |-> [p \in Path |-> None]]

PomsOfA == {Deps(<<Dep(b1, "compile")>>), Deps(<<Dep(c1, "runtime"), Dep(b1, "compile")>>),
            Deps(<<Without(Dep(b1, "compile"), "c")>>),
            Deps(<<Dep(b1, "runtime"), Optional(Dep(c1, "compile"))>>)}
PomsOfB1 == {Deps(<<Dep(c1, "compile")>>), Moved(c1, <<>>), Moved(b1, <<Dep(c1, "compile")>>)}
PomsOfB2 == {Deps(<<Dep(c2, "compile")>>), Deps(<<Dep(a1, "compile")>>)}
PomsOfC1 == {Deps(<<>>), Moved(c2, <<>>)}
PomsOfC2 == {Deps(<<>>), Deps(<<Dep(a1, "runtime")>>)}

Firsts == {Dep(a1, "compile"), Dep(a1, "test"), Without(Dep(a1, "compile"), "c")}
Seconds == {Dep(b2, "compile"), Dep(b2, "test"), Dep(b2, "provided"), Dep(c1, "runtime"),
            Dep(a1, "processor")}
Roots == {<<x>> : x \in Firsts} \cup {<<x, y>> : x \in Firsts, y \in Seconds}
           \cup {<<y, x>> : x \in Firsts, y \in Seconds}
Management == {{}, {Dep(b2, "unstated")}}

Everything == [Nothing EXCEPT ![2] = [p \in Path |-> IF p[2] = "pom" THEN 1 ELSE None]]

Mediated ==
  {[modules |-> {app}, poms |-> (a1 :> Both(pa)) @@ (b1 :> Both(pb1)) @@ (b2 :> Both(pb2))
                                @@ (c1 :> Both(pc1)) @@ (c2 :> Both(pc2)),
    local |-> {}, pomTyped |-> {"a", "b", "c"}, roots |-> (app :> roots) @@ (tool :> <<>>),
    managed |-> (app :> managed) @@ (tool :> {}), offline |-> FALSE, remote |-> Everything,
    disk |-> Nothing, mishaps |-> 0, kinds |-> {}, files |-> <<>>] :
   pa \in PomsOfA, pb1 \in PomsOfB1, pb2 \in PomsOfB2, pc1 \in PomsOfC1, pc2 \in PomsOfC2,
   roots \in Roots, managed \in Management}

\* One edition of a needs b, the other does not.  c is a module of the workspace.
\* Repository 1 is a directory: it is read offline, too, where it has b.
Leaf == Deps(<<>>)
Needy == Deps(<<Dep(b1, "compile")>>)
SharedPoms(first, second) ==
              (a1 :> <<first, second>>) @@ (b1 :> Both(Deps(<<>>)))
                @@ (b2 :> Both(Deps(<<>>))) @@ (c1 :> Both(Deps(<<Dep(a1, "compile")>>)))
                @@ (c2 :> Both(Deps(<<>>)))
Published == [Nothing EXCEPT ![2] = [p \in Path |-> IF p \in {Pom(a1), Jar(a1), Pom(b1)}
                                                     THEN 1 ELSE None]]

Import(first, editions, cached, unconnected, kinds, faults) ==
  [modules |-> {app, tool}, poms |-> SharedPoms(editions[1], editions[2]), local |-> {c1}, pomTyped |-> {"b"},
   roots |-> (app :> <<Dep(first, "compile")>>) @@ (tool :> <<Dep(a1, "compile")>>),
   managed |-> (app :> {}) @@ (tool :> {}), offline |-> unconnected,
   remote |-> Published, disk |-> cached, mishaps |-> faults, kinds |-> kinds,
   files |-> <<>>]

Shared == {Import(a1, <<Leaf, Needy>>, Nothing, FALSE, {"change"}, 2),
           Import(c1, <<Needy, Leaf>>, Nothing, FALSE, {"failure", "kill"}, 1),
           Import(c1, <<Needy, Leaf>>, Published, FALSE, {"change"}, 1),
           Import(c1, <<Needy, Leaf>>, Published, TRUE, {"kill"}, 1),
           [Import(c1, <<Needy, Leaf>>, Published, TRUE, {"failure", "kill"}, 1)
              EXCEPT !.remote[1][Pom(b1)] = 1, !.disk[2][Pom(b1)] = None]}

Reactor ==
  {[Import(a1, <<Leaf, Leaf>>, Nothing, TRUE, {}, 0) EXCEPT !.modules = {}, !.files = files] :
      files \in Reactors}

Situations == Mediated \cup Shared \cup Reactor

\* "dependency management and ordered BOM imports", "local-reactor and
\* repository parents" (docs/product-contract.md:30-31): an imported project
\* has, for every artifact, the management and the dependency of the nearest
\* POM of its lineage that says something about it, once.
EffectiveIsNearest == project.files # <<>> => IsNearest(project.files)
=============================================================================
