-------------------------- MODULE MCEffectivePoms --------------------------
(* Reactors of a root and two modules, over four published POMs, and a     *)
(* definition of inheritance to compare their effective models with.       *)
EXTENDS EffectivePoms

Artifacts == {"x", "y"}

Entry(name, version) == [name |-> name, version |-> version, scope |-> Absent, exclusions |-> {}]
BomEntry(name, version) == [Entry(name, version) EXCEPT !.scope = "import"]
TestEntry(name, version) == [Entry(name, version) EXCEPT !.scope = "test", !.exclusions = {"z"}]

Plain(name, version, parent) ==
    [name |-> name, version |-> version, parent |-> parent, relative |-> TRUE, props |-> <<>>,
     managed |-> <<>>, deps |-> <<>>, profiles |-> <<>>, modules |-> <<>>]

P(v) == [p \in {"p"} |-> v]
Profile(active) ==
    [active |-> active, props |-> P("2"), managed |-> <<Entry("x", "9")>>, deps |-> <<>>]

PublishedPoms ==
    (<<"bom", "1">> :> [Plain("bom", "1", NoParent) EXCEPT
                            !.managed = <<Entry("x", "project.version"), Entry("y", "3")>>])
 @@ (<<"bom", "2">> :> [Plain("bom", Absent, <<"base", "2">>) EXCEPT
                            !.managed = <<Entry("x", "p")>>])
 @@ (<<"base", "2">> :> [Plain("base", "2", NoParent) EXCEPT
                            !.props = P("5"), !.deps = <<Entry("y", "p")>>,
                            !.managed = <<BomEntry("bom", "1")>>])
 @@ (<<"lib", "1">> :> [Plain("lib", "1", NoParent) EXCEPT
                            !.props = P("8"), !.managed = <<Entry("x", "6")>>])

RootPoms ==
    {[Plain("root", "1", NoParent) EXCEPT !.props = props, !.managed = managed, !.deps = deps,
                                          !.profiles = profiles, !.modules = modules] :
        props \in {P("1"), P("q") @@ [q \in {"q"} |-> "2"]},
        managed \in {<<>>, <<BomEntry("bom", "p"), BomEntry("bom", "1")>>,
                     <<TestEntry("x", "p"), BomEntry("bom", "1")>>},
        deps \in {<<>>, <<Entry("x", "7")>>},
        profiles \in {<<>>, <<Profile("default")>>, <<Profile("default"), Profile("environment")>>},
        modules \in {<<"lib", "app">>, <<"app", "lib">>}}

LibPoms ==
    {[Plain("lib", Absent, <<"root", "1">>) EXCEPT !.props = props, !.managed = managed] :
        props \in {<<>>, [q \in {"q"} |-> "1"]},
        managed \in {<<>>, <<BomEntry("bom", "p")>>, <<Entry("x", "4"), Entry("x", "parent.version")>>}}

\* An earlier release of lib is published, which an app that refuses the
\* reactor's, or comes first, inherits from.
AppPoms ==
    {[Plain("app", own.version, up.parent) EXCEPT !.relative = up.relative, !.deps = own.deps] :
        own \in {[version |-> Absent, deps |-> <<TestEntry("y", "p"), Entry("x", Absent)>>],
                 [version |-> "p", deps |-> <<Entry("x", Absent)>>]},
        up \in {[parent |-> <<"root", "1">>, relative |-> TRUE],
                [parent |-> <<"base", "2">>, relative |-> TRUE],
                [parent |-> <<"lib", "1">>, relative |-> TRUE],
                [parent |-> <<"lib", "1">>, relative |-> FALSE]}}

Reactors ==
    {[p \in {"root", "lib", "app"} |-> IF p = "root" THEN root ELSE IF p = "lib" THEN lib ELSE app] :
        root \in RootPoms, lib \in LibPoms, app \in AppPoms}

------------------------------------------------------------------------------
(* Reference: what inheritance means, one declaration at a time.  A lineage *)
(* is a POM, its parent and so on; `found` has the POM of each coordinate.  *)

RECURSIVE Lineage(_, _)
Lineage(raw, found) ==
    IF raw.parent = NoParent THEN <<raw>> ELSE <<raw>> \o Lineage(found[ParentOf(raw)], found)

RECURSIVE VersionAt(_, _)

Nearest(line, k, p) ==
    LET i == CHOOSE i \in k..Len(line) :
                 p \in DOMAIN line[i].props /\ \A j \in k..i-1 : p \notin DOMAIN line[j].props
    IN  line[i].props[p]

PropertiesAt(line, k, version) ==
    LET own == UNION {DOMAIN line[i].props : i \in k..Len(line)}
    IN  Properties([p \in own |-> Nearest(line, k, p)], version, line[k].parent)

VersionAt(line, k) ==
    IF line[k].version = Absent THEN VersionAt(line, k + 1)
    ELSE Interpolated(line[k].version, PropertiesAt(line, k, line[k].version))

EntryAt(line, k, e) == Resolve(e, PropertiesAt(line, k, VersionAt(line, k)))
NoEntry == [name |-> Absent]

\* The entry that manages `name` for the k-th of a lineage: its own last one,
\* or the one of the first of its imports that has one, or what its parent has.
RECURSIVE ManagedAt(_, _, _, _)
ManagedAt(line, k, found, name) ==
    IF k > Len(line) THEN NoEntry
    ELSE LET entries == line[k].managed
             direct == {i \in DOMAIN entries :
                           entries[i].scope # "import" /\ entries[i].name = name}
             Bom(i) == ManagedAt(Lineage(found[At(EntryAt(line, k, entries[i]))], found),
                                 1, found, name)
             imports == {i \in DOMAIN entries : entries[i].scope = "import" /\ Bom(i) # NoEntry}
         IN  IF direct # {}
             THEN EntryAt(line, k, entries[CHOOSE i \in direct : \A j \in direct : j <= i])
             ELSE IF imports # {} THEN Bom(CHOOSE i \in imports : \A j \in imports : i <= j)
             ELSE ManagedAt(line, k + 1, found, name)

\* The dependency on `name` is the nearest one that is declared, completed by
\* the management of the POM that declares it.
RECURSIVE DependencyAt(_, _, _, _)
DependencyAt(line, k, found, name) ==
    IF k > Len(line) THEN NoEntry
    ELSE LET here == {i \in DOMAIN line[k].deps : line[k].deps[i].name = name}
             d == EntryAt(line, k, line[k].deps[CHOOSE i \in here : \A j \in here : j <= i])
             m == ManagedAt(line, k, found, name)
         IN  IF here = {} THEN DependencyAt(line, k + 1, found, name)
             ELSE ApplyManagement(d, IF m = NoEntry THEN <<>> ELSE <<m>>)

Has(items, name, e) ==
    {items[i] : i \in {i \in DOMAIN items : items[i].name = name}}
        = IF e = NoEntry THEN {} ELSE {e}

\* The POMs that the k-th project of an import finds: those of the projects
\* before it, unless it refuses the reactor's, and the published ones.
FoundBy(files, projects, k) ==
    LET published == [at \in DOMAIN PublishedPoms |-> Parsed(PublishedPoms[at])]
        before == 1..k-1
        local == [at \in {projects[j].model.at : j \in before} |->
                     Parsed(files[projects[CHOOSE j \in before : projects[j].model.at = at].path])]
    IN  IF Parsed(files[projects[k].path]).relative THEN local @@ published ELSE published

ModelIsNearest(model, line, found) ==
    \A name \in Artifacts :
        /\ Has(model.managed, name, ManagedAt(line, 1, found, name))
        /\ Has(model.deps, name, DependencyAt(line, 1, found, name))

ProjectIsNearest(model, raw, found) == ModelIsNearest(model, Lineage(raw, found), found)

ProjectsAreNearest(files, projects) ==
    \A k \in DOMAIN projects :
        ProjectIsNearest(projects[k].model, Parsed(files[projects[k].path]),
                         FoundBy(files, projects, k))

\* What EffectiveIsNearest of MCDependencies says of one reactor.
ImportIsNearest(files, import) == import.ok => ProjectsAreNearest(files, import.projects)
IsNearest(files) == ImportIsNearest(files, ImportWorkspace(files, PublishedPoms))
===========================================================================
