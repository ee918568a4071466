--------------------------- MODULE EffectivePoms ---------------------------
(***************************************************************************)
(* EffectiveModelBuilder and DependencyResolver::import_workspace of       *)
(* jman-resolver: how the POM files of a reactor and of the repositories   *)
(* become effective models, in which parents, properties, profiles and     *)
(* imported management have been applied.                                  *)
(*                                                                         *)
(* The algorithm is sequential (imported POMs are loaded concurrently and  *)
(* sorted again), so it is written as a function of the files.  A value of *)
(* a POM is a string; one that is in Property is a reference to it.  A     *)
(* coordinate is a name and a version.                                     *)
(***************************************************************************)
EXTENDS Naturals, Sequences, FiniteSets, SequencesExt, TLC

Property == {"p", "q", "project.version", "parent.version"}
Absent == ""
NoParent == <<Absent, Absent>>
Unbuilt == [ok |-> FALSE]
Rounds == 32

RECURSIVE Follow(_, _, _)
Follow(v, props, n) ==
    IF n > 0 /\ v \in DOMAIN props THEN Follow(props[v], props, n - 1) ELSE v

\* interpolate_loose: what a value refers to, or a reference that nothing defines.
Interpolated(v, props) == Follow(v, props, Rounds)
Unresolved(v) == v \in Property

\* An entry with its version interpolated.
Resolve(e, props) == [e EXCEPT !.version = Interpolated(@, props)]
At(e) == <<e.name, e.version>>

\* parse_project: a profile that the environment activates disables those that
\* are active by default; active profiles come after the rest of the POM.
Parsed(pom) ==
    LET chosen(when) == SelectSeq(pom.profiles, LAMBDA f : f.active = when)
        active == IF chosen("environment") # <<>> THEN chosen("environment")
                                                  ELSE chosen("default")
    IN  [pom EXCEPT
            !.props = FoldLeft(LAMBDA ps, f : f.props @@ ps, @, active),
            !.managed = @ \o FlattenSeq([k \in DOMAIN active |-> active[k].managed]),
            !.deps = @ \o FlattenSeq([k \in DOMAIN active |-> active[k].deps])]

------------------------------------------------------------------------------
(* DependencyCollection.                                                    *)

IndexFor(items, e) == SelectInSeq(items, LAMBDA x : x.name = e.name)

InsertIfAbsent(items, e) == IF IndexFor(items, e) = 0 THEN Append(items, e) ELSE items

\* A bug: what is inherited stays.
ReplaceNothing(items, e) == InsertIfAbsent(items, e)

Replace(items, e) ==
    IF IndexFor(items, e) = 0 THEN Append(items, e)
                              ELSE [items EXCEPT ![IndexFor(items, e)] = e]

\* apply_management
ApplyManagement(e, managed) ==
    IF IndexFor(managed, e) = 0 THEN e
    ELSE LET m == managed[IndexFor(managed, e)]
         IN  [e EXCEPT !.version = IF @ = Absent THEN m.version ELSE @,
                       !.scope = IF @ = Absent THEN m.scope ELSE @,
                       !.exclusions = @ \cup m.exclusions]

------------------------------------------------------------------------------
(* EffectiveModelBuilder.  memo is its cache, poms what repositories have.  *)

NothingInherited ==
    [ok |-> TRUE, at |-> NoParent, templates |-> <<>>, managed |-> <<>>, deps |-> <<>>,
     loaded |-> <<>>]

\* insert_project_properties
Properties(templates, version, parent) ==
    [p \in {"project.version"} |-> version]
        @@ (IF parent = NoParent THEN <<>> ELSE [p \in {"parent.version"} |-> parent[2]])
        @@ templates

RECURSIVE Build(_, _, _, _)

\* build_remote
Remote(at, memo, poms, stack) ==
    IF at \in DOMAIN memo THEN memo[at]
    ELSE IF at \in stack \/ at \notin DOMAIN poms THEN Unbuilt
    ELSE Build(Parsed(poms[at]), memo, poms, stack \cup {at})

\* build_raw, for a POM whose parent is the model `parent`.
Inherit(raw, parent, memo, poms, stack) ==
    LET declared == IF raw.version = Absent THEN parent.at[2] ELSE raw.version
        templates == raw.props @@ parent.templates
        version == Interpolated(declared, Properties(templates, declared, raw.parent))
        props == Properties(templates, version, raw.parent)
        entries == [k \in DOMAIN raw.managed |-> Resolve(raw.managed[k], props)]
        imports == SelectSeq(entries, LAMBDA e : e.scope = "import")
        direct == SelectSeq(entries, LAMBDA e : e.scope # "import")
        boms == [k \in DOMAIN imports |-> Remote(At(imports[k]), memo, poms, stack)]
        bomsFound == \A k \in DOMAIN boms : boms[k].ok
        imported == FoldLeft(InsertIfAbsent, <<>>,
                             FlattenSeq([k \in DOMAIN boms |-> boms[k].managed]))
        current == FoldLeft(Replace, imported, direct)
        managed == FoldLeft(Replace, parent.managed, current)
        own == [k \in DOMAIN raw.deps |-> Resolve(raw.deps[k], props)]
        deps == FoldLeft(Replace, parent.deps,
                         [k \in DOMAIN own |-> ApplyManagement(own[k], managed)])
        sources == {At(imports[k]) : k \in DOMAIN imports}
    IN  IF \/ version = Absent \/ Unresolved(version) \/ ~bomsFound
           \/ \E k \in DOMAIN own : Unresolved(own[k].version)
        THEN Unbuilt
        ELSE [ok |-> TRUE, at |-> <<raw.name, version>>, templates |-> templates,
              managed |-> managed, deps |-> deps,
              loaded |-> FoldLeft(LAMBDA l, k :
                                      (At(imports[k]) :> boms[k]) @@ boms[k].loaded @@ l,
                                  parent.loaded, [k \in DOMAIN imports |-> k])]

\* The parent's version may refer to properties of the POM itself only.
ParentOf(raw) ==
    IF raw.parent = NoParent THEN NoParent
    ELSE <<raw.parent[1], Interpolated(raw.parent[2], raw.props)>>

Build(raw, memo, poms, stack) ==
    LET at == ParentOf(raw)
        parent == IF at = NoParent THEN NothingInherited ELSE Remote(at, memo, poms, stack)
    IN  IF ~parent.ok THEN Unbuilt
        ELSE Inherit(raw, IF at = NoParent THEN parent
                          ELSE [parent EXCEPT !.loaded = (at :> parent) @@ @],
                     memo, poms, stack)

------------------------------------------------------------------------------
(* import_workspace: `files` are the POM files of the workspace by their    *)
(* path; module names lead to paths.                                        *)

RECURSIVE Discover(_, _, _, _, _)
Discover(pending, memo, projects, files, poms) ==
    IF pending = <<>> THEN [ok |-> TRUE, projects |-> projects]
    ELSE LET path == Head(pending)
             raw == Parsed(files[path])
             model == Build(raw, IF raw.relative THEN memo ELSE <<>>, poms, {})
             known == IF raw.relative THEN memo @@ model.loaded ELSE memo
         IN  IF \/ \E k \in DOMAIN projects : projects[k].path = path
                \/ ~model.ok
                \/ ~(ToSet(raw.modules) \subseteq DOMAIN files)
             THEN Unbuilt
             ELSE Discover(Tail(pending) \o raw.modules, (model.at :> model) @@ known,
                           Append(projects, [path |-> path, model |-> model]), files, poms)

ImportWorkspace(files, poms) == Discover(<<"root">>, <<>>, <<>>, files, poms)

==============================================================================
