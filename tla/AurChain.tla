------------------------------- MODULE AurChain -------------------------------
(***************************************************************************)
(* What one command builds from the AUR and in which order: the packages   *)
(* a recipe needs that no repository has are built first, each by a call   *)
(* of its own.  A need that an ancestor of the call chain builds as a      *)
(* split sibling is met by building that ancestor's recipe early, without  *)
(* makepkg's checks, and installing the sibling alone.  Every dependency   *)
(* graph over Packages and every way to split them into recipes is a case. *)
(* What the command built is installed, so that asking the host covers     *)
(* the list of what was built.                                             *)
(***************************************************************************)
EXTENDS Naturals, FiniteSets, Sequences, SequencesExt

CONSTANTS
    Packages,     \* names the AUR builds and no repository has
    Requested,    \* the package the command is for
    MaxNeeds,     \* bound: how many needs there are, and packages installed at first
    MaxAurDepth   \* chains deeper than this are refused

ASSUME ChainAssumption == Requested \in Packages /\ MaxAurDepth \in Nat

VARIABLES
    recipes,      \* what builds what, and what it needs
    installed,    \* of each package: version 0 absent, 1 old, 2 the AUR's
    calls,        \* the chain of builds, the innermost last
    outcome       \* of the command

chainVars == <<recipes, installed, calls, outcome>>

(* Every way to split the packages into recipes.                           *)
Splits == {{{m \in Packages : base[m] = base[n]} : n \in Packages} :
              base \in [Packages -> Packages]}

Absent == [version |-> 0, explicit |-> FALSE]

ChainType ==
    /\ recipes \in [outputs : Splits, depends : [Packages -> SUBSET Packages],
                    makedepends : [Packages -> SUBSET Packages]]
    /\ installed \in [Packages -> [version : 0..2, explicit : BOOLEAN]]
    /\ calls \in Seq([pkgname : Packages, early : BOOLEAN, want : Packages,
                      missing : SUBSET Packages])
    /\ Len(calls) <= MaxAurDepth + 1
    /\ outcome \in {"running", "installed", "refused"}

Current == {n \in Packages : installed[n].version = 2}

(* What nobody needs plays no part.                                        *)
Relevant(n) == n = Requested \/ \E m \in Packages : n \in recipes.depends[m] \cup recipes.makedepends[m]

(* A need is of a package, at run time or to build it.                     *)
Need == {e \in Packages \X Packages \X BOOLEAN : e[1] # e[2]}
UpTo(k, S) == {UNION {f[i] : i \in 1..k} : f \in [1..k -> {{}} \cup {{e} : e \in S}]}

(* Recipes with these needs, split in some way.                            *)
RecipesOf(needs) ==
    [outputs : Splits,
     depends : {[n \in Packages |-> {m \in Packages : <<n, m, TRUE>> \in needs}]},
     makedepends : {[n \in Packages |-> {m \in Packages : <<n, m, FALSE>> \in needs}]}]

ChainInit ==
    /\ \E needs \in UpTo(MaxNeeds, Need), there \in UpTo(1, Packages) :
          /\ Cardinality(needs) + Cardinality(there) <= MaxNeeds
          /\ recipes \in RecipesOf(needs)
          /\ \E was \in [version : 1..2, explicit : BOOLEAN] :
                installed = [n \in Packages |-> IF n \in there THEN was ELSE Absent]
    /\ \A n \in Packages : ~Relevant(n) =>
          installed[n].version = 0 /\ {n} \in recipes.outputs
          /\ recipes.depends[n] = {} /\ recipes.makedepends[n] = {}
    /\ \A n \in Current : recipes.depends[n] \subseteq Current
    /\ Requested \notin Current
    /\ calls = <<>>
    /\ outcome = "running"

-----------------------------------------------------------------------------
(* Recipes.                                                                *)

(* AncestorOutputs: what the recipe of a package builds.                   *)
Outputs(n) == CHOOSE S \in recipes.outputs : n \in S

Needs(n) == UNION {recipes.depends[m] \cup recipes.makedepends[m] : m \in Outputs(n)}

(* missing_deps: what is neither built along nor installed.                *)
MissingDeps(n) == (Needs(n) \ Outputs(n)) \ Current

DirectlySelected(n) == {n} \cup (Outputs(n) \cap recipes.depends[n])

(* install_built: the package and, transitively, the siblings it needs:    *)
(* the least set of outputs that holds it and what its members depend on.  *)
HoldsSiblings(S, n) == \A m \in S : Outputs(n) \cap recipes.depends[m] \subseteq S
SelectedOutputs(n) ==
    {m \in Outputs(n) : \A S \in SUBSET Outputs(n) :
                           n \in S /\ HoldsSiblings(S, n) => m \in S}

-----------------------------------------------------------------------------
(* The chain.                                                              *)

Call(n, early, want, missing) ==
    calls' = Append(calls, [pkgname |-> n, early |-> early, want |-> want,
                            missing |-> missing])

BeginChain ==
    /\ outcome = "running" /\ calls = <<>>
    /\ Call(Requested, FALSE, Requested, MissingDeps(Requested))
    /\ UNCHANGED <<recipes, installed, outcome>>

Refuse == outcome' = "refused" /\ calls' = <<>> /\ UNCHANGED <<recipes, installed>>

Innermost == Last(calls)

(* A package that is not approved, not on the AUR or too old for what      *)
(* needs it, a failing build or repository transaction, a clean chroot     *)
(* that lacks anything, and a chain that is too deep end the command.      *)
Fails == outcome = "running" /\ calls # <<>> /\ Refuse

Descending == calls # <<>> /\ Innermost.missing # {} /\ Len(calls) <= MaxAurDepth

(* It was built for another need in the meantime.                          *)
Drop(dep) ==
    /\ Descending /\ dep \in Innermost.missing \cap Current
    /\ calls' = [calls EXCEPT ![Len(calls)].missing = @ \ {dep}]
    /\ UNCHANGED <<recipes, installed, outcome>>

Ancestors(dep) == {i \in 1..Len(calls) : dep \in Outputs(calls[i].pkgname)}
FirstAncestor(dep) == CHOOSE i \in Ancestors(dep) : \A j \in Ancestors(dep) : i <= j

Unmet(dep) == Descending /\ dep \in Innermost.missing \ Current

Cycle(dep) ==
    /\ Unmet(dep) /\ Ancestors(dep) # {} /\ calls[FirstAncestor(dep)].pkgname = dep
    /\ Refuse

(* The descendants whose sibling this is for need not be there.            *)
Descendants(i) == UNION {Outputs(calls[j].pkgname) : j \in (i + 1)..Len(calls)}

Bootstrap(dep) ==
    /\ Unmet(dep) /\ Ancestors(dep) # {} /\ calls[FirstAncestor(dep)].pkgname # dep
    /\ LET n == calls[FirstAncestor(dep)].pkgname
       IN  Call(n, TRUE, dep, MissingDeps(n) \ Descendants(FirstAncestor(dep)))
    /\ UNCHANGED <<recipes, installed, outcome>>

BuildDependency(dep) ==
    /\ Unmet(dep) /\ Ancestors(dep) = {}
    /\ Call(dep, FALSE, dep, MissingDeps(dep))
    /\ UNCHANGED <<recipes, installed, outcome>>

-----------------------------------------------------------------------------
(* A build with all it needs, and the installation of what it is for.      *)

Return ==
    /\ calls' = Front(calls)
    /\ outcome' = IF Len(calls) = 1 THEN "installed" ELSE outcome

(* What is explicit stays so; what is requested becomes it.                *)
Explicit(files, asked) == {f \in files : installed[f].explicit \/ f \in asked}

(* pacman -U installs files whose dependencies are there or among them.    *)
Installable(files, there) == \A f \in files : recipes.depends[f] \subseteq there \cup files

With(files, explicit) == [n \in Packages |->
    IF n \in files THEN [version |-> 2, explicit |-> n \in explicit] ELSE installed[n]]

(* Dependencies are installed first, what is explicit by a pacman of its   *)
(* own after them; the first may have succeeded when the second fails.     *)
InstallSelected(files, asked) ==
    LET explicit == Explicit(files, asked)
        deps == files \ explicit
    IN  IF ~Installable(deps, Current) THEN Refuse
        ELSE IF ~Installable(explicit, Current \cup deps)
        THEN /\ installed' = With(deps, {})
             /\ outcome' = "refused" /\ calls' = <<>> /\ UNCHANGED recipes
        ELSE installed' = With(files, explicit) /\ Return /\ UNCHANGED recipes

Build ==
    /\ calls # <<>> /\ Innermost.missing = {} /\ ~Innermost.early
    /\ Needs(Innermost.pkgname) \ Outputs(Innermost.pkgname) \subseteq Current
    /\ \E asked \in IF Len(calls) = 1 THEN {{}, {Requested}} ELSE {{}} :   \* --asdeps
          InstallSelected(SelectedOutputs(Innermost.pkgname), asked)

BuildEarly ==
    /\ calls # <<>> /\ Innermost.missing = {} /\ Innermost.early
    /\ InstallSelected({Innermost.want}, {})

ChainNext ==
    \/ BeginChain \/ Fails \/ Build \/ BuildEarly
    \/ \E dep \in Packages : Drop(dep) \/ Cycle(dep) \/ Bootstrap(dep) \/ BuildDependency(dep)

-----------------------------------------------------------------------------
(* When nothing of a call is missing any more, its recipe has all it needs *)
(* to be built, and what is then selected of its outputs has all it needs  *)
(* to be installed (aur_cmd.rs build_aur_chain, install_built).            *)
BuildsAreComplete ==
    calls # <<>> /\ Innermost.missing = {} /\ ~Innermost.early =>
        LET n == Innermost.pkgname
        IN  /\ Needs(n) \ Outputs(n) \subseteq Current
            /\ Installable(SelectedOutputs(n), Current)
=============================================================================
