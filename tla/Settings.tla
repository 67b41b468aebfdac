-------------------------------- MODULE Settings --------------------------------
(***************************************************************************)
(* How the layers of pacvamp.toml and the managed files add up to the      *)
(* settings of a command.  Files are read one after the other; one that    *)
(* sets several things stands for several that set one each.  A setting    *)
(* stands for those with its combinator: "mode" for the ranked ones that   *)
(* paranoid hardens, "age" for the ages and votes, "jail" and "chroot" for *)
(* the flags with and without hardening, "limit" for the build limits.  A  *)
(* managed file replaces the weight of a reviewer, which also stands for   *)
(* the image and cgroup roots, and the list of exclusions from the age.    *)
(***************************************************************************)
EXTENDS Naturals, FiniteSets

CONSTANTS
    MaxRank,      \* the strictest value
    Grantees      \* packages to grant network to, or exclude from the age

ASSUME SettingsAssumption == MaxRank \in Nat

VARIABLES
    settings,     \* the settings so far, and which files are being read
    floor         \* history: the strictest the managed files said, and all
                  \* they said of what they replace

settingsVars == <<settings, floor>>

(* Larger is stricter, but for the limit.                                  *)
Ranked == {"mode", "age", "jail", "chroot", "paranoid"}
Hardened == {"mode", "jail"}
Ranks == 0..MaxRank

SettingsType ==
    /\ settings \in [reading : {"layers", "managed", "done"}, rank : [Ranked -> Ranks],
                     limit : Ranks, weight : Ranks, grants : SUBSET Grantees,
                     excluded : SUBSET Grantees]
    /\ floor \in [rank : [Ranked -> Ranks], limit : Ranks, denied : SUBSET Grantees,
                  weights : SUBSET Ranks, lists : SUBSET SUBSET Grantees]

SettingsInit ==
    /\ settings \in [reading : {"layers"}, rank : [Ranked -> {0}], limit : Ranks,
                     weight : Ranks, grants : {{}}, excluded : {{}}]
    /\ floor = [rank |-> [f \in Ranked |-> 0], limit |-> MaxRank, denied |-> {},
                weights |-> {}, lists |-> {}]

Larger(m, n) == IF m < n THEN n ELSE m
Smaller(m, n) == IF m < n THEN m ELSE n
On(s) == s.rank["paranoid"] # 0

(* harden: what paranoid means.                                            *)
Harden(s) == [s EXCEPT !.grants = {},
                       !.rank = [f \in Ranked |-> IF f \in Hardened THEN MaxRank ELSE @[f]]]

HardenedIfParanoid(s) == IF On(s) THEN Harden(s) ELSE s

(* Settings::merge: what a layer says replaces what lower ones said, and   *)
(* lists grow.                                                             *)
ReadLayer ==
    /\ settings.reading = "layers"
    /\ \/ \E f \in Ranked, v \in Ranks : settings' = [settings EXCEPT !.rank[f] = v]
       \/ \E v \in Ranks : settings' = [settings EXCEPT !.limit = v]
       \/ \E p \in Grantees : settings' = [settings EXCEPT !.grants = @ \cup {p}]
       \/ \E p \in Grantees : settings' = [settings EXCEPT !.excluded = @ \cup {p}]
       \/ \E v \in Ranks : settings' = [settings EXCEPT !.weight = v]
    /\ UNCHANGED floor

LayersEnd ==
    /\ settings.reading = "layers"
    /\ settings' = [settings EXCEPT !.reading = "managed"]
    /\ UNCHANGED floor

Floored(mine, managed) == Larger(mine, managed)

(* Limits::merge.                                                          *)
Limited(mine, managed) == Smaller(mine, managed)

(* Settings::apply_managed.                                                *)
ApplyManaged(s) == settings' = HardenedIfParanoid(s)

ReadManaged ==
    /\ settings.reading = "managed"
    /\ \/ \E f \in Ranked, v \in Ranks :
             /\ ApplyManaged([settings EXCEPT !.rank[f] = Floored(@, v)])
             /\ floor' = [floor EXCEPT !.rank[f] = Larger(@, v)]
       \/ \E v \in Ranks :
             /\ ApplyManaged([settings EXCEPT !.limit = Limited(@, v)])
             /\ floor' = [floor EXCEPT !.limit = Smaller(@, v)]
       \/ \E p \in Grantees :
             /\ ApplyManaged([settings EXCEPT !.grants = @ \ {p}])
             /\ floor' = [floor EXCEPT !.denied = @ \cup {p}]
       \/ \E v \in Ranks :
             /\ ApplyManaged([settings EXCEPT !.weight = v])
             /\ floor' = [floor EXCEPT !.weights = @ \cup {v}]
       \/ \E list \in SUBSET Grantees :
             /\ ApplyManaged([settings EXCEPT !.excluded = list])
             /\ floor' = [floor EXCEPT !.lists = @ \cup {list}]

(* The last managed file is followed by harden, too.                       *)
ManagedEnd ==
    /\ settings.reading = "managed"
    /\ settings' = [HardenedIfParanoid(settings) EXCEPT !.reading = "done"]
    /\ UNCHANGED floor

SettingsNext == ReadLayer \/ LayersEnd \/ ReadManaged \/ ManagedEnd

-----------------------------------------------------------------------------
(* Whatever the layers say, and in whatever order managed files come, no   *)
(* command runs with less than any of them asks for of what they can only  *)
(* tighten, and what they replace is as one of them has it, never a layer; *)
(* paranoid, whoever asked for it last, leaves no soft gate                *)
(* (docs/configuration.md, Managed policy).                                *)
FloorHolds == settings.reading = "done" =>
    /\ \A f \in Ranked : settings.rank[f] >= floor.rank[f]
    /\ settings.limit <= floor.limit
    /\ settings.grants \cap floor.denied = {}
    /\ floor.weights # {} => settings.weight \in floor.weights
    /\ floor.lists # {} => settings.excluded \in floor.lists
    /\ On(settings) => settings.grants = {} /\ \A f \in Hardened : settings.rank[f] = MaxRank

(* No managed file takes back what another asked for, replaced or not      *)
(* (manifest/mod.rs: they "are applied after everything with combinators   *)
(* that can only tighten").                                                *)
ManagedOnlyTightens == settings.reading = "done" =>
    /\ \A w \in floor.weights : settings.weight >= w
    /\ \A list \in floor.lists : settings.excluded \subseteq list
=============================================================================
